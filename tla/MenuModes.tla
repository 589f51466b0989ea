------------------------------ MODULE MenuModes ------------------------------
(***************************************************************************)
(* Who has the machine.  The menu task waits on the form for an event of    *)
(* the encoder queue, leaves it for the mode exit_state names and comes     *)
(* back; the charge, cleanup and PID-tuning modes each read the same queue. *)
(* The REST handlers of the TCP/IP thread ask for a mode by writing its     *)
(* state and exit_state and waking the menu through that queue.             *)
(*                                                                         *)
(* Source: src/src/menu.c, cleanup_mode.cpp, pid_autotune.cpp with its      *)
(* rest_pid_autotune.c, and the ends of charge_mode.cpp that meet them (the *)
(* mode itself is module ChargeMode).  The speeds a mode gives the motors   *)
(* are module Motors', its gate ServoGate's.  Weights, fits and drawing are *)
(* left out; a throw is a state of the ladder, and what ends one is free.   *)
(***************************************************************************)
EXTENDS Naturals, Sequences

CONSTANTS
  QueueLen,      \* the length of encoder_event_queue
  Requests,      \* what the REST handlers are asked for
  MaxRequests,   \* bound: REST requests and user events in a behaviour
  MaxLate        \* bound: throws counted after an abort

RequestKinds == {"charge_enter", "charge_exit", "cleanup_enter", "cleanup_exit",
                 "tune_start", "tune_abort", "tune_exit", "button"}

ASSUME QueueAssumption == QueueLen \in Nat /\ QueueLen > 0
ASSUME RequestsAssumption == Requests \subseteq RequestKinds
ASSUME BoundsAssumption == MaxRequests \in Nat /\ MaxLate \in Nat /\ MaxLate > 1

Events == {"RST", "PRESS", "TURN", "OVERRIDE"}
Goals == {"default", "info", "charge", "cleanup", "tune"}

VARIABLES
  menu,          \* where menu_task is
  queue,         \* encoder_event_queue
  exitState,     \* exit_state
  chargeState,   \* charge_mode_state: "exit" or "busy"
  chargeActive,  \* charge_mode_menu_active
  cleanupState,  \* cleanup_mode_state: "EXIT" or "ENTER"
  tune,          \* pid_autotune.state: "idle", "run", "done", "failed"
  tuneActive,    \* pid_autotune's menu_active
  restart,       \* restart_requested
  abort,         \* abort_requested
  polled,        \* the ladder has looked for an abort in the loop it is in
  rest,          \* the TCP/IP thread: at, and the event it sends
  requests,      \* bound: requests and user events so far
  late           \* history: throws begun since the abort now asked for

flags == <<chargeState, chargeActive, cleanupState>>
tuneFlags == <<tune, tuneActive, restart, abort, polled>>
vars == <<menu, queue, exitState, flags, tuneFlags, rest, requests, late>>

Places == {"form", "leave", "info", "to_charge", "charge_setup", "charge", "to_cleanup", "cleanup",
           "to_tune", "settle", "throw", "screen", "again", "closing", "return"}
Ladder == {"settle", "throw"}
Idle == [at |-> "idle", event |-> "RST", then |-> "none"]
Steps == {"idle", "charge_enter", "send", "send_for_ever"}
Thens == {"none", "charge_exit", "EXIT", "ENTER"}

Init ==
  /\ menu = "form"
  /\ queue = <<>>
  /\ exitState = "default"
  /\ chargeState = "exit" /\ chargeActive = FALSE
  /\ cleanupState = "EXIT"
  /\ tune = "idle" /\ tuneActive = FALSE
  /\ restart = FALSE /\ abort = FALSE /\ polled = FALSE
  /\ rest = Idle
  /\ requests = 0
  /\ late = 0

Waiting(e) == queue # <<>> /\ Head(queue) = e
Consume == queue # <<>> /\ queue' = Tail(queue)
Goto(place) == menu' = place

-----------------------------------------------------------------------------
(* menu_task *)

\* A press may pick the entry that leaves the form; an override always leaves it.
FormEvent ==
  /\ menu = "form"
  /\ Consume
  /\ \/ /\ ~Waiting("OVERRIDE")
        /\ UNCHANGED <<menu, exitState>>
     \/ /\ Waiting("PRESS")
        /\ exitState' \in {"charge", "cleanup", "info"}
        /\ Goto("leave")
     \/ /\ Waiting("OVERRIDE")
        /\ Goto("leave")
        /\ UNCHANGED exitState
  /\ UNCHANGED <<flags, tuneFlags, rest, requests, late>>

Dispatch ==
  /\ menu = "leave"
  /\ Goto(CASE exitState = "charge" -> "to_charge"
            [] exitState = "cleanup" -> "to_cleanup"
            [] exitState = "tune" -> "to_tune"
            [] exitState = "info" -> "info"
            [] exitState = "default" -> "return")
  /\ UNCHANGED <<queue, exitState, flags, tuneFlags, rest, requests, late>>

Return ==
  /\ menu = "return"
  /\ exitState' = "default"
  /\ Goto("form")
  /\ UNCHANGED <<queue, flags, tuneFlags, rest, requests, late>>

\* wireless_view_wifi_info: waits for RST or a press.
InfoEvent ==
  /\ menu = "info"
  /\ Consume
  /\ Goto(IF Waiting("RST") \/ Waiting("PRESS") THEN "return" ELSE "info")
  /\ UNCHANGED <<exitState, flags, tuneFlags, rest, requests, late>>

-----------------------------------------------------------------------------
(* charge_mode_menu, from the outside *)

EnterCharge ==
  /\ menu = "to_charge"
  /\ chargeActive' = TRUE
  /\ Goto("charge_setup")
  /\ UNCHANGED <<queue, exitState, chargeState, cleanupState, tuneFlags, rest, requests, late>>

ChargeReady ==
  /\ menu = "charge_setup"
  /\ chargeState' = "busy"
  /\ Goto("charge")
  /\ UNCHANGED <<queue, exitState, chargeActive, cleanupState, tuneFlags, rest, requests, late>>

ChargeEvent ==
  /\ menu = "charge"
  /\ chargeState # "exit"
  /\ Consume
  /\ chargeState' = IF Waiting("RST") THEN "exit" ELSE chargeState
  /\ UNCHANGED <<menu, exitState, chargeActive, cleanupState, tuneFlags, rest, requests, late>>

LeaveCharge ==
  /\ menu = "charge"
  /\ chargeState = "exit"
  /\ chargeActive' = FALSE
  /\ Goto("return")
  /\ UNCHANGED <<queue, exitState, chargeState, cleanupState, tuneFlags, rest, requests, late>>

-----------------------------------------------------------------------------
(* cleanup_mode_menu *)

EnterCleanup ==
  /\ menu = "to_cleanup"
  /\ cleanupState' = "ENTER"
  /\ Goto("cleanup")
  /\ UNCHANGED <<queue, exitState, chargeState, chargeActive, tuneFlags, rest, requests, late>>

CleanupPeeks ==                 \* mutant: an event the mode has no use for stays in the queue
  /\ menu = "cleanup"
  /\ ~Waiting("OVERRIDE")
  /\ Consume
  /\ IF Waiting("RST")
     THEN cleanupState' = "EXIT" /\ Goto("return")
     ELSE UNCHANGED <<cleanupState, menu>>
  /\ UNCHANGED <<exitState, chargeState, chargeActive, tuneFlags, rest, requests, late>>

\* RST stops the motors and leaves; the other buttons change the speed.
CleanupEvent ==
  /\ menu = "cleanup"
  /\ Consume
  /\ IF Waiting("RST")
     THEN cleanupState' = "EXIT" /\ Goto("return")
     ELSE UNCHANGED <<cleanupState, menu>>
  /\ UNCHANGED <<exitState, chargeState, chargeActive, tuneFlags, rest, requests, late>>

-----------------------------------------------------------------------------
(* pid_autotune_menu *)

\* The head of its loop, from the menu and again after a restart was asked for.
BeginRun ==
  /\ menu \in {"to_tune", "again"}
  /\ tuneActive' = TRUE
  /\ restart' = FALSE /\ abort' = FALSE /\ polled' = FALSE
  /\ tune' = "run"
  /\ late' = 0
  /\ Goto("settle")
  /\ UNCHANGED <<queue, exitState, flags, rest, requests>>

Stopped == tune' = "failed" /\ Goto("screen")

ChecksButtonsOnly ==            \* mutant: the loops look at the queue alone
  /\ menu \in Ladder
  /\ IF queue = <<>> THEN UNCHANGED queue ELSE Consume
  /\ IF Waiting("RST") THEN Stopped /\ UNCHANGED polled
                       ELSE polled' = TRUE /\ UNCHANGED <<tune, menu>>
  /\ UNCHANGED <<exitState, flags, tuneActive, restart, abort, rest, requests, late>>

\* check_abort, at every turn of the loops of a throw and of a settle.
CheckAbort ==
  /\ menu \in Ladder
  /\ \/ /\ abort
        /\ abort' = FALSE
        /\ Stopped
        /\ late' = 0
        /\ UNCHANGED <<queue, polled>>
     \/ /\ ~abort
        /\ IF queue = <<>> THEN UNCHANGED queue ELSE Consume
        /\ IF Waiting("RST") THEN Stopped /\ UNCHANGED polled
                             ELSE polled' = TRUE /\ UNCHANGED <<tune, menu>>
        /\ UNCHANGED <<abort, late>>
  /\ UNCHANGED <<exitState, flags, tuneActive, restart, rest, requests>>

\* throw_for_time starts the motor, runs its time out and goes on to the settle.
StartThrow ==
  /\ menu = "settle" /\ polled
  /\ polled' = FALSE
  /\ Goto("throw")
  /\ late' = IF abort /\ late < MaxLate THEN late + 1 ELSE late
  /\ UNCHANGED <<queue, exitState, flags, tune, tuneActive, restart, abort, rest, requests>>

EndThrow ==
  /\ menu = "throw" /\ polled
  /\ polled' = FALSE
  /\ Goto("settle")
  /\ UNCHANGED <<queue, exitState, flags, tune, tuneActive, restart, abort, rest, requests, late>>

\* The last settle ends in the fit; a full cup, a scale that will not settle or
\* a throw of nothing ends in an error.
EndLadder ==
  /\ menu = "settle" /\ polled
  /\ tune' \in {"done", "failed"}
  /\ Goto("screen")
  /\ late' = 0
  /\ UNCHANGED <<queue, exitState, flags, tuneActive, restart, abort, polled, rest, requests>>

Leaves(e) == e \in {"RST", "OVERRIDE"} \/ (tune = "failed" /\ e = "PRESS")

ScreenEvent ==
  /\ menu = "screen"
  /\ Consume
  /\ Goto(IF ~Leaves(Head(queue)) THEN "screen" ELSE IF restart THEN "again" ELSE "closing")
  /\ UNCHANGED <<exitState, flags, tuneFlags, rest, requests, late>>

Close ==
  /\ menu = "closing"
  /\ tuneActive' = FALSE
  /\ exitState' = "default"
  /\ Goto("return")
  /\ UNCHANGED <<queue, flags, tune, restart, abort, polled, rest, requests, late>>

-----------------------------------------------------------------------------
(* The REST handlers, one at a time in the TCP/IP thread *)

Ask(kind) ==
  /\ kind \in Requests
  /\ rest = Idle
  /\ requests < MaxRequests
  /\ requests' = requests + 1

Send(e, then) == rest' = [at |-> "send", event |-> e, then |-> then]
SendForEver(e, then) == rest' = [at |-> "send_for_ever", event |-> e, then |-> then]

\* s2 = 1 is ignored while PID tuning has the menu ...
AskCharge ==
  /\ Ask("charge_enter")
  /\ ~tuneActive
  /\ rest' = [Idle EXCEPT !.at = "charge_enter"]
  /\ UNCHANGED <<menu, queue, exitState, flags, tuneFlags, late>>

\* ... and claims the charge, then wakes the menu if the mode is not running.
ChargeEnter ==
  /\ rest.at = "charge_enter"
  /\ chargeState' = "busy"
  /\ IF ~chargeActive \/ chargeState = "exit"
     THEN exitState' = "charge" /\ Send("OVERRIDE", "none")
     ELSE rest' = Idle /\ UNCHANGED exitState
  /\ UNCHANGED <<menu, queue, chargeActive, cleanupState, tuneFlags, requests, late>>

ChargeExit ==
  /\ Ask("charge_exit")
  /\ chargeState # "exit"
  /\ IF chargeActive
     THEN Send("RST", "charge_exit") /\ UNCHANGED chargeState
     ELSE chargeState' = "exit" /\ UNCHANGED rest
  /\ UNCHANGED <<menu, queue, exitState, chargeActive, cleanupState, tuneFlags, late>>

\* The cleanup handler sends with portMAX_DELAY, and to whatever mode is running.
CleanupExit ==
  /\ Ask("cleanup_exit")
  /\ cleanupState # "EXIT"
  /\ SendForEver("RST", "EXIT")
  /\ UNCHANGED <<menu, queue, exitState, flags, tuneFlags, late>>

CleanupEnter ==
  /\ Ask("cleanup_enter")
  /\ cleanupState # "ENTER"
  /\ exitState' = "cleanup"
  /\ SendForEver("OVERRIDE", "ENTER")
  /\ UNCHANGED <<menu, queue, flags, tuneFlags, late>>

TuneStart ==
  /\ Ask("tune_start")
  /\ tune # "run"
  /\ chargeState = "exit"
  /\ IF tuneActive THEN restart' = TRUE /\ UNCHANGED exitState
                   ELSE exitState' = "tune" /\ UNCHANGED restart
  /\ Send("OVERRIDE", "none")
  /\ UNCHANGED <<menu, queue, flags, tune, tuneActive, abort, polled, late>>

TuneAbort ==
  /\ Ask("tune_abort")
  /\ abort' = TRUE
  /\ UNCHANGED <<menu, queue, exitState, flags, tune, tuneActive, restart, polled, rest, late>>

TuneExit ==
  /\ Ask("tune_exit")
  /\ Send("OVERRIDE", "none")
  /\ UNCHANGED <<menu, queue, exitState, flags, tuneFlags, late>>

\* A button or the knob, by its interrupt or by /rest/button_control: lost on a full queue.
Button ==
  /\ Ask("button")
  /\ Len(queue) < QueueLen
  /\ \E e \in {"RST", "PRESS", "TURN"} : queue' = Append(queue, e)
  /\ UNCHANGED <<menu, exitState, flags, tuneFlags, rest, late>>

\* What a handler does once its send has returned.
Continue ==
  /\ rest' = Idle
  /\ chargeState' = IF rest.then = "charge_exit" THEN "exit" ELSE chargeState
  /\ cleanupState' = IF rest.then \in {"EXIT", "ENTER"} THEN rest.then ELSE cleanupState
  /\ UNCHANGED <<menu, exitState, chargeActive, tuneFlags, requests, late>>

SentTwice ==                    \* mutant: the event is queued past the queue's length
  /\ rest.at \in {"send", "send_for_ever"}
  /\ queue' = Append(queue, rest.event)
  /\ Continue

Sent ==
  /\ rest.at \in {"send", "send_for_ever"}
  /\ Len(queue) < QueueLen
  /\ queue' = Append(queue, rest.event)
  /\ Continue

TimedOut ==
  /\ rest.at = "send"
  /\ Len(queue) = QueueLen
  /\ UNCHANGED queue
  /\ Continue

-----------------------------------------------------------------------------

MenuStep ==
  \/ FormEvent \/ Dispatch \/ Return \/ InfoEvent
  \/ EnterCharge \/ ChargeReady \/ ChargeEvent \/ LeaveCharge
  \/ EnterCleanup \/ CleanupEvent
  \/ BeginRun \/ CheckAbort \/ StartThrow \/ EndThrow \/ EndLadder \/ ScreenEvent \/ Close

RestStep == ChargeEnter \/ Sent \/ TimedOut

Next ==
  \/ MenuStep \/ RestStep
  \/ AskCharge \/ ChargeExit \/ CleanupEnter \/ CleanupExit
  \/ TuneStart \/ TuneAbort \/ TuneExit \/ Button

Spec == Init /\ [][Next]_vars

\* The scheduler runs both threads whenever they can run.
FairSpec == Spec /\ WF_vars(MenuStep) /\ WF_vars(RestStep)

-----------------------------------------------------------------------------
(* Properties *)

\* Every variable has its type and the queue its length.
TypeOK ==
  /\ menu \in Places
  /\ queue \in Seq(Events) /\ Len(queue) <= QueueLen
  /\ exitState \in Goals
  /\ chargeState \in {"exit", "busy"} /\ chargeActive \in BOOLEAN
  /\ cleanupState \in {"EXIT", "ENTER"}
  /\ tune \in {"idle", "run", "done", "failed"}
  /\ {tuneActive, restart, abort, polled} \subseteq BOOLEAN
  /\ rest \in [at : Steps, event : Events, then : Thens]
  /\ requests \in 0..MaxRequests
  /\ late \in 0..MaxLate

\* After an abort is asked for at most the throw that was about to begin still
\* begins, and it is cut at its first look (pid_autotune.cpp:171, 288-352).
AbortStopsLadder == late <= 1

\* A handler that waits for the queue with portMAX_DELAY holds the TCP/IP
\* thread, and is let go: every mode goes on reading (cleanup_mode.cpp:181, 191).
RequestAnswered == rest.at # "idle" ~> rest.at = "idle"

\* charge_mode_state claims a charge only if the mode runs or is about to: the
\* guard on PID tuning is there so that no claim is left behind
\* (charge_mode.cpp:4484-4486).
EntryOnItsWay ==
  \/ rest.at # "idle"
  \/ exitState = "charge" /\ (menu = "leave" \/ \E i \in 1..Len(queue) : queue[i] = "OVERRIDE")
  \/ menu = "to_charge"
ChargeClaimIsTrue == chargeState # "exit" => chargeActive \/ EntryOnItsWay

=============================================================================
