------------------------------ MODULE ChargeMode ------------------------------
(***************************************************************************)
(* The menu task while it runs charge mode, the two stepper motors and the *)
(* servo gate it drives, and the TCP/IP thread whose REST handlers write   *)
(* the same state.  Source: src/src/charge_mode.cpp, src/src/menu.c,       *)
(* src/src/button.c and the charge-mode entries of the AI tuning handlers. *)
(*                                                                         *)
(* Every loop of the C++ code polls the button queue once per iteration;   *)
(* the poll is one step and what the iteration decides from the scale is   *)
(* the next, so that a REST handler can run in between.  Weights are not   *)
(* numbers here: a decision that depends on a reading is a disjunction.    *)
(* Gate and motor commands are taken when they are issued; the tasks that  *)
(* carry them out have modules of their own.                               *)
(***************************************************************************)
EXTENDS Naturals, Sequences

CONSTANTS
  QueueLen,       \* length of encoder_event_queue (5 in the firmware)
  FailLimit,      \* failed scale reads before a loop gives up (10, 25 or 35)
  Controllers,    \* who may run an ordinary charge: "pid", "adaptive" or both
  RestCommands,   \* the REST commands that arrive, from RestCommandNames
  GateEnabled,    \* servo_gate_enable
  CoarseReverse,  \* coarse_reverse_enabled with a positive revolution count
  FineReverse,    \* fine_reverse_enabled, likewise
  ManualFinish,   \* manual_finish_enabled and a known kernel weight
  Precharge       \* precharge_enable

ASSUME QueueLenAssumption == QueueLen \in Nat \ {0}
ASSUME FailLimitAssumption == FailLimit \in Nat \ {0}
ASSUME ControllersAssumption == Controllers \in (SUBSET {"pid", "adaptive"}) \ {{}}
RestCommandNames == {"exit", "enter", "force", "ai_start", "ai_cancel"}
ASSUME RestCommandsAssumption == RestCommands \subseteq RestCommandNames
ASSUME SwitchesAssumption ==
  {GateEnabled, CoarseReverse, FineReverse, ManualFinish, Precharge} \subseteq BOOLEAN

VARIABLES
  pc,            \* where the menu task is
  after,         \* where it goes when the wait it is in ends
  cmState,       \* charge_mode_config.charge_mode_state
  menuActive,    \* charge_mode_menu_active
  exitState,     \* exit_state
  queue,         \* encoder_event_queue
  speed,         \* the speed last commanded to each motor
  motorsEnabled, \* the EN pins of both drivers
  gate,          \* the ratio last commanded to the servo gate
  controller,    \* the controller of the current or last charge
  stage,         \* bulk_running / trim_running / neither
  coarseStopped, \* coarse_stop_tick # 0
  fineReversed,  \* fine_reverse_fired
  recovery,      \* final_recovery_active of the adaptive controller
  fails,         \* scale_fail_count
  pending,       \* the *_record_pending flags that are set
  lastWasAi,     \* last_charge_was_ai_tuning
  session,       \* g_session.state of the AI tuning session
  rest,          \* where the TCP/IP thread is in a handler
  abort          \* history: "set" once emergency_exit has run in this entry of charge
                 \* mode, "lost" once the EXIT it wrote was passed over or overwritten

menuVars == <<pc, after, cmState, menuActive, exitState>>
driveVars == <<speed, motorsEnabled, gate>>
chargeVars == <<controller, stage, coarseStopped, fineReversed, recovery, fails, pending,
                lastWasAi>>
vars == <<menuVars, driveVars, chargeVars, queue, session, rest, abort>>

Motors == {"coarse", "fine"}
Events == {"RST", "USER", "OVERRIDE"}   \* USER: encoder turned or pressed
Stopped == [m \in Motors |-> "stop"]

-----------------------------------------------------------------------------
(* Helpers of the menu task. *)

\* button_wait_for_input(false): take one event if there is one.
Event == IF queue = <<>> THEN "NONE" ELSE Head(queue)
Polled == IF queue = <<>> THEN queue ELSE Tail(queue)
Poll == queue' = Polled

\* xQueueSend: an event that finds the queue full is lost once the wait is over.
PushedBlindly(q, e) == Append(q, e)
Pushed(q, e) == IF Len(q) < QueueLen THEN Append(q, e) ELSE q

Goto(label) == pc' = label /\ UNCHANGED after
Wait(label, next) == pc' = label /\ after' = next
Command(c, f) == speed' = [coarse |-> c, fine |-> f]
SetGate(ratio) == gate' = IF GateEnabled THEN ratio ELSE gate

\* What emergency_exit does to an AI sample: ai_tuning_cancel, which queues another
\* RST if a session was open.
CancelSample(q) ==
  IF controller = "ai"
    THEN /\ session' = "idle"
         /\ queue' = IF session = "idle" THEN q ELSE Pushed(q, "RST")
    ELSE /\ queue' = q
         /\ UNCHANGED session

\* emergency_exit, run after a poll left q in the queue.
EmergencyExitKeepsGate(q) ==    \* mutant: the gate stays where it is
  /\ speed' = Stopped /\ motorsEnabled' = FALSE
  /\ cmState' = "EXIT" /\ abort' = "set"
  /\ CancelSample(q)
  /\ UNCHANGED <<gate, menuActive, exitState, chargeVars, rest>>

EmergencyExit(q) ==
  /\ speed' = Stopped
  /\ motorsEnabled' = FALSE
  /\ SetGate("closed")
  /\ cmState' = "EXIT"
  /\ abort' = "set"
  /\ CancelSample(q)
  /\ UNCHANGED <<menuActive, exitState, chargeVars, rest>>

\* The EXIT of an emergency exit is passed over, or something else written over it.
LoseAbort == abort' = IF abort = "set" THEN "lost" ELSE abort

\* The button poll of a dispensing loop, which sits at pc = here: RST leaves
\* through emergency_exit to label out, anything else goes on at label in.
PollOrAbort(here, in, out) ==
  /\ pc = here
  /\ \/ /\ Event = "RST"
        /\ EmergencyExit(Polled)
        /\ Goto(out)
     \/ /\ Event # "RST"
        /\ Poll
        /\ Goto(in)
        /\ UNCHANGED <<cmState, menuActive, exitState, driveVars, chargeVars,
                       session, rest, abort>>

\* A scale read that fails: retry at label again, or give up at the limit.
ScaleFails(again) ==
  \/ /\ fails + 1 < FailLimit
     /\ fails' = fails + 1
     /\ Goto(again)
     /\ UNCHANGED <<cmState, menuActive, exitState, driveVars, controller, stage,
                    coarseStopped, fineReversed, recovery, pending, lastWasAi, queue, session,
                    rest, abort>>
  \/ /\ fails + 1 = FailLimit
     /\ EmergencyExit(queue)
     /\ Goto("loop")

-----------------------------------------------------------------------------
(* menu_task and charge_mode_menu. *)

Init ==
  /\ pc = "menu" /\ after = "menu"
  /\ cmState = "EXIT"
  /\ menuActive = FALSE
  /\ exitState = "DEFAULT"
  /\ queue = <<>>
  /\ speed = Stopped
  /\ motorsEnabled = FALSE
  /\ gate = "unknown"
  /\ controller = "pid"
  /\ stage = "fine"
  /\ coarseStopped = FALSE /\ fineReversed = FALSE /\ recovery = FALSE
  /\ fails = 0
  /\ pending = {}
  /\ lastWasAi = FALSE
  /\ session = "idle"
  /\ rest = "idle"
  /\ abort = "none"

\* The form is active: OVERRIDE leaves it; a press may select "start charge".
MenuForm ==
  /\ pc = "menu"
  /\ queue # <<>>
  /\ Poll
  /\ \/ /\ Event = "OVERRIDE"
        /\ Goto("dispatch")
        /\ UNCHANGED exitState
     \/ /\ Event = "USER"
        /\ exitState' = "CHARGE"
        /\ Goto("dispatch")
     \/ /\ Event # "OVERRIDE"
        /\ UNCHANGED <<pc, after, exitState>>
  /\ UNCHANGED <<cmState, menuActive, driveVars, chargeVars, session, rest, abort>>

\* switch (exit_state); charge_mode_menu begins by setting charge_mode_menu_active.
Dispatch ==
  /\ pc = "dispatch"
  /\ \/ /\ exitState = "CHARGE"
        /\ menuActive' = TRUE
        /\ Goto("enter")
     \/ /\ exitState # "CHARGE"
        /\ Goto("leave")
        /\ UNCHANGED menuActive
  /\ UNCHANGED <<cmState, exitState, driveVars, chargeVars, queue, session, rest, abort>>

EnterDisabled ==            \* mutant: the motor drivers stay as they are
  /\ pc = "enter"
  /\ cmState' = "ZERO"
  /\ Goto("loop")
  /\ UNCHANGED <<menuActive, exitState, driveVars, chargeVars, queue, session, rest, abort>>

Enter ==
  /\ pc = "enter"
  /\ motorsEnabled' = TRUE
  /\ cmState' = "ZERO"
  /\ Goto("loop")
  /\ UNCHANGED <<menuActive, exitState, speed, gate, chargeVars, queue, session, rest, abort>>

\* The phase that the switch of charge_mode_menu runs for each state.
PhaseOf == [ZERO |-> "zero", COMPLETE |-> "begin", STABILIZING |-> "stabilize",
            REMOVAL |-> "record", RETURN |-> "return", EXIT |-> "quit", MANUAL |-> "quit"]

Loop ==
  /\ pc = "loop"
  /\ Goto(PhaseOf[cmState])
  /\ UNCHANGED <<cmState, menuActive, exitState, driveVars, chargeVars, queue, session,
                 rest, abort>>

Quit ==
  /\ pc = "quit"
  /\ motorsEnabled' = FALSE
  /\ speed' = Stopped
  /\ menuActive' = FALSE
  /\ abort' = "none"
  /\ Goto("leave")
  /\ UNCHANGED <<cmState, exitState, gate, chargeVars, queue, session, rest>>

Leave ==
  /\ pc = "leave"
  /\ exitState' = "DEFAULT"
  /\ Goto("menu")
  /\ UNCHANGED <<cmState, menuActive, driveVars, chargeVars, queue, session, rest, abort>>

\* A phase that only writes charge_mode_state and returns to the switch.
ReturnTo(state) ==
  /\ cmState' = state
  /\ Goto("loop")
  /\ UNCHANGED <<menuActive, exitState>>

-----------------------------------------------------------------------------
(* charge_mode_wait_for_zero. *)

ZeroPollQuits ==            \* mutant: RST leaves without writing the state
  /\ pc = "zero"
  /\ Poll
  /\ Goto(IF Event = "RST" THEN "quit" ELSE "zero_sample")
  /\ UNCHANGED <<cmState, menuActive, exitState, driveVars, chargeVars, session, rest, abort>>

ZeroPoll ==
  /\ pc = "zero"
  /\ Poll
  /\ IF Event = "RST" THEN ReturnTo("EXIT")
                      ELSE Goto("zero_sample") /\ UNCHANGED <<cmState, menuActive, exitState>>
  /\ UNCHANGED <<driveVars, chargeVars, session, rest, abort>>

ZeroSample ==
  /\ pc = "zero_sample"
  /\ \/ ReturnTo("COMPLETE")
     \/ Goto("zero") /\ UNCHANGED <<cmState, menuActive, exitState>>
  /\ UNCHANGED <<driveVars, chargeVars, queue, session, rest, abort>>

-----------------------------------------------------------------------------
(* charge_mode_wait_for_complete: the prologue, and what the controllers share. *)

\* The flags of the last charge.
ResetChargeKeepsRecords ==  \* mutant: the record flags are forgotten
  /\ coarseStopped' = FALSE /\ fineReversed' = FALSE /\ recovery' = FALSE
  /\ fails' = 0
  /\ UNCHANGED pending

ResetCharge ==
  /\ pending' = {}
  /\ coarseStopped' = FALSE
  /\ fineReversed' = FALSE
  /\ recovery' = FALSE
  /\ fails' = 0

\* Reset of the flags of the last charge, choice of the controller, gate open.
\* A running AI session always makes the charge an AI sample.
Begin ==
  /\ pc = "begin"
  /\ controller' \in IF session = "running" THEN {"ai"} ELSE Controllers
  /\ lastWasAi' = (controller' = "ai")
  /\ ResetCharge
  /\ SetGate("open")
  /\ \/ /\ controller' = "pid"
        /\ stage' = "fine"
        /\ Goto("pid")
        /\ UNCHANGED speed
     \/ /\ controller' = "adaptive"
        /\ stage' = "bulk"
        /\ speed' = [speed EXCEPT !["coarse"] = "fwd"]
        /\ Goto("adaptive")
     \/ /\ controller' = "adaptive"
        /\ stage' = "fine"
        /\ Goto("glide")
        /\ UNCHANGED speed
     \/ /\ controller' = "ai"
        /\ stage' \in {"bulk", "fine"}      \* the motor of this sample
        /\ Goto("ai_plan")
        /\ UNCHANGED speed
  /\ UNCHANGED <<cmState, menuActive, exitState, motorsEnabled, queue, session, rest, abort>>

\* mark_coarse_stop.  The first stop of a charge runs the coarse tube backwards
\* for a while if that is configured; then the gate goes to its coarse-stop ratio.
MarkCoarseStop(next) ==
  /\ coarseStopped' = TRUE
  /\ IF CoarseReverse /\ ~coarseStopped
       THEN /\ speed' = [speed EXCEPT !["coarse"] = "rev"]
            /\ Wait("coarse_reverse", next)
            /\ UNCHANGED gate
       ELSE /\ speed' = [speed EXCEPT !["coarse"] = "stop"]
            /\ SetGate("partial")
            /\ Goto(next)

\* The loop that times the coarse reverse takes events from the queue; RST only
\* ends the reverse.
CoarseReverseWait ==
  /\ pc = "coarse_reverse"
  /\ Poll
  /\ \/ /\ speed' = [speed EXCEPT !["coarse"] = "stop"]
        /\ SetGate("partial")
        /\ Goto(after)
     \/ /\ Event # "RST"
        /\ UNCHANGED <<pc, after, speed, gate>>
  /\ UNCHANGED <<cmState, menuActive, exitState, motorsEnabled, chargeVars, session, rest,
                 abort>>

\* perform_fine_reverse, at most once in a charge; its wait is the same loop.
FineReverseThen(next) ==
  /\ fineReversed' = TRUE
  /\ IF FineReverse /\ ~fineReversed
       THEN /\ speed' = [Stopped EXCEPT !["fine"] = "rev"]
            /\ Wait("fine_reverse", next)
       ELSE /\ speed' = Stopped
            /\ Goto(next)

FineReverseWait ==
  /\ pc = "fine_reverse"
  /\ Poll
  /\ \/ /\ speed' = [speed EXCEPT !["fine"] = "stop"]
        /\ Goto(after)
     \/ /\ Event # "RST"
        /\ UNCHANGED <<pc, after, speed>>
  /\ UNCHANGED <<cmState, menuActive, exitState, motorsEnabled, gate, chargeVars, session,
                 rest, abort>>

\* wait_for_settled_measurement and the two motor-off watches: poll, and end on
\* RST (through emergency_exit), on a stable reading or on the timeout.
Settle ==
  /\ pc = "settle"
  /\ \/ /\ Event = "RST"
        /\ EmergencyExit(Polled)
        /\ Goto(after)
     \/ /\ Event # "RST"
        /\ Poll
        /\ Goto("settle") \/ Goto(after)
        /\ UNCHANGED <<cmState, menuActive, exitState, driveVars, chargeVars, session,
                       rest, abort>>

\* Which deferred record the charge leaves; ml_data_collection may be off.
RecordsAnyCharge ==         \* mutant: an AI sample is recorded like a charge
  pending' \in {pending, pending \union {"ml"}}

RecordsCharge ==
  \/ controller = "ai" /\ pending' = pending \union {"ai"}
  \/ controller # "ai" /\ pending' = pending \union {"ml"}
  \/ controller = "pid" /\ UNCHANGED pending

\* The end of the charge: the record flags, the gate closed (waited for), and
\* with the PID controller the optional precharge of the coarse tube.
Finish ==
  /\ pc = "finish"
  /\ RecordsCharge
  /\ SetGate("closed")
  /\ IF controller = "pid" /\ Precharge /\ GateEnabled
       THEN /\ speed' = [speed EXCEPT !["coarse"] = "fwd"]
            /\ Goto("precharge")
       ELSE /\ UNCHANGED speed
            /\ Goto("finished")
  /\ UNCHANGED <<cmState, menuActive, exitState, motorsEnabled, controller, recovery, stage,
                 coarseStopped, fineReversed, fails, lastWasAi, queue, session, rest, abort>>

PrechargeNeverEnds ==       \* mutant: the coarse tube is left running
  /\ pc = "precharge"
  /\ Goto("finished")
  /\ UNCHANGED <<cmState, menuActive, exitState, driveVars, chargeVars, queue, session, rest,
                 abort>>

PrechargeEnd ==
  /\ pc = "precharge"
  /\ speed' = [speed EXCEPT !["coarse"] = "stop"]
  /\ Goto("finished")
  /\ UNCHANGED <<cmState, menuActive, exitState, motorsEnabled, gate, chargeVars, queue, session,
                 rest, abort>>

Finished ==
  /\ pc = "finished"
  /\ ReturnTo("STABILIZING")
  /\ UNCHANGED <<driveVars, chargeVars, queue, session, rest, abort>>

-----------------------------------------------------------------------------
(* The PID controller and manual finish. *)

PidPoll == PollOrAbort("pid", "pid_sample", "loop")

PidSampleFails == pc = "pid_sample" /\ ScaleFails("pid")

\* error > tolerance and one more kernel would overshoot.
PidHandsOver ==
  /\ pc = "pid_sample"
  /\ ManualFinish
  /\ cmState' = "MANUAL"
  /\ speed' = Stopped
  /\ fails' = 0
  /\ Goto("manual")
  /\ UNCHANGED <<menuActive, exitState, motorsEnabled, gate, controller, recovery, stage,
                 coarseStopped, fineReversed, pending, lastWasAi, queue, session, rest, abort>>

\* error <= pid_fine_stop; the observation is kept if this profile learns.
PidReachesFineStop ==
  /\ pc = "pid_sample"
  /\ fails' = 0
  /\ FineReverseThen("finish")
  /\ \/ pending' = pending \union {"ltl"}
     \/ UNCHANGED pending
  /\ UNCHANGED <<cmState, menuActive, exitState, motorsEnabled, gate, controller, recovery,
                 stage, coarseStopped, lastWasAi, queue, session, rest, abort>>

\* error < pid_coarse_stop for the first time.
PidReachesCoarseStop ==
  /\ pc = "pid_sample"
  /\ ~coarseStopped
  /\ fails' = 0
  /\ MarkCoarseStop("pid_drive")
  /\ UNCHANGED <<cmState, menuActive, exitState, motorsEnabled, controller, recovery, stage,
                 fineReversed, pending, lastWasAi, queue, session, rest, abort>>

PidKeepsOn ==
  /\ pc = "pid_sample"
  /\ fails' = 0
  /\ Goto("pid_drive")
  /\ UNCHANGED <<cmState, menuActive, exitState, driveVars, controller, recovery, stage,
                 coarseStopped, fineReversed, pending, lastWasAi, queue, session, rest, abort>>

\* Both motors get their speeds; in pulse mode the fine motor runs for a while.
PidDrive ==
  /\ pc = "pid_drive"
  /\ LET coarse == IF coarseStopped THEN "stop" ELSE "fwd" IN
     \/ \E fine \in {"stop", "fwd"} : Command(coarse, fine) /\ Goto("pid")
     \/ Command(coarse, "fwd") /\ Goto("pulse")
  /\ UNCHANGED <<cmState, menuActive, exitState, motorsEnabled, gate, chargeVars, queue, session,
                 rest, abort>>

\* run_motor_for_duration on the fine motor, then wait_with_abort.
PulsePoll == PollOrAbort("pulse", "pulse_on", "loop")

PulseOn ==
  /\ pc = "pulse_on"
  /\ \/ Goto("pulse") /\ UNCHANGED speed
     \/ Goto("pulse_wait") /\ speed' = [speed EXCEPT !["fine"] = "stop"]
  /\ UNCHANGED <<cmState, menuActive, exitState, motorsEnabled, gate, chargeVars, queue, session,
                 rest, abort>>

PulseWaitDeaf ==            \* mutant: wait_with_abort takes RST and goes on
  /\ pc = "pulse_wait"
  /\ Poll
  /\ Goto("pulse_off")
  /\ UNCHANGED <<cmState, menuActive, exitState, driveVars, chargeVars, session, rest, abort>>

PulseWaitPoll == PollOrAbort("pulse_wait", "pulse_off", "loop")

PulseOff ==
  /\ pc = "pulse_off"
  /\ Goto("pulse_wait") \/ Goto("pid")
  /\ UNCHANGED <<cmState, menuActive, exitState, driveVars, chargeVars, queue, session, rest,
                 abort>>

\* charge_mode_manual_finish: motors off until the operator has closed the gap.
ManualPoll == PollOrAbort("manual", "manual_sample", "loop")

ManualSampleFails == pc = "manual_sample" /\ ScaleFails("manual")

ManualSample ==
  /\ pc = "manual_sample"
  /\ fails' = 0
  /\ \/ Goto("manual") /\ UNCHANGED <<speed, fineReversed>>
     \/ FineReverseThen("manual_end")
  /\ UNCHANGED <<cmState, menuActive, exitState, motorsEnabled, gate, controller, recovery,
                 stage, coarseStopped, pending, lastWasAi, queue, session, rest, abort>>

ManualEnd ==
  /\ pc = "manual_end"
  /\ ReturnTo("REMOVAL")
  /\ UNCHANGED <<driveVars, chargeVars, queue, session, rest, abort>>

-----------------------------------------------------------------------------
(* The adaptive controller: bulk and trim on the coarse tube, then fine, then
   recovery pulses.  Margins are data; each decision is a disjunct. *)

\* A wait that saw emergency_exit returns like any other; this is the test of
\* charge_mode_state that most callers make next.
ReturnIfExit(here, next) ==
  /\ pc = here
  /\ IF cmState = "EXIT" THEN Goto("loop") ELSE Goto(next)
  /\ UNCHANGED <<cmState, menuActive, exitState, driveVars, chargeVars, queue, session, rest,
                 abort>>

AdaptivePoll == PollOrAbort("adaptive", "adaptive_sample", "loop")

AdaptiveSampleFails == pc = "adaptive_sample" /\ ScaleFails("adaptive")

\* Bulk: keep the coarse tube running, or wait out a predicted run time first.
BulkDrive ==
  /\ pc = "adaptive_sample" /\ stage = "bulk"
  /\ fails' = 0
  /\ speed' = [speed EXCEPT !["coarse"] = "fwd"]
  /\ Goto("adaptive") \/ Goto("bulk_run")
  /\ UNCHANGED <<cmState, menuActive, exitState, motorsEnabled, gate, controller, recovery,
                 stage, coarseStopped, fineReversed, pending, lastWasAi, queue, session, rest,
                 abort>>

BulkRunPoll == PollOrAbort("bulk_run", "bulk_run_on", "loop")

BulkRunAgain ==
  /\ pc = "bulk_run_on"
  /\ Goto("bulk_run")
  /\ UNCHANGED <<cmState, menuActive, exitState, driveVars, chargeVars, queue, session, rest,
                 abort>>

\* The margin, the prediction or the deadline ends bulk; the margin ends trim.
CoarseHandoff ==
  /\ pc \in {"adaptive_sample", "bulk_run_on"}
  /\ stage \in {"bulk", "trim"}
  /\ MarkCoarseStop(IF stage = "bulk" THEN "bulk_stopped" ELSE "trim_stopped")
  /\ stage' = "fine"
  /\ fails' \in {0, fails}               \* the deadline does not read the scale
  /\ UNCHANGED <<cmState, menuActive, exitState, motorsEnabled, controller, recovery,
                 fineReversed, pending, lastWasAi, queue, session, rest, abort>>

CoarseHandoffSettles ==
  /\ pc \in {"bulk_stopped", "trim_stopped"}
  /\ speed' = [speed EXCEPT !["fine"] = "stop"]
  /\ Wait("settle", IF pc = "bulk_stopped" THEN "bulk_settled" ELSE "trim_settled")
  /\ UNCHANGED <<cmState, menuActive, exitState, motorsEnabled, gate, chargeVars, queue, session,
                 rest, abort>>

\* settle_complete_coarse_tail: skipped after an abort, else one more watch.
BulkSettled ==
  /\ pc = "bulk_settled"
  /\ IF cmState = "EXIT" THEN Goto("bulk_drained") ELSE Wait("settle", "bulk_drained")
  /\ UNCHANGED <<cmState, menuActive, exitState, driveVars, chargeVars, queue, session, rest,
                 abort>>

BulkDrained == ReturnIfExit("bulk_drained", "glide")
TrimSettled == ReturnIfExit("trim_settled", "adaptive")

\* should_enter_trim_glide and start_trim_glide.
Glide ==
  /\ pc = "glide"
  /\ Goto("adaptive")
  /\ \/ /\ stage' = "trim"
        /\ \E fine \in {speed["fine"], "fwd"} : Command("fwd", fine)
     \/ UNCHANGED <<stage, speed>>
  /\ UNCHANGED <<cmState, menuActive, exitState, motorsEnabled, gate, controller, recovery,
                 coarseStopped, fineReversed, fails, pending, lastWasAi, queue, session, rest,
                 abort>>

TrimDrive ==
  /\ pc = "adaptive_sample" /\ stage = "trim"
  /\ fails' = 0
  /\ speed' = [speed EXCEPT !["coarse"] = "fwd"]
  /\ Goto("adaptive")
  /\ UNCHANGED <<cmState, menuActive, exitState, motorsEnabled, gate, controller, recovery,
                 stage, coarseStopped, fineReversed, pending, lastWasAi, queue, session, rest,
                 abort>>

\* Fine: run on; or a stop by threshold (both motors) or by margin (fine motor);
\* or, in recovery, a dose, with or without a wait before it.
FineDecision ==
  /\ pc = "adaptive_sample" /\ stage = "fine"
  /\ fails' = 0
  /\ \/ ~recovery /\ speed' = [speed EXCEPT !["fine"] = "fwd"] /\ Goto("adaptive")
     \/ speed' = Stopped /\ Wait("settle", "threshold_settled")
     \/ speed' = [speed EXCEPT !["fine"] = "stop"] /\ Wait("settle", "margin_settled")
     \/ recovery /\ speed' = [speed EXCEPT !["fine"] = "stop"] /\ Wait("settle", "dose_reserve")
     \/ recovery /\ speed' = [speed EXCEPT !["fine"] = "fwd"] /\ Goto("dose")
  /\ UNCHANGED <<cmState, menuActive, exitState, motorsEnabled, gate, controller, recovery,
                 stage, coarseStopped, fineReversed, pending, lastWasAi, queue, session, rest,
                 abort>>

\* Only the margin stop tests for an abort before apply_passive_tail_watch, which
\* stops the motors and watches, or does nothing.
MarginSettled == ReturnIfExit("margin_settled", "threshold_settled")

TailWatch ==
  /\ pc = "threshold_settled"
  /\ \/ speed' = Stopped /\ Wait("settle", "fine_settled")
     \/ UNCHANGED speed /\ Goto("fine_settled")
  /\ UNCHANGED <<cmState, menuActive, exitState, motorsEnabled, gate, chargeVars, queue, session,
                 rest, abort>>

FineSettledBlindly ==       \* mutant: charge_mode_state is not tested after the wait
  /\ pc = "fine_settled"
  /\ Goto("fine_verdict")
  /\ UNCHANGED <<cmState, menuActive, exitState, driveVars, chargeVars, queue, session, rest,
                 abort>>

FineSettled == ReturnIfExit("fine_settled", "fine_verdict")

\* Still under: recover.  Otherwise, or out of time: the charge is over.
FineVerdict ==
  /\ pc \in {"fine_verdict", "dose_verdict"}
  /\ \/ Goto("adaptive") /\ recovery' = TRUE
     \/ Goto("finish") /\ UNCHANGED recovery
  /\ UNCHANGED <<cmState, menuActive, exitState, driveVars, controller, stage, coarseStopped,
                 fineReversed, fails, pending, lastWasAi, queue, session, rest, abort>>

\* After the 700 ms wait of a recovery step nobody looks at charge_mode_state:
\* the step ends the charge or commands a dose, also after an emergency exit.
DoseReserve ==
  /\ pc = "dose_reserve"
  /\ LoseAbort
  /\ \/ Goto("finish") /\ UNCHANGED speed
     \/ Goto("dose") /\ speed' = [speed EXCEPT !["fine"] = "fwd"]
  /\ UNCHANGED <<cmState, menuActive, exitState, motorsEnabled, gate, chargeVars, queue, session,
                 rest>>

DosePoll == PollOrAbort("dose", "dose_on", "loop")

DoseOn ==
  /\ pc = "dose_on"
  /\ \/ Goto("dose") /\ UNCHANGED speed
     \/ Wait("settle", "dose_watch") /\ speed' = [speed EXCEPT !["fine"] = "stop"]
  /\ UNCHANGED <<cmState, menuActive, exitState, motorsEnabled, gate, chargeVars, queue, session,
                 rest, abort>>

\* observe_motor_off_weight follows whatever the settling wait saw.
DoseWatch ==
  /\ pc = "dose_watch"
  /\ Wait("settle", "dose_settled")
  /\ UNCHANGED <<cmState, menuActive, exitState, driveVars, chargeVars, queue, session, rest,
                 abort>>

DoseSettled == ReturnIfExit("dose_settled", "dose_verdict")

-----------------------------------------------------------------------------
(* An AI tuning sample: one timed run of one motor. *)

\* ai_tuning_get_active_plan fails if the session has been cancelled meanwhile.
AiPlan ==
  /\ pc = "ai_plan"
  /\ IF session = "running"
       THEN /\ IF stage = "bulk" THEN Command("fwd", speed["fine"])
                                 ELSE Command(speed["coarse"], "fwd")
            /\ Goto("ai_run")
            /\ UNCHANGED <<cmState, menuActive, exitState, motorsEnabled, gate, chargeVars,
                           queue, session, rest, abort>>
       ELSE EmergencyExit(queue) /\ Goto("loop")

AiRunPoll == PollOrAbort("ai_run", "ai_run_on", "loop")

AiRunOn ==
  /\ pc = "ai_run_on"
  /\ Goto("ai_run")
  /\ UNCHANGED <<cmState, menuActive, exitState, driveVars, chargeVars, queue, session, rest,
                 abort>>

AiStop ==
  /\ pc = "ai_run_on"
  /\ \/ stage = "bulk" /\ MarkCoarseStop("finish")
     \/ stage = "fine" /\ speed' = Stopped /\ Goto("finish") /\ UNCHANGED <<gate, coarseStopped>>
  /\ UNCHANGED <<cmState, menuActive, exitState, motorsEnabled, controller, recovery, stage,
                 fineReversed, fails, pending, lastWasAi, queue, session, rest, abort>>

-----------------------------------------------------------------------------
(* charge_mode_stabilize with charge_mode_salvage_undercharge, and the phases
   of the cup. *)

Advance(next) ==        \* to the next label of a phase, nothing else written
  /\ Goto(next)
  /\ UNCHANGED <<cmState, menuActive, exitState>>

\* No button is polled while the weight settles.  Then the observation goes to the
\* learner, and a small enough shortfall is topped up through the reopened gate.
\* Only the salvage call is followed by a test of charge_mode_state: "stabilized".
\* last_charge_used_runtime_model says that the adaptive controller ran the last charge.
StabilizeUnchanged ==
  UNCHANGED <<speed, motorsEnabled, controller, stage, coarseStopped, fineReversed, recovery,
              fails, lastWasAi, queue, session, rest, abort>>

SalvagesBehindGate ==       \* mutant: the gate is not reopened
  /\ pc = "stabilize" /\ ~lastWasAi /\ controller # "adaptive"
  /\ pending' = pending \ {"ltl"}
  /\ Advance("salvage")
  /\ UNCHANGED gate
  /\ StabilizeUnchanged

StabilizeSalvages ==
  /\ pc = "stabilize"
  /\ ~lastWasAi /\ controller # "adaptive"
  /\ pending' = pending \ {"ltl"}
  /\ SetGate("open")
  /\ Advance("salvage")
  /\ StabilizeUnchanged

StabilizeSettles ==
  /\ pc = "stabilize"
  /\ pending' = pending \ {"ltl"}
  /\ \/ ~lastWasAi /\ Advance("stabilized")   \* valid final weight, salvage declined
     \/ ReturnTo("REMOVAL")                   \* no valid final weight, or an AI sample
  /\ UNCHANGED gate
  /\ StabilizeUnchanged

\* RST, or the end of the salvage loop, stops the motor and closes the gate.
SalvagePoll ==
  /\ pc = "salvage"
  /\ Poll
  /\ \/ /\ Event # "RST"
        /\ speed' = [speed EXCEPT !["fine"] = "fwd"]
        /\ Advance("salvage")
        /\ UNCHANGED gate
     \/ /\ Event # "RST"
        /\ speed' = [speed EXCEPT !["fine"] = "stop"]
        /\ SetGate("closed")
        /\ Advance("stabilized")
     \/ /\ Event = "RST"
        /\ speed' = [speed EXCEPT !["fine"] = "stop"]
        /\ SetGate("closed")
        /\ Goto("stabilized")
        /\ cmState' = "EXIT"
        /\ UNCHANGED <<menuActive, exitState>>
  /\ UNCHANGED <<motorsEnabled, chargeVars, session, rest, abort>>

Stabilized ==
  /\ pc = "stabilized"
  /\ IF cmState = "EXIT" THEN Advance("loop") ELSE ReturnTo("REMOVAL")
  /\ UNCHANGED <<driveVars, chargeVars, queue, session, rest, abort>>

\* What charge_mode_menu does when charge_mode_wait_for_cup_removal returns.
AfterRemoval(state) ==
  /\ cmState' = IF lastWasAi /\ session = "complete" THEN "EXIT" ELSE state
  /\ lastWasAi' = FALSE
  /\ Goto("loop")
  /\ UNCHANGED <<menuActive, exitState>>

\* The deferred record of an AI sample: ai_tuning_record_drop moves the session on
\* if it is still running; a recorded sample skips the wait for the cup.
Record ==
  /\ pc = "record"
  /\ pending' = pending \ {"ai"}
  /\ \/ /\ "ai" \in pending /\ session = "running"
        /\ \/ session' = "running" /\ Advance("ai_tare") /\ UNCHANGED lastWasAi
           \/ session' = "complete" /\ AfterRemoval("EXIT")
           \/ session' = "error" /\ Advance("removal") /\ UNCHANGED lastWasAi
     \/ Advance("removal") /\ UNCHANGED <<session, lastWasAi>>
  /\ UNCHANGED <<driveVars, controller, stage, coarseStopped, fineReversed, recovery, fails,
                 queue, rest, abort>>

\* charge_mode_force_zero_and_wait_for_ai, then straight on to the next sample.
AiTare ==
  /\ pc = "ai_tare"
  /\ Poll
  /\ \/ Event = "RST" /\ AfterRemoval("EXIT")
     \/ Event # "RST" /\ Advance("ai_tare") /\ UNCHANGED lastWasAi
     \/ Event # "RST" /\ Advance("ai_tared") /\ UNCHANGED lastWasAi
  /\ UNCHANGED <<driveVars, controller, stage, coarseStopped, fineReversed, recovery, fails,
                 pending, session, rest, abort>>

AiTared ==
  /\ pc = "ai_tared"
  /\ AfterRemoval(IF cmState = "EXIT" THEN "EXIT" ELSE "COMPLETE")
  /\ UNCHANGED <<driveVars, controller, stage, coarseStopped, fineReversed, recovery, fails,
                 pending, queue, session, rest, abort>>

RemovalPoll ==
  /\ pc = "removal"
  /\ Poll
  /\ IF Event = "RST" THEN AfterRemoval("EXIT")
                      ELSE Advance("removal_sample") /\ UNCHANGED lastWasAi
  /\ UNCHANGED <<driveVars, controller, stage, coarseStopped, fineReversed, recovery, fails,
                 pending, session, rest, abort>>

\* The cup is gone or back and empty: record the charge and go on.
RemovalSample ==
  /\ pc = "removal_sample"
  /\ \/ Advance("removal") /\ UNCHANGED <<pending, lastWasAi>>
     \/ pending' = pending \ {"ml"} /\ AfterRemoval("RETURN")
  /\ UNCHANGED <<driveVars, controller, stage, coarseStopped, fineReversed, recovery, fails,
                 queue, session, rest, abort>>

ReturnPoll ==
  /\ pc = "return"
  /\ Poll
  /\ IF Event = "RST" THEN ReturnTo("EXIT") ELSE Advance("return_sample")
  /\ UNCHANGED <<driveVars, chargeVars, session, rest, abort>>

ReturnSampleUnzeroed ==     \* mutant: the next charge does not wait for zero
  /\ pc = "return_sample"
  /\ Advance("return") \/ ReturnTo("COMPLETE")
  /\ UNCHANGED <<driveVars, chargeVars, queue, session, rest, abort>>

ReturnSample ==
  /\ pc = "return_sample"
  /\ Advance("return") \/ ReturnTo("ZERO")
  /\ UNCHANGED <<driveVars, chargeVars, queue, session, rest, abort>>

-----------------------------------------------------------------------------
(* The TCP/IP thread and the interrupts. *)

RestUnchanged == UNCHANGED <<pc, after, menuActive, driveVars, chargeVars>>

\* A handler blocked in xQueueSend(.., RST or OVERRIDE, timeout) gets its event in
\* when there is room, and gives up after the timeout when there is none.
RestSend(here, event, sent, failed) ==
  /\ rest = here
  /\ queue' = Pushed(queue, event)
  /\ rest' = IF Len(queue) < QueueLen THEN sent ELSE failed
  /\ UNCHANGED <<cmState, exitState, session, abort>>
  /\ RestUnchanged

\* charge_mode_state?s2=0.
RestExit ==
  /\ rest = "idle" /\ "exit" \in RestCommands
  /\ cmState # "EXIT"
  /\ rest' = IF menuActive THEN "exit_send" ELSE "exit_write"
  /\ UNCHANGED <<cmState, exitState, queue, session, abort>>
  /\ RestUnchanged

RestExitSend == RestSend("exit_send", "RST", "exit_write", "exit_write")

RestExitWrite ==
  /\ rest = "exit_write"
  /\ cmState' = "EXIT"
  /\ rest' = "idle"
  /\ UNCHANGED <<exitState, queue, session, abort>>
  /\ RestUnchanged

\* charge_mode_state?s2=1, and the start of an AI characterization, which opens the
\* session first.  Whether the menu has to be reached is read before the state is
\* written: "join" when charge mode is running already.
RestEnter ==
  /\ rest = "idle" /\ "enter" \in RestCommands
  /\ rest' = IF menuActive /\ cmState # "EXIT" THEN "join" ELSE "enter"
  /\ UNCHANGED <<cmState, exitState, queue, session, abort>>
  /\ RestUnchanged

RestAiStart ==
  /\ rest = "idle" /\ "ai_start" \in RestCommands
  /\ session' = "running"
  /\ rest' = "ai_decide"
  /\ UNCHANGED <<cmState, exitState, queue, abort>>
  /\ RestUnchanged

RestAiDecide ==
  /\ rest = "ai_decide"
  /\ rest' = IF menuActive /\ cmState # "EXIT" THEN "join" ELSE "ai_enter"
  /\ UNCHANGED <<cmState, exitState, queue, session, abort>>
  /\ RestUnchanged

RestEnterState ==
  /\ rest \in {"join", "enter", "ai_enter"}
  /\ cmState' = "ZERO"
  /\ rest' = CASE rest = "join" -> "idle"
               [] rest = "enter" -> "enter_exit_state"
               [] rest = "ai_enter" -> "ai_exit_state"
  /\ UNCHANGED <<exitState, queue, session>>
  /\ LoseAbort
  /\ RestUnchanged

RestExitState ==
  /\ rest \in {"enter_exit_state", "ai_exit_state"}
  /\ exitState' = "CHARGE"
  /\ rest' = IF rest = "enter_exit_state" THEN "enter_send" ELSE "ai_send"
  /\ UNCHANGED <<cmState, queue, session, abort>>
  /\ RestUnchanged

\* charge_mode_state?s2=n for any other n only writes the state.
RestForce ==
  /\ rest = "idle" /\ "force" \in RestCommands
  /\ cmState' \in {"COMPLETE", "STABILIZING", "REMOVAL", "RETURN", "MANUAL"}
  /\ UNCHANGED <<exitState, queue, session, rest>>
  /\ LoseAbort
  /\ RestUnchanged

RestEnterSend == RestSend("enter_send", "OVERRIDE", "idle", "idle")
RestAiSend == RestSend("ai_send", "OVERRIDE", "idle", "cancel")

\* ai_tuning_cancel: reset the session; if one was open, EXIT and then RST.
RestCancel ==
  /\ \/ rest = "idle" /\ "ai_cancel" \in RestCommands
     \/ rest = "cancel"
  /\ session # "idle"
  /\ session' = "idle"
  /\ cmState' = "EXIT"
  /\ rest' = "cancel_send"
  /\ UNCHANGED <<exitState, queue, abort>>
  /\ RestUnchanged

\* A cancel that finds the session idle has nothing to do.
RestCancelIdle ==
  /\ rest = "cancel" /\ session = "idle"
  /\ rest' = "idle"
  /\ UNCHANGED <<cmState, exitState, queue, session, abort>>
  /\ RestUnchanged

RestCancelSend == RestSend("cancel_send", "RST", "idle", "idle")

\* The interrupt handlers of the buttons and the encoder.
Press(e) ==
  /\ Len(queue) < QueueLen
  /\ queue' = Append(queue, e)
  /\ UNCHANGED <<menuVars, driveVars, chargeVars, session, rest, abort>>

-----------------------------------------------------------------------------

CycleStep ==    \* menu_task, charge_mode_menu and the phases around a charge
  \/ MenuForm \/ Dispatch \/ Enter \/ Loop \/ Quit \/ Leave
  \/ ZeroPoll \/ ZeroSample
  \/ StabilizeSalvages \/ StabilizeSettles \/ SalvagePoll \/ Stabilized \/ Record \/ AiTare \/ AiTared
  \/ RemovalPoll \/ RemovalSample \/ ReturnPoll \/ ReturnSample

ChargeStep ==   \* what the controllers share
  \/ Begin \/ CoarseReverseWait \/ FineReverseWait \/ Settle
  \/ Finish \/ PrechargeEnd \/ Finished

PidStep ==
  \/ PidPoll \/ PidSampleFails \/ PidHandsOver \/ PidReachesFineStop
  \/ PidReachesCoarseStop \/ PidKeepsOn \/ PidDrive
  \/ PulsePoll \/ PulseOn \/ PulseWaitPoll \/ PulseOff
  \/ ManualPoll \/ ManualSampleFails \/ ManualSample \/ ManualEnd

AdaptiveStep ==
  \/ AdaptivePoll \/ AdaptiveSampleFails
  \/ BulkDrive \/ BulkRunPoll \/ BulkRunAgain
  \/ CoarseHandoff \/ CoarseHandoffSettles \/ BulkSettled \/ BulkDrained \/ TrimSettled
  \/ Glide \/ TrimDrive
  \/ FineDecision \/ MarginSettled \/ TailWatch \/ FineSettled \/ FineVerdict
  \/ DoseReserve \/ DosePoll \/ DoseOn \/ DoseWatch \/ DoseSettled

AiStep == AiPlan \/ AiRunPoll \/ AiRunOn \/ AiStop

MenuStep == CycleStep \/ ChargeStep \/ PidStep \/ AdaptiveStep \/ AiStep

RestStep ==
  \/ RestExit \/ RestExitSend \/ RestExitWrite
  \/ RestEnter \/ RestAiStart \/ RestAiDecide \/ RestEnterState \/ RestExitState
  \/ RestEnterSend \/ RestAiSend \/ RestForce
  \/ RestCancel \/ RestCancelIdle \/ RestCancelSend

Next == MenuStep \/ RestStep \/ \E e \in {"RST", "USER"} : Press(e)

\* Every wait that has a deadline comes to it: the reverse of a tube, a settling
\* wait, a pulse, a dose, the last bulk run, an AI sample, the salvage, the tare.
TimedWaitEnds ==
  \/ (CoarseReverseWait \/ FineReverseWait \/ Settle \/ SalvagePoll \/ AiTare) /\ pc' # pc
  \/ PulseOn /\ pc' # "pulse"
  \/ PulseOff /\ pc' = "pid"
  \/ DoseOn /\ pc' # "dose"
  \/ CoarseHandoff /\ pc = "bulk_run_on"
  \/ AiStop

\* Both tasks keep running; nobody has to press a button or send a command.
Spec ==
  /\ Init /\ [][Next]_vars
  /\ WF_vars(MenuStep)
  /\ SF_vars(TimedWaitEnds)
  /\ WF_vars(RestStep /\ rest # "idle")

-----------------------------------------------------------------------------
(* Properties. *)

\* Where a motor may be turning: inside charge_mode_wait_for_complete and the salvage.
PidLabels == {"pid", "pid_sample", "pid_drive", "pulse", "pulse_on", "pulse_wait", "pulse_off"}
AdaptiveLabels == {"adaptive", "adaptive_sample", "bulk_run", "bulk_run_on", "bulk_stopped",
  "trim_stopped", "bulk_settled", "bulk_drained", "trim_settled", "glide", "margin_settled",
  "threshold_settled", "fine_settled", "fine_verdict", "dose_reserve", "dose", "dose_on",
  "dose_watch", "dose_settled", "dose_verdict"}
AiLabels == {"ai_plan", "ai_run", "ai_run_on"}
WaitLabels == {"coarse_reverse", "fine_reverse", "settle"}
MenuLabels == {"menu", "dispatch", "enter", "loop", "quit", "leave"}
CupLabels == {"zero", "zero_sample", "begin", "finish", "finished", "stabilize", "stabilized",
  "record", "ai_tare", "ai_tared", "removal", "removal_sample", "return", "return_sample",
  "manual", "manual_sample", "manual_end"}
Labels == PidLabels \union AdaptiveLabels \union AiLabels \union WaitLabels \union MenuLabels
            \union CupLabels \union {"precharge", "salvage"}
RestLabels == {"idle", "exit_send", "exit_write", "join", "enter", "enter_exit_state",
  "enter_send", "ai_decide", "ai_enter", "ai_exit_state", "ai_send", "cancel", "cancel_send"}

\* Every variable keeps to its type, and the event queue to its length.
FlagsOK ==
  /\ menuActive \in BOOLEAN
  /\ motorsEnabled \in BOOLEAN
  /\ coarseStopped \in BOOLEAN /\ fineReversed \in BOOLEAN /\ recovery \in BOOLEAN
  /\ lastWasAi \in BOOLEAN
DataOK ==
  /\ pc \in Labels /\ after \in Labels
  /\ cmState \in {"EXIT", "ZERO", "COMPLETE", "STABILIZING", "REMOVAL", "RETURN", "MANUAL"}
  /\ exitState \in {"DEFAULT", "CHARGE"}
  /\ queue \in Seq(Events) /\ Len(queue) <= QueueLen
  /\ speed \in [Motors -> {"stop", "fwd", "rev"}]
  /\ gate \in {"unknown", "open", "partial", "closed"}
  /\ controller \in {"pid", "adaptive", "ai"}
  /\ stage \in {"bulk", "trim", "fine"}
  /\ fails \in Nat /\ fails < FailLimit
  /\ pending \in SUBSET {"ai", "ml", "ltl"}
  /\ session \in {"idle", "running", "complete", "error"}
  /\ rest \in RestLabels
  /\ abort \in {"none", "set", "lost"}
TypeOK == FlagsOK /\ DataOK

\* Outside the loops that dispense no motor is left commanded, whichever way they
\* were left: normally, by RST, by a scale that stopped answering.
Dispensing == PidLabels \union AdaptiveLabels \union {"ai_run", "ai_run_on", "coarse_reverse",
                "fine_reverse", "settle", "precharge", "salvage"}
NoMotionOutsideDispensing == pc \notin Dispensing => speed = Stopped

\* Powder is pushed only through an open gate; the precharge is the one exception.
FeedsThroughOpenGate ==
  /\ GateEnabled /\ motorsEnabled /\ pc # "precharge"
  /\ \E m \in Motors : speed[m] = "fwd"
  => gate \in {"open", "partial"}

\* emergency_exit is the end of the charge, also when it runs in a wait deep inside a
\* controller: until charge mode is left no motor is commanded and the gate is not opened
\* again, and charge_mode_state stays EXIT for the switch of charge_mode_menu.  The abort
\* is lost if a REST handler writes another state over it, or in the one wait of the
\* recovery that is not followed by a test (DoseReserve).
AbortEndsCharge ==
  abort = "set" =>
    /\ cmState = "EXIT"
    /\ speed = Stopped
    /\ GateEnabled => gate = "closed"

\* A charge is run with the motor drivers enabled ("Enable motor on entering the
\* charge mode"), unless it goes on after an abort that was lost: then they stay off,
\* whatever restarted the cycle, until charge mode is left.
ChargesWithMotorsEnabled ==
  pc \in PidLabels \union AiLabels
          \union {"zero", "zero_sample", "adaptive", "bulk_run", "dose"}
    => \/ abort = "none" /\ motorsEnabled
       \/ abort = "lost" /\ ~motorsEnabled

\* Back in the menu, the gate has been closed behind the last charge.
GateClosedAtIdle == pc = "menu" => gate # "open" /\ gate # "partial"

\* The record flags of one charge never reach the next one, though RST may leave a
\* charge before its records are written.
NoStaleRecord ==
  pc \in PidLabels \union AdaptiveLabels \union AiLabels => pending = {}

\* An AI sample is recorded as one, and an ordinary charge never is.
RecordsMatchController ==
  /\ "ai" \in pending => controller = "ai"
  /\ "ml" \in pending => controller # "ai"
  /\ "ltl" \in pending => controller = "pid"

\* charge_mode_state claims a charge only if the menu is in charge mode or about to
\* enter it.
EntryPending ==
  \/ rest \in {"enter_exit_state", "enter_send", "ai_exit_state", "ai_send", "cancel"}
  \/ \E i \in 1..Len(queue) : queue[i] = "OVERRIDE"
  \/ pc \in {"dispatch", "enter"}
NoPhantomCharge == cmState # "EXIT" => menuActive \/ EntryPending

\* Once the reset button is in the queue, charge mode is left.
StopQueued == \E i \in 1..Len(queue) : queue[i] = "RST"
StopHonoured == (menuActive /\ StopQueued) ~> pc = "menu"

\* A REST request to exit, whose RST found room in the queue, leaves charge mode.
ExitRequestHonoured == (rest = "exit_write" /\ StopQueued) ~> pc = "menu"

\* The cycle of ChargeCycle that a label belongs to; at the switch of
\* charge_mode_menu, charge_mode_state decides.
CyclePhase ==
  LET at == IF pc = "loop" THEN PhaseOf[cmState] ELSE pc IN
  CASE at \in MenuLabels -> "idle"
    [] at \in {"zero", "zero_sample"} -> "zero"
    [] at \in {"stabilize", "salvage", "stabilized"} -> "settle"
    [] at \in {"record", "ai_tare", "ai_tared", "removal", "removal_sample"} -> "removal"
    [] at \in {"return", "return_sample"} -> "return"
    [] OTHER -> "dispense"
Cycle == INSTANCE ChargeCycle WITH phase <- CyclePhase, feeding <- (speed # Stopped)

\* Without AI sessions and without REST writes to the state other than EXIT, the
\* machine goes through the cycle of ChargeCycle: never two charges on one cup,
\* never a charge on a scale not zeroed, no motor running between charges.
KeepsCycle == Cycle!CycleSpec

=============================================================================
