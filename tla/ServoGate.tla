------------------------------- MODULE ServoGate -------------------------------
(***************************************************************************)
(* The servo gate: the tasks that command it, the queue of length one and   *)
(* the binary semaphore between them, and the control task that moves it.   *)
(* Source: src/src/servo_gate.c.  Only the menu task ever waits for a move  *)
(* (charge_mode.cpp, cleanup_mode.cpp), and not always; the REST handlers   *)
(* command the gate and go on.                                              *)
(*                                                                         *)
(* The calls of FreeRTOS are steps of their own, since the tasks run on two *)
(* cores.  A ratio is one of the named positions; a ramp between two of     *)
(* them is the position "between".                                          *)
(***************************************************************************)
CONSTANTS
  GateCallers,   \* tasks that command the gate
  Blocking,      \* those that may wait for the move
  Ratios,        \* positions of the gate
  None           \* an empty queue, a gate that has not moved yet

ASSUME BlockingAssumption ==
  Blocking \subseteq GateCallers /\ \A a, b \in Blocking : a = b
ASSUME RatiosAssumption == {"open", "closed"} \subseteq Ratios
ASSUME NamesAssumption == "disabled" \notin Ratios /\ None \notin Ratios \union {"disabled"}

Commands == Ratios \union {"disabled"}

VARIABLES
  gateQueue,   \* control_queue
  sem,         \* move_ready_semphore: given
  at,          \* where each caller is in servo_gate_set_ratio
  ratio,       \* its argument
  gateTask,    \* servo_gate_control_task: "idle", "move", "give"
  newRatio,    \* new_ratio
  prev,        \* prev_open_ratio
  position,    \* where the shutters are
  state,       \* gate_state, what is reported
  lastRatio,   \* history: the command last put in the queue
  done         \* history: the gate reached the ratio of the call being waited for

gateCallerVars == <<at, ratio>>
gateControlVars == <<gateTask, newRatio, prev, position, state>>
gateVars == <<gateQueue, sem, gateCallerVars, gateControlVars, lastRatio, done>>

GateInit ==
  /\ gateQueue = None
  /\ sem = FALSE
  /\ at = [c \in GateCallers |-> "idle"]
  /\ ratio = [c \in GateCallers |-> "closed"]
  /\ gateTask = "idle" /\ newRatio = "closed" /\ prev = None
  /\ position = None
  /\ state \in {"open", "disabled"}     \* servo_gate_enable, in the configuration
  /\ lastRatio = None /\ done = FALSE

-----------------------------------------------------------------------------
(* servo_gate_set_ratio: empty the semaphore, overwrite the queue, wait. *)

SetRatio(c, r) ==
  /\ at[c] = "idle"
  /\ \E to \in IF c \in Blocking THEN {"send", "send_wait"} ELSE {"send"} :
       at' = [at EXCEPT ![c] = to]
  /\ sem' = FALSE
  /\ ratio' = [ratio EXCEPT ![c] = r]
  /\ UNCHANGED <<gateQueue, gateControlVars, lastRatio, done>>

Sending(c) == at[c] \in {"send", "send_wait"}
Sent(c) == at' = [at EXCEPT ![c] = IF @ = "send_wait" THEN "wait" ELSE "idle"]

OverwriteIfEmpty(c) ==          \* mutant: xQueueSend with no wait
  /\ Sending(c) /\ Sent(c)
  /\ gateQueue' = IF gateQueue = None THEN ratio[c] ELSE gateQueue
  /\ lastRatio' = ratio[c]
  /\ done' = (at[c] # "send_wait" /\ done)
  /\ UNCHANGED <<sem, ratio, gateControlVars>>

Overwrite(c) ==
  /\ Sending(c) /\ Sent(c)
  /\ gateQueue' = ratio[c]
  /\ lastRatio' = ratio[c]
  /\ done' = (at[c] # "send_wait" /\ done)
  /\ UNCHANGED <<sem, ratio, gateControlVars>>

MoveReady(c) ==
  /\ at[c] = "wait"
  /\ sem
  /\ sem' = FALSE
  /\ at' = [at EXCEPT ![c] = "idle"]
  /\ UNCHANGED <<gateQueue, ratio, gateControlVars, lastRatio, done>>

-----------------------------------------------------------------------------
(* servo_gate_control_task. *)

ReceiveRatioForgets ==          \* mutant: a disable is not signalled
  /\ gateTask = "idle"
  /\ gateQueue # None
  /\ newRatio' = gateQueue
  /\ gateQueue' = None
  /\ gateTask' = IF gateQueue = "disabled" THEN "idle" ELSE "move"
  /\ state' = IF gateQueue = "disabled" THEN "disabled" ELSE state
  /\ position' = IF gateQueue \in {"disabled", prev} \/ prev = None THEN position ELSE "between"
  /\ UNCHANGED <<sem, gateCallerVars, prev, lastRatio, done>>

ReceiveRatio ==
  /\ gateTask = "idle"
  /\ gateQueue # None
  /\ newRatio' = gateQueue
  /\ gateQueue' = None
  /\ gateTask' = IF gateQueue = "disabled" THEN "give" ELSE "move"
  /\ state' = IF gateQueue = "disabled" THEN "disabled" ELSE state
  /\ position' = IF gateQueue \in {"disabled", prev} \/ prev = None THEN position ELSE "between"
  /\ UNCHANGED <<sem, gateCallerVars, prev, lastRatio, done>>

\* The end of a ramp; no ramp when the ratio is the last one or the first ever.
EndRamp ==
  /\ gateTask = "move"
  /\ position' = newRatio
  /\ prev' = newRatio
  /\ state' = IF newRatio \in {"open", "closed"} THEN newRatio ELSE state
  /\ gateTask' = "give"
  /\ done' = (done \/ \E c \in Blocking : at[c] = "wait" /\ ratio[c] = newRatio)
  /\ UNCHANGED <<gateQueue, sem, gateCallerVars, newRatio, lastRatio>>

Give ==
  /\ gateTask = "give"
  /\ sem' = TRUE
  /\ gateTask' = "idle"
  /\ done' = (done \/ \E c \in Blocking : at[c] = "wait" /\ ratio[c] = "disabled")
  /\ UNCHANGED <<gateQueue, gateCallerVars, newRatio, prev, position, state, lastRatio>>

-----------------------------------------------------------------------------

GateCaller(c) == Overwrite(c) \/ MoveReady(c)
GateControl == ReceiveRatio \/ EndRamp \/ Give

GateNext ==
  \/ \E c \in GateCallers : (\E r \in Commands : SetRatio(c, r)) \/ GateCaller(c)
  \/ GateControl

GateSpec == GateInit /\ [][GateNext]_gateVars

\* The scheduler runs every task that can run; a give makes the waiting task ready, and
\* no other call is there to empty the semaphore first every time.  Nothing says that
\* anyone calls again.
GateFairSpec ==
  /\ GateSpec
  /\ WF_gateVars(GateControl)
  /\ \A c \in GateCallers : WF_gateVars(Overwrite(c)) /\ SF_gateVars(MoveReady(c))

-----------------------------------------------------------------------------
(* Properties. *)

\* Every variable holds a value the code can give it.
GateTypeOK ==
  /\ gateQueue \in Commands \union {None}
  /\ sem \in BOOLEAN
  /\ at \in [GateCallers -> {"idle", "send", "send_wait", "wait"}]
  /\ ratio \in [GateCallers -> Commands]
  /\ gateTask \in {"idle", "move", "give"}
  /\ newRatio \in Commands
  /\ prev \in Ratios \union {None}
  /\ position \in Ratios \union {None, "between"}
  /\ state \in {"open", "closed", "disabled"}
  /\ lastRatio \in Commands \union {None}
  /\ done \in BOOLEAN

\* When the queue is empty and the control task idle, the gate is where the last
\* command put it, and an end position is the one reported: commands that arrive
\* during a ramp are not lost, whoever sent them.
LastCommandHolds ==
  gateTask = "idle" /\ gateQueue = None =>
    /\ lastRatio \in Ratios => position = lastRatio
    /\ lastRatio \in {"open", "closed", "disabled"} => state = lastRatio

\* A caller that waits has a signal coming: the semaphore is given, or a command is
\* queued, moved or about to be queued behind which it will be given.
NoLostWakeup ==
  \A c \in GateCallers : at[c] = "wait" =>
    sem \/ gateQueue # None \/ gateTask # "idle" \/ \E d \in GateCallers : Sending(d)

\* A blocking call returns, however the other tasks' calls fall around it.
BlockedCallReturns ==
  \A c \in GateCallers : at[c] = "wait" ~> at[c] = "idle"

\* A blocking call returns only after the gate has made its move ("Signal completion",
\* servo_gate.c): the give of a command already being moved is not taken for it.
ReturnsAfterMove ==
  [][\A c \in GateCallers : at[c] = "wait" /\ at'[c] = "idle" => done]_gateVars

=============================================================================
