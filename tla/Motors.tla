-------------------------------- MODULE Motors --------------------------------
(***************************************************************************)
(* The trickler motors: the mode that enables and drives them from the menu *)
(* task, the REST handlers that reach them beside it, the queue of two      *)
(* speeds each motor has, and the control task that ramps to them and turns *)
(* the direction pin.  Source: src/src/motors.c, with the callers of        *)
(* charge_mode.cpp, pid_autotune.cpp and cleanup_mode.cpp.                  *)
(*                                                                         *)
(* A ramp is a state of the control task; a speed is its sign and whether   *)
(* it is zero.                                                              *)
(***************************************************************************)
EXTENDS Integers, Sequences

CONSTANTS
  Selected,      \* motors: "coarse", "fine" or both
  Speeds,        \* speeds a caller asks for
  RestOps        \* what the REST handlers do: "speed", "direction"

ASSUME SelectedAssumption == Selected \subseteq {"coarse", "fine"}
ASSUME SpeedsAssumption == Speeds \subseteq Int /\ 0 \in Speeds
ASSUME RestOpsAssumption == RestOps \subseteq {"speed", "direction"}

Callers == {"menu", "rest"}

VARIABLES
  mode,        \* the menu task's mode: "off", "on", "leave"
  sends,       \* the speeds a caller in motor_set_speed has still to send
  enabled,     \* en_pin
  queue,       \* stepper_speed_control_queue
  control,     \* stepper_speed_control_task: "idle", "down", "ramp"
  target,      \* new_velocity
  velocity,    \* prev_velocity
  direction,   \* step_direction and dir_pin
  inverted,    \* inverted_direction
  last,        \* history: the speed last put in the queue,
  author,      \* and by whom
  skewed       \* history: a REST change of direction left the pin the wrong way

controlVars == <<control, target, velocity, direction>>
history == <<last, author, skewed>>
vars == <<mode, sends, enabled, queue, controlVars, inverted, history>>

QueueLength == 2
Forward(v) == v >= 0

\* motor_set_speed sends to the coarse motor first.
SendsTo(motors, v) ==
  (IF "coarse" \in motors THEN <<[to |-> "coarse", speed |-> v]>> ELSE <<>>) \o
  (IF "fine" \in motors THEN <<[to |-> "fine", speed |-> v]>> ELSE <<>>)

Init ==
  /\ mode = "off"
  /\ sends = [c \in Callers |-> <<>>]
  /\ enabled = [m \in Selected |-> FALSE]
  /\ queue = [m \in Selected |-> <<>>]
  /\ control = [m \in Selected |-> "idle"]
  /\ target = [m \in Selected |-> 0]
  /\ velocity = [m \in Selected |-> 0]
  /\ inverted \in [Selected -> BOOLEAN]
  /\ direction = inverted
  /\ last = [m \in Selected |-> 0]
  /\ author = [m \in Selected |-> "menu"]
  /\ skewed = [m \in Selected |-> FALSE]

-----------------------------------------------------------------------------
(* The menu task: enter a mode, drive the motors, leave. *)

Enter ==
  /\ mode = "off"
  /\ sends["menu"] = <<>>
  /\ mode' = "on"
  /\ enabled' = [m \in Selected |-> TRUE]
  /\ UNCHANGED <<sends, queue, controlVars, inverted, history>>

SetSpeed(c, motors, v) ==
  /\ sends[c] = <<>>
  /\ sends' = [sends EXCEPT ![c] = SendsTo(motors, v)]
  /\ UNCHANGED <<mode, enabled, queue, controlVars, inverted, history>>

Drive == mode = "on" /\ \E ms \in SUBSET Selected, v \in Speeds : SetSpeed("menu", ms, v)

Leave ==
  /\ mode = "on"
  /\ sends["menu"] = <<>>
  /\ mode' = "leave"
  /\ UNCHANGED <<sends, enabled, queue, controlVars, inverted, history>>

DisablePinOnly(m) ==            \* mutant: the motor keeps its speed behind the pin
  /\ mode = "leave"
  /\ sends["menu"] = <<>>
  /\ enabled[m]
  /\ enabled' = [enabled EXCEPT ![m] = FALSE]
  /\ UNCHANGED <<mode, sends, queue, controlVars, inverted, history>>

\* motor_enable(m, false): the pin first, then speed zero.  The coarse motor is first.
Disable(m) ==
  /\ mode = "leave"
  /\ sends["menu"] = <<>>
  /\ enabled[m]
  /\ m = "fine" /\ "coarse" \in Selected => ~enabled["coarse"]
  /\ enabled' = [enabled EXCEPT ![m] = FALSE]
  /\ sends' = [sends EXCEPT !["menu"] = SendsTo({m}, 0)]
  /\ UNCHANGED <<mode, queue, controlVars, inverted, history>>

Left ==
  /\ mode = "leave"
  /\ sends["menu"] = <<>>
  /\ \A m \in Selected : ~enabled[m]
  /\ mode' = "off"
  /\ UNCHANGED <<sends, enabled, queue, controlVars, inverted, history>>

-----------------------------------------------------------------------------
(* The REST handlers: the cleanup mode's speed, in any mode, and a motor's  *)
(* direction.                                                               *)

RestSpeed ==
  /\ "speed" \in RestOps
  /\ \E v \in Speeds : SetSpeed("rest", Selected, v)

\* The new direction takes effect at once when prev_velocity says the motor is idle.
RestDirection(m) ==
  /\ "direction" \in RestOps
  /\ sends["rest"] = <<>>
  /\ inverted' = [inverted EXCEPT ![m] = ~@]
  /\ direction' = [direction EXCEPT ![m] = IF velocity[m] = 0 THEN inverted'[m] ELSE @]
  /\ skewed' = [skewed EXCEPT ![m] = IF velocity[m] = 0 THEN control[m] = "ramp" /\ ~Forward(target[m])
                                    ELSE ~@]
  /\ UNCHANGED <<mode, sends, enabled, queue, control, target, velocity, last, author>>

-----------------------------------------------------------------------------
(* xQueueSend with no time limit, and the control task of a motor. *)

SendOrDrop(c) ==                \* mutant: xQueueSend with no wait, its result ignored
  /\ sends[c] # <<>>
  /\ LET s == Head(sends[c]) IN
       /\ queue' = [queue EXCEPT ![s.to] = IF Len(@) < QueueLength THEN Append(@, s.speed) ELSE @]
       /\ last' = [last EXCEPT ![s.to] = s.speed]
       /\ author' = [author EXCEPT ![s.to] = c]
  /\ sends' = [sends EXCEPT ![c] = Tail(@)]
  /\ UNCHANGED <<mode, enabled, controlVars, inverted, skewed>>

Send(c) ==
  /\ sends[c] # <<>>
  /\ LET s == Head(sends[c]) IN
       /\ Len(queue[s.to]) < QueueLength
       /\ queue' = [queue EXCEPT ![s.to] = Append(@, s.speed)]
       /\ last' = [last EXCEPT ![s.to] = s.speed]
       /\ author' = [author EXCEPT ![s.to] = c]
  /\ sends' = [sends EXCEPT ![c] = Tail(@)]
  /\ UNCHANGED <<mode, enabled, controlVars, inverted, skewed>>

ReceivePeeks(m) ==              \* mutant: the speed stays in the queue
  /\ control[m] = "idle"
  /\ queue[m] # <<>>
  /\ target' = [target EXCEPT ![m] = Head(queue[m])]
  /\ control' = [control EXCEPT ![m] =
       IF Forward(Head(queue[m])) = Forward(velocity[m]) THEN "ramp" ELSE "down"]
  /\ UNCHANGED <<mode, sends, enabled, queue, velocity, direction, inverted, history>>

ReceiveTurnsBackwards(m) ==     \* mutant: turns for a negative speed, not for a new sign
  /\ control[m] = "idle"
  /\ queue[m] # <<>>
  /\ target' = [target EXCEPT ![m] = Head(queue[m])]
  /\ queue' = [queue EXCEPT ![m] = Tail(@)]
  /\ control' = [control EXCEPT ![m] = IF Forward(Head(queue[m])) THEN "ramp" ELSE "down"]
  /\ UNCHANGED <<mode, sends, enabled, velocity, direction, inverted, history>>

Receive(m) ==
  /\ control[m] = "idle"
  /\ queue[m] # <<>>
  /\ target' = [target EXCEPT ![m] = Head(queue[m])]
  /\ queue' = [queue EXCEPT ![m] = Tail(@)]
  /\ control' = [control EXCEPT ![m] =
       IF Forward(Head(queue[m])) = Forward(velocity[m]) THEN "ramp" ELSE "down"]
  /\ UNCHANGED <<mode, sends, enabled, velocity, direction, inverted, history>>

\* The end of the ramp down to zero.
Turn(m) ==
  /\ control[m] = "down"
  /\ direction' = [direction EXCEPT ![m] = ~@]
  /\ control' = [control EXCEPT ![m] = "ramp"]
  /\ UNCHANGED <<mode, sends, enabled, queue, target, velocity, inverted, history>>

Arrive(m) ==
  /\ control[m] = "ramp"
  /\ velocity' = [velocity EXCEPT ![m] = target[m]]
  /\ control' = [control EXCEPT ![m] = "idle"]
  /\ UNCHANGED <<mode, sends, enabled, queue, target, direction, inverted, history>>

-----------------------------------------------------------------------------

Mode == Enter \/ Drive \/ Leave \/ (\E m \in Selected : Disable(m)) \/ Left
Rest == RestSpeed \/ \E m \in Selected : RestDirection(m)
Control(m) == Receive(m) \/ Turn(m) \/ Arrive(m)

Next == Mode \/ Rest \/ (\E c \in Callers : Send(c)) \/ (\E m \in Selected : Control(m))

Spec == Init /\ [][Next]_vars

\* Every ramp ends, and a sender that waits for room in a queue gets its turn.
FairSpec ==
  /\ Spec
  /\ \A m \in Selected : WF_vars(Control(m))
  /\ \A c \in Callers : SF_vars(Send(c))

-----------------------------------------------------------------------------
(* Properties. *)

\* Every variable holds a value the code can give it; a queue never holds more than
\* its length.
TypeOK ==
  /\ mode \in {"off", "on", "leave"}
  /\ sends \in [Callers -> Seq([to : Selected, speed : Speeds])]
  /\ enabled \in [Selected -> BOOLEAN]
  /\ queue \in [Selected -> Seq(Speeds)]
  /\ \A m \in Selected : Len(queue[m]) <= QueueLength
  /\ control \in [Selected -> {"idle", "down", "ramp"}]
  /\ target \in [Selected -> Speeds]
  /\ velocity \in [Selected -> Speeds]
  /\ direction \in [Selected -> BOOLEAN]
  /\ inverted \in [Selected -> BOOLEAN]
  /\ last \in [Selected -> Speeds]
  /\ author \in [Selected -> Callers]
  /\ skewed \in [Selected -> BOOLEAN]

\* Nothing is on its way to the motor.
Quiet(m) == queue[m] = <<>> /\ control[m] = "idle"

\* A motor settles at the speed last sent to it, whoever sent it and however many
\* speeds met in its queue: a stop is never overtaken by an older speed.
LastSpeedHolds == \A m \in Selected : Quiet(m) => velocity[m] = last[m]

\* A motor that is disabled has come, or is coming, to rest: the next mode that enables
\* it does not find it turning.  A REST speed sent after the menu task's last stop is the
\* only way to break this (cleanup_mode.cpp:198).
DisabledMeansStopped ==
  \A m \in Selected :
    Quiet(m) /\ ~enabled[m] /\ sends["menu"] = <<>> /\ author[m] = "menu" => velocity[m] = 0

\* A motor that has settled turns in the direction its configuration and the sign of its
\* speed say, after any number of reversals and changes of the configuration; a change
\* that comes while the motor turns, or while it starts backwards, is the only way to
\* leave the pin wrong (motors.c:855).
DirectionFollowsSign ==
  \A m \in Selected : Quiet(m) => ((direction[m] = inverted[m]) = Forward(velocity[m])) = ~skewed[m]

\* A caller blocked on a full queue goes on.
SendReturns == \A c \in Callers : sends[c] # <<>> ~> sends[c] = <<>>

=============================================================================
