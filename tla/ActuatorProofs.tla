---------------------------- MODULE ActuatorProofs ----------------------------
(***************************************************************************)
(* The two things a charge moves.  The motors, for either or both, any      *)
(* speeds and any use of the REST handlers: a motor settles at the speed    *)
(* last sent to it, in the direction of that speed but for the changes of   *)
(* direction that skew it, and at rest when it is disabled and nobody but   *)
(* the menu task spoke last.  The servo gate, for any callers and any       *)
(* positions: no command is lost, and a caller that waits always has a      *)
(* signal coming.  The last rests on the assumption that at most one task   *)
(* waits: two waiting callers share one semaphore, and one give may be all  *)
(* that two overwritten commands leave.                                     *)
(***************************************************************************)
EXTENDS Motors, ServoGate, SequenceTheorems, TLAPS

-----------------------------------------------------------------------------
(* The motors. *)

\* What motor_set_speed sends.
Sends == [to : Selected, speed : Speeds]

\* What the theorems need of the types: the queues and what is on its way to them.
QueueTypes ==
  /\ sends \in [Callers -> Seq(Sends)]
  /\ queue \in [Selected -> Seq(Speeds)]
  /\ control \in [Selected -> {"idle", "down", "ramp"}]
  /\ target \in [Selected -> Speeds]
  /\ velocity \in [Selected -> Speeds]
  /\ last \in [Selected -> Speeds]

DirectionTypes ==
  /\ direction \in [Selected -> BOOLEAN]
  /\ inverted \in [Selected -> BOOLEAN]
  /\ skewed \in [Selected -> BOOLEAN]

\* The last speed is at the end of the queue, being ramped to, or reached.
SpeedInv ==
  \A m \in Selected :
    /\ queue[m] # <<>> => queue[m][Len(queue[m])] = last[m]
    /\ queue[m] = <<>> /\ control[m] # "idle" => target[m] = last[m]
    /\ Quiet(m) => velocity[m] = last[m]

\* The direction is that of the speed the motor turns at, until the ramp to a speed of
\* the other sign has come down to zero; skewed, it is the other one.
DirectionInv ==
  \A m \in Selected :
    LET agrees == (direction[m] = inverted[m]) = ~skewed[m] IN
      /\ control[m] = "idle" => (agrees <=> Forward(velocity[m]))
      /\ control[m] = "down" => (agrees <=> ~Forward(target[m])) /\ Forward(velocity[m]) = ~Forward(target[m])
      /\ control[m] = "ramp" => (agrees <=> Forward(target[m]))

\* What is appended is the last element.
LEMMA LastOfAppend ==
  ASSUME NEW S, NEW q \in Seq(S), NEW e \in S
  PROVE  /\ Append(q, e) \in Seq(S) /\ Append(q, e) # <<>>
         /\ Append(q, e)[Len(Append(q, e))] = e
BY AppendProperties, LenProperties

\* Taking the head leaves the last element the last, or was it.
LEMMA LastOfTail ==
  ASSUME NEW S, NEW q \in Seq(S), q # <<>>
  PROVE  /\ Head(q) \in S /\ Tail(q) \in Seq(S)
         /\ Tail(q) # <<>> => Tail(q)[Len(Tail(q))] = q[Len(q)]
         /\ Tail(q) = <<>> => Head(q) = q[Len(q)]
<1>1. Len(q) \in Nat /\ Len(q) # 0
  BY LenProperties, EmptySeq
<1>2. /\ Head(q) \in S /\ Tail(q) \in Seq(S)
      /\ Len(Tail(q)) = Len(q) - 1
  BY HeadTailProperties
<1>3. Tail(q) # <<>> => Tail(q)[Len(Tail(q))] = q[Len(q)]
  OBVIOUS
<1>4. Tail(q) = <<>> => Head(q) = q[Len(q)]
  <2>1. SUFFICES ASSUME Tail(q) = <<>> PROVE Head(q) = q[Len(q)]
    OBVIOUS
  <2>2. Len(<<>>) = 0
    BY EmptySeq
  <2>3. Len(Tail(q)) = 0
    BY <2>1, <2>2, Zenon
  <2>4. \A n, k : n \in Nat /\ k = n - 1 /\ k = 0 => n = 1
    OBVIOUS
  <2>5. Len(q) = 1
    BY <1>1, <1>2, <2>3, <2>4, Zenon
  <2>6. Head(q) = q[1]
    OBVIOUS
  <2>7. QED
    BY <2>5, <2>6
<1>5. QED
  BY <1>2, <1>3, <1>4

\* The speeds motor_set_speed sends are for the motors it was given.
LEMMA SendsToType ==
  ASSUME NEW motors \in SUBSET Selected, NEW v \in Speeds
  PROVE  SendsTo(motors, v) \in Seq(Sends)
<1> DEFINE one(m) == IF m \in motors THEN <<[to |-> m, speed |-> v]>> ELSE <<>>
<1>1. \A m \in motors : [to |-> m, speed |-> v] \in Sends
  BY DEF Sends
<1>2. \A m : one(m) \in Seq(Sends)
  BY <1>1
<1>3. one("coarse") \o one("fine") \in Seq(Sends)
  BY <1>2, ConcatProperties
<1>4. QED
  BY <1>3 DEF SendsTo

\* Queues: the initial state.
LEMMA QueueInit == Init => QueueTypes /\ SpeedInv
BY SpeedsAssumption DEF Init, QueueTypes, SpeedInv, Quiet

\* Queues: every step keeps their types.
LEMMA QueueStep ==
  ASSUME QueueTypes, [Next]_vars
  PROVE  QueueTypes'
<1>1. CASE Enter \/ Leave \/ Left
  BY <1>1 DEF Enter, Leave, Left, controlVars, history, QueueTypes
<1>2. ASSUME NEW c \in Callers, NEW motors \in SUBSET Selected, NEW v \in Speeds,
             SetSpeed(c, motors, v)
      PROVE  QueueTypes'
  BY <1>2, SendsToType DEF SetSpeed, controlVars, history, QueueTypes
<1>3. CASE \E m \in Selected : Disable(m)
  <2>1. PICK m \in Selected : Disable(m)
    BY <1>3
  <2>2. SendsTo({m}, 0) \in Seq(Sends)
    BY SendsToType, SpeedsAssumption
  <2>3. QED
    BY <2>1, <2>2 DEF Disable, controlVars, history, QueueTypes
<1>4. CASE \E m \in Selected : RestDirection(m)
  BY <1>4 DEF RestDirection, history, QueueTypes
<1>5. CASE \E c \in Callers : Send(c)
  <2>1. PICK c \in Callers : Send(c)
    BY <1>5
  <2> DEFINE s == Head(sends[c])
  <2>2. s \in Sends /\ Tail(sends[c]) \in Seq(Sends)
    BY <2>1, HeadTailProperties DEF Send, QueueTypes
  <2>3. s.to \in Selected /\ s.speed \in Speeds
    BY <2>2 DEF Sends
  <2>4. Append(queue[s.to], s.speed) \in Seq(Speeds)
    BY <2>3, AppendProperties DEF QueueTypes
  <2>5. queue' \in [Selected -> Seq(Speeds)] /\ last' \in [Selected -> Speeds]
    BY <2>1, <2>3, <2>4 DEF Send, QueueTypes
  <2>6. sends' \in [Callers -> Seq(Sends)]
    BY <2>1, <2>2 DEF Send, QueueTypes
  <2>7. QED
    BY <2>1, <2>5, <2>6 DEF Send, controlVars, history, QueueTypes
<1>6. CASE \E m \in Selected : Receive(m)
  <2>1. PICK m \in Selected : Receive(m)
    BY <1>6
  <2>2. Head(queue[m]) \in Speeds /\ Tail(queue[m]) \in Seq(Speeds)
    BY <2>1 DEF Receive, history, QueueTypes
  <2>3. QED
    BY <2>1, <2>2 DEF Receive, history, QueueTypes
<1>7. CASE \E m \in Selected : Turn(m) \/ Arrive(m)
  BY <1>7 DEF Turn, Arrive, history, QueueTypes
<1>8. CASE UNCHANGED vars
  BY <1>8 DEF vars, controlVars, history, QueueTypes
<1>9. QED
  BY <1>1, <1>2, <1>3, <1>4, <1>5, <1>6, <1>7, <1>8
     DEF Next, Mode, Drive, Rest, RestSpeed, Control, Callers

\* The last speed sent is never lost or overtaken.
LEMMA SpeedStep ==
  ASSUME QueueTypes, SpeedInv, [Next]_vars
  PROVE  SpeedInv'
<1>1. CASE UNCHANGED <<queue, control, target, velocity, last>>
  BY <1>1 DEF SpeedInv, Quiet
<1>2. CASE \E c \in Callers : Send(c)
  <2>1. PICK c \in Callers : Send(c)
    BY <1>2
  <2> DEFINE s == Head(sends[c])
  <2>2. s \in Sends
    <3>1. sends[c] \in Seq(Sends) /\ sends[c] # <<>>
      BY <2>1 DEF Send, QueueTypes
    <3>2. QED
      BY <3>1, HeadTailProperties
  <2>3. s.to \in Selected /\ s.speed \in Speeds
    BY <2>2 DEF Sends
  <2>4. queue'[s.to] # <<>> /\ queue'[s.to][Len(queue'[s.to])] = last'[s.to]
    <3>1. queue'[s.to] = Append(queue[s.to], s.speed) /\ last'[s.to] = s.speed
      BY <2>1, <2>3 DEF Send, QueueTypes
    <3>2. queue[s.to] \in Seq(Speeds)
      BY <2>3 DEF QueueTypes
    <3>3. \A q \in Seq(Speeds), e \in Speeds :
            Append(q, e) # <<>> /\ Append(q, e)[Len(Append(q, e))] = e
      BY LastOfAppend
    <3>4. QED
      BY <2>3, <3>1, <3>2, <3>3, Zenon
  <2>5. \A m \in Selected : m # s.to => queue'[m] = queue[m] /\ last'[m] = last[m]
    BY <2>1, <2>3 DEF Send, QueueTypes
  <2>6. QED
    BY <2>1, <2>4, <2>5 DEF Send, controlVars, history, SpeedInv, Quiet
<1>3. CASE \E m \in Selected : Receive(m)
  <2>1. PICK n \in Selected : Receive(n)
    BY <1>3
  <2>2. queue[n] \in Seq(Speeds) /\ queue[n] # <<>> /\ queue'[n] = Tail(queue[n])
    BY <2>1 DEF Receive, history, QueueTypes
  <2>3. queue[n][Len(queue[n])] = last[n]
    BY <2>2 DEF SpeedInv
  <2>4. /\ queue'[n] # <<>> => queue'[n][Len(queue'[n])] = last[n]
        /\ queue'[n] = <<>> => Head(queue[n]) = last[n]
    BY <2>2, <2>3, LastOfTail
  <2>5. control'[n] # "idle" /\ target'[n] = Head(queue[n])
    BY <2>1 DEF Receive, history, QueueTypes
  <2>6. \A m \in Selected : m # n =>
          queue'[m] = queue[m] /\ control'[m] = control[m] /\ target'[m] = target[m]
    BY <2>1 DEF Receive, history, QueueTypes
  <2>7. QED
    BY <2>1, <2>4, <2>5, <2>6 DEF Receive, history, SpeedInv, Quiet
<1>4. CASE \E m \in Selected : Turn(m)
  BY <1>4 DEF Turn, history, QueueTypes, SpeedInv, Quiet
<1>5. CASE \E m \in Selected : Arrive(m)
  BY <1>5 DEF Arrive, history, QueueTypes, SpeedInv, Quiet
<1>6. QED
  BY <1>1, <1>2, <1>3, <1>4, <1>5
     DEF Next, Mode, Drive, Enter, SetSpeed, Leave, Disable, Left, Rest, RestSpeed,
         RestDirection, Control, vars, controlVars, history

\* Direction: the initial state.
LEMMA DirectionInit == Init => DirectionTypes /\ DirectionInv
BY DEF Init, DirectionTypes, DirectionInv, Forward

\* Direction: the control task turns the pin, a handler sets it or skews it.
LEMMA DirectionStep ==
  ASSUME QueueTypes, DirectionTypes, DirectionInv, [Next]_vars
  PROVE  DirectionTypes' /\ DirectionInv'
<1>1. CASE UNCHANGED <<control, target, velocity, direction, inverted, skewed>>
  BY <1>1 DEF DirectionTypes, DirectionInv
<1>2. CASE \E m \in Selected : Receive(m)
  <2>1. PICK n \in Selected : Receive(n)
    BY <1>2
  <2>2. target'[n] = Head(queue[n])
    BY <2>1 DEF Receive, history, QueueTypes
  <2>3. control'[n] = IF Forward(target'[n]) = Forward(velocity[n]) THEN "ramp" ELSE "down"
    BY <2>1, <2>2 DEF Receive, history, QueueTypes
  <2>4. \A m \in Selected : m # n => control'[m] = control[m] /\ target'[m] = target[m]
    BY <2>1 DEF Receive, history, QueueTypes
  <2>5. QED
    BY <2>1, <2>3, <2>4 DEF Receive, history, DirectionTypes, DirectionInv, Forward
<1>3. CASE \E m \in Selected : Turn(m)
  <2>1. PICK n \in Selected : Turn(n)
    BY <1>3
  <2>2. direction'[n] = ~direction[n] /\ control'[n] = "ramp" /\ direction' \in [Selected -> BOOLEAN]
    BY <2>1 DEF Turn, history, QueueTypes, DirectionTypes
  <2>3. \A m \in Selected : m # n => direction'[m] = direction[m] /\ control'[m] = control[m]
    BY <2>1 DEF Turn, history, QueueTypes, DirectionTypes
  <2>4. direction[n] \in BOOLEAN /\ inverted[n] \in BOOLEAN
    BY DEF DirectionTypes
  <2>5. QED
    BY <2>1, <2>2, <2>3, <2>4 DEF Turn, history, DirectionTypes, DirectionInv, Forward
<1>4. CASE \E m \in Selected : Arrive(m)
  BY <1>4 DEF Arrive, history, QueueTypes, DirectionTypes, DirectionInv, Forward
<1>5. CASE \E m \in Selected : RestDirection(m)
  <2>1. PICK n \in Selected : RestDirection(n)
    BY <1>5
  <2>2. /\ inverted' = [inverted EXCEPT ![n] = ~@]
        /\ direction' = [direction EXCEPT ![n] = IF velocity[n] = 0 THEN inverted'[n] ELSE @]
        /\ skewed' = [skewed EXCEPT ![n] = IF velocity[n] = 0
                        THEN control[n] = "ramp" /\ ~Forward(target[n]) ELSE ~@]
        /\ UNCHANGED <<control, target, velocity>>
    BY <2>1 DEF RestDirection
  <2>3. inverted'[n] = ~inverted[n] /\ inverted[n] \in BOOLEAN /\ skewed[n] \in BOOLEAN
    BY <2>2 DEF DirectionTypes
  <2>4. DirectionTypes'
    BY <2>2, <2>3 DEF DirectionTypes, Forward
  <2>5. \A m \in Selected : m # n => /\ inverted'[m] = inverted[m] /\ direction'[m] = direction[m]
                                     /\ skewed'[m] = skewed[m]
    BY <2>2 DEF DirectionTypes
  <2>6. CASE velocity[n] = 0
    <3>1. direction'[n] = inverted'[n] /\ skewed'[n] = (control[n] = "ramp" /\ ~Forward(target[n]))
      BY <2>2, <2>6 DEF DirectionTypes
    <3>2. Forward(velocity[n])
      BY <2>6 DEF Forward
    <3>3. control[n] \in {"idle", "down", "ramp"} /\ Forward(target[n]) \in BOOLEAN
      BY SpeedsAssumption DEF QueueTypes, Forward
    <3>4. control[n] # "idle" => control'[n] = control[n] /\ target'[n] = target[n]
      BY <2>2
    <3>5. control[n] = "down" => ~Forward(target[n])
      BY <3>2 DEF DirectionInv
    <3>6. \A m \in Selected : m # n =>
            LET agrees == (direction'[m] = inverted'[m]) = ~skewed'[m] IN
              /\ control'[m] = "idle" => (agrees <=> Forward(velocity'[m]))
              /\ control'[m] = "down" => (agrees <=> ~Forward(target'[m])) /\ Forward(velocity'[m]) = ~Forward(target'[m])
              /\ control'[m] = "ramp" => (agrees <=> Forward(target'[m]))
      BY <2>2, <2>5 DEF DirectionInv
    <3>7. LET agrees == (direction'[n] = inverted'[n]) = ~skewed'[n] IN
            /\ control[n] = "idle" => (agrees <=> Forward(velocity[n]))
            /\ control[n] = "down" => (agrees <=> ~Forward(target[n])) /\ Forward(velocity[n]) = ~Forward(target[n])
            /\ control[n] = "ramp" => (agrees <=> Forward(target[n]))
      BY <3>1, <3>2, <3>3, <3>5
    <3>8. QED
      BY <2>2, <2>4, <3>6, <3>7 DEF DirectionInv
  <2>7. CASE velocity[n] # 0
    <3>1. direction'[n] = direction[n] /\ skewed'[n] = ~skewed[n]
      BY <2>2, <2>7 DEF DirectionTypes
    <3>2. direction[n] \in BOOLEAN
      BY DEF DirectionTypes
    <3>3. ((direction[n] = inverted[n]) = ~skewed[n]) = ((direction'[n] = inverted'[n]) = ~skewed'[n])
      BY <2>3, <3>1, <3>2
    <3>4. QED
      BY <2>2, <2>4, <2>5, <3>3 DEF DirectionInv
  <2>8. QED
    BY <2>4, <2>6, <2>7
<1>6. QED
  BY <1>1, <1>2, <1>3, <1>4, <1>5
     DEF Next, Mode, Drive, Enter, SetSpeed, Leave, Disable, Left, Rest, RestSpeed,
         Send, Control, vars, controlVars, history

\* A motor settles at the speed last sent to it.
THEOREM SpeedsHold == Spec => []LastSpeedHolds
<1>1. Init => QueueTypes /\ SpeedInv
  BY QueueInit
<1>2. QueueTypes /\ SpeedInv /\ [Next]_vars => (QueueTypes /\ SpeedInv)'
  BY QueueStep, SpeedStep
<1>3. SpeedInv => LastSpeedHolds
  BY DEF SpeedInv, LastSpeedHolds
<1>4. QED
  BY <1>1, <1>2, <1>3, PTL DEF Spec

\* A motor that has settled turns in the direction its configuration and the sign of its
\* speed say, but for the changes of direction that skew it.
THEOREM DirectionsHold == Spec => []DirectionFollowsSign
<1> DEFINE Inv == QueueTypes /\ DirectionTypes /\ DirectionInv
<1>1. Init => Inv
  BY QueueInit, DirectionInit
<1>2. Inv /\ [Next]_vars => Inv'
  BY QueueStep, DirectionStep
<1>3. Inv => DirectionFollowsSign
  <2>1. SUFFICES ASSUME Inv, NEW m \in Selected, Quiet(m)
                 PROVE  ((direction[m] = inverted[m]) = Forward(velocity[m])) = ~skewed[m]
    BY DEF DirectionFollowsSign
  <2>2. /\ direction[m] \in BOOLEAN /\ inverted[m] \in BOOLEAN /\ skewed[m] \in BOOLEAN
        /\ Forward(velocity[m]) \in BOOLEAN
    BY <2>1, SpeedsAssumption DEF QueueTypes, DirectionTypes, Forward
  <2>3. ((direction[m] = inverted[m]) = ~skewed[m]) <=> Forward(velocity[m])
    BY <2>1 DEF DirectionInv, Quiet
  <2>4. QED
    BY <2>2, <2>3
<1>4. QED
  BY <1>1, <1>2, <1>3, PTL DEF Spec

\* While a mode runs every motor is enabled; a motor disabled since has had its speed zero
\* from the menu task, or is about to.
StopInv ==
  /\ mode = "on" => \A m \in Selected : enabled[m]
  /\ sends["menu"] # <<>> /\ mode # "on" =>
       \E n \in Selected :
         /\ sends["menu"] = <<[to |-> n, speed |-> 0]>>
         /\ \A m \in Selected \ {n} : ~enabled[m] /\ author[m] = "menu" => last[m] = 0
  /\ sends["menu"] = <<>> =>
       \A m \in Selected : ~enabled[m] /\ author[m] = "menu" => last[m] = 0

HistoryTypes == enabled \in [Selected -> BOOLEAN] /\ author \in [Selected -> Callers]

\* Stopping: every step keeps it.
LEMMA StopStep ==
  ASSUME QueueTypes, HistoryTypes, StopInv, [Next]_vars
  PROVE  HistoryTypes' /\ StopInv'
<1>1. CASE UNCHANGED <<mode, sends, enabled, last, author>>
  BY <1>1 DEF HistoryTypes, StopInv
<1>2. CASE Enter
  BY <1>2 DEF Enter, history, HistoryTypes, StopInv
<1>3. CASE Drive
  BY <1>3 DEF Drive, SetSpeed, history, HistoryTypes, StopInv
<1>4. CASE RestSpeed
  BY <1>4 DEF RestSpeed, SetSpeed, Callers, history, HistoryTypes, StopInv, QueueTypes
<1>5. CASE Leave \/ Left
  BY <1>5 DEF Leave, Left, history, HistoryTypes, StopInv
<1>6. CASE \E m \in Selected : Disable(m)
  <2>1. PICK n \in Selected : Disable(n)
    BY <1>6
  <2>2. SendsTo({n}, 0) = <<[to |-> n, speed |-> 0]>>
    <3>1. n = "coarse" \/ n = "fine"
      BY SelectedAssumption
    <3> DEFINE z == [to |-> n, speed |-> 0]
    <3>2. <<z>> \o <<>> = <<z>> /\ <<>> \o <<z>> = <<z>>
      <4>1. <<z>> \in Seq({z})
        OBVIOUS
      <4>2. QED
        BY <4>1, ConcatEmptySeq
    <3>3. CASE n = "coarse"
      <4>1. SendsTo({n}, 0) = <<z>> \o <<>>
        BY <3>3 DEF SendsTo
      <4>2. QED
        BY <4>1, <3>2
    <3>4. CASE n = "fine"
      <4>1. SendsTo({n}, 0) = <<>> \o <<z>>
        BY <3>4 DEF SendsTo
      <4>2. QED
        BY <4>1, <3>2
    <3>5. QED
      BY <3>1, <3>3, <3>4
  <2>3. sends'["menu"] = <<[to |-> n, speed |-> 0]>>
    BY <2>1, <2>2 DEF Disable, QueueTypes, Callers
  <2>4. /\ mode = "leave" /\ mode' = mode /\ sends["menu"] = <<>>
        /\ enabled' = [enabled EXCEPT ![n] = FALSE]
        /\ UNCHANGED <<last, author>>
    BY <2>1 DEF Disable, history
  <2>5. \A m \in Selected \ {n} : ~enabled'[m] /\ author'[m] = "menu" => last'[m] = 0
    BY <2>4 DEF HistoryTypes, StopInv
  <2>6. sends'["menu"] # <<>>
    BY <2>3
  <2>7. QED
    BY <2>3, <2>4, <2>5, <2>6 DEF HistoryTypes, StopInv
<1>7. CASE \E c \in Callers : Send(c)
  <2>1. PICK c \in Callers : Send(c)
    BY <1>7
  <2> DEFINE s == Head(sends[c])
  <2>2. s \in Sends
    <3>1. sends[c] \in Seq(Sends) /\ sends[c] # <<>>
      BY <2>1 DEF Send, QueueTypes
    <3>2. QED
      BY <3>1, HeadTailProperties
  <2>3. s.to \in Selected
    BY <2>2 DEF Sends
  <2>4. /\ UNCHANGED <<mode, enabled>>
        /\ last' = [last EXCEPT ![s.to] = s.speed]
        /\ author' = [author EXCEPT ![s.to] = c]
        /\ sends' = [sends EXCEPT ![c] = Tail(@)]
    BY <2>1 DEF Send
  <2>5. HistoryTypes'
    BY <2>3, <2>4 DEF HistoryTypes
  <2>6. CASE c = "rest"
    <3>1. sends'["menu"] = sends["menu"] /\ author'[s.to] = "rest"
      BY <2>3, <2>4, <2>6 DEF QueueTypes, HistoryTypes, Callers
    <3>2. \A m \in Selected : m # s.to => last'[m] = last[m] /\ author'[m] = author[m]
      BY <2>3, <2>4 DEF QueueTypes, HistoryTypes
    <3>3. QED
      BY <2>4, <2>5, <3>1, <3>2 DEF StopInv
  <2>7. CASE c = "menu" /\ mode # "on"
    <3>1. PICK n \in Selected :
            /\ sends["menu"] = <<[to |-> n, speed |-> 0]>>
            /\ \A m \in Selected \ {n} : ~enabled[m] /\ author[m] = "menu" => last[m] = 0
      BY <2>1, <2>7 DEF Send, StopInv
    <3>2. s.to = n /\ s.speed = 0 /\ sends'["menu"] = <<>>
      BY <2>4, <2>7, <3>1 DEF QueueTypes, Callers
    <3>3. last'[n] = 0 /\ \A m \in Selected \ {n} : last'[m] = last[m] /\ author'[m] = author[m]
      BY <2>4, <3>2 DEF QueueTypes, HistoryTypes
    <3>4. QED
      BY <2>4, <2>5, <2>7, <3>1, <3>2, <3>3 DEF StopInv
  <2>8. CASE c = "menu" /\ mode = "on"
    BY <2>4, <2>5, <2>8 DEF StopInv
  <2>9. QED
    BY <2>6, <2>7, <2>8 DEF Callers
<1>8. QED
  BY <1>1, <1>2, <1>3, <1>4, <1>5, <1>6, <1>7
     DEF Next, Mode, Rest, RestDirection, Receive, Turn, Arrive, Control, vars, history

\* A disabled motor is at rest, or coming to rest, unless a REST handler spoke last.
THEOREM DisabledStopped == Spec => []DisabledMeansStopped
<1> DEFINE Inv == QueueTypes /\ SpeedInv /\ HistoryTypes /\ StopInv
<1>1. Init => Inv
  BY QueueInit DEF Init, HistoryTypes, StopInv, Callers
<1>2. Inv /\ [Next]_vars => Inv'
  BY QueueStep, SpeedStep, StopStep
<1>3. Inv => DisabledMeansStopped
  BY DEF SpeedInv, StopInv, DisabledMeansStopped, Quiet
<1>4. QED
  BY <1>1, <1>2, <1>3, PTL DEF Spec

\* The mode, and the room in the queues.
ModeTypes ==
  /\ mode \in {"off", "on", "leave"}
  /\ \A m \in Selected : Len(queue[m]) <= QueueLength

\* A queue never holds more speeds than it has room for.
LEMMA RoomStep ==
  ASSUME QueueTypes, ModeTypes, [Next]_vars
  PROVE  ModeTypes'
<1>1. CASE UNCHANGED <<mode, queue>>
  BY <1>1 DEF ModeTypes
<1>2. CASE Enter \/ Leave \/ Left
  BY <1>2 DEF Enter, Leave, Left, ModeTypes
<1>3. CASE \E c \in Callers : Send(c)
  <2>1. PICK c \in Callers : Send(c)
    BY <1>3
  <2> DEFINE s == Head(sends[c])
  <2>2. s \in Sends
    <3>1. sends[c] \in Seq(Sends) /\ sends[c] # <<>>
      BY <2>1 DEF Send, QueueTypes
    <3>2. QED
      BY <3>1, HeadTailProperties
  <2>3. s.to \in Selected /\ s.speed \in Speeds
    BY <2>2 DEF Sends
  <2>4. queue[s.to] \in Seq(Speeds) /\ Len(queue[s.to]) < QueueLength
    BY <2>1, <2>3 DEF Send, QueueTypes
  <2>5. Len(Append(queue[s.to], s.speed)) = Len(queue[s.to]) + 1 /\ Len(queue[s.to]) \in Nat
    BY <2>3, <2>4, AppendProperties, LenProperties
  <2>6. queue' = [queue EXCEPT ![s.to] = Append(@, s.speed)] /\ mode' = mode
    BY <2>1 DEF Send
  <2>7. QED
    BY <2>3, <2>4, <2>5, <2>6 DEF ModeTypes, QueueTypes, QueueLength
<1>4. CASE \E m \in Selected : Receive(m)
  <2>1. PICK n \in Selected : Receive(n)
    BY <1>4
  <2>2. queue[n] \in Seq(Speeds) /\ queue[n] # <<>>
    BY <2>1 DEF Receive, QueueTypes
  <2>3. Len(Tail(queue[n])) = Len(queue[n]) - 1 /\ Len(queue[n]) \in Nat
    BY <2>2, HeadTailProperties, LenProperties
  <2>4. queue' = [queue EXCEPT ![n] = Tail(@)] /\ mode' = mode
    BY <2>1 DEF Receive
  <2>5. QED
    BY <2>3, <2>4 DEF ModeTypes, QueueTypes, QueueLength
<1>5. QED
  BY <1>1, <1>2, <1>3, <1>4
     DEF Next, Mode, Drive, SetSpeed, Disable, Rest, RestSpeed, RestDirection, Turn, Arrive,
         Control, vars

\* Every variable keeps its type.
THEOREM TypeCorrect == Spec => []TypeOK
<1> DEFINE Inv == QueueTypes /\ DirectionTypes /\ DirectionInv /\ HistoryTypes /\ StopInv /\ ModeTypes
<1>1. Init => Inv
  <2>1. Init => HistoryTypes /\ StopInv
    BY DEF Init, HistoryTypes, StopInv, Callers
  <2>2. Init => ModeTypes
    BY EmptySeq DEF Init, ModeTypes, QueueLength
  <2>3. QED
    BY <2>1, <2>2, QueueInit, DirectionInit
<1>2. Inv /\ [Next]_vars => Inv'
  BY QueueStep, DirectionStep, StopStep, RoomStep
<1>3. Inv => TypeOK
  BY DEF QueueTypes, DirectionTypes, HistoryTypes, ModeTypes, TypeOK, Sends
<1>4. QED
  BY <1>1, <1>2, <1>3, PTL DEF Spec

-----------------------------------------------------------------------------
(* The gate. *)

\* Only the tasks that may wait are ever about to wait or waiting.
WaitersBlock == \A c \in GateCallers : at[c] \in {"send_wait", "wait"} => c \in Blocking

\* The last command is in the queue, being carried out, or carried out.
CommandInv ==
  /\ gateQueue # None => gateQueue = lastRatio
  /\ gateTask = "move" => newRatio \in Ratios
  /\ gateQueue = None /\ gateTask = "move" => newRatio = lastRatio
  /\ gateQueue = None /\ gateTask # "move" =>
       /\ lastRatio \in Ratios => position = lastRatio
       /\ lastRatio \in {"open", "closed", "disabled"} => state = lastRatio

\* Types: the initial state.
LEMMA TypeInit == GateInit => GateTypeOK
BY RatiosAssumption DEF GateInit, GateTypeOK, Commands

\* Types: every step keeps them.
LEMMA TypeStep ==
  ASSUME GateTypeOK, CommandInv, [GateNext]_gateVars
  PROVE  GateTypeOK'
<1>1. CASE \E c \in GateCallers, r \in Commands : SetRatio(c, r)
  BY <1>1 DEF SetRatio, gateControlVars, GateTypeOK
<1>2. CASE \E c \in GateCallers : Overwrite(c)
  <2>1. PICK c \in GateCallers : Overwrite(c)
    BY <1>2
  <2>2. (IF at[c] = "send_wait" THEN "wait" ELSE "idle") \in {"idle", "send", "send_wait", "wait"}
    OBVIOUS
  <2>3. at' \in [GateCallers -> {"idle", "send", "send_wait", "wait"}]
    BY <2>1, <2>2 DEF Overwrite, Sent, GateTypeOK
  <2>4. done' \in BOOLEAN
    BY <2>1 DEF Overwrite, GateTypeOK
  <2>5. QED
    BY <2>1, <2>3, <2>4 DEF Overwrite, gateControlVars, GateTypeOK
<1>3. CASE \E c \in GateCallers : MoveReady(c)
  BY <1>3 DEF MoveReady, gateControlVars, GateTypeOK
<1>4. CASE ReceiveRatio
  <2>1. gateTask' \in {"idle", "move", "give"} /\ newRatio' \in Commands /\ gateQueue' = None
    BY <1>4 DEF ReceiveRatio, GateTypeOK
  <2>2. position' \in Ratios \union {None, "between"} /\ state' \in {"open", "closed", "disabled"}
    BY <1>4 DEF ReceiveRatio, GateTypeOK
  <2>3. QED
    BY <1>4, <2>1, <2>2 DEF ReceiveRatio, gateCallerVars, GateTypeOK
<1>5. CASE EndRamp
  <2>1. done' \in BOOLEAN
    BY <1>5 DEF EndRamp, GateTypeOK
  <2>2. state' \in {"open", "closed", "disabled"}
    BY <1>5 DEF EndRamp, GateTypeOK
  <2>3. newRatio \in Ratios
    BY <1>5 DEF EndRamp, CommandInv
  <2>4. QED
    BY <1>5, <2>1, <2>2, <2>3 DEF EndRamp, gateCallerVars, GateTypeOK
<1>6. CASE Give
  <2>1. done' \in BOOLEAN
    BY <1>6 DEF Give, GateTypeOK
  <2>2. QED
    BY <1>6, <2>1 DEF Give, gateCallerVars, GateTypeOK
<1>7. CASE UNCHANGED gateVars
  BY <1>7 DEF gateVars, gateCallerVars, gateControlVars, GateTypeOK
<1>8. QED
  BY <1>1, <1>2, <1>3, <1>4, <1>5, <1>6, <1>7 DEF GateNext, GateCaller, GateControl

\* No command is lost: the initial state.
LEMMA CommandInit == GateInit => CommandInv
BY NamesAssumption, RatiosAssumption DEF GateInit, CommandInv

\* No command is lost: a command overwrites only one that is older, and the control
\* task ends with the last.
LEMMA CommandStep ==
  ASSUME GateTypeOK, CommandInv, [GateNext]_gateVars
  PROVE  CommandInv'
<1> USE NamesAssumption
<1>1. CASE \E c \in GateCallers, r \in Commands : SetRatio(c, r)
  BY <1>1 DEF SetRatio, gateControlVars, CommandInv
<1>2. CASE \E c \in GateCallers : Overwrite(c)
  <2>1. PICK c \in GateCallers : Overwrite(c)
    BY <1>2
  <2>2. gateQueue' = lastRatio' /\ gateQueue' \in Commands
    BY <2>1 DEF Overwrite, GateTypeOK
  <2>3. QED
    BY <2>1, <2>2 DEF Overwrite, gateControlVars, CommandInv, Commands
<1>3. CASE \E c \in GateCallers : MoveReady(c)
  BY <1>3 DEF MoveReady, gateControlVars, CommandInv
<1>4. CASE ReceiveRatio
  BY <1>4 DEF ReceiveRatio, GateTypeOK, CommandInv, Commands
<1>5. CASE EndRamp
  BY <1>5 DEF EndRamp, CommandInv
<1>6. CASE Give
  BY <1>6 DEF Give, CommandInv
<1>7. CASE UNCHANGED gateVars
  BY <1>7 DEF gateVars, gateControlVars, CommandInv
<1>8. QED
  BY <1>1, <1>2, <1>3, <1>4, <1>5, <1>6, <1>7 DEF GateNext, GateCaller, GateControl

\* Waiting: the initial state.
LEMMA WakeupInit == GateInit => WaitersBlock /\ NoLostWakeup
BY DEF GateInit, WaitersBlock, NoLostWakeup

\* Only a task that may wait comes to wait.
LEMMA WaitersStep ==
  ASSUME GateTypeOK, WaitersBlock, [GateNext]_gateVars
  PROVE  WaitersBlock'
<1>1. CASE \E c \in GateCallers, r \in Commands : SetRatio(c, r)
  BY <1>1 DEF SetRatio, GateTypeOK, WaitersBlock
<1>2. CASE \E c \in GateCallers : Overwrite(c)
  <2>1. PICK d \in GateCallers : Overwrite(d)
    BY <1>2
  <2>2. at[d] = "send_wait" \/ at'[d] = "idle"
    BY <2>1 DEF Overwrite, Sent, GateTypeOK
  <2>3. \A c \in GateCallers : c # d => at'[c] = at[c]
    BY <2>1 DEF Overwrite, Sent, GateTypeOK
  <2>4. QED
    BY <2>2, <2>3 DEF WaitersBlock
<1>3. CASE \E c \in GateCallers : MoveReady(c)
  BY <1>3 DEF MoveReady, GateTypeOK, WaitersBlock
<1>4. CASE GateControl
  BY <1>4 DEF GateControl, ReceiveRatio, EndRamp, Give, gateCallerVars, WaitersBlock
<1>5. CASE UNCHANGED gateVars
  BY <1>5 DEF gateVars, gateCallerVars, WaitersBlock
<1>6. QED
  BY <1>1, <1>2, <1>3, <1>4, <1>5 DEF GateNext, GateCaller

\* A signal that is taken was waited for, and by nobody else; one that is emptied is
\* emptied by a task about to send a command of its own.
LEMMA WakeupStep ==
  ASSUME GateTypeOK, WaitersBlock, NoLostWakeup, [GateNext]_gateVars
  PROVE  NoLostWakeup'
<1>1. CASE \E c \in GateCallers, r \in Commands : SetRatio(c, r)
  <2>1. PICK d \in GateCallers : \E r \in Commands : SetRatio(d, r)
    BY <1>1
  <2>2. Sending(d)'
    BY <2>1 DEF SetRatio, Sending, GateTypeOK
  <2>3. QED
    BY <2>2 DEF NoLostWakeup
<1>2. CASE \E c \in GateCallers : Overwrite(c)
  <2>1. gateQueue' # None
    BY <1>2, NamesAssumption DEF Overwrite, GateTypeOK, Commands
  <2>2. QED
    BY <2>1 DEF NoLostWakeup
<1>3. CASE \E c \in GateCallers : MoveReady(c)
  <2>1. PICK d \in GateCallers : MoveReady(d)
    BY <1>3
  <2>2. \A c \in GateCallers : at[c] = "wait" => c = d
    BY <2>1, BlockingAssumption DEF MoveReady, WaitersBlock
  <2>3. \A c \in GateCallers : at'[c] # "wait"
    BY <2>1, <2>2 DEF MoveReady, GateTypeOK
  <2>4. QED
    BY <2>3 DEF NoLostWakeup
<1>4. CASE ReceiveRatio
  <2>1. gateTask' # "idle"
    BY <1>4 DEF ReceiveRatio
  <2>2. QED
    BY <2>1 DEF NoLostWakeup
<1>5. CASE EndRamp
  <2>1. gateTask' # "idle"
    BY <1>5 DEF EndRamp
  <2>2. QED
    BY <2>1 DEF NoLostWakeup
<1>6. CASE Give
  <2>1. sem'
    BY <1>6 DEF Give
  <2>2. QED
    BY <2>1 DEF NoLostWakeup
<1>7. CASE UNCHANGED gateVars
  BY <1>7 DEF gateVars, gateCallerVars, gateControlVars, NoLostWakeup, Sending
<1>8. QED
  BY <1>1, <1>2, <1>3, <1>4, <1>5, <1>6, <1>7 DEF GateNext, GateCaller, GateControl

\* Every variable holds a value the code can give it.
THEOREM GateTypeCorrect == GateSpec => []GateTypeOK
<1>1. GateInit => GateTypeOK /\ CommandInv
  BY TypeInit, CommandInit
<1>2. GateTypeOK /\ CommandInv /\ [GateNext]_gateVars => (GateTypeOK /\ CommandInv)'
  BY TypeStep, CommandStep
<1>3. QED
  BY <1>1, <1>2, PTL DEF GateSpec

\* When the queue is empty and the control task idle, the gate is where the last
\* command put it, and reported so.
THEOREM CommandsHold == GateSpec => []LastCommandHolds
<1>1. GateInit => GateTypeOK /\ CommandInv
  BY TypeInit, CommandInit
<1>2. GateTypeOK /\ CommandInv /\ [GateNext]_gateVars => (GateTypeOK /\ CommandInv)'
  BY TypeStep, CommandStep
<1>3. CommandInv => LastCommandHolds
  BY DEF CommandInv, LastCommandHolds
<1>4. QED
  BY <1>1, <1>2, <1>3, PTL DEF GateSpec

\* A caller that waits has a signal coming.
THEOREM WakeupsComing == GateSpec => []NoLostWakeup
<1> DEFINE Inv == GateTypeOK /\ CommandInv /\ WaitersBlock /\ NoLostWakeup
<1>1. GateInit => Inv
  BY TypeInit, CommandInit, WakeupInit
<1>2. Inv /\ [GateNext]_gateVars => Inv'
  BY TypeStep, CommandStep, WaitersStep, WakeupStep
<1>3. QED
  BY <1>1, <1>2, PTL DEF GateSpec

=============================================================================
