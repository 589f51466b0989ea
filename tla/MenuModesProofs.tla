--------------------------- MODULE MenuModesProofs ---------------------------
(***************************************************************************)
(* The menu task, its modes and the REST handlers that ask for one, for any *)
(* length of the event queue and any set of requests: the queue never holds *)
(* more than its length, and once an abort of the tuning is asked for at    *)
(* most one more throw begins.  Why not two: the one that begins after the  *)
(* abort cannot have looked for it yet, cannot end before it looks, and the *)
(* first look finds the abort.                                              *)
(***************************************************************************)
EXTENDS MenuModes, SequenceTheorems, TLAPS

\* What a handler is about to do with an event.
Rests == [at : Steps, event : Events, then : Thens]

\* The queue holds events, no more than fit.
QueueTypes(q) == q \in Seq(Events) /\ Len(q) <= QueueLen

\* A throw begun since the abort has not looked for it, and is the only one.
LateInv == late = 0 \/ (late = 1 /\ abort /\ menu = "throw" /\ ~polled)

-----------------------------------------------------------------------------
(* The queue. *)

\* What is taken from the queue leaves a queue.
LEMMA ConsumeTypes ==
  ASSUME QueueTypes(queue), Consume
  PROVE  QueueTypes(queue') /\ Head(queue) \in Events
<1> USE DEF QueueTypes, Consume
<1>1. queue \in Seq(Events) /\ queue # <<>>
  OBVIOUS
<1>2. Tail(queue) \in Seq(Events) /\ Len(Tail(queue)) = Len(queue) - 1 /\ Head(queue) \in Events
  BY <1>1, HeadTailProperties
<1>3. Len(queue) \in Nat /\ QueueLen \in Nat
  BY LenProperties, QueueAssumption
<1> QED
  BY <1>2, <1>3

\* What is sent while there is room leaves a queue.
LEMMA AppendTypes ==
  ASSUME QueueTypes(queue), Len(queue) < QueueLen, NEW e \in Events
  PROVE  QueueTypes(Append(queue, e))
<1> USE DEF QueueTypes
<1>1. Append(queue, e) \in Seq(Events) /\ Len(Append(queue, e)) = Len(queue) + 1
  BY AppendProperties
<1>2. Len(queue) \in Nat /\ QueueLen \in Nat
  BY LenProperties, QueueAssumption
<1> QED
  BY <1>1, <1>2

-----------------------------------------------------------------------------
(* The types. *)

\* A request leaves its count within the bound.
LEMMA AskTypes ==
  ASSUME TypeOK, NEW kind, Ask(kind)
  PROVE  requests' \in 0..MaxRequests
BY BoundsAssumption DEF TypeOK, Ask

\* What a handler sends is a record of its state.
LEMMA SendTypes ==
  ASSUME NEW e \in Events, NEW then \in Thens
  PROVE  /\ [at |-> "send", event |-> e, then |-> then] \in Rests
         /\ [at |-> "send_for_ever", event |-> e, then |-> then] \in Rests
         /\ Idle \in Rests
         /\ [Idle EXCEPT !.at = "charge_enter"] \in Rests
BY DEF Rests, Steps, Events, Thens, Idle

\* Every variable has its type and the queue its length.
LEMMA TypeInit == Init => TypeOK
<1> SUFFICES ASSUME Init PROVE TypeOK
  OBVIOUS
<1>1. <<>> \in Seq(Events) /\ Len(<<>>) = 0
  BY EmptySeq
<1>2. 0 \in 0..MaxRequests /\ 0 \in 0..MaxLate /\ QueueLen \in Nat
  BY BoundsAssumption, QueueAssumption
<1>3. rest \in Rests
  BY DEF Init, Idle, Rests, Steps, Events, Thens
<1>4. queue \in Seq(Events) /\ Len(queue) <= QueueLen
  BY <1>1, <1>2 DEF Init
<1>5. requests \in 0..MaxRequests /\ late \in 0..MaxLate
  BY <1>2 DEF Init
<1> QED
  BY <1>3, <1>4, <1>5 DEF Init, TypeOK, Rests, Places, Goals

\* Every step of the menu task keeps the types.
LEMMA TypeMenu == TypeOK /\ MenuStep => TypeOK'
<1> SUFFICES ASSUME TypeOK, MenuStep PROVE TypeOK'
  OBVIOUS
<1>1. QueueTypes(queue)
  BY DEF TypeOK, QueueTypes
<1>2. Consume => QueueTypes(queue')
  BY <1>1, ConsumeTypes
<1>3. queue' = queue => QueueTypes(queue')
  BY <1>1 DEF QueueTypes
<1>4. 0 \in 0..MaxLate /\ \A n \in 0..MaxLate : n < MaxLate => n + 1 \in 0..MaxLate
  BY BoundsAssumption
<1> USE DEF QueueTypes, TypeOK, Goto, flags, tuneFlags, Places, Goals
<1>5. CASE FormEvent
  BY <1>5, <1>2 DEF FormEvent
<1>6. CASE Dispatch
  BY <1>6, <1>3 DEF Dispatch
<1>7. CASE Return
  BY <1>7, <1>3 DEF Return
<1>8. CASE InfoEvent
  BY <1>8, <1>2 DEF InfoEvent
<1>9. CASE EnterCharge
  BY <1>9, <1>3 DEF EnterCharge
<1>10. CASE ChargeReady
  BY <1>10, <1>3 DEF ChargeReady
<1>11. CASE ChargeEvent
  BY <1>11, <1>2 DEF ChargeEvent
<1>12. CASE LeaveCharge
  BY <1>12, <1>3 DEF LeaveCharge
<1>13. CASE EnterCleanup
  BY <1>13, <1>3 DEF EnterCleanup
<1>14. CASE CleanupEvent
  BY <1>14, <1>2 DEF CleanupEvent
<1>15. CASE BeginRun
  BY <1>15, <1>3, <1>4 DEF BeginRun
<1>16. CASE CheckAbort
  <2>1. QueueTypes(queue')
    BY <1>16, <1>3, <1>2 DEF CheckAbort
  <2> QED
    BY <1>16, <2>1, <1>4 DEF CheckAbort, Stopped
<1>17. CASE StartThrow
  BY <1>17, <1>3, <1>4 DEF StartThrow
<1>18. CASE EndThrow
  BY <1>18, <1>3 DEF EndThrow
<1>19. CASE EndLadder
  BY <1>19, <1>3, <1>4 DEF EndLadder
<1>20. CASE ScreenEvent
  BY <1>20, <1>2 DEF ScreenEvent
<1>21. CASE Close
  BY <1>21, <1>3 DEF Close
<1> QED
  BY <1>5, <1>6, <1>7, <1>8, <1>9, <1>10, <1>11, <1>12, <1>13, <1>14, <1>15, <1>16, <1>17, <1>18,
     <1>19, <1>20, <1>21 DEF MenuStep

\* What is not the menu task's: the handlers, and a hand on the buttons.
Handlers ==
  RestStep \/ AskCharge \/ ChargeExit \/ CleanupEnter \/ CleanupExit \/ TuneStart \/ TuneAbort
    \/ TuneExit \/ Button

\* Every step of theirs keeps the types.
LEMMA TypeRest == TypeOK /\ Handlers => TypeOK'
<1> SUFFICES ASSUME TypeOK, Handlers PROVE TypeOK'
  OBVIOUS
<1>1. QueueTypes(queue)
  BY DEF TypeOK, QueueTypes
<1>2. queue' = queue => QueueTypes(queue')
  BY <1>1 DEF QueueTypes
<1>3. ASSUME NEW e \in Events, Len(queue) < QueueLen, queue' = Append(queue, e)
      PROVE  QueueTypes(queue')
  BY <1>1, <1>3, AppendTypes
<1>4. \A kind : Ask(kind) => requests' \in 0..MaxRequests
  BY AskTypes
<1>5. /\ {"RST", "OVERRIDE", "PRESS", "TURN"} \subseteq Events
      /\ {"none", "charge_exit", "EXIT", "ENTER"} \subseteq Thens
  BY DEF Events, Thens
<1>6. \A e \in Events, then \in Thens :
        Send(e, then) \/ SendForEver(e, then) => rest' \in Rests
  BY SendTypes DEF Send, SendForEver
<1>7. rest' \in {rest, Idle, [Idle EXCEPT !.at = "charge_enter"]} =>
        rest' \in Rests
  BY <1>5, SendTypes DEF TypeOK, Rests
<1> USE DEF QueueTypes, Rests, TypeOK, flags, tuneFlags, Goals
<1>8. CASE ChargeEnter
  <2>1. rest' \in Rests
    BY <1>8, <1>5, <1>6, <1>7 DEF ChargeEnter
  <2> QED
    BY <1>8, <2>1, <1>2 DEF ChargeEnter
<1>9. CASE Sent
  <2>1. rest.event \in Events
    OBVIOUS
  <2>2. QueueTypes(queue')
    BY <1>9, <2>1, <1>3 DEF Sent
  <2> QED
    BY <1>9, <2>2, <1>7 DEF Sent, Continue
<1>10. CASE TimedOut
  BY <1>10, <1>2, <1>7 DEF TimedOut, Continue
<1>11. CASE AskCharge
  BY <1>11, <1>2, <1>7, <1>4 DEF AskCharge
<1>12. CASE ChargeExit
  <2>1. rest' \in Rests
    BY <1>12, <1>5, <1>6, <1>7 DEF ChargeExit
  <2>2. requests' \in 0..MaxRequests
    BY <1>12, <1>4 DEF ChargeExit
  <2> QED
    BY <1>12, <2>1, <2>2, <1>2 DEF ChargeExit
<1>13. CASE CleanupEnter
  <2>1. rest' \in Rests
    BY <1>13, <1>5, <1>6 DEF CleanupEnter
  <2>2. requests' \in 0..MaxRequests
    BY <1>13, <1>4 DEF CleanupEnter
  <2> QED
    BY <1>13, <2>1, <2>2, <1>2 DEF CleanupEnter
<1>14. CASE CleanupExit
  <2>1. rest' \in Rests
    BY <1>14, <1>5, <1>6 DEF CleanupExit
  <2>2. requests' \in 0..MaxRequests
    BY <1>14, <1>4 DEF CleanupExit
  <2> QED
    BY <1>14, <2>1, <2>2, <1>2 DEF CleanupExit
<1>15. CASE TuneStart
  <2>1. rest' \in Rests
    BY <1>15, <1>5, <1>6 DEF TuneStart
  <2>2. requests' \in 0..MaxRequests
    BY <1>15, <1>4 DEF TuneStart
  <2> QED
    BY <1>15, <2>1, <2>2, <1>2 DEF TuneStart
<1>16. CASE TuneAbort
  BY <1>16, <1>2, <1>7, <1>4 DEF TuneAbort
<1>17. CASE TuneExit
  <2>1. rest' \in Rests
    BY <1>17, <1>5, <1>6 DEF TuneExit
  <2>2. requests' \in 0..MaxRequests
    BY <1>17, <1>4 DEF TuneExit
  <2> QED
    BY <1>17, <2>1, <2>2, <1>2 DEF TuneExit
<1>18. CASE Button
  <2>1. QueueTypes(queue')
    BY <1>18, <1>5, <1>3 DEF Button
  <2> QED
    BY <1>18, <2>1, <1>7, <1>4 DEF Button
<1> QED
  BY <1>8, <1>9, <1>10, <1>11, <1>12, <1>13, <1>14, <1>15, <1>16, <1>17, <1>18
  DEF Handlers, RestStep

\* So every step keeps the types.
LEMMA TypeStep == TypeOK /\ [Next]_vars => TypeOK'
<1>1. CASE Next
  BY <1>1, TypeMenu, TypeRest DEF Next, Handlers
<1>2. CASE UNCHANGED vars
  BY <1>2 DEF vars, flags, tuneFlags, TypeOK
<1> QED
  BY <1>1, <1>2

\* Every variable has its type, and the event queue holds events, no more than fit,
\* whoever sends to it and whichever mode reads it (menu.c:99, rest_pid_autotune.c:171).
THEOREM TypeCorrect == Spec => []TypeOK
<1> QED
  BY TypeInit, TypeStep, PTL DEF Spec

-----------------------------------------------------------------------------
(* An abort ends the ladder. *)

\* The throw that may still begin after an abort is the only one: no step begins a
\* second before the first has looked.
LEMMA LateStep == TypeOK /\ LateInv /\ [Next]_vars => LateInv'
<1> SUFFICES ASSUME TypeOK, LateInv, [Next]_vars PROVE LateInv'
  OBVIOUS
<1>1. abort \in BOOLEAN /\ polled \in BOOLEAN
  BY DEF TypeOK
<1> USE DEF LateInv, Goto, tuneFlags, flags
<1>2. CASE FormEvent \/ Dispatch \/ Return \/ InfoEvent
  BY <1>2 DEF FormEvent, Dispatch, Return, InfoEvent
<1>3. CASE EnterCharge \/ ChargeReady \/ ChargeEvent \/ LeaveCharge
  BY <1>3 DEF EnterCharge, ChargeReady, ChargeEvent, LeaveCharge
<1>4. CASE EnterCleanup \/ CleanupEvent
  BY <1>4 DEF EnterCleanup, CleanupEvent
<1>5. CASE BeginRun
  BY <1>5 DEF BeginRun
<1>6. CASE CheckAbort
  <2>1. CASE abort
    BY <1>6, <2>1 DEF CheckAbort
  <2>2. CASE ~abort
    BY <1>6, <2>2 DEF CheckAbort
  <2> QED
    BY <2>1, <2>2
<1>7. CASE StartThrow
  <2>1. late = 0 /\ late < MaxLate
    BY <1>7, BoundsAssumption DEF StartThrow
  <2> QED
    BY <1>7, <2>1 DEF StartThrow
<1>8. CASE EndThrow
  BY <1>8 DEF EndThrow
<1>9. CASE EndLadder
  BY <1>9 DEF EndLadder
<1>10. CASE ScreenEvent \/ Close
  BY <1>10 DEF ScreenEvent, Close
<1>11. CASE ChargeEnter \/ Sent \/ TimedOut
  BY <1>11 DEF ChargeEnter, Sent, TimedOut, Continue
<1>12. CASE AskCharge \/ ChargeExit \/ CleanupEnter \/ CleanupExit
  BY <1>12 DEF AskCharge, ChargeExit, CleanupEnter, CleanupExit
<1>13. CASE TuneStart \/ TuneAbort \/ TuneExit \/ Button
  BY <1>13 DEF TuneStart, TuneAbort, TuneExit, Button
<1>14. CASE UNCHANGED vars
  BY <1>14 DEF vars
<1> QED
  BY <1>2, <1>3, <1>4, <1>5, <1>6, <1>7, <1>8, <1>9, <1>10, <1>11, <1>12, <1>13, <1>14
  DEF Next, MenuStep, RestStep

\* After an abort is asked for at most the throw that was about to begin still begins,
\* whenever the request falls and whatever else is in the queue (pid_autotune.cpp:171,
\* 288-352).
THEOREM AbortStops == Spec => []AbortStopsLadder
<1>1. Init => LateInv
  BY DEF Init, LateInv
<1>2. LateInv => AbortStopsLadder
  BY DEF LateInv, AbortStopsLadder
<1> QED
  BY <1>1, <1>2, LateStep, TypeCorrect, PTL DEF Spec

=============================================================================
