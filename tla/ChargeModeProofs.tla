-------------------------- MODULE ChargeModeProofs --------------------------
(***************************************************************************)
(* Proofs about ChargeMode, for every length of the event queue and every  *)
(* failure limit.  The first theorems hold for every setting of the        *)
(* switches and any REST commands; then come those that hold for some      *)
(* settings, which they name, and last that charge mode implements the     *)
(* cycle of ChargeCycle.                                                   *)
(*                                                                         *)
(* Every invariant is proved the same way: one lemma for each group of     *)
(* actions, one step of it for each action.                                *)
(***************************************************************************)
EXTENDS ChargeMode, TLAPS

USE DEF menuVars, driveVars, chargeVars, Goto, Wait, Advance, ReturnTo, Command, SetGate,
        Poll, Motors, Stopped

-----------------------------------------------------------------------------
(* Types. *)

\* A poll leaves a queue of events no longer than the one it found.
LEMMA PolledData ==
  ASSUME DataOK PROVE Polled \in Seq(Events) /\ Len(Polled) <= QueueLen
<1>1. queue \in Seq(Events) /\ Len(queue) <= QueueLen /\ QueueLen \in Nat
  BY QueueLenAssumption DEF DataOK
<1>2. CASE queue = <<>>  BY <1>1, <1>2 DEF Polled
<1>3. CASE queue # <<>>
  <2>1. Tail(queue) \in Seq(Events) /\ Len(Tail(queue)) = Len(queue) - 1
    BY <1>1, <1>3
  <2>. QED  BY <1>1, <1>3, <2>1 DEF Polled
<1>. QED  BY <1>2, <1>3

\* A send never makes the queue longer than it may be.
LEMMA PushedData ==
  ASSUME NEW q \in Seq(Events), Len(q) <= QueueLen, NEW e \in Events
  PROVE  Pushed(q, e) \in Seq(Events) /\ Len(Pushed(q, e)) <= QueueLen
BY QueueLenAssumption DEF Pushed

\* emergency_exit keeps the types, wherever it is called from.
LEMMA EmergencyExitData ==
  ASSUME DataOK, NEW q \in Seq(Events), Len(q) <= QueueLen, EmergencyExit(q),
         pc' \in Labels, after' \in Labels
  PROVE  DataOK'
<1>1. Pushed(q, "RST") \in Seq(Events) /\ Len(Pushed(q, "RST")) <= QueueLen
  BY PushedData DEF Events
<1>2. /\ queue' \in Seq(Events) /\ Len(queue') <= QueueLen
      /\ session' \in {"idle", "running", "complete", "error"}
  BY <1>1 DEF EmergencyExit, CancelSample, DataOK
<1>. QED  BY <1>2 DEF EmergencyExit, DataOK

\* The button poll of a dispensing loop keeps the types.
LEMMA PollOrAbortData ==
  ASSUME DataOK, NEW here, NEW in \in Labels, NEW out \in Labels, PollOrAbort(here, in, out)
  PROVE  DataOK'
<1>1. CASE EmergencyExit(Polled) /\ Goto(out)
  BY <1>1, PolledData, EmergencyExitData DEF DataOK
<1>2. CASE Poll /\ Goto(in) /\ UNCHANGED <<cmState, menuActive, exitState, driveVars,
                                          chargeVars, session, rest, abort>>
  BY <1>2, PolledData DEF DataOK
<1>. QED  BY <1>1, <1>2 DEF PollOrAbort

\* A failed scale read keeps the types and the failure count below its limit.
LEMMA ScaleFailsData ==
  ASSUME DataOK, NEW again \in Labels, ScaleFails(again)
  PROVE  DataOK'
<1>1. "loop" \in Labels  BY DEF Labels, MenuLabels
<1>2. CASE /\ fails + 1 < FailLimit /\ fails' = fails + 1 /\ Goto(again)
           /\ UNCHANGED <<cmState, exitState, driveVars, controller, stage, pending, queue,
                          session, rest, abort>>
  BY <1>2, FailLimitAssumption DEF DataOK
<1>3. CASE EmergencyExit(queue) /\ Goto("loop")
  BY <1>1, <1>3, EmergencyExitData DEF DataOK
<1>. QED  BY <1>2, <1>3 DEF ScaleFails

\* The steps around a charge keep the types of the data.
LEMMA DataCycleStep ==
  ASSUME DataOK, CycleStep PROVE DataOK'
<1>. USE DEF Labels, PidLabels, AdaptiveLabels, AiLabels, WaitLabels, MenuLabels, CupLabels
<1>1. CASE MenuForm  BY <1>1, PolledData DEF MenuForm, DataOK
<1>2. CASE Dispatch  BY <1>2 DEF Dispatch, DataOK
<1>3. CASE Enter  BY <1>3 DEF Enter, DataOK
<1>4. CASE Loop  BY <1>4 DEF Loop, PhaseOf, DataOK
<1>5. CASE Quit  BY <1>5 DEF Quit, DataOK
<1>6. CASE Leave  BY <1>6 DEF Leave, DataOK
<1>7. CASE ZeroPoll  BY <1>7, PolledData DEF ZeroPoll, DataOK
<1>8. CASE ZeroSample  BY <1>8 DEF ZeroSample, DataOK
<1>9. CASE StabilizeSalvages  BY <1>9 DEF StabilizeSalvages, StabilizeUnchanged, DataOK
<1>10. CASE StabilizeSettles  BY <1>10 DEF StabilizeSettles, StabilizeUnchanged, DataOK
<1>11. CASE SalvagePoll  BY <1>11, PolledData DEF SalvagePoll, DataOK
<1>12. CASE Stabilized  BY <1>12 DEF Stabilized, DataOK
<1>13. CASE Record  BY <1>13 DEF Record, AfterRemoval, DataOK
<1>14. CASE AiTare  BY <1>14, PolledData DEF AiTare, AfterRemoval, DataOK
<1>15. CASE AiTared  BY <1>15 DEF AiTared, AfterRemoval, DataOK
<1>16. CASE RemovalPoll  BY <1>16, PolledData DEF RemovalPoll, AfterRemoval, DataOK
<1>17. CASE RemovalSample
  <2>1. pending' \in SUBSET {"ai", "ml", "ltl"}  BY <1>17 DEF RemovalSample, DataOK
  <2>. QED  BY <1>17, <2>1 DEF RemovalSample, AfterRemoval, DataOK
<1>18. CASE ReturnPoll  BY <1>18, PolledData DEF ReturnPoll, DataOK
<1>19. CASE ReturnSample  BY <1>19 DEF ReturnSample, DataOK
<1>. QED  BY <1>1, <1>2, <1>3, <1>4, <1>5, <1>6, <1>7, <1>8, <1>9, <1>10, <1>11, <1>12, <1>13,
          <1>14, <1>15, <1>16, <1>17, <1>18, <1>19 DEF CycleStep

\* The steps the controllers share keep the types of the data.
LEMMA DataChargeStep ==
  ASSUME DataOK, ChargeStep PROVE DataOK'
<1>. USE DEF Labels, PidLabels, AdaptiveLabels, AiLabels, WaitLabels, MenuLabels, CupLabels
<1>1. CASE Begin  BY <1>1, FailLimitAssumption DEF Begin, ResetCharge, DataOK
<1>2. CASE CoarseReverseWait  BY <1>2, PolledData DEF CoarseReverseWait, DataOK
<1>3. CASE FineReverseWait  BY <1>3, PolledData DEF FineReverseWait, DataOK
<1>4. CASE Settle
  <2>1. CASE EmergencyExit(Polled) /\ Goto(after)
    BY <2>1, PolledData, EmergencyExitData DEF DataOK
  <2>2. CASE Poll /\ (Goto("settle") \/ Goto(after))
             /\ UNCHANGED <<cmState, exitState, driveVars, chargeVars, session, rest, abort>>
    BY <2>2, PolledData DEF DataOK
  <2>. QED  BY <1>4, <2>1, <2>2 DEF Settle
<1>5. CASE Finish
  <2>1. pending' \in SUBSET {"ai", "ml", "ltl"}  BY <1>5 DEF Finish, RecordsCharge, DataOK
  <2>. QED  BY <1>5, <2>1 DEF Finish, DataOK
<1>6. CASE PrechargeEnd  BY <1>6 DEF PrechargeEnd, DataOK
<1>7. CASE Finished  BY <1>7 DEF Finished, DataOK
<1>. QED  BY <1>1, <1>2, <1>3, <1>4, <1>5, <1>6, <1>7 DEF ChargeStep

\* The steps of the PID controller and of manual finish keep the types of the data.
LEMMA DataPidStep ==
  ASSUME DataOK, PidStep PROVE DataOK'
<1>. USE DEF Labels, PidLabels, AdaptiveLabels, AiLabels, WaitLabels, MenuLabels, CupLabels
<1>1. CASE PidPoll  BY <1>1, PollOrAbortData DEF PidPoll
<1>2. CASE PidSampleFails  BY <1>2, ScaleFailsData DEF PidSampleFails
<1>3. CASE PidHandsOver  BY <1>3, FailLimitAssumption DEF PidHandsOver, DataOK
<1>4. CASE PidReachesFineStop
  <2>1. pending' \in SUBSET {"ai", "ml", "ltl"}  BY <1>4 DEF PidReachesFineStop, DataOK
  <2>. QED  BY <1>4, <2>1, FailLimitAssumption DEF PidReachesFineStop, FineReverseThen, DataOK
<1>5. CASE PidReachesCoarseStop
  BY <1>5, FailLimitAssumption
  DEF PidReachesCoarseStop, MarkCoarseStop, DataOK
<1>6. CASE PidKeepsOn  BY <1>6, FailLimitAssumption DEF PidKeepsOn, DataOK
<1>7. CASE PidDrive  BY <1>7 DEF PidDrive, DataOK
<1>8. CASE PulsePoll  BY <1>8, PollOrAbortData DEF PulsePoll
<1>9. CASE PulseOn  BY <1>9 DEF PulseOn, DataOK
<1>10. CASE PulseWaitPoll  BY <1>10, PollOrAbortData DEF PulseWaitPoll
<1>11. CASE PulseOff  BY <1>11 DEF PulseOff, DataOK
<1>12. CASE ManualPoll  BY <1>12, PollOrAbortData DEF ManualPoll
<1>13. CASE ManualSampleFails  BY <1>13, ScaleFailsData DEF ManualSampleFails
<1>14. CASE ManualSample
  BY <1>14, FailLimitAssumption
  DEF ManualSample, FineReverseThen, DataOK
<1>15. CASE ManualEnd  BY <1>15 DEF ManualEnd, DataOK
<1>. QED  BY <1>1, <1>2, <1>3, <1>4, <1>5, <1>6, <1>7, <1>8, <1>9, <1>10, <1>11, <1>12, <1>13,
          <1>14, <1>15 DEF PidStep

\* The steps of the adaptive controller keep the types of the data.
LEMMA DataAdaptiveStep ==
  ASSUME DataOK, AdaptiveStep PROVE DataOK'
<1>. USE DEF Labels, PidLabels, AdaptiveLabels, AiLabels, WaitLabels, MenuLabels, CupLabels
<1>1. CASE AdaptivePoll  BY <1>1, PollOrAbortData DEF AdaptivePoll
<1>2. CASE AdaptiveSampleFails  BY <1>2, ScaleFailsData DEF AdaptiveSampleFails
<1>3. CASE BulkDrive  BY <1>3, FailLimitAssumption DEF BulkDrive, DataOK
<1>4. CASE BulkRunPoll  BY <1>4, PollOrAbortData DEF BulkRunPoll
<1>5. CASE BulkRunAgain  BY <1>5 DEF BulkRunAgain, DataOK
<1>6. CASE CoarseHandoff
  BY <1>6, FailLimitAssumption
  DEF CoarseHandoff, MarkCoarseStop, DataOK
<1>7. CASE CoarseHandoffSettles  BY <1>7 DEF CoarseHandoffSettles, DataOK
<1>8. CASE BulkSettled  BY <1>8 DEF BulkSettled, DataOK
<1>9. CASE BulkDrained  BY <1>9 DEF BulkDrained, ReturnIfExit, DataOK
<1>10. CASE TrimSettled  BY <1>10 DEF TrimSettled, ReturnIfExit, DataOK
<1>11. CASE Glide  BY <1>11 DEF Glide, DataOK
<1>12. CASE TrimDrive  BY <1>12, FailLimitAssumption DEF TrimDrive, DataOK
<1>13. CASE FineDecision  BY <1>13, FailLimitAssumption DEF FineDecision, DataOK
<1>14. CASE MarginSettled  BY <1>14 DEF MarginSettled, ReturnIfExit, DataOK
<1>15. CASE TailWatch  BY <1>15 DEF TailWatch, DataOK
<1>16. CASE FineSettled  BY <1>16 DEF FineSettled, ReturnIfExit, DataOK
<1>17. CASE FineVerdict  BY <1>17 DEF FineVerdict, DataOK
<1>18. CASE DoseReserve  BY <1>18 DEF DoseReserve, LoseAbort, DataOK
<1>19. CASE DosePoll  BY <1>19, PollOrAbortData DEF DosePoll
<1>20. CASE DoseOn  BY <1>20 DEF DoseOn, DataOK
<1>21. CASE DoseWatch  BY <1>21 DEF DoseWatch, DataOK
<1>22. CASE DoseSettled  BY <1>22 DEF DoseSettled, ReturnIfExit, DataOK
<1>. QED  BY <1>1, <1>2, <1>3, <1>4, <1>5, <1>6, <1>7, <1>8, <1>9, <1>10, <1>11, <1>12, <1>13,
          <1>14, <1>15, <1>16, <1>17, <1>18, <1>19, <1>20, <1>21, <1>22 DEF AdaptiveStep

\* The steps of an AI sample keep the types of the data.
LEMMA DataAiStep ==
  ASSUME DataOK, AiStep PROVE DataOK'
<1>. USE DEF Labels, PidLabels, AdaptiveLabels, AiLabels, WaitLabels, MenuLabels, CupLabels
<1>1. CASE AiPlan
  <2>1. CASE session = "running"
    <3>1. speed' \in [Motors -> {"stop", "fwd", "rev"}]  BY <1>1, <2>1 DEF AiPlan, DataOK
    <3>2. pc' = "ai_run" /\ UNCHANGED <<after, cmState, exitState, gate, chargeVars, queue,
                                        session, rest, abort>>
      BY <1>1, <2>1 DEF AiPlan
    <3>. QED  BY <3>1, <3>2 DEF DataOK
  <2>2. CASE EmergencyExit(queue) /\ Goto("loop")
    BY <2>2, EmergencyExitData DEF DataOK
  <2>. QED  BY <1>1, <2>1, <2>2 DEF AiPlan
<1>2. CASE AiRunPoll  BY <1>2, PollOrAbortData DEF AiRunPoll
<1>3. CASE AiRunOn  BY <1>3 DEF AiRunOn, DataOK
<1>4. CASE AiStop  BY <1>4 DEF AiStop, MarkCoarseStop, DataOK
<1>. QED  BY <1>1, <1>2, <1>3, <1>4 DEF AiStep

\* The steps of the REST handlers keep the types of the data.
LEMMA DataRestStep ==
  ASSUME DataOK, RestStep PROVE DataOK'
<1>1. CASE RestExit  BY <1>1 DEF RestExit, RestUnchanged, DataOK, RestLabels
<1>2. CASE RestExitSend
  BY <1>2, PushedData
  DEF RestExitSend, RestSend, RestUnchanged, DataOK, RestLabels, Events
<1>3. CASE RestExitWrite  BY <1>3 DEF RestExitWrite, RestUnchanged, DataOK, RestLabels
<1>4. CASE RestEnter  BY <1>4 DEF RestEnter, RestUnchanged, DataOK, RestLabels
<1>5. CASE RestAiStart  BY <1>5 DEF RestAiStart, RestUnchanged, DataOK, RestLabels
<1>6. CASE RestAiDecide  BY <1>6 DEF RestAiDecide, RestUnchanged, DataOK, RestLabels
<1>7. CASE RestEnterState
  BY <1>7 DEF RestEnterState, LoseAbort, RestUnchanged, DataOK, RestLabels
<1>8. CASE RestExitState  BY <1>8 DEF RestExitState, RestUnchanged, DataOK, RestLabels
<1>9. CASE RestEnterSend
  BY <1>9, PushedData
  DEF RestEnterSend, RestSend, RestUnchanged, DataOK, RestLabels, Events
<1>10. CASE RestAiSend
  BY <1>10, PushedData
  DEF RestAiSend, RestSend, RestUnchanged, DataOK, RestLabels, Events
<1>11. CASE RestForce  BY <1>11 DEF RestForce, LoseAbort, RestUnchanged, DataOK, RestLabels
<1>12. CASE RestCancel  BY <1>12 DEF RestCancel, RestUnchanged, DataOK, RestLabels
<1>13. CASE RestCancelIdle  BY <1>13 DEF RestCancelIdle, RestUnchanged, DataOK, RestLabels
<1>14. CASE RestCancelSend
  BY <1>14, PushedData
  DEF RestCancelSend, RestSend, RestUnchanged, DataOK, RestLabels, Events
<1>. QED  BY <1>1, <1>2, <1>3, <1>4, <1>5, <1>6, <1>7, <1>8, <1>9, <1>10, <1>11, <1>12, <1>13,
          <1>14 DEF RestStep

\* The steps around a charge keep the flags Boolean.
LEMMA FlagsCycleStep ==
  ASSUME FlagsOK, CycleStep PROVE FlagsOK'
<1>1. CASE MenuForm  BY <1>1 DEF MenuForm, FlagsOK
<1>2. CASE Dispatch  BY <1>2 DEF Dispatch, FlagsOK
<1>3. CASE Enter  BY <1>3 DEF Enter, FlagsOK
<1>4. CASE Loop  BY <1>4 DEF Loop, FlagsOK
<1>5. CASE Quit  BY <1>5 DEF Quit, FlagsOK
<1>6. CASE Leave  BY <1>6 DEF Leave, FlagsOK
<1>7. CASE ZeroPoll  BY <1>7 DEF ZeroPoll, FlagsOK
<1>8. CASE ZeroSample  BY <1>8 DEF ZeroSample, FlagsOK
<1>9. CASE StabilizeSalvages  BY <1>9 DEF StabilizeSalvages, StabilizeUnchanged, FlagsOK
<1>10. CASE StabilizeSettles  BY <1>10 DEF StabilizeSettles, StabilizeUnchanged, FlagsOK
<1>11. CASE SalvagePoll  BY <1>11 DEF SalvagePoll, FlagsOK
<1>12. CASE Stabilized  BY <1>12 DEF Stabilized, FlagsOK
<1>13. CASE Record  BY <1>13 DEF Record, AfterRemoval, FlagsOK
<1>14. CASE AiTare  BY <1>14 DEF AiTare, AfterRemoval, FlagsOK
<1>15. CASE AiTared  BY <1>15 DEF AiTared, AfterRemoval, FlagsOK
<1>16. CASE RemovalPoll  BY <1>16 DEF RemovalPoll, AfterRemoval, FlagsOK
<1>17. CASE RemovalSample  BY <1>17 DEF RemovalSample, AfterRemoval, FlagsOK
<1>18. CASE ReturnPoll  BY <1>18 DEF ReturnPoll, FlagsOK
<1>19. CASE ReturnSample  BY <1>19 DEF ReturnSample, FlagsOK
<1>. QED  BY <1>1, <1>2, <1>3, <1>4, <1>5, <1>6, <1>7, <1>8, <1>9, <1>10, <1>11, <1>12, <1>13,
          <1>14, <1>15, <1>16, <1>17, <1>18, <1>19 DEF CycleStep

\* The steps the controllers share keep the flags Boolean.
LEMMA FlagsChargeStep ==
  ASSUME FlagsOK, ChargeStep PROVE FlagsOK'
<1>1. CASE Begin  BY <1>1 DEF Begin, ResetCharge, FlagsOK
<1>2. CASE CoarseReverseWait  BY <1>2 DEF CoarseReverseWait, FlagsOK
<1>3. CASE FineReverseWait  BY <1>3 DEF FineReverseWait, FlagsOK
<1>4. CASE Settle  BY <1>4 DEF Settle, EmergencyExit, CancelSample, FlagsOK
<1>5. CASE Finish  BY <1>5 DEF Finish, FlagsOK
<1>6. CASE PrechargeEnd  BY <1>6 DEF PrechargeEnd, FlagsOK
<1>7. CASE Finished  BY <1>7 DEF Finished, FlagsOK
<1>. QED  BY <1>1, <1>2, <1>3, <1>4, <1>5, <1>6, <1>7 DEF ChargeStep

\* The steps of the PID controller and of manual finish keep the flags Boolean.
LEMMA FlagsPidStep ==
  ASSUME FlagsOK, PidStep PROVE FlagsOK'
<1>1. CASE PidPoll  BY <1>1 DEF PidPoll, PollOrAbort, EmergencyExit, CancelSample, FlagsOK
<1>2. CASE PidSampleFails
  BY <1>2
  DEF PidSampleFails, ScaleFails, EmergencyExit, CancelSample, FlagsOK
<1>3. CASE PidHandsOver  BY <1>3 DEF PidHandsOver, FlagsOK
<1>4. CASE PidReachesFineStop  BY <1>4 DEF PidReachesFineStop, FineReverseThen, FlagsOK
<1>5. CASE PidReachesCoarseStop  BY <1>5 DEF PidReachesCoarseStop, MarkCoarseStop, FlagsOK
<1>6. CASE PidKeepsOn  BY <1>6 DEF PidKeepsOn, FlagsOK
<1>7. CASE PidDrive  BY <1>7 DEF PidDrive, FlagsOK
<1>8. CASE PulsePoll  BY <1>8 DEF PulsePoll, PollOrAbort, EmergencyExit, CancelSample, FlagsOK
<1>9. CASE PulseOn  BY <1>9 DEF PulseOn, FlagsOK
<1>10. CASE PulseWaitPoll
  BY <1>10
  DEF PulseWaitPoll, PollOrAbort, EmergencyExit, CancelSample, FlagsOK
<1>11. CASE PulseOff  BY <1>11 DEF PulseOff, FlagsOK
<1>12. CASE ManualPoll
  BY <1>12
  DEF ManualPoll, PollOrAbort, EmergencyExit, CancelSample, FlagsOK
<1>13. CASE ManualSampleFails
  BY <1>13
  DEF ManualSampleFails, ScaleFails, EmergencyExit, CancelSample, FlagsOK
<1>14. CASE ManualSample  BY <1>14 DEF ManualSample, FineReverseThen, FlagsOK
<1>15. CASE ManualEnd  BY <1>15 DEF ManualEnd, FlagsOK
<1>. QED  BY <1>1, <1>2, <1>3, <1>4, <1>5, <1>6, <1>7, <1>8, <1>9, <1>10, <1>11, <1>12, <1>13,
          <1>14, <1>15 DEF PidStep

\* The steps of the adaptive controller keep the flags Boolean.
LEMMA FlagsAdaptiveStep ==
  ASSUME FlagsOK, AdaptiveStep PROVE FlagsOK'
<1>1. CASE AdaptivePoll
  BY <1>1
  DEF AdaptivePoll, PollOrAbort, EmergencyExit, CancelSample, FlagsOK
<1>2. CASE AdaptiveSampleFails
  BY <1>2
  DEF AdaptiveSampleFails, ScaleFails, EmergencyExit, CancelSample, FlagsOK
<1>3. CASE BulkDrive  BY <1>3 DEF BulkDrive, FlagsOK
<1>4. CASE BulkRunPoll
  BY <1>4
  DEF BulkRunPoll, PollOrAbort, EmergencyExit, CancelSample, FlagsOK
<1>5. CASE BulkRunAgain  BY <1>5 DEF BulkRunAgain, FlagsOK
<1>6. CASE CoarseHandoff  BY <1>6 DEF CoarseHandoff, MarkCoarseStop, FlagsOK
<1>7. CASE CoarseHandoffSettles  BY <1>7 DEF CoarseHandoffSettles, FlagsOK
<1>8. CASE BulkSettled  BY <1>8 DEF BulkSettled, FlagsOK
<1>9. CASE BulkDrained  BY <1>9 DEF BulkDrained, ReturnIfExit, FlagsOK
<1>10. CASE TrimSettled  BY <1>10 DEF TrimSettled, ReturnIfExit, FlagsOK
<1>11. CASE Glide  BY <1>11 DEF Glide, FlagsOK
<1>12. CASE TrimDrive  BY <1>12 DEF TrimDrive, FlagsOK
<1>13. CASE FineDecision  BY <1>13 DEF FineDecision, FlagsOK
<1>14. CASE MarginSettled  BY <1>14 DEF MarginSettled, ReturnIfExit, FlagsOK
<1>15. CASE TailWatch  BY <1>15 DEF TailWatch, FlagsOK
<1>16. CASE FineSettled  BY <1>16 DEF FineSettled, ReturnIfExit, FlagsOK
<1>17. CASE FineVerdict  BY <1>17 DEF FineVerdict, FlagsOK
<1>18. CASE DoseReserve  BY <1>18 DEF DoseReserve, FlagsOK
<1>19. CASE DosePoll  BY <1>19 DEF DosePoll, PollOrAbort, EmergencyExit, CancelSample, FlagsOK
<1>20. CASE DoseOn  BY <1>20 DEF DoseOn, FlagsOK
<1>21. CASE DoseWatch  BY <1>21 DEF DoseWatch, FlagsOK
<1>22. CASE DoseSettled  BY <1>22 DEF DoseSettled, ReturnIfExit, FlagsOK
<1>. QED  BY <1>1, <1>2, <1>3, <1>4, <1>5, <1>6, <1>7, <1>8, <1>9, <1>10, <1>11, <1>12, <1>13,
          <1>14, <1>15, <1>16, <1>17, <1>18, <1>19, <1>20, <1>21, <1>22 DEF AdaptiveStep

\* The steps of an AI sample keep the flags Boolean.
LEMMA FlagsAiStep ==
  ASSUME FlagsOK, AiStep PROVE FlagsOK'
<1>1. CASE AiPlan  BY <1>1 DEF AiPlan, EmergencyExit, CancelSample, FlagsOK
<1>2. CASE AiRunPoll  BY <1>2 DEF AiRunPoll, PollOrAbort, EmergencyExit, CancelSample, FlagsOK
<1>3. CASE AiRunOn  BY <1>3 DEF AiRunOn, FlagsOK
<1>4. CASE AiStop  BY <1>4 DEF AiStop, MarkCoarseStop, FlagsOK
<1>. QED  BY <1>1, <1>2, <1>3, <1>4 DEF AiStep

-----------------------------------------------------------------------------
(* Steps of the TCP/IP thread and of the interrupts leave the rest alone. *)

\* A REST handler writes none of the variables that the menu task keeps to itself.
LEMMA RestFrame ==
  ASSUME RestStep PROVE UNCHANGED <<pc, after, menuActive, driveVars, chargeVars>>
BY DEF RestStep, RestExit, RestExitSend, RestExitWrite, RestEnter, RestAiStart, RestAiDecide,
  RestEnterState, RestExitState, RestEnterSend, RestAiSend, RestForce, RestCancel,
  RestCancelIdle, RestCancelSend, RestSend, RestUnchanged

-----------------------------------------------------------------------------
(* Where a motor may turn. *)

SettleTargets == {"bulk_settled", "bulk_drained", "trim_settled", "threshold_settled",
  "margin_settled", "fine_settled", "dose_reserve", "dose_watch", "dose_settled"}

\* Labels at which both motors have been stopped.
Still == (Labels \ Dispensing) \union SettleTargets
           \union {"settle", "glide", "fine_verdict", "dose_verdict"}

\* Labels at which the coarse motor has been stopped, the fine one perhaps not.
CoarseStill == {"fine_reverse", "salvage", "bulk_stopped", "trim_stopped", "dose", "dose_on"}

\* NoMotionOutsideDispensing is not inductive: that the motors stand still when a
\* controller returns depends on which motor it can have running, and where a wait
\* returns to on what has been stopped before it.
DriveInv ==
  /\ speed \in [Motors -> {"stop", "fwd", "rev"}]
  /\ pc \in Labels
  /\ pc \in Still => speed = Stopped
  /\ pc \in CoarseStill => speed["coarse"] = "stop"
  /\ pc \in {"adaptive", "adaptive_sample"} /\ stage = "fine" => speed["coarse"] = "stop"
  /\ pc \in {"bulk_run", "bulk_run_on"} => stage = "bulk"
  /\ pc \in {"ai_run", "ai_run_on"} /\ stage = "bulk" => speed["fine"] = "stop"
  /\ pc = "precharge" => speed["fine"] = "stop"
  /\ pc = "coarse_reverse" =>
       /\ after \in {"finish", "pid_drive", "bulk_stopped", "trim_stopped"}
       /\ after = "finish" => speed["fine"] = "stop"
  /\ pc = "fine_reverse" => after \in {"finish", "manual_end"}
  /\ pc = "settle" => after \in SettleTargets

\* At power-up no motor has been commanded.
LEMMA DriveInit == Init => DriveInv
BY DEF Init, DriveInv, Still, CoarseStill, Dispensing, SettleTargets, Labels, PidLabels,
  AdaptiveLabels, AiLabels, WaitLabels, MenuLabels, CupLabels


\* The steps around a charge keep the account of which motor may turn.
LEMMA DriveCycleStep ==
  ASSUME DataOK, DriveInv, CycleStep PROVE DriveInv'
<1>. USE DEF Still, CoarseStill, SettleTargets, Dispensing, Labels, PidLabels, AdaptiveLabels,
         AiLabels, WaitLabels, MenuLabels, CupLabels
<1>1. CASE MenuForm  BY <1>1 DEF MenuForm, DriveInv
<1>2. CASE Dispatch  BY <1>2 DEF Dispatch, DriveInv
<1>3. CASE Enter  BY <1>3 DEF Enter, DriveInv
<1>4. CASE Loop  BY <1>4 DEF Loop, PhaseOf, DriveInv, DataOK
<1>5. CASE Quit  BY <1>5 DEF Quit, DriveInv
<1>6. CASE Leave  BY <1>6 DEF Leave, DriveInv
<1>7. CASE ZeroPoll  BY <1>7 DEF ZeroPoll, DriveInv
<1>8. CASE ZeroSample  BY <1>8 DEF ZeroSample, DriveInv
<1>9. CASE StabilizeSalvages  BY <1>9 DEF StabilizeSalvages, StabilizeUnchanged, DriveInv
<1>10. CASE StabilizeSettles  BY <1>10 DEF StabilizeSettles, StabilizeUnchanged, DriveInv
<1>11. CASE SalvagePoll  BY <1>11 DEF SalvagePoll, DriveInv
<1>12. CASE Stabilized  BY <1>12 DEF Stabilized, DriveInv
<1>13. CASE Record  BY <1>13 DEF Record, AfterRemoval, DriveInv
<1>14. CASE AiTare  BY <1>14 DEF AiTare, AfterRemoval, DriveInv
<1>15. CASE AiTared  BY <1>15 DEF AiTared, AfterRemoval, DriveInv
<1>16. CASE RemovalPoll  BY <1>16 DEF RemovalPoll, AfterRemoval, DriveInv
<1>17. CASE RemovalSample  BY <1>17 DEF RemovalSample, AfterRemoval, DriveInv
<1>18. CASE ReturnPoll  BY <1>18 DEF ReturnPoll, DriveInv
<1>19. CASE ReturnSample  BY <1>19 DEF ReturnSample, DriveInv
<1>. QED  BY <1>1, <1>2, <1>3, <1>4, <1>5, <1>6, <1>7, <1>8, <1>9, <1>10, <1>11, <1>12, <1>13,
          <1>14, <1>15, <1>16, <1>17, <1>18, <1>19 DEF CycleStep

\* The steps the controllers share keep the account of which motor may turn.
LEMMA DriveChargeStep ==
  ASSUME DriveInv, ChargeStep PROVE DriveInv'
<1>. USE DEF Still, CoarseStill, SettleTargets, Dispensing, Labels, PidLabels, AdaptiveLabels,
         AiLabels, WaitLabels, MenuLabels, CupLabels
<1>1. CASE Begin  BY <1>1 DEF Begin, ResetCharge, DriveInv
<1>2. CASE CoarseReverseWait  BY <1>2 DEF CoarseReverseWait, DriveInv
<1>3. CASE FineReverseWait  BY <1>3 DEF FineReverseWait, DriveInv
<1>4. CASE Settle  BY <1>4 DEF Settle, EmergencyExit, DriveInv
<1>5. CASE Finish  BY <1>5 DEF Finish, DriveInv
<1>6. CASE PrechargeEnd  BY <1>6 DEF PrechargeEnd, DriveInv
<1>7. CASE Finished  BY <1>7 DEF Finished, DriveInv
<1>. QED  BY <1>1, <1>2, <1>3, <1>4, <1>5, <1>6, <1>7 DEF ChargeStep

\* The steps of the PID controller and of manual finish keep the account of which motor may turn.
LEMMA DrivePidStep ==
  ASSUME DriveInv, PidStep PROVE DriveInv'
<1>. USE DEF Still, CoarseStill, SettleTargets, Dispensing, Labels, PidLabels, AdaptiveLabels,
         AiLabels, WaitLabels, MenuLabels, CupLabels
<1>1. CASE PidPoll  BY <1>1 DEF PidPoll, PollOrAbort, EmergencyExit, DriveInv
<1>2. CASE PidSampleFails  BY <1>2 DEF PidSampleFails, ScaleFails, EmergencyExit, DriveInv
<1>3. CASE PidHandsOver  BY <1>3 DEF PidHandsOver, DriveInv
<1>4. CASE PidReachesFineStop  BY <1>4 DEF PidReachesFineStop, FineReverseThen, DriveInv
<1>5. CASE PidReachesCoarseStop  BY <1>5 DEF PidReachesCoarseStop, MarkCoarseStop, DriveInv
<1>6. CASE PidKeepsOn  BY <1>6 DEF PidKeepsOn, DriveInv
<1>7. CASE PidDrive  BY <1>7 DEF PidDrive, DriveInv
<1>8. CASE PulsePoll  BY <1>8 DEF PulsePoll, PollOrAbort, EmergencyExit, DriveInv
<1>9. CASE PulseOn  BY <1>9 DEF PulseOn, DriveInv
<1>10. CASE PulseWaitPoll  BY <1>10 DEF PulseWaitPoll, PollOrAbort, EmergencyExit, DriveInv
<1>11. CASE PulseOff  BY <1>11 DEF PulseOff, DriveInv
<1>12. CASE ManualPoll  BY <1>12 DEF ManualPoll, PollOrAbort, EmergencyExit, DriveInv
<1>13. CASE ManualSampleFails
  BY <1>13
  DEF ManualSampleFails, ScaleFails, EmergencyExit, DriveInv
<1>14. CASE ManualSample  BY <1>14 DEF ManualSample, FineReverseThen, DriveInv
<1>15. CASE ManualEnd  BY <1>15 DEF ManualEnd, DriveInv
<1>. QED  BY <1>1, <1>2, <1>3, <1>4, <1>5, <1>6, <1>7, <1>8, <1>9, <1>10, <1>11, <1>12, <1>13,
          <1>14, <1>15 DEF PidStep

\* The steps of the adaptive controller keep the account of which motor may turn.
LEMMA DriveAdaptiveStep ==
  ASSUME DriveInv, AdaptiveStep PROVE DriveInv'
<1>. USE DEF Still, CoarseStill, SettleTargets, Dispensing, Labels, PidLabels, AdaptiveLabels,
         AiLabels, WaitLabels, MenuLabels, CupLabels
<1>1. CASE AdaptivePoll  BY <1>1 DEF AdaptivePoll, PollOrAbort, EmergencyExit, DriveInv
<1>2. CASE AdaptiveSampleFails
  BY <1>2
  DEF AdaptiveSampleFails, ScaleFails, EmergencyExit, DriveInv
<1>3. CASE BulkDrive  BY <1>3 DEF BulkDrive, DriveInv
<1>4. CASE BulkRunPoll  BY <1>4 DEF BulkRunPoll, PollOrAbort, EmergencyExit, DriveInv
<1>5. CASE BulkRunAgain  BY <1>5 DEF BulkRunAgain, DriveInv
<1>6. CASE CoarseHandoff  BY <1>6 DEF CoarseHandoff, MarkCoarseStop, DriveInv
<1>7. CASE CoarseHandoffSettles  BY <1>7 DEF CoarseHandoffSettles, DriveInv
<1>8. CASE BulkSettled  BY <1>8 DEF BulkSettled, DriveInv
<1>9. CASE BulkDrained  BY <1>9 DEF BulkDrained, ReturnIfExit, DriveInv
<1>10. CASE TrimSettled  BY <1>10 DEF TrimSettled, ReturnIfExit, DriveInv
<1>11. CASE Glide  BY <1>11 DEF Glide, DriveInv
<1>12. CASE TrimDrive  BY <1>12 DEF TrimDrive, DriveInv
<1>13. CASE FineDecision  BY <1>13 DEF FineDecision, DriveInv
<1>14. CASE MarginSettled  BY <1>14 DEF MarginSettled, ReturnIfExit, DriveInv
<1>15. CASE TailWatch  BY <1>15 DEF TailWatch, DriveInv
<1>16. CASE FineSettled  BY <1>16 DEF FineSettled, ReturnIfExit, DriveInv
<1>17. CASE FineVerdict  BY <1>17 DEF FineVerdict, DriveInv
<1>18. CASE DoseReserve  BY <1>18 DEF DoseReserve, DriveInv
<1>19. CASE DosePoll  BY <1>19 DEF DosePoll, PollOrAbort, EmergencyExit, DriveInv
<1>20. CASE DoseOn  BY <1>20 DEF DoseOn, DriveInv
<1>21. CASE DoseWatch  BY <1>21 DEF DoseWatch, DriveInv
<1>22. CASE DoseSettled  BY <1>22 DEF DoseSettled, ReturnIfExit, DriveInv
<1>. QED  BY <1>1, <1>2, <1>3, <1>4, <1>5, <1>6, <1>7, <1>8, <1>9, <1>10, <1>11, <1>12, <1>13,
          <1>14, <1>15, <1>16, <1>17, <1>18, <1>19, <1>20, <1>21, <1>22 DEF AdaptiveStep

\* The steps of an AI sample keep the account of which motor may turn.
LEMMA DriveAiStep ==
  ASSUME DriveInv, AiStep PROVE DriveInv'
<1>. USE DEF Still, CoarseStill, SettleTargets, Dispensing, Labels, PidLabels, AdaptiveLabels,
         AiLabels, WaitLabels, MenuLabels, CupLabels
<1>1. CASE AiPlan  BY <1>1 DEF AiPlan, EmergencyExit, DriveInv
<1>2. CASE AiRunPoll  BY <1>2 DEF AiRunPoll, PollOrAbort, EmergencyExit, DriveInv
<1>3. CASE AiRunOn  BY <1>3 DEF AiRunOn, DriveInv
<1>4. CASE AiStop  BY <1>4 DEF AiStop, MarkCoarseStop, DriveInv
<1>. QED  BY <1>1, <1>2, <1>3, <1>4 DEF AiStep

-----------------------------------------------------------------------------
(* The gate. *)

\* Labels from which a motor can be started without opening the gate first.
Feeding == (Dispensing \ {"precharge"}) \union {"ai_plan", "manual", "manual_sample"}

\* The gate stays open from the start of the charge on, not only while a motor runs.
GateInv == GateEnabled /\ motorsEnabled /\ pc \in Feeding => gate \in {"open", "partial"}

\* At power-up the drivers are disabled.
LEMMA GateInit == Init => GateInv
BY DEF Init, GateInv, Feeding, Dispensing, PidLabels, AdaptiveLabels


\* The steps around a charge keep the gate open while it has to be.
LEMMA GateCycleStep ==
  ASSUME DataOK, DriveInv, GateInv, CycleStep PROVE GateInv'
<1>. USE DEF Feeding, SettleTargets, Dispensing, PidLabels, AdaptiveLabels
<1>1. CASE MenuForm  BY <1>1 DEF MenuForm, DriveInv, GateInv
<1>2. CASE Dispatch  BY <1>2 DEF Dispatch, DriveInv, GateInv
<1>3. CASE Enter  BY <1>3 DEF Enter, DriveInv, GateInv
<1>4. CASE Loop  BY <1>4 DEF Loop, PhaseOf, DriveInv, GateInv, DataOK
<1>5. CASE Quit  BY <1>5 DEF Quit, DriveInv, GateInv
<1>6. CASE Leave  BY <1>6 DEF Leave, DriveInv, GateInv
<1>7. CASE ZeroPoll  BY <1>7 DEF ZeroPoll, DriveInv, GateInv
<1>8. CASE ZeroSample  BY <1>8 DEF ZeroSample, DriveInv, GateInv
<1>9. CASE StabilizeSalvages
  BY <1>9
  DEF StabilizeSalvages, StabilizeUnchanged, DriveInv, GateInv
<1>10. CASE StabilizeSettles
  BY <1>10
  DEF StabilizeSettles, StabilizeUnchanged, DriveInv, GateInv
<1>11. CASE SalvagePoll  BY <1>11 DEF SalvagePoll, DriveInv, GateInv
<1>12. CASE Stabilized  BY <1>12 DEF Stabilized, DriveInv, GateInv
<1>13. CASE Record  BY <1>13 DEF Record, AfterRemoval, DriveInv, GateInv
<1>14. CASE AiTare  BY <1>14 DEF AiTare, AfterRemoval, DriveInv, GateInv
<1>15. CASE AiTared  BY <1>15 DEF AiTared, AfterRemoval, DriveInv, GateInv
<1>16. CASE RemovalPoll  BY <1>16 DEF RemovalPoll, AfterRemoval, DriveInv, GateInv
<1>17. CASE RemovalSample  BY <1>17 DEF RemovalSample, AfterRemoval, DriveInv, GateInv
<1>18. CASE ReturnPoll  BY <1>18 DEF ReturnPoll, DriveInv, GateInv
<1>19. CASE ReturnSample  BY <1>19 DEF ReturnSample, DriveInv, GateInv
<1>. QED  BY <1>1, <1>2, <1>3, <1>4, <1>5, <1>6, <1>7, <1>8, <1>9, <1>10, <1>11, <1>12, <1>13,
          <1>14, <1>15, <1>16, <1>17, <1>18, <1>19 DEF CycleStep

\* The steps the controllers share keep the gate open while it has to be.
LEMMA GateChargeStep ==
  ASSUME DriveInv, GateInv, ChargeStep PROVE GateInv'
<1>. USE DEF Feeding, SettleTargets, Dispensing, PidLabels, AdaptiveLabels
<1>1. CASE Begin  BY <1>1 DEF Begin, ResetCharge, DriveInv, GateInv
<1>2. CASE CoarseReverseWait  BY <1>2 DEF CoarseReverseWait, DriveInv, GateInv
<1>3. CASE FineReverseWait  BY <1>3 DEF FineReverseWait, DriveInv, GateInv
<1>4. CASE Settle  BY <1>4 DEF Settle, EmergencyExit, DriveInv, GateInv
<1>5. CASE Finish  BY <1>5 DEF Finish, DriveInv, GateInv
<1>6. CASE PrechargeEnd  BY <1>6 DEF PrechargeEnd, DriveInv, GateInv
<1>7. CASE Finished  BY <1>7 DEF Finished, DriveInv, GateInv
<1>. QED  BY <1>1, <1>2, <1>3, <1>4, <1>5, <1>6, <1>7 DEF ChargeStep

\* The steps of the PID controller and of manual finish keep the gate open while it has to be.
LEMMA GatePidStep ==
  ASSUME DriveInv, GateInv, PidStep PROVE GateInv'
<1>. USE DEF Feeding, SettleTargets, Dispensing, PidLabels, AdaptiveLabels
<1>1. CASE PidPoll  BY <1>1 DEF PidPoll, PollOrAbort, EmergencyExit, DriveInv, GateInv
<1>2. CASE PidSampleFails
  BY <1>2
  DEF PidSampleFails, ScaleFails, EmergencyExit, DriveInv, GateInv
<1>3. CASE PidHandsOver  BY <1>3 DEF PidHandsOver, DriveInv, GateInv
<1>4. CASE PidReachesFineStop
  BY <1>4
  DEF PidReachesFineStop, FineReverseThen, DriveInv, GateInv
<1>5. CASE PidReachesCoarseStop
  BY <1>5
  DEF PidReachesCoarseStop, MarkCoarseStop, DriveInv, GateInv
<1>6. CASE PidKeepsOn  BY <1>6 DEF PidKeepsOn, DriveInv, GateInv
<1>7. CASE PidDrive  BY <1>7 DEF PidDrive, DriveInv, GateInv
<1>8. CASE PulsePoll  BY <1>8 DEF PulsePoll, PollOrAbort, EmergencyExit, DriveInv, GateInv
<1>9. CASE PulseOn  BY <1>9 DEF PulseOn, DriveInv, GateInv
<1>10. CASE PulseWaitPoll
  BY <1>10
  DEF PulseWaitPoll, PollOrAbort, EmergencyExit, DriveInv, GateInv
<1>11. CASE PulseOff  BY <1>11 DEF PulseOff, DriveInv, GateInv
<1>12. CASE ManualPoll  BY <1>12 DEF ManualPoll, PollOrAbort, EmergencyExit, DriveInv, GateInv
<1>13. CASE ManualSampleFails
  BY <1>13
  DEF ManualSampleFails, ScaleFails, EmergencyExit, DriveInv, GateInv
<1>14. CASE ManualSample  BY <1>14 DEF ManualSample, FineReverseThen, DriveInv, GateInv
<1>15. CASE ManualEnd  BY <1>15 DEF ManualEnd, DriveInv, GateInv
<1>. QED  BY <1>1, <1>2, <1>3, <1>4, <1>5, <1>6, <1>7, <1>8, <1>9, <1>10, <1>11, <1>12, <1>13,
          <1>14, <1>15 DEF PidStep

\* The steps of the adaptive controller keep the gate open while it has to be.
LEMMA GateAdaptiveStep ==
  ASSUME DriveInv, GateInv, AdaptiveStep PROVE GateInv'
<1>. USE DEF Feeding, SettleTargets, Dispensing, PidLabels, AdaptiveLabels
<1>1. CASE AdaptivePoll
  BY <1>1
  DEF AdaptivePoll, PollOrAbort, EmergencyExit, DriveInv, GateInv
<1>2. CASE AdaptiveSampleFails
  BY <1>2
  DEF AdaptiveSampleFails, ScaleFails, EmergencyExit, DriveInv, GateInv
<1>3. CASE BulkDrive  BY <1>3 DEF BulkDrive, DriveInv, GateInv
<1>4. CASE BulkRunPoll  BY <1>4 DEF BulkRunPoll, PollOrAbort, EmergencyExit, DriveInv, GateInv
<1>5. CASE BulkRunAgain  BY <1>5 DEF BulkRunAgain, DriveInv, GateInv
<1>6. CASE CoarseHandoff  BY <1>6 DEF CoarseHandoff, MarkCoarseStop, DriveInv, GateInv
<1>7. CASE CoarseHandoffSettles  BY <1>7 DEF CoarseHandoffSettles, DriveInv, GateInv
<1>8. CASE BulkSettled  BY <1>8 DEF BulkSettled, DriveInv, GateInv
<1>9. CASE BulkDrained  BY <1>9 DEF BulkDrained, ReturnIfExit, DriveInv, GateInv
<1>10. CASE TrimSettled  BY <1>10 DEF TrimSettled, ReturnIfExit, DriveInv, GateInv
<1>11. CASE Glide  BY <1>11 DEF Glide, DriveInv, GateInv
<1>12. CASE TrimDrive  BY <1>12 DEF TrimDrive, DriveInv, GateInv
<1>13. CASE FineDecision  BY <1>13 DEF FineDecision, DriveInv, GateInv
<1>14. CASE MarginSettled  BY <1>14 DEF MarginSettled, ReturnIfExit, DriveInv, GateInv
<1>15. CASE TailWatch  BY <1>15 DEF TailWatch, DriveInv, GateInv
<1>16. CASE FineSettled  BY <1>16 DEF FineSettled, ReturnIfExit, DriveInv, GateInv
<1>17. CASE FineVerdict  BY <1>17 DEF FineVerdict, DriveInv, GateInv
<1>18. CASE DoseReserve  BY <1>18 DEF DoseReserve, DriveInv, GateInv
<1>19. CASE DosePoll  BY <1>19 DEF DosePoll, PollOrAbort, EmergencyExit, DriveInv, GateInv
<1>20. CASE DoseOn  BY <1>20 DEF DoseOn, DriveInv, GateInv
<1>21. CASE DoseWatch  BY <1>21 DEF DoseWatch, DriveInv, GateInv
<1>22. CASE DoseSettled  BY <1>22 DEF DoseSettled, ReturnIfExit, DriveInv, GateInv
<1>. QED  BY <1>1, <1>2, <1>3, <1>4, <1>5, <1>6, <1>7, <1>8, <1>9, <1>10, <1>11, <1>12, <1>13,
          <1>14, <1>15, <1>16, <1>17, <1>18, <1>19, <1>20, <1>21, <1>22 DEF AdaptiveStep

\* The steps of an AI sample keep the gate open while it has to be.
LEMMA GateAiStep ==
  ASSUME DriveInv, GateInv, AiStep PROVE GateInv'
<1>. USE DEF Feeding, SettleTargets, Dispensing, PidLabels, AdaptiveLabels
<1>1. CASE AiPlan  BY <1>1 DEF AiPlan, EmergencyExit, DriveInv, GateInv
<1>2. CASE AiRunPoll  BY <1>2 DEF AiRunPoll, PollOrAbort, EmergencyExit, DriveInv, GateInv
<1>3. CASE AiRunOn  BY <1>3 DEF AiRunOn, DriveInv, GateInv
<1>4. CASE AiStop  BY <1>4 DEF AiStop, MarkCoarseStop, DriveInv, GateInv
<1>. QED  BY <1>1, <1>2, <1>3, <1>4 DEF AiStep

-----------------------------------------------------------------------------
(* The records. *)

\* Labels of a charge before anything has been noted for its record.
Charging == PidLabels \union AdaptiveLabels \union AiLabels \union {"coarse_reverse", "settle"}

\* Who is in control follows from where the menu task is; a charge is clean until it
\* ends, and then only its own controller leaves a record.
RecordInv ==
  /\ pc \in PidLabels => controller = "pid"
  /\ pc = "coarse_reverse" /\ after = "pid_drive" => controller = "pid"
  /\ pc \in Charging => pending = {}
  /\ RecordsMatchController

\* At power-up no record is pending.
LEMMA RecordInit == Init => RecordInv
BY DEF Init, RecordInv, RecordsMatchController, Charging, PidLabels, AdaptiveLabels, AiLabels


\* The steps around a charge keep the account of the records.
LEMMA RecordCycleStep ==
  ASSUME DataOK, DriveInv, RecordInv, CycleStep PROVE RecordInv'
<1>. USE DEF Charging, SettleTargets, PidLabels, AdaptiveLabels, AiLabels
<1>1. CASE MenuForm  BY <1>1 DEF MenuForm, DriveInv, RecordInv, RecordsMatchController
<1>2. CASE Dispatch  BY <1>2 DEF Dispatch, DriveInv, RecordInv, RecordsMatchController
<1>3. CASE Enter  BY <1>3 DEF Enter, DriveInv, RecordInv, RecordsMatchController
<1>4. CASE Loop  BY <1>4 DEF Loop, PhaseOf, DriveInv, RecordInv, RecordsMatchController, DataOK
<1>5. CASE Quit  BY <1>5 DEF Quit, DriveInv, RecordInv, RecordsMatchController
<1>6. CASE Leave  BY <1>6 DEF Leave, DriveInv, RecordInv, RecordsMatchController
<1>7. CASE ZeroPoll  BY <1>7 DEF ZeroPoll, DriveInv, RecordInv, RecordsMatchController
<1>8. CASE ZeroSample  BY <1>8 DEF ZeroSample, DriveInv, RecordInv, RecordsMatchController
<1>9. CASE StabilizeSalvages
  BY <1>9
  DEF StabilizeSalvages, StabilizeUnchanged, DriveInv, RecordInv, RecordsMatchController
<1>10. CASE StabilizeSettles
  BY <1>10
  DEF StabilizeSettles, StabilizeUnchanged, DriveInv, RecordInv, RecordsMatchController
<1>11. CASE SalvagePoll  BY <1>11 DEF SalvagePoll, DriveInv, RecordInv, RecordsMatchController
<1>12. CASE Stabilized  BY <1>12 DEF Stabilized, DriveInv, RecordInv, RecordsMatchController
<1>13. CASE Record
  BY <1>13
  DEF Record, AfterRemoval, DriveInv, RecordInv, RecordsMatchController
<1>14. CASE AiTare
  BY <1>14
  DEF AiTare, AfterRemoval, DriveInv, RecordInv, RecordsMatchController
<1>15. CASE AiTared
  BY <1>15
  DEF AiTared, AfterRemoval, DriveInv, RecordInv, RecordsMatchController
<1>16. CASE RemovalPoll
  BY <1>16
  DEF RemovalPoll, AfterRemoval, DriveInv, RecordInv, RecordsMatchController
<1>17. CASE RemovalSample
  BY <1>17
  DEF RemovalSample, AfterRemoval, DriveInv, RecordInv, RecordsMatchController
<1>18. CASE ReturnPoll  BY <1>18 DEF ReturnPoll, DriveInv, RecordInv, RecordsMatchController
<1>19. CASE ReturnSample
  BY <1>19
  DEF ReturnSample, DriveInv, RecordInv, RecordsMatchController
<1>. QED  BY <1>1, <1>2, <1>3, <1>4, <1>5, <1>6, <1>7, <1>8, <1>9, <1>10, <1>11, <1>12, <1>13,
          <1>14, <1>15, <1>16, <1>17, <1>18, <1>19 DEF CycleStep

\* The steps the controllers share keep the account of the records.
LEMMA RecordChargeStep ==
  ASSUME DriveInv, RecordInv, ChargeStep PROVE RecordInv'
<1>. USE DEF Charging, SettleTargets, PidLabels, AdaptiveLabels, AiLabels
<1>1. CASE Begin  BY <1>1 DEF Begin, ResetCharge, DriveInv, RecordInv, RecordsMatchController
<1>2. CASE CoarseReverseWait
  BY <1>2
  DEF CoarseReverseWait, DriveInv, RecordInv, RecordsMatchController
<1>3. CASE FineReverseWait
  BY <1>3
  DEF FineReverseWait, DriveInv, RecordInv, RecordsMatchController
<1>4. CASE Settle
  BY <1>4
  DEF Settle, EmergencyExit, DriveInv, RecordInv, RecordsMatchController
<1>5. CASE Finish
  BY <1>5
  DEF Finish, RecordsCharge, DriveInv, RecordInv, RecordsMatchController
<1>6. CASE PrechargeEnd  BY <1>6 DEF PrechargeEnd, DriveInv, RecordInv, RecordsMatchController
<1>7. CASE Finished  BY <1>7 DEF Finished, DriveInv, RecordInv, RecordsMatchController
<1>. QED  BY <1>1, <1>2, <1>3, <1>4, <1>5, <1>6, <1>7 DEF ChargeStep

\* The steps of the PID controller and of manual finish keep the account of the records.
LEMMA RecordPidStep ==
  ASSUME DriveInv, RecordInv, PidStep PROVE RecordInv'
<1>. USE DEF Charging, SettleTargets, PidLabels, AdaptiveLabels, AiLabels
<1>1. CASE PidPoll
  BY <1>1
  DEF PidPoll, PollOrAbort, EmergencyExit, DriveInv, RecordInv, RecordsMatchController
<1>2. CASE PidSampleFails
  BY <1>2
  DEF PidSampleFails, ScaleFails, EmergencyExit, DriveInv, RecordInv, RecordsMatchController
<1>3. CASE PidHandsOver  BY <1>3 DEF PidHandsOver, DriveInv, RecordInv, RecordsMatchController
<1>4. CASE PidReachesFineStop
  BY <1>4
  DEF PidReachesFineStop, FineReverseThen, DriveInv, RecordInv, RecordsMatchController
<1>5. CASE PidReachesCoarseStop
  BY <1>5
  DEF PidReachesCoarseStop, MarkCoarseStop, DriveInv, RecordInv, RecordsMatchController
<1>6. CASE PidKeepsOn  BY <1>6 DEF PidKeepsOn, DriveInv, RecordInv, RecordsMatchController
<1>7. CASE PidDrive  BY <1>7 DEF PidDrive, DriveInv, RecordInv, RecordsMatchController
<1>8. CASE PulsePoll
  BY <1>8
  DEF PulsePoll, PollOrAbort, EmergencyExit, DriveInv, RecordInv, RecordsMatchController
<1>9. CASE PulseOn  BY <1>9 DEF PulseOn, DriveInv, RecordInv, RecordsMatchController
<1>10. CASE PulseWaitPoll
  BY <1>10
  DEF PulseWaitPoll, PollOrAbort, EmergencyExit, DriveInv, RecordInv, RecordsMatchController
<1>11. CASE PulseOff  BY <1>11 DEF PulseOff, DriveInv, RecordInv, RecordsMatchController
<1>12. CASE ManualPoll
  BY <1>12
  DEF ManualPoll, PollOrAbort, EmergencyExit, DriveInv, RecordInv, RecordsMatchController
<1>13. CASE ManualSampleFails
  BY <1>13
  DEF ManualSampleFails, ScaleFails, EmergencyExit, DriveInv, RecordInv, RecordsMatchController
<1>14. CASE ManualSample
  BY <1>14
  DEF ManualSample, FineReverseThen, DriveInv, RecordInv, RecordsMatchController
<1>15. CASE ManualEnd  BY <1>15 DEF ManualEnd, DriveInv, RecordInv, RecordsMatchController
<1>. QED  BY <1>1, <1>2, <1>3, <1>4, <1>5, <1>6, <1>7, <1>8, <1>9, <1>10, <1>11, <1>12, <1>13,
          <1>14, <1>15 DEF PidStep

\* The steps of the adaptive controller keep the account of the records.
LEMMA RecordAdaptiveStep ==
  ASSUME DriveInv, RecordInv, AdaptiveStep PROVE RecordInv'
<1>. USE DEF Charging, SettleTargets, PidLabels, AdaptiveLabels, AiLabels
<1>1. CASE AdaptivePoll
  BY <1>1
  DEF AdaptivePoll, PollOrAbort, EmergencyExit, DriveInv, RecordInv, RecordsMatchController
<1>2. CASE AdaptiveSampleFails
  BY <1>2
  DEF AdaptiveSampleFails, ScaleFails, EmergencyExit, DriveInv, RecordInv,
      RecordsMatchController
<1>3. CASE BulkDrive  BY <1>3 DEF BulkDrive, DriveInv, RecordInv, RecordsMatchController
<1>4. CASE BulkRunPoll
  BY <1>4
  DEF BulkRunPoll, PollOrAbort, EmergencyExit, DriveInv, RecordInv, RecordsMatchController
<1>5. CASE BulkRunAgain  BY <1>5 DEF BulkRunAgain, DriveInv, RecordInv, RecordsMatchController
<1>6. CASE CoarseHandoff
  BY <1>6
  DEF CoarseHandoff, MarkCoarseStop, DriveInv, RecordInv, RecordsMatchController
<1>7. CASE CoarseHandoffSettles
  BY <1>7
  DEF CoarseHandoffSettles, DriveInv, RecordInv, RecordsMatchController
<1>8. CASE BulkSettled  BY <1>8 DEF BulkSettled, DriveInv, RecordInv, RecordsMatchController
<1>9. CASE BulkDrained
  BY <1>9
  DEF BulkDrained, ReturnIfExit, DriveInv, RecordInv, RecordsMatchController
<1>10. CASE TrimSettled
  BY <1>10
  DEF TrimSettled, ReturnIfExit, DriveInv, RecordInv, RecordsMatchController
<1>11. CASE Glide  BY <1>11 DEF Glide, DriveInv, RecordInv, RecordsMatchController
<1>12. CASE TrimDrive  BY <1>12 DEF TrimDrive, DriveInv, RecordInv, RecordsMatchController
<1>13. CASE FineDecision
  BY <1>13
  DEF FineDecision, DriveInv, RecordInv, RecordsMatchController
<1>14. CASE MarginSettled
  BY <1>14
  DEF MarginSettled, ReturnIfExit, DriveInv, RecordInv, RecordsMatchController
<1>15. CASE TailWatch  BY <1>15 DEF TailWatch, DriveInv, RecordInv, RecordsMatchController
<1>16. CASE FineSettled
  BY <1>16
  DEF FineSettled, ReturnIfExit, DriveInv, RecordInv, RecordsMatchController
<1>17. CASE FineVerdict  BY <1>17 DEF FineVerdict, DriveInv, RecordInv, RecordsMatchController
<1>18. CASE DoseReserve  BY <1>18 DEF DoseReserve, DriveInv, RecordInv, RecordsMatchController
<1>19. CASE DosePoll
  BY <1>19
  DEF DosePoll, PollOrAbort, EmergencyExit, DriveInv, RecordInv, RecordsMatchController
<1>20. CASE DoseOn  BY <1>20 DEF DoseOn, DriveInv, RecordInv, RecordsMatchController
<1>21. CASE DoseWatch  BY <1>21 DEF DoseWatch, DriveInv, RecordInv, RecordsMatchController
<1>22. CASE DoseSettled
  BY <1>22
  DEF DoseSettled, ReturnIfExit, DriveInv, RecordInv, RecordsMatchController
<1>. QED  BY <1>1, <1>2, <1>3, <1>4, <1>5, <1>6, <1>7, <1>8, <1>9, <1>10, <1>11, <1>12, <1>13,
          <1>14, <1>15, <1>16, <1>17, <1>18, <1>19, <1>20, <1>21, <1>22 DEF AdaptiveStep

\* The steps of an AI sample keep the account of the records.
LEMMA RecordAiStep ==
  ASSUME DriveInv, RecordInv, AiStep PROVE RecordInv'
<1>. USE DEF Charging, SettleTargets, PidLabels, AdaptiveLabels, AiLabels
<1>1. CASE AiPlan
  BY <1>1
  DEF AiPlan, EmergencyExit, DriveInv, RecordInv, RecordsMatchController
<1>2. CASE AiRunPoll
  BY <1>2
  DEF AiRunPoll, PollOrAbort, EmergencyExit, DriveInv, RecordInv, RecordsMatchController
<1>3. CASE AiRunOn  BY <1>3 DEF AiRunOn, DriveInv, RecordInv, RecordsMatchController
<1>4. CASE AiStop
  BY <1>4
  DEF AiStop, MarkCoarseStop, DriveInv, RecordInv, RecordsMatchController
<1>. QED  BY <1>1, <1>2, <1>3, <1>4 DEF AiStep

-----------------------------------------------------------------------------
(* Aborts. *)

\* Where an abort that is not lost can be: at the switch, on its way out, or in and just
\* behind the waits of the adaptive controller that emergency_exit returns to.
AbortTargets == {"loop", "quit", "settle"} \union SettleTargets

\* Until charge mode is left everything is off after an abort; it is lost by the time a
\* label is reached that could drive again.  The drivers are as Enter left them until then.
AbortInv ==
  /\ abort = "set" =>
       /\ cmState = "EXIT" /\ speed = Stopped
       /\ GateEnabled => gate = "closed"
       /\ pc \in AbortTargets
  /\ abort # "none" => ~motorsEnabled
  /\ IF pc \in {"menu", "dispatch", "enter", "leave"} THEN abort = "none"
                                                    ELSE motorsEnabled \/ abort # "none"

\* At power-up nothing has been aborted.
LEMMA AbortInit == Init => AbortInv
BY DEF Init, AbortInv

\* The steps around a charge end with an abort.
LEMMA AbortCycleStep ==
  ASSUME DataOK, DriveInv, AbortInv, CycleStep PROVE AbortInv'
<1>. USE DEF DataOK, DriveInv, AbortInv, AbortTargets, SettleTargets
<1>1. CASE MenuForm  BY <1>1 DEF MenuForm
<1>2. CASE Dispatch  BY <1>2 DEF Dispatch
<1>3. CASE Enter  BY <1>3 DEF Enter
<1>4. CASE Loop  BY <1>4 DEF Loop, PhaseOf
<1>5. CASE Quit  BY <1>5 DEF Quit
<1>6. CASE Leave  BY <1>6 DEF Leave
<1>7. CASE ZeroPoll  BY <1>7 DEF ZeroPoll
<1>8. CASE ZeroSample  BY <1>8 DEF ZeroSample
<1>9. CASE StabilizeSalvages  BY <1>9 DEF StabilizeSalvages, StabilizeUnchanged
<1>10. CASE StabilizeSettles  BY <1>10 DEF StabilizeSettles, StabilizeUnchanged
<1>11. CASE SalvagePoll  BY <1>11 DEF SalvagePoll
<1>12. CASE Stabilized  BY <1>12 DEF Stabilized
<1>13. CASE Record  BY <1>13 DEF Record, AfterRemoval
<1>14. CASE AiTare  BY <1>14 DEF AiTare, AfterRemoval
<1>15. CASE AiTared  BY <1>15 DEF AiTared, AfterRemoval
<1>16. CASE RemovalPoll  BY <1>16 DEF RemovalPoll, AfterRemoval
<1>17. CASE RemovalSample  BY <1>17 DEF RemovalSample, AfterRemoval
<1>18. CASE ReturnPoll  BY <1>18 DEF ReturnPoll
<1>19. CASE ReturnSample  BY <1>19 DEF ReturnSample
<1>. QED  BY <1>1, <1>2, <1>3, <1>4, <1>5, <1>6, <1>7, <1>8, <1>9, <1>10, <1>11, <1>12, <1>13,
          <1>14, <1>15, <1>16, <1>17, <1>18, <1>19 DEF CycleStep

\* The steps the controllers share end with an abort.
LEMMA AbortChargeStep ==
  ASSUME DataOK, DriveInv, AbortInv, ChargeStep PROVE AbortInv'
<1>. USE DEF DataOK, DriveInv, AbortInv, AbortTargets, SettleTargets
<1>1. CASE Begin  BY <1>1 DEF Begin, ResetCharge
<1>2. CASE CoarseReverseWait  BY <1>2 DEF CoarseReverseWait
<1>3. CASE FineReverseWait  BY <1>3 DEF FineReverseWait
<1>4. CASE Settle  BY <1>4 DEF Settle, EmergencyExit
<1>5. CASE Finish  BY <1>5 DEF Finish, RecordsCharge
<1>6. CASE PrechargeEnd  BY <1>6 DEF PrechargeEnd
<1>7. CASE Finished  BY <1>7 DEF Finished
<1>. QED  BY <1>1, <1>2, <1>3, <1>4, <1>5, <1>6, <1>7 DEF ChargeStep

\* The steps of the PID controller and of manual finish end with an abort.
LEMMA AbortPidStep ==
  ASSUME DataOK, DriveInv, AbortInv, PidStep PROVE AbortInv'
<1>. USE DEF DataOK, DriveInv, AbortInv, AbortTargets, SettleTargets
<1>1. CASE PidPoll  BY <1>1 DEF PidPoll, PollOrAbort, EmergencyExit
<1>2. CASE PidSampleFails  BY <1>2 DEF PidSampleFails, ScaleFails, EmergencyExit
<1>3. CASE PidHandsOver  BY <1>3 DEF PidHandsOver
<1>4. CASE PidReachesFineStop  BY <1>4 DEF PidReachesFineStop, FineReverseThen
<1>5. CASE PidReachesCoarseStop  BY <1>5 DEF PidReachesCoarseStop, MarkCoarseStop
<1>6. CASE PidKeepsOn  BY <1>6 DEF PidKeepsOn
<1>7. CASE PidDrive  BY <1>7 DEF PidDrive
<1>8. CASE PulsePoll  BY <1>8 DEF PulsePoll, PollOrAbort, EmergencyExit
<1>9. CASE PulseOn  BY <1>9 DEF PulseOn
<1>10. CASE PulseWaitPoll  BY <1>10 DEF PulseWaitPoll, PollOrAbort, EmergencyExit
<1>11. CASE PulseOff  BY <1>11 DEF PulseOff
<1>12. CASE ManualPoll  BY <1>12 DEF ManualPoll, PollOrAbort, EmergencyExit
<1>13. CASE ManualSampleFails  BY <1>13 DEF ManualSampleFails, ScaleFails, EmergencyExit
<1>14. CASE ManualSample  BY <1>14 DEF ManualSample, FineReverseThen
<1>15. CASE ManualEnd  BY <1>15 DEF ManualEnd
<1>. QED  BY <1>1, <1>2, <1>3, <1>4, <1>5, <1>6, <1>7, <1>8, <1>9, <1>10, <1>11, <1>12, <1>13,
          <1>14, <1>15 DEF PidStep

\* The steps of the adaptive controller end with an abort.
LEMMA AbortAdaptiveStep ==
  ASSUME DataOK, DriveInv, AbortInv, AdaptiveStep PROVE AbortInv'
<1>. USE DEF DataOK, DriveInv, AbortInv, AbortTargets, SettleTargets
<1>1. CASE AdaptivePoll  BY <1>1 DEF AdaptivePoll, PollOrAbort, EmergencyExit
<1>2. CASE AdaptiveSampleFails  BY <1>2 DEF AdaptiveSampleFails, ScaleFails, EmergencyExit
<1>3. CASE BulkDrive  BY <1>3 DEF BulkDrive
<1>4. CASE BulkRunPoll  BY <1>4 DEF BulkRunPoll, PollOrAbort, EmergencyExit
<1>5. CASE BulkRunAgain  BY <1>5 DEF BulkRunAgain
<1>6. CASE CoarseHandoff  BY <1>6 DEF CoarseHandoff, MarkCoarseStop
<1>7. CASE CoarseHandoffSettles  BY <1>7 DEF CoarseHandoffSettles
<1>8. CASE BulkSettled  BY <1>8 DEF BulkSettled
<1>9. CASE BulkDrained  BY <1>9 DEF BulkDrained, ReturnIfExit
<1>10. CASE TrimSettled  BY <1>10 DEF TrimSettled, ReturnIfExit
<1>11. CASE Glide  BY <1>11 DEF Glide
<1>12. CASE TrimDrive  BY <1>12 DEF TrimDrive
<1>13. CASE FineDecision  BY <1>13 DEF FineDecision
<1>14. CASE MarginSettled  BY <1>14 DEF MarginSettled, ReturnIfExit
<1>15. CASE TailWatch  BY <1>15 DEF TailWatch
<1>16. CASE FineSettled  BY <1>16 DEF FineSettled, ReturnIfExit
<1>17. CASE FineVerdict  BY <1>17 DEF FineVerdict
<1>18. CASE DoseReserve  BY <1>18 DEF DoseReserve, LoseAbort
<1>19. CASE DosePoll  BY <1>19 DEF DosePoll, PollOrAbort, EmergencyExit
<1>20. CASE DoseOn  BY <1>20 DEF DoseOn
<1>21. CASE DoseWatch  BY <1>21 DEF DoseWatch
<1>22. CASE DoseSettled  BY <1>22 DEF DoseSettled, ReturnIfExit
<1>. QED  BY <1>1, <1>2, <1>3, <1>4, <1>5, <1>6, <1>7, <1>8, <1>9, <1>10, <1>11, <1>12, <1>13,
          <1>14, <1>15, <1>16, <1>17, <1>18, <1>19, <1>20, <1>21, <1>22 DEF AdaptiveStep

\* The steps of an AI sample end with an abort.
LEMMA AbortAiStep ==
  ASSUME DataOK, DriveInv, AbortInv, AiStep PROVE AbortInv'
<1>. USE DEF DataOK, DriveInv, AbortInv, AbortTargets, SettleTargets
<1>1. CASE AiPlan  BY <1>1 DEF AiPlan, EmergencyExit
<1>2. CASE AiRunPoll  BY <1>2 DEF AiRunPoll, PollOrAbort, EmergencyExit
<1>3. CASE AiRunOn  BY <1>3 DEF AiRunOn
<1>4. CASE AiStop  BY <1>4 DEF AiStop, MarkCoarseStop
<1>. QED  BY <1>1, <1>2, <1>3, <1>4 DEF AiStep

\* The steps of the REST handlers do not undo an abort.
LEMMA AbortRestStep ==
  ASSUME DataOK, DriveInv, AbortInv, RestStep PROVE AbortInv'
<1>. USE DEF DataOK, DriveInv, AbortInv, AbortTargets, SettleTargets
<1>1. CASE RestExit  BY <1>1 DEF RestExit, RestUnchanged
<1>2. CASE RestExitSend  BY <1>2 DEF RestExitSend, RestSend, RestUnchanged
<1>3. CASE RestExitWrite  BY <1>3 DEF RestExitWrite, RestUnchanged
<1>4. CASE RestEnter  BY <1>4 DEF RestEnter, RestUnchanged
<1>5. CASE RestAiStart  BY <1>5 DEF RestAiStart, RestUnchanged
<1>6. CASE RestAiDecide  BY <1>6 DEF RestAiDecide, RestUnchanged
<1>7. CASE RestEnterState  BY <1>7 DEF RestEnterState, LoseAbort, RestUnchanged
<1>8. CASE RestExitState  BY <1>8 DEF RestExitState, RestUnchanged
<1>9. CASE RestEnterSend  BY <1>9 DEF RestEnterSend, RestSend, RestUnchanged
<1>10. CASE RestAiSend  BY <1>10 DEF RestAiSend, RestSend, RestUnchanged
<1>11. CASE RestForce  BY <1>11 DEF RestForce, LoseAbort, RestUnchanged
<1>12. CASE RestCancel  BY <1>12 DEF RestCancel, RestUnchanged
<1>13. CASE RestCancelIdle  BY <1>13 DEF RestCancelIdle, RestUnchanged
<1>14. CASE RestCancelSend  BY <1>14 DEF RestCancelSend, RestSend, RestUnchanged
<1>. QED  BY <1>1, <1>2, <1>3, <1>4, <1>5, <1>6, <1>7, <1>8, <1>9, <1>10, <1>11, <1>12, <1>13,
          <1>14 DEF RestStep

-----------------------------------------------------------------------------
(* What the settings exclude.

   The properties of the rest of this module hold for some settings only, and each is
   proved for all the settings it holds for: a run of ChargeMode with any other breaks
   it.  The settings are named here; an invariant that needs one says so. *)

\* Ordinary charges run under the PID controller.
PidOnly == "adaptive" \notin Controllers

\* The REST clients ask charge mode to end, if anything; none enters it or starts a sample.
RestOnlyExits == RestCommands \subseteq {"exit", "ai_cancel"}

\* A charge is never finished by hand, and charge_mode_state is not set to EXIT behind the
\* back of the adaptive controller.
GateSettings ==
  /\ ~ManualFinish
  /\ ~PidOnly => RestCommands \intersect {"exit", "ai_start"} = {}

ManualLabels == {"manual", "manual_sample", "manual_end"}

\* The labels of a controller or of a finish by hand that is switched off are not reached,
\* and without a gate none is commanded.
ReachInv ==
  /\ ~ManualFinish =>
       pc \notin ManualLabels /\ (pc = "fine_reverse" => after # "manual_end")
  /\ PidOnly =>
       /\ pc \notin AdaptiveLabels \union {"settle"}
       /\ pc = "coarse_reverse" => after \notin AdaptiveLabels
  /\ ~GateEnabled => gate = "unknown"

\* At power-up the menu is shown and the gate has had no command.
LEMMA ReachInit == Init => ReachInv
BY DEF Init, ReachInv, ManualLabels, AdaptiveLabels

\* The steps around a charge reach no label that the settings exclude.
LEMMA ReachCycleStep ==
  ASSUME DataOK, DriveInv, ReachInv, CycleStep PROVE ReachInv'
<1>. USE DEF DataOK, DriveInv, ReachInv, PidOnly, ManualLabels, SettleTargets, PidLabels,
          AdaptiveLabels, AiLabels
<1>1. CASE MenuForm  BY <1>1 DEF MenuForm
<1>2. CASE Dispatch  BY <1>2 DEF Dispatch
<1>3. CASE Enter  BY <1>3 DEF Enter
<1>4. CASE Loop  BY <1>4 DEF Loop, PhaseOf
<1>5. CASE Quit  BY <1>5 DEF Quit
<1>6. CASE Leave  BY <1>6 DEF Leave
<1>7. CASE ZeroPoll  BY <1>7 DEF ZeroPoll
<1>8. CASE ZeroSample  BY <1>8 DEF ZeroSample
<1>9. CASE StabilizeSalvages  BY <1>9 DEF StabilizeSalvages, StabilizeUnchanged
<1>10. CASE StabilizeSettles  BY <1>10 DEF StabilizeSettles, StabilizeUnchanged
<1>11. CASE SalvagePoll  BY <1>11 DEF SalvagePoll
<1>12. CASE Stabilized  BY <1>12 DEF Stabilized
<1>13. CASE Record  BY <1>13 DEF Record, AfterRemoval
<1>14. CASE AiTare  BY <1>14 DEF AiTare, AfterRemoval
<1>15. CASE AiTared  BY <1>15 DEF AiTared, AfterRemoval
<1>16. CASE RemovalPoll  BY <1>16 DEF RemovalPoll, AfterRemoval
<1>17. CASE RemovalSample  BY <1>17 DEF RemovalSample, AfterRemoval
<1>18. CASE ReturnPoll  BY <1>18 DEF ReturnPoll
<1>19. CASE ReturnSample  BY <1>19 DEF ReturnSample
<1>. QED  BY <1>1, <1>2, <1>3, <1>4, <1>5, <1>6, <1>7, <1>8, <1>9, <1>10, <1>11, <1>12, <1>13,
          <1>14, <1>15, <1>16, <1>17, <1>18, <1>19 DEF CycleStep

\* The steps the controllers share reach no label that the settings exclude.
LEMMA ReachChargeStep ==
  ASSUME DataOK, DriveInv, ReachInv, ChargeStep PROVE ReachInv'
<1>. USE DEF DataOK, DriveInv, ReachInv, PidOnly, ManualLabels, SettleTargets, PidLabels,
          AdaptiveLabels, AiLabels
<1>1. CASE Begin  BY <1>1 DEF Begin, ResetCharge
<1>2. CASE CoarseReverseWait  BY <1>2 DEF CoarseReverseWait
<1>3. CASE FineReverseWait  BY <1>3 DEF FineReverseWait
<1>4. CASE Settle  BY <1>4 DEF Settle, EmergencyExit
<1>5. CASE Finish  BY <1>5 DEF Finish, RecordsCharge
<1>6. CASE PrechargeEnd  BY <1>6 DEF PrechargeEnd
<1>7. CASE Finished  BY <1>7 DEF Finished
<1>. QED  BY <1>1, <1>2, <1>3, <1>4, <1>5, <1>6, <1>7 DEF ChargeStep

\* The steps of the PID controller and of manual finish reach no label that the settings exclude.
LEMMA ReachPidStep ==
  ASSUME DataOK, DriveInv, ReachInv, PidStep PROVE ReachInv'
<1>. USE DEF DataOK, DriveInv, ReachInv, PidOnly, ManualLabels, SettleTargets, PidLabels,
          AdaptiveLabels, AiLabels
<1>1. CASE PidPoll  BY <1>1 DEF PidPoll, PollOrAbort, EmergencyExit
<1>2. CASE PidSampleFails  BY <1>2 DEF PidSampleFails, ScaleFails, EmergencyExit
<1>3. CASE PidHandsOver  BY <1>3 DEF PidHandsOver
<1>4. CASE PidReachesFineStop  BY <1>4 DEF PidReachesFineStop, FineReverseThen
<1>5. CASE PidReachesCoarseStop  BY <1>5 DEF PidReachesCoarseStop, MarkCoarseStop
<1>6. CASE PidKeepsOn  BY <1>6 DEF PidKeepsOn
<1>7. CASE PidDrive  BY <1>7 DEF PidDrive
<1>8. CASE PulsePoll  BY <1>8 DEF PulsePoll, PollOrAbort, EmergencyExit
<1>9. CASE PulseOn  BY <1>9 DEF PulseOn
<1>10. CASE PulseWaitPoll  BY <1>10 DEF PulseWaitPoll, PollOrAbort, EmergencyExit
<1>11. CASE PulseOff  BY <1>11 DEF PulseOff
<1>12. CASE ManualPoll  BY <1>12 DEF ManualPoll, PollOrAbort, EmergencyExit
<1>13. CASE ManualSampleFails  BY <1>13 DEF ManualSampleFails, ScaleFails, EmergencyExit
<1>14. CASE ManualSample  BY <1>14 DEF ManualSample, FineReverseThen
<1>15. CASE ManualEnd  BY <1>15 DEF ManualEnd
<1>. QED  BY <1>1, <1>2, <1>3, <1>4, <1>5, <1>6, <1>7, <1>8, <1>9, <1>10, <1>11, <1>12, <1>13,
          <1>14, <1>15 DEF PidStep

\* The steps of the adaptive controller reach no label that the settings exclude.
LEMMA ReachAdaptiveStep ==
  ASSUME DataOK, DriveInv, ReachInv, AdaptiveStep PROVE ReachInv'
<1>. USE DEF DataOK, DriveInv, ReachInv, PidOnly, ManualLabels, SettleTargets, PidLabels,
          AdaptiveLabels, AiLabels
<1>1. CASE AdaptivePoll  BY <1>1 DEF AdaptivePoll, PollOrAbort, EmergencyExit
<1>2. CASE AdaptiveSampleFails  BY <1>2 DEF AdaptiveSampleFails, ScaleFails, EmergencyExit
<1>3. CASE BulkDrive  BY <1>3 DEF BulkDrive
<1>4. CASE BulkRunPoll  BY <1>4 DEF BulkRunPoll, PollOrAbort, EmergencyExit
<1>5. CASE BulkRunAgain  BY <1>5 DEF BulkRunAgain
<1>6. CASE CoarseHandoff  BY <1>6 DEF CoarseHandoff, MarkCoarseStop
<1>7. CASE CoarseHandoffSettles  BY <1>7 DEF CoarseHandoffSettles
<1>8. CASE BulkSettled  BY <1>8 DEF BulkSettled
<1>9. CASE BulkDrained  BY <1>9 DEF BulkDrained, ReturnIfExit
<1>10. CASE TrimSettled  BY <1>10 DEF TrimSettled, ReturnIfExit
<1>11. CASE Glide  BY <1>11 DEF Glide
<1>12. CASE TrimDrive  BY <1>12 DEF TrimDrive
<1>13. CASE FineDecision  BY <1>13 DEF FineDecision
<1>14. CASE MarginSettled  BY <1>14 DEF MarginSettled, ReturnIfExit
<1>15. CASE TailWatch  BY <1>15 DEF TailWatch
<1>16. CASE FineSettled  BY <1>16 DEF FineSettled, ReturnIfExit
<1>17. CASE FineVerdict  BY <1>17 DEF FineVerdict
<1>18. CASE DoseReserve  BY <1>18 DEF DoseReserve
<1>19. CASE DosePoll  BY <1>19 DEF DosePoll, PollOrAbort, EmergencyExit
<1>20. CASE DoseOn  BY <1>20 DEF DoseOn
<1>21. CASE DoseWatch  BY <1>21 DEF DoseWatch
<1>22. CASE DoseSettled  BY <1>22 DEF DoseSettled, ReturnIfExit
<1>. QED  BY <1>1, <1>2, <1>3, <1>4, <1>5, <1>6, <1>7, <1>8, <1>9, <1>10, <1>11, <1>12, <1>13,
          <1>14, <1>15, <1>16, <1>17, <1>18, <1>19, <1>20, <1>21, <1>22 DEF AdaptiveStep

\* The steps of an AI sample reach no label that the settings exclude.
LEMMA ReachAiStep ==
  ASSUME DataOK, DriveInv, ReachInv, AiStep PROVE ReachInv'
<1>. USE DEF DataOK, DriveInv, ReachInv, PidOnly, ManualLabels, SettleTargets, PidLabels,
          AdaptiveLabels, AiLabels
<1>1. CASE AiPlan  BY <1>1 DEF AiPlan, EmergencyExit
<1>2. CASE AiRunPoll  BY <1>2 DEF AiRunPoll, PollOrAbort, EmergencyExit
<1>3. CASE AiRunOn  BY <1>3 DEF AiRunOn
<1>4. CASE AiStop  BY <1>4 DEF AiStop, MarkCoarseStop
<1>. QED  BY <1>1, <1>2, <1>3, <1>4 DEF AiStep

\* Without a REST start there is no AI session, and no handler of one is under way.
QuietInv ==
  "ai_start" \notin RestCommands =>
    /\ session = "idle"
    /\ pc \notin AiLabels \union {"ai_tare", "ai_tared"}
    /\ rest \notin {"ai_decide", "ai_enter", "ai_exit_state", "ai_send", "cancel", "cancel_send"}

\* At power-up no session is open.
LEMMA QuietInit == Init => QuietInv
BY DEF Init, QuietInv, AiLabels

\* The steps around a charge open no AI session by themselves.
LEMMA QuietCycleStep ==
  ASSUME DataOK, DriveInv, QuietInv, CycleStep PROVE QuietInv'
<1>. USE DEF DataOK, DriveInv, QuietInv, SettleTargets, AiLabels
<1>1. CASE MenuForm  BY <1>1 DEF MenuForm
<1>2. CASE Dispatch  BY <1>2 DEF Dispatch
<1>3. CASE Enter  BY <1>3 DEF Enter
<1>4. CASE Loop  BY <1>4 DEF Loop, PhaseOf
<1>5. CASE Quit  BY <1>5 DEF Quit
<1>6. CASE Leave  BY <1>6 DEF Leave
<1>7. CASE ZeroPoll  BY <1>7 DEF ZeroPoll
<1>8. CASE ZeroSample  BY <1>8 DEF ZeroSample
<1>9. CASE StabilizeSalvages  BY <1>9 DEF StabilizeSalvages, StabilizeUnchanged
<1>10. CASE StabilizeSettles  BY <1>10 DEF StabilizeSettles, StabilizeUnchanged
<1>11. CASE SalvagePoll  BY <1>11 DEF SalvagePoll
<1>12. CASE Stabilized  BY <1>12 DEF Stabilized
<1>13. CASE Record  BY <1>13 DEF Record, AfterRemoval
<1>14. CASE AiTare  BY <1>14 DEF AiTare, AfterRemoval
<1>15. CASE AiTared  BY <1>15 DEF AiTared, AfterRemoval
<1>16. CASE RemovalPoll  BY <1>16 DEF RemovalPoll, AfterRemoval
<1>17. CASE RemovalSample  BY <1>17 DEF RemovalSample, AfterRemoval
<1>18. CASE ReturnPoll  BY <1>18 DEF ReturnPoll
<1>19. CASE ReturnSample  BY <1>19 DEF ReturnSample
<1>. QED  BY <1>1, <1>2, <1>3, <1>4, <1>5, <1>6, <1>7, <1>8, <1>9, <1>10, <1>11, <1>12, <1>13,
          <1>14, <1>15, <1>16, <1>17, <1>18, <1>19 DEF CycleStep

\* The steps the controllers share open no AI session by themselves.
LEMMA QuietChargeStep ==
  ASSUME DataOK, DriveInv, QuietInv, ChargeStep PROVE QuietInv'
<1>. USE DEF DataOK, DriveInv, QuietInv, SettleTargets, AiLabels
<1>1. CASE Begin
  BY <1>1, ControllersAssumption DEF Begin, ResetCharge
<1>2. CASE CoarseReverseWait  BY <1>2 DEF CoarseReverseWait
<1>3. CASE FineReverseWait  BY <1>3 DEF FineReverseWait
<1>4. CASE Settle  BY <1>4 DEF Settle, EmergencyExit, CancelSample
<1>5. CASE Finish  BY <1>5 DEF Finish, RecordsCharge
<1>6. CASE PrechargeEnd  BY <1>6 DEF PrechargeEnd
<1>7. CASE Finished  BY <1>7 DEF Finished
<1>. QED  BY <1>1, <1>2, <1>3, <1>4, <1>5, <1>6, <1>7 DEF ChargeStep

\* The steps of the PID controller and of manual finish open no AI session by themselves.
LEMMA QuietPidStep ==
  ASSUME DataOK, DriveInv, QuietInv, PidStep PROVE QuietInv'
<1>. USE DEF DataOK, DriveInv, QuietInv, SettleTargets, AiLabels
<1>1. CASE PidPoll  BY <1>1 DEF PidPoll, PollOrAbort, EmergencyExit, CancelSample
<1>2. CASE PidSampleFails  BY <1>2 DEF PidSampleFails, ScaleFails, EmergencyExit, CancelSample
<1>3. CASE PidHandsOver  BY <1>3 DEF PidHandsOver
<1>4. CASE PidReachesFineStop  BY <1>4 DEF PidReachesFineStop, FineReverseThen
<1>5. CASE PidReachesCoarseStop  BY <1>5 DEF PidReachesCoarseStop, MarkCoarseStop
<1>6. CASE PidKeepsOn  BY <1>6 DEF PidKeepsOn
<1>7. CASE PidDrive  BY <1>7 DEF PidDrive
<1>8. CASE PulsePoll  BY <1>8 DEF PulsePoll, PollOrAbort, EmergencyExit, CancelSample
<1>9. CASE PulseOn  BY <1>9 DEF PulseOn
<1>10. CASE PulseWaitPoll  BY <1>10 DEF PulseWaitPoll, PollOrAbort, EmergencyExit, CancelSample
<1>11. CASE PulseOff  BY <1>11 DEF PulseOff
<1>12. CASE ManualPoll  BY <1>12 DEF ManualPoll, PollOrAbort, EmergencyExit, CancelSample
<1>13. CASE ManualSampleFails
  BY <1>13
  DEF ManualSampleFails, ScaleFails, EmergencyExit, CancelSample
<1>14. CASE ManualSample  BY <1>14 DEF ManualSample, FineReverseThen
<1>15. CASE ManualEnd  BY <1>15 DEF ManualEnd
<1>. QED  BY <1>1, <1>2, <1>3, <1>4, <1>5, <1>6, <1>7, <1>8, <1>9, <1>10, <1>11, <1>12, <1>13,
          <1>14, <1>15 DEF PidStep

\* The steps of the adaptive controller open no AI session by themselves.
LEMMA QuietAdaptiveStep ==
  ASSUME DataOK, DriveInv, QuietInv, AdaptiveStep PROVE QuietInv'
<1>. USE DEF DataOK, DriveInv, QuietInv, SettleTargets, AiLabels
<1>1. CASE AdaptivePoll  BY <1>1 DEF AdaptivePoll, PollOrAbort, EmergencyExit, CancelSample
<1>2. CASE AdaptiveSampleFails
  BY <1>2
  DEF AdaptiveSampleFails, ScaleFails, EmergencyExit, CancelSample
<1>3. CASE BulkDrive  BY <1>3 DEF BulkDrive
<1>4. CASE BulkRunPoll  BY <1>4 DEF BulkRunPoll, PollOrAbort, EmergencyExit, CancelSample
<1>5. CASE BulkRunAgain  BY <1>5 DEF BulkRunAgain
<1>6. CASE CoarseHandoff  BY <1>6 DEF CoarseHandoff, MarkCoarseStop
<1>7. CASE CoarseHandoffSettles  BY <1>7 DEF CoarseHandoffSettles
<1>8. CASE BulkSettled  BY <1>8 DEF BulkSettled
<1>9. CASE BulkDrained  BY <1>9 DEF BulkDrained, ReturnIfExit
<1>10. CASE TrimSettled  BY <1>10 DEF TrimSettled, ReturnIfExit
<1>11. CASE Glide  BY <1>11 DEF Glide
<1>12. CASE TrimDrive  BY <1>12 DEF TrimDrive
<1>13. CASE FineDecision  BY <1>13 DEF FineDecision
<1>14. CASE MarginSettled  BY <1>14 DEF MarginSettled, ReturnIfExit
<1>15. CASE TailWatch  BY <1>15 DEF TailWatch
<1>16. CASE FineSettled  BY <1>16 DEF FineSettled, ReturnIfExit
<1>17. CASE FineVerdict  BY <1>17 DEF FineVerdict
<1>18. CASE DoseReserve  BY <1>18 DEF DoseReserve
<1>19. CASE DosePoll  BY <1>19 DEF DosePoll, PollOrAbort, EmergencyExit, CancelSample
<1>20. CASE DoseOn  BY <1>20 DEF DoseOn
<1>21. CASE DoseWatch  BY <1>21 DEF DoseWatch
<1>22. CASE DoseSettled  BY <1>22 DEF DoseSettled, ReturnIfExit
<1>. QED  BY <1>1, <1>2, <1>3, <1>4, <1>5, <1>6, <1>7, <1>8, <1>9, <1>10, <1>11, <1>12, <1>13,
          <1>14, <1>15, <1>16, <1>17, <1>18, <1>19, <1>20, <1>21, <1>22 DEF AdaptiveStep

\* The steps of an AI sample open no AI session by themselves.
LEMMA QuietAiStep ==
  ASSUME DataOK, DriveInv, QuietInv, AiStep PROVE QuietInv'
<1>. USE DEF DataOK, DriveInv, QuietInv, SettleTargets, AiLabels
<1>1. CASE AiPlan  BY <1>1 DEF AiPlan, EmergencyExit, CancelSample
<1>2. CASE AiRunPoll  BY <1>2 DEF AiRunPoll, PollOrAbort, EmergencyExit, CancelSample
<1>3. CASE AiRunOn  BY <1>3 DEF AiRunOn
<1>4. CASE AiStop  BY <1>4 DEF AiStop, MarkCoarseStop
<1>. QED  BY <1>1, <1>2, <1>3, <1>4 DEF AiStep

\* The steps of the REST handlers open no AI session by themselves.
LEMMA QuietRestStep ==
  ASSUME DataOK, DriveInv, QuietInv, RestStep PROVE QuietInv'
<1>. USE DEF DataOK, DriveInv, QuietInv, SettleTargets, AiLabels
<1>1. CASE RestExit  BY <1>1 DEF RestExit, RestUnchanged
<1>2. CASE RestExitSend  BY <1>2 DEF RestExitSend, RestSend, RestUnchanged
<1>3. CASE RestExitWrite  BY <1>3 DEF RestExitWrite, RestUnchanged
<1>4. CASE RestEnter  BY <1>4 DEF RestEnter, RestUnchanged
<1>5. CASE RestAiStart  BY <1>5 DEF RestAiStart, RestUnchanged
<1>6. CASE RestAiDecide  BY <1>6 DEF RestAiDecide, RestUnchanged
<1>7. CASE RestEnterState  BY <1>7 DEF RestEnterState, RestUnchanged
<1>8. CASE RestExitState  BY <1>8 DEF RestExitState, RestUnchanged
<1>9. CASE RestEnterSend  BY <1>9 DEF RestEnterSend, RestSend, RestUnchanged
<1>10. CASE RestAiSend  BY <1>10 DEF RestAiSend, RestSend, RestUnchanged
<1>11. CASE RestForce  BY <1>11 DEF RestForce, RestUnchanged
<1>12. CASE RestCancel  BY <1>12 DEF RestCancel, RestUnchanged
<1>13. CASE RestCancelIdle  BY <1>13 DEF RestCancelIdle, RestUnchanged
<1>14. CASE RestCancelSend  BY <1>14 DEF RestCancelSend, RestSend, RestUnchanged
<1>. QED  BY <1>1, <1>2, <1>3, <1>4, <1>5, <1>6, <1>7, <1>8, <1>9, <1>10, <1>11, <1>12, <1>13,
          <1>14 DEF RestStep

-----------------------------------------------------------------------------
(* The state and the menu. *)

\* With REST clients that only exit, charge_mode_state is written to anything but EXIT by
\* charge_mode_menu alone, and is EXIT again when that returns; MANUAL lasts as long as
\* the finish by hand, so that the switch of charge_mode_menu never sees it.
MenuInv ==
  RestOnlyExits =>
    /\ rest \in {"idle", "exit_send", "exit_write"}
    /\ pc \in {"menu", "dispatch", "enter", "quit", "leave"} => cmState = "EXIT"
    /\ pc \notin {"menu", "dispatch", "leave"} => menuActive
    /\ cmState = "MANUAL" => pc \in ManualLabels \union {"fine_reverse"}
    /\ cmState = "MANUAL" /\ pc = "fine_reverse" => after = "manual_end"

\* At power-up the menu is shown and the state is EXIT.
LEMMA MenuInit == Init => MenuInv
BY DEF Init, MenuInv

\* The steps around a charge write the state only inside charge mode.
LEMMA MenuCycleStep ==
  ASSUME DataOK, DriveInv, MenuInv, CycleStep PROVE MenuInv'
<1>. USE DEF DataOK, DriveInv, MenuInv, RestOnlyExits, ManualLabels, SettleTargets
<1>1. CASE MenuForm  BY <1>1 DEF MenuForm
<1>2. CASE Dispatch  BY <1>2 DEF Dispatch
<1>3. CASE Enter  BY <1>3 DEF Enter
<1>4. CASE Loop  BY <1>4 DEF Loop, PhaseOf
<1>5. CASE Quit  BY <1>5 DEF Quit
<1>6. CASE Leave  BY <1>6 DEF Leave
<1>7. CASE ZeroPoll  BY <1>7 DEF ZeroPoll
<1>8. CASE ZeroSample  BY <1>8 DEF ZeroSample
<1>9. CASE StabilizeSalvages  BY <1>9 DEF StabilizeSalvages, StabilizeUnchanged
<1>10. CASE StabilizeSettles  BY <1>10 DEF StabilizeSettles, StabilizeUnchanged
<1>11. CASE SalvagePoll  BY <1>11 DEF SalvagePoll
<1>12. CASE Stabilized  BY <1>12 DEF Stabilized
<1>13. CASE Record  BY <1>13 DEF Record, AfterRemoval
<1>14. CASE AiTare  BY <1>14 DEF AiTare, AfterRemoval
<1>15. CASE AiTared  BY <1>15 DEF AiTared, AfterRemoval
<1>16. CASE RemovalPoll  BY <1>16 DEF RemovalPoll, AfterRemoval
<1>17. CASE RemovalSample  BY <1>17 DEF RemovalSample, AfterRemoval
<1>18. CASE ReturnPoll  BY <1>18 DEF ReturnPoll
<1>19. CASE ReturnSample  BY <1>19 DEF ReturnSample
<1>. QED  BY <1>1, <1>2, <1>3, <1>4, <1>5, <1>6, <1>7, <1>8, <1>9, <1>10, <1>11, <1>12, <1>13,
          <1>14, <1>15, <1>16, <1>17, <1>18, <1>19 DEF CycleStep

\* The steps the controllers share write the state only inside charge mode.
LEMMA MenuChargeStep ==
  ASSUME DataOK, DriveInv, MenuInv, ChargeStep PROVE MenuInv'
<1>. USE DEF DataOK, DriveInv, MenuInv, RestOnlyExits, ManualLabels, SettleTargets
<1>1. CASE Begin  BY <1>1 DEF Begin, ResetCharge
<1>2. CASE CoarseReverseWait  BY <1>2 DEF CoarseReverseWait
<1>3. CASE FineReverseWait  BY <1>3 DEF FineReverseWait
<1>4. CASE Settle  BY <1>4 DEF Settle, EmergencyExit
<1>5. CASE Finish  BY <1>5 DEF Finish, RecordsCharge
<1>6. CASE PrechargeEnd  BY <1>6 DEF PrechargeEnd
<1>7. CASE Finished  BY <1>7 DEF Finished
<1>. QED  BY <1>1, <1>2, <1>3, <1>4, <1>5, <1>6, <1>7 DEF ChargeStep

\* The steps of the PID controller and of manual finish write the state only inside charge mode.
LEMMA MenuPidStep ==
  ASSUME DataOK, DriveInv, MenuInv, PidStep PROVE MenuInv'
<1>. USE DEF DataOK, DriveInv, MenuInv, RestOnlyExits, ManualLabels, SettleTargets
<1>1. CASE PidPoll  BY <1>1 DEF PidPoll, PollOrAbort, EmergencyExit
<1>2. CASE PidSampleFails  BY <1>2 DEF PidSampleFails, ScaleFails, EmergencyExit
<1>3. CASE PidHandsOver  BY <1>3 DEF PidHandsOver
<1>4. CASE PidReachesFineStop  BY <1>4 DEF PidReachesFineStop, FineReverseThen
<1>5. CASE PidReachesCoarseStop  BY <1>5 DEF PidReachesCoarseStop, MarkCoarseStop
<1>6. CASE PidKeepsOn  BY <1>6 DEF PidKeepsOn
<1>7. CASE PidDrive  BY <1>7 DEF PidDrive
<1>8. CASE PulsePoll  BY <1>8 DEF PulsePoll, PollOrAbort, EmergencyExit
<1>9. CASE PulseOn  BY <1>9 DEF PulseOn
<1>10. CASE PulseWaitPoll  BY <1>10 DEF PulseWaitPoll, PollOrAbort, EmergencyExit
<1>11. CASE PulseOff  BY <1>11 DEF PulseOff
<1>12. CASE ManualPoll  BY <1>12 DEF ManualPoll, PollOrAbort, EmergencyExit
<1>13. CASE ManualSampleFails  BY <1>13 DEF ManualSampleFails, ScaleFails, EmergencyExit
<1>14. CASE ManualSample  BY <1>14 DEF ManualSample, FineReverseThen
<1>15. CASE ManualEnd  BY <1>15 DEF ManualEnd
<1>. QED  BY <1>1, <1>2, <1>3, <1>4, <1>5, <1>6, <1>7, <1>8, <1>9, <1>10, <1>11, <1>12, <1>13,
          <1>14, <1>15 DEF PidStep

\* The steps of the adaptive controller write the state only inside charge mode.
LEMMA MenuAdaptiveStep ==
  ASSUME DataOK, DriveInv, MenuInv, AdaptiveStep PROVE MenuInv'
<1>. USE DEF DataOK, DriveInv, MenuInv, RestOnlyExits, ManualLabels, SettleTargets
<1>1. CASE AdaptivePoll  BY <1>1 DEF AdaptivePoll, PollOrAbort, EmergencyExit
<1>2. CASE AdaptiveSampleFails  BY <1>2 DEF AdaptiveSampleFails, ScaleFails, EmergencyExit
<1>3. CASE BulkDrive  BY <1>3 DEF BulkDrive
<1>4. CASE BulkRunPoll  BY <1>4 DEF BulkRunPoll, PollOrAbort, EmergencyExit
<1>5. CASE BulkRunAgain  BY <1>5 DEF BulkRunAgain
<1>6. CASE CoarseHandoff  BY <1>6 DEF CoarseHandoff, MarkCoarseStop
<1>7. CASE CoarseHandoffSettles  BY <1>7 DEF CoarseHandoffSettles
<1>8. CASE BulkSettled  BY <1>8 DEF BulkSettled
<1>9. CASE BulkDrained  BY <1>9 DEF BulkDrained, ReturnIfExit
<1>10. CASE TrimSettled  BY <1>10 DEF TrimSettled, ReturnIfExit
<1>11. CASE Glide  BY <1>11 DEF Glide
<1>12. CASE TrimDrive  BY <1>12 DEF TrimDrive
<1>13. CASE FineDecision  BY <1>13 DEF FineDecision
<1>14. CASE MarginSettled  BY <1>14 DEF MarginSettled, ReturnIfExit
<1>15. CASE TailWatch  BY <1>15 DEF TailWatch
<1>16. CASE FineSettled  BY <1>16 DEF FineSettled, ReturnIfExit
<1>17. CASE FineVerdict  BY <1>17 DEF FineVerdict
<1>18. CASE DoseReserve  BY <1>18 DEF DoseReserve
<1>19. CASE DosePoll  BY <1>19 DEF DosePoll, PollOrAbort, EmergencyExit
<1>20. CASE DoseOn  BY <1>20 DEF DoseOn
<1>21. CASE DoseWatch  BY <1>21 DEF DoseWatch
<1>22. CASE DoseSettled  BY <1>22 DEF DoseSettled, ReturnIfExit
<1>. QED  BY <1>1, <1>2, <1>3, <1>4, <1>5, <1>6, <1>7, <1>8, <1>9, <1>10, <1>11, <1>12, <1>13,
          <1>14, <1>15, <1>16, <1>17, <1>18, <1>19, <1>20, <1>21, <1>22 DEF AdaptiveStep

\* The steps of an AI sample write the state only inside charge mode.
LEMMA MenuAiStep ==
  ASSUME DataOK, DriveInv, MenuInv, AiStep PROVE MenuInv'
<1>. USE DEF DataOK, DriveInv, MenuInv, RestOnlyExits, ManualLabels, SettleTargets
<1>1. CASE AiPlan  BY <1>1 DEF AiPlan, EmergencyExit
<1>2. CASE AiRunPoll  BY <1>2 DEF AiRunPoll, PollOrAbort, EmergencyExit
<1>3. CASE AiRunOn  BY <1>3 DEF AiRunOn
<1>4. CASE AiStop  BY <1>4 DEF AiStop, MarkCoarseStop
<1>. QED  BY <1>1, <1>2, <1>3, <1>4 DEF AiStep

\* The steps of the REST handlers write nothing but EXIT.
LEMMA MenuRestStep ==
  ASSUME DataOK, QuietInv, MenuInv, RestStep PROVE MenuInv'
<1>. USE DEF DataOK, QuietInv, MenuInv, RestOnlyExits, ManualLabels, SettleTargets
<1>1. CASE RestExit  BY <1>1 DEF RestExit, RestUnchanged
<1>2. CASE RestExitSend  BY <1>2 DEF RestExitSend, RestSend, RestUnchanged
<1>3. CASE RestExitWrite  BY <1>3 DEF RestExitWrite, RestUnchanged
<1>4. CASE RestEnter  BY <1>4 DEF RestEnter, RestUnchanged
<1>5. CASE RestAiStart  BY <1>5 DEF RestAiStart, RestUnchanged
<1>6. CASE RestAiDecide  BY <1>6 DEF RestAiDecide, RestUnchanged
<1>7. CASE RestEnterState  BY <1>7 DEF RestEnterState, RestUnchanged
<1>8. CASE RestExitState  BY <1>8 DEF RestExitState, RestUnchanged
<1>9. CASE RestEnterSend  BY <1>9 DEF RestEnterSend, RestSend, RestUnchanged
<1>10. CASE RestAiSend  BY <1>10 DEF RestAiSend, RestSend, RestUnchanged
<1>11. CASE RestForce  BY <1>11 DEF RestForce, RestUnchanged
<1>12. CASE RestCancel  BY <1>12 DEF RestCancel, RestUnchanged
<1>13. CASE RestCancelIdle  BY <1>13 DEF RestCancelIdle, RestUnchanged
<1>14. CASE RestCancelSend  BY <1>14 DEF RestCancelSend, RestSend, RestUnchanged
<1>. QED  BY <1>1, <1>2, <1>3, <1>4, <1>5, <1>6, <1>7, <1>8, <1>9, <1>10, <1>11, <1>12, <1>13,
          <1>14 DEF RestStep

-----------------------------------------------------------------------------
(* The gate behind a charge. *)

\* Labels at which the gate may stand open.
Opened == {"finish", "salvage"} \union PidLabels \union AdaptiveLabels \union AiLabels
            \union WaitLabels

\* Labels the adaptive controller comes to only when it has found the state not EXIT, and
\* those a charge starts from.
Continuing == PidLabels \union {"begin", "stabilize", "adaptive", "adaptive_sample", "bulk_run",
  "bulk_run_on", "coarse_reverse", "glide", "fine_verdict", "dose_verdict"}

\* Outside a charge the gate is shut.  The adaptive controller leaves a charge wherever it
\* finds EXIT after a wait, without closing the gate: it is shut there because nobody but
\* emergency_exit, which has closed it, wrote EXIT.
ShutInv ==
  GateSettings =>
    /\ gate \in {"open", "partial"} => pc \in Opened
    /\ ~PidOnly => rest \notin {"exit_send", "exit_write"}
    /\ ~PidOnly /\ cmState = "EXIT" => gate \notin {"open", "partial"} /\ pc \notin Continuing

\* At power-up the gate has had no command.
LEMMA ShutInit == Init => ShutInv
BY DEF Init, ShutInv, Continuing, PidLabels

\* The steps around a charge leave the gate shut behind a charge.
LEMMA ShutCycleStep ==
  ASSUME DataOK, DriveInv, ReachInv, QuietInv, ShutInv, CycleStep PROVE ShutInv'
<1>. USE DEF DataOK, DriveInv, ReachInv, QuietInv, ShutInv, PidOnly, GateSettings, Opened,
          Continuing, ManualLabels, SettleTargets, PidLabels, AdaptiveLabels, AiLabels,
          WaitLabels
<1>1. CASE MenuForm  BY <1>1 DEF MenuForm
<1>2. CASE Dispatch  BY <1>2 DEF Dispatch
<1>3. CASE Enter  BY <1>3 DEF Enter
<1>4. CASE Loop  BY <1>4 DEF Loop, PhaseOf
<1>5. CASE Quit  BY <1>5 DEF Quit
<1>6. CASE Leave  BY <1>6 DEF Leave
<1>7. CASE ZeroPoll  BY <1>7 DEF ZeroPoll
<1>8. CASE ZeroSample  BY <1>8 DEF ZeroSample
<1>9. CASE StabilizeSalvages  BY <1>9 DEF StabilizeSalvages, StabilizeUnchanged
<1>10. CASE StabilizeSettles  BY <1>10 DEF StabilizeSettles, StabilizeUnchanged
<1>11. CASE SalvagePoll  BY <1>11 DEF SalvagePoll
<1>12. CASE Stabilized  BY <1>12 DEF Stabilized
<1>13. CASE Record  BY <1>13 DEF Record, AfterRemoval
<1>14. CASE AiTare  BY <1>14 DEF AiTare, AfterRemoval
<1>15. CASE AiTared  BY <1>15 DEF AiTared, AfterRemoval
<1>16. CASE RemovalPoll  BY <1>16 DEF RemovalPoll, AfterRemoval
<1>17. CASE RemovalSample  BY <1>17 DEF RemovalSample, AfterRemoval
<1>18. CASE ReturnPoll  BY <1>18 DEF ReturnPoll
<1>19. CASE ReturnSample  BY <1>19 DEF ReturnSample
<1>. QED  BY <1>1, <1>2, <1>3, <1>4, <1>5, <1>6, <1>7, <1>8, <1>9, <1>10, <1>11, <1>12, <1>13,
          <1>14, <1>15, <1>16, <1>17, <1>18, <1>19 DEF CycleStep

\* The steps the controllers share leave the gate shut behind a charge.
LEMMA ShutChargeStep ==
  ASSUME DataOK, DriveInv, ReachInv, QuietInv, ShutInv, ChargeStep PROVE ShutInv'
<1>. USE DEF DataOK, DriveInv, ReachInv, QuietInv, ShutInv, PidOnly, GateSettings, Opened,
          Continuing, ManualLabels, SettleTargets, PidLabels, AdaptiveLabels, AiLabels,
          WaitLabels
<1>1. CASE Begin  BY <1>1 DEF Begin, ResetCharge
<1>2. CASE CoarseReverseWait  BY <1>2 DEF CoarseReverseWait
<1>3. CASE FineReverseWait  BY <1>3 DEF FineReverseWait
<1>4. CASE Settle  BY <1>4 DEF Settle, EmergencyExit
<1>5. CASE Finish  BY <1>5 DEF Finish, RecordsCharge
<1>6. CASE PrechargeEnd  BY <1>6 DEF PrechargeEnd
<1>7. CASE Finished  BY <1>7 DEF Finished
<1>. QED  BY <1>1, <1>2, <1>3, <1>4, <1>5, <1>6, <1>7 DEF ChargeStep

\* The steps of the PID controller and of manual finish leave the gate shut behind a charge.
LEMMA ShutPidStep ==
  ASSUME DataOK, DriveInv, ReachInv, QuietInv, ShutInv, PidStep PROVE ShutInv'
<1>. USE DEF DataOK, DriveInv, ReachInv, QuietInv, ShutInv, PidOnly, GateSettings, Opened,
          Continuing, ManualLabels, SettleTargets, PidLabels, AdaptiveLabels, AiLabels,
          WaitLabels
<1>1. CASE PidPoll  BY <1>1 DEF PidPoll, PollOrAbort, EmergencyExit
<1>2. CASE PidSampleFails  BY <1>2 DEF PidSampleFails, ScaleFails, EmergencyExit
<1>3. CASE PidHandsOver  BY <1>3 DEF PidHandsOver
<1>4. CASE PidReachesFineStop  BY <1>4 DEF PidReachesFineStop, FineReverseThen
<1>5. CASE PidReachesCoarseStop  BY <1>5 DEF PidReachesCoarseStop, MarkCoarseStop
<1>6. CASE PidKeepsOn  BY <1>6 DEF PidKeepsOn
<1>7. CASE PidDrive  BY <1>7 DEF PidDrive
<1>8. CASE PulsePoll  BY <1>8 DEF PulsePoll, PollOrAbort, EmergencyExit
<1>9. CASE PulseOn  BY <1>9 DEF PulseOn
<1>10. CASE PulseWaitPoll  BY <1>10 DEF PulseWaitPoll, PollOrAbort, EmergencyExit
<1>11. CASE PulseOff  BY <1>11 DEF PulseOff
<1>12. CASE ManualPoll  BY <1>12 DEF ManualPoll, PollOrAbort, EmergencyExit
<1>13. CASE ManualSampleFails  BY <1>13 DEF ManualSampleFails, ScaleFails, EmergencyExit
<1>14. CASE ManualSample  BY <1>14 DEF ManualSample, FineReverseThen
<1>15. CASE ManualEnd  BY <1>15 DEF ManualEnd
<1>. QED  BY <1>1, <1>2, <1>3, <1>4, <1>5, <1>6, <1>7, <1>8, <1>9, <1>10, <1>11, <1>12, <1>13,
          <1>14, <1>15 DEF PidStep

\* The steps of the adaptive controller leave the gate shut behind a charge.
LEMMA ShutAdaptiveStep ==
  ASSUME DataOK, DriveInv, ReachInv, QuietInv, ShutInv, AdaptiveStep PROVE ShutInv'
<1>. USE DEF DataOK, DriveInv, ReachInv, QuietInv, ShutInv, PidOnly, GateSettings, Opened,
          Continuing, ManualLabels, SettleTargets, PidLabels, AdaptiveLabels, AiLabels,
          WaitLabels
<1>1. CASE AdaptivePoll  BY <1>1 DEF AdaptivePoll, PollOrAbort, EmergencyExit
<1>2. CASE AdaptiveSampleFails  BY <1>2 DEF AdaptiveSampleFails, ScaleFails, EmergencyExit
<1>3. CASE BulkDrive  BY <1>3 DEF BulkDrive
<1>4. CASE BulkRunPoll  BY <1>4 DEF BulkRunPoll, PollOrAbort, EmergencyExit
<1>5. CASE BulkRunAgain  BY <1>5 DEF BulkRunAgain
<1>6. CASE CoarseHandoff  BY <1>6 DEF CoarseHandoff, MarkCoarseStop
<1>7. CASE CoarseHandoffSettles  BY <1>7 DEF CoarseHandoffSettles
<1>8. CASE BulkSettled  BY <1>8 DEF BulkSettled
<1>9. CASE BulkDrained  BY <1>9 DEF BulkDrained, ReturnIfExit
<1>10. CASE TrimSettled  BY <1>10 DEF TrimSettled, ReturnIfExit
<1>11. CASE Glide  BY <1>11 DEF Glide
<1>12. CASE TrimDrive  BY <1>12 DEF TrimDrive
<1>13. CASE FineDecision  BY <1>13 DEF FineDecision
<1>14. CASE MarginSettled  BY <1>14 DEF MarginSettled, ReturnIfExit
<1>15. CASE TailWatch  BY <1>15 DEF TailWatch
<1>16. CASE FineSettled  BY <1>16 DEF FineSettled, ReturnIfExit
<1>17. CASE FineVerdict  BY <1>17 DEF FineVerdict
<1>18. CASE DoseReserve  BY <1>18 DEF DoseReserve
<1>19. CASE DosePoll  BY <1>19 DEF DosePoll, PollOrAbort, EmergencyExit
<1>20. CASE DoseOn  BY <1>20 DEF DoseOn
<1>21. CASE DoseWatch  BY <1>21 DEF DoseWatch
<1>22. CASE DoseSettled  BY <1>22 DEF DoseSettled, ReturnIfExit
<1>. QED  BY <1>1, <1>2, <1>3, <1>4, <1>5, <1>6, <1>7, <1>8, <1>9, <1>10, <1>11, <1>12, <1>13,
          <1>14, <1>15, <1>16, <1>17, <1>18, <1>19, <1>20, <1>21, <1>22 DEF AdaptiveStep

\* The steps of an AI sample leave the gate shut behind a charge.
LEMMA ShutAiStep ==
  ASSUME DataOK, DriveInv, ReachInv, QuietInv, ShutInv, AiStep PROVE ShutInv'
<1>. USE DEF DataOK, DriveInv, ReachInv, QuietInv, ShutInv, PidOnly, GateSettings, Opened,
          Continuing, ManualLabels, SettleTargets, PidLabels, AdaptiveLabels, AiLabels,
          WaitLabels
<1>1. CASE AiPlan  BY <1>1 DEF AiPlan, EmergencyExit
<1>2. CASE AiRunPoll  BY <1>2 DEF AiRunPoll, PollOrAbort, EmergencyExit
<1>3. CASE AiRunOn  BY <1>3 DEF AiRunOn
<1>4. CASE AiStop  BY <1>4 DEF AiStop, MarkCoarseStop
<1>. QED  BY <1>1, <1>2, <1>3, <1>4 DEF AiStep

\* The steps of the REST handlers leave the gate shut behind a charge.
LEMMA ShutRestStep ==
  ASSUME DataOK, DriveInv, ReachInv, QuietInv, ShutInv, RestStep PROVE ShutInv'
<1>. USE DEF DataOK, DriveInv, ReachInv, QuietInv, ShutInv, PidOnly, GateSettings, Opened,
          Continuing, ManualLabels, SettleTargets, PidLabels, AdaptiveLabels, AiLabels,
          WaitLabels
<1>1. CASE RestExit  BY <1>1 DEF RestExit, RestUnchanged
<1>2. CASE RestExitSend  BY <1>2 DEF RestExitSend, RestSend, RestUnchanged
<1>3. CASE RestExitWrite  BY <1>3 DEF RestExitWrite, RestUnchanged
<1>4. CASE RestEnter  BY <1>4 DEF RestEnter, RestUnchanged
<1>5. CASE RestAiStart  BY <1>5 DEF RestAiStart, RestUnchanged
<1>6. CASE RestAiDecide  BY <1>6 DEF RestAiDecide, RestUnchanged
<1>7. CASE RestEnterState  BY <1>7 DEF RestEnterState, RestUnchanged
<1>8. CASE RestExitState  BY <1>8 DEF RestExitState, RestUnchanged
<1>9. CASE RestEnterSend  BY <1>9 DEF RestEnterSend, RestSend, RestUnchanged
<1>10. CASE RestAiSend  BY <1>10 DEF RestAiSend, RestSend, RestUnchanged
<1>11. CASE RestForce  BY <1>11 DEF RestForce, RestUnchanged
<1>12. CASE RestCancel  BY <1>12 DEF RestCancel, RestUnchanged
<1>13. CASE RestCancelIdle  BY <1>13 DEF RestCancelIdle, RestUnchanged
<1>14. CASE RestCancelSend  BY <1>14 DEF RestCancelSend, RestSend, RestUnchanged
<1>. QED  BY <1>1, <1>2, <1>3, <1>4, <1>5, <1>6, <1>7, <1>8, <1>9, <1>10, <1>11, <1>12, <1>13,
          <1>14 DEF RestStep

-----------------------------------------------------------------------------
(* The theorems for every setting. *)

\* The inductive invariant: the types, the motors, the gate and the records.
IInv == FlagsOK /\ DataOK /\ DriveInv /\ GateInv /\ RecordInv /\ AbortInv

\* The invariant holds at power-up.
LEMMA IInvInit == Init => IInv
<1>1. ASSUME Init PROVE FlagsOK  BY <1>1 DEF Init, FlagsOK
<1>2. ASSUME Init PROVE DataOK
  BY <1>2, FailLimitAssumption, QueueLenAssumption
  DEF Init, DataOK, RestLabels, Labels, MenuLabels
<1>. QED  BY <1>1, <1>2, DriveInit, GateInit, RecordInit, AbortInit DEF IInv

\* A press of a button is taken only when the queue has room.
LEMMA PressData ==
  ASSUME DataOK, NEW e \in {"RST", "USER"}, Press(e) PROVE DataOK'
<1>1. queue' \in Seq(Events) /\ Len(queue') = Len(queue) + 1 /\ Len(queue) < QueueLen
  BY DEF Press, DataOK, Events
<1>. QED  BY <1>1, QueueLenAssumption DEF Press, DataOK

\* Every step of the menu task, of the REST handlers and of the interrupts keeps it.
LEMMA IInvStep == IInv /\ [Next]_vars => IInv'
<1>. SUFFICES ASSUME IInv, [Next]_vars PROVE IInv'
  OBVIOUS
<1>1. FlagsOK /\ DataOK /\ DriveInv /\ GateInv /\ RecordInv /\ AbortInv  BY DEF IInv
<1>2. CASE CycleStep
  BY <1>1, <1>2, FlagsCycleStep, DataCycleStep, DriveCycleStep, GateCycleStep, RecordCycleStep,
     AbortCycleStep
  DEF IInv
<1>3. CASE ChargeStep
  BY <1>1, <1>3, FlagsChargeStep, DataChargeStep, DriveChargeStep, GateChargeStep,
     RecordChargeStep, AbortChargeStep
  DEF IInv
<1>4. CASE PidStep
  BY <1>1, <1>4, FlagsPidStep, DataPidStep, DrivePidStep, GatePidStep, RecordPidStep,
     AbortPidStep
  DEF IInv
<1>5. CASE AdaptiveStep
  BY <1>1, <1>5, FlagsAdaptiveStep, DataAdaptiveStep, DriveAdaptiveStep, GateAdaptiveStep,
     RecordAdaptiveStep, AbortAdaptiveStep
  DEF IInv
<1>6. CASE AiStep
  BY <1>1, <1>6, FlagsAiStep, DataAiStep, DriveAiStep, GateAiStep, RecordAiStep, AbortAiStep
  DEF IInv
<1>7. CASE RestStep
  <2>1. FlagsOK'  BY <1>1, <1>7, RestFrame DEF FlagsOK
  <2>2. DataOK'  BY <1>1, <1>7, DataRestStep
  <2>3. DriveInv' /\ GateInv' /\ RecordInv'
    BY <1>1, <1>7, RestFrame DEF DriveInv, GateInv, RecordInv, RecordsMatchController
  <2>4. AbortInv'  BY <1>1, <1>7, AbortRestStep
  <2>. QED  BY <2>1, <2>2, <2>3, <2>4 DEF IInv
<1>8. ASSUME NEW e \in {"RST", "USER"}, Press(e) PROVE IInv'
  <2>1. DataOK'  BY <1>1, <1>8, PressData
  <2>2. FlagsOK'  BY <1>1, <1>8 DEF Press, FlagsOK
  <2>3. DriveInv' /\ GateInv' /\ RecordInv' /\ AbortInv'
    BY <1>1, <1>8 DEF Press, DriveInv, GateInv, RecordInv, RecordsMatchController, AbortInv
  <2>. QED  BY <2>1, <2>2, <2>3 DEF IInv
<1>9. CASE UNCHANGED vars
  <2>1. FlagsOK' /\ DataOK'  BY <1>1, <1>9 DEF vars, FlagsOK, DataOK
  <2>2. DriveInv' /\ GateInv' /\ RecordInv' /\ AbortInv'
    BY <1>1, <1>9 DEF vars, DriveInv, GateInv, RecordInv, RecordsMatchController, AbortInv
  <2>. QED  BY <2>1, <2>2 DEF IInv
<1>. QED  BY <1>2, <1>3, <1>4, <1>5, <1>6, <1>7, <1>8, <1>9 DEF Next, MenuStep

\* So it holds throughout.
LEMMA IInvAlways == Spec => []IInv
BY IInvInit, IInvStep, PTL DEF Spec

\* Every variable keeps to its type and the event queue to its length, whatever the
\* REST handlers and the interrupts send.
THEOREM TypeCorrect == Spec => []TypeOK
<1>1. IInv => TypeOK  BY DEF IInv, TypeOK
<1>. QED  BY <1>1, IInvAlways, PTL

\* No motor is left commanded outside the loops that dispense.
THEOREM MotorsStopped == Spec => []NoMotionOutsideDispensing
<1>1. IInv => NoMotionOutsideDispensing
  BY DEF IInv, DriveInv, NoMotionOutsideDispensing, Still
<1>. QED  BY <1>1, IInvAlways, PTL

\* With a servo gate, enabled motors push powder only while the gate is open.
THEOREM GateOpenWhileFeeding == Spec => []FeedsThroughOpenGate
<1>1. ASSUME IInv PROVE FeedsThroughOpenGate
  <2>1. CASE pc \in Dispensing
    BY <1>1, <2>1 DEF IInv, GateInv, FeedsThroughOpenGate, Feeding
  <2>2. CASE pc \notin Dispensing
    BY <1>1, <2>2 DEF IInv, DriveInv, Still, FeedsThroughOpenGate
  <2>. QED  BY <2>1, <2>2
<1>. QED  BY <1>1, IInvAlways, PTL

\* The record flags of one charge never reach the next one.
THEOREM RecordsFresh == Spec => []NoStaleRecord
<1>1. IInv => NoStaleRecord  BY DEF IInv, RecordInv, NoStaleRecord, Charging
<1>. QED  BY <1>1, IInvAlways, PTL

\* A charge leaves only the record of the controller that ran it.
THEOREM RecordsCorrect == Spec => []RecordsMatchController
<1>1. IInv => RecordsMatchController  BY DEF IInv, RecordInv
<1>. QED  BY <1>1, IInvAlways, PTL

\* An emergency exit, from any loop or wait of either controller, leaves motors and gate
\* as it put them and ends charge mode, unless it is lost to a REST handler or in the wait
\* before a recovery dose.
THEOREM AbortsEnd == Spec => []AbortEndsCharge
<1>1. IInv => AbortEndsCharge  BY DEF IInv, AbortInv, AbortEndsCharge
<1>. QED  BY <1>1, IInvAlways, PTL

\* Whatever REST clients write, a charge is run with its motors enabled, or else after an
\* abort that was lost, and then with none enabled.
THEOREM MotorsEnabledInCharge == Spec => []ChargesWithMotorsEnabled
<1>1. ASSUME IInv PROVE ChargesWithMotorsEnabled
  <2>1. AbortInv /\ abort \in {"none", "set", "lost"}  BY <1>1 DEF IInv, DataOK
  <2>. QED
    BY <2>1
    DEF AbortInv, AbortTargets, SettleTargets, ChargesWithMotorsEnabled, PidLabels, AiLabels
<1>. QED  BY <1>1, IInvAlways, PTL

-----------------------------------------------------------------------------
(* The theorems for some settings. *)

\* What holds under the settings named in each part.
SettingsInv == ReachInv /\ QuietInv /\ MenuInv /\ ShutInv

\* It holds at power-up.
LEMMA SettingsInvInit == Init => SettingsInv
BY ReachInit, QuietInit, MenuInit, ShutInit DEF SettingsInv

\* Every step of the menu task, of the REST handlers and of the interrupts keeps it.
LEMMA SettingsInvStep == IInv /\ SettingsInv /\ [Next]_vars => SettingsInv'
<1>. SUFFICES ASSUME IInv, SettingsInv, [Next]_vars PROVE SettingsInv'
  OBVIOUS
<1>1. DataOK /\ DriveInv  BY DEF IInv
<1>2. ReachInv /\ QuietInv /\ MenuInv /\ ShutInv  BY DEF SettingsInv
<1>3. CASE CycleStep
  BY <1>1, <1>2, <1>3, ReachCycleStep, QuietCycleStep, MenuCycleStep,
     ShutCycleStep
  DEF SettingsInv
<1>4. CASE ChargeStep
  BY <1>1, <1>2, <1>4, ReachChargeStep, QuietChargeStep, MenuChargeStep,
     ShutChargeStep
  DEF SettingsInv
<1>5. CASE PidStep
  BY <1>1, <1>2, <1>5, ReachPidStep, QuietPidStep, MenuPidStep, ShutPidStep
  DEF SettingsInv
<1>6. CASE AdaptiveStep
  BY <1>1, <1>2, <1>6, ReachAdaptiveStep, QuietAdaptiveStep, MenuAdaptiveStep,
     ShutAdaptiveStep
  DEF SettingsInv
<1>7. CASE AiStep
  BY <1>1, <1>2, <1>7, ReachAiStep, QuietAiStep, MenuAiStep, ShutAiStep
  DEF SettingsInv
<1>8. CASE RestStep
  <2>1. ReachInv'  BY <1>2, <1>8, RestFrame DEF ReachInv
  <2>. QED
    BY <1>1, <1>2, <1>8, <2>1, QuietRestStep, MenuRestStep, ShutRestStep
    DEF SettingsInv
<1>9. ASSUME NEW e \in {"RST", "USER"}, Press(e) PROVE SettingsInv'
  BY <1>2, <1>9
  DEF Press, SettingsInv, ReachInv, QuietInv, MenuInv, ShutInv
<1>10. CASE UNCHANGED vars
  BY <1>2, <1>10
  DEF vars, SettingsInv, ReachInv, QuietInv, MenuInv, ShutInv
<1>. QED  BY <1>3, <1>4, <1>5, <1>6, <1>7, <1>8, <1>9, <1>10 DEF Next, MenuStep

\* So it holds throughout.
LEMMA SettingsInvAlways == Spec => []SettingsInv
BY IInvAlways, SettingsInvInit, SettingsInvStep, PTL DEF Spec

\* With charges that are not finished by hand, the gate is shut when the menu is back,
\* under PID for any REST commands, and under the adaptive controller as long as no REST
\* command writes EXIT.
THEOREM GateShutAtIdle ==
  ASSUME GateSettings PROVE Spec => []GateClosedAtIdle
<1>1. SettingsInv => GateClosedAtIdle
  BY DEF SettingsInv, ShutInv, GateClosedAtIdle, Opened, PidLabels, AdaptiveLabels, AiLabels,
         WaitLabels
<1>. QED  BY <1>1, SettingsInvAlways, PTL

\* With REST clients that only exit, charge_mode_state claims a charge only while
\* charge_mode_menu runs one, under either controller.
THEOREM ChargesAreReal ==
  ASSUME RestOnlyExits PROVE Spec => []NoPhantomCharge
<1>1. SettingsInv => NoPhantomCharge  BY DEF SettingsInv, MenuInv, NoPhantomCharge
<1>. QED  BY <1>1, SettingsInvAlways, PTL

-----------------------------------------------------------------------------
(* Charge mode implements the cycle. *)

\* The steps around a charge are steps of the cycle, or none of its.
LEMMA RefineCycleStep ==
  ASSUME DataOK, DriveInv, QuietInv, MenuInv, RestOnlyExits, CycleStep
  PROVE  [Cycle!CycleNext]_(Cycle!cycleVars)
<1>. USE DEF DataOK, DriveInv, QuietInv, MenuInv, RestOnlyExits, CyclePhase, PhaseOf,
          Cycle!CycleNext, Cycle!Move, Cycle!Feed, Cycle!Abandon, Cycle!cycleVars, Still,
          CoarseStill, Dispensing, SettleTargets, Labels, PidLabels, AdaptiveLabels, AiLabels,
          WaitLabels, MenuLabels, CupLabels
<1>1. CASE MenuForm  BY <1>1 DEF MenuForm
<1>2. CASE Dispatch  BY <1>2 DEF Dispatch
<1>3. CASE Enter  BY <1>3 DEF Enter
<1>4. CASE Loop  BY <1>4 DEF Loop
<1>5. CASE Quit  BY <1>5 DEF Quit
<1>6. CASE Leave  BY <1>6 DEF Leave
<1>7. CASE ZeroPoll  BY <1>7 DEF ZeroPoll
<1>8. CASE ZeroSample  BY <1>8 DEF ZeroSample
<1>9. CASE StabilizeSalvages  BY <1>9 DEF StabilizeSalvages, StabilizeUnchanged
<1>10. CASE StabilizeSettles  BY <1>10 DEF StabilizeSettles, StabilizeUnchanged
<1>11. CASE SalvagePoll  BY <1>11 DEF SalvagePoll
<1>12. CASE Stabilized  BY <1>12 DEF Stabilized
<1>13. CASE Record  BY <1>13 DEF Record, AfterRemoval
<1>14. CASE AiTare  BY <1>14 DEF AiTare, AfterRemoval
<1>15. CASE AiTared  BY <1>15 DEF AiTared, AfterRemoval
<1>16. CASE RemovalPoll  BY <1>16 DEF RemovalPoll, AfterRemoval
<1>17. CASE RemovalSample  BY <1>17 DEF RemovalSample, AfterRemoval
<1>18. CASE ReturnPoll  BY <1>18 DEF ReturnPoll
<1>19. CASE ReturnSample  BY <1>19 DEF ReturnSample
<1>. QED  BY <1>1, <1>2, <1>3, <1>4, <1>5, <1>6, <1>7, <1>8, <1>9, <1>10, <1>11, <1>12, <1>13,
          <1>14, <1>15, <1>16, <1>17, <1>18, <1>19 DEF CycleStep

\* The steps the controllers share are steps of the cycle, or none of its.
LEMMA RefineChargeStep ==
  ASSUME DataOK, DriveInv, QuietInv, MenuInv, RestOnlyExits, ChargeStep
  PROVE  [Cycle!CycleNext]_(Cycle!cycleVars)
<1>. USE DEF DataOK, DriveInv, QuietInv, MenuInv, RestOnlyExits, CyclePhase, PhaseOf,
          Cycle!CycleNext, Cycle!Move, Cycle!Feed, Cycle!Abandon, Cycle!cycleVars, Still,
          CoarseStill, Dispensing, SettleTargets, Labels, PidLabels, AdaptiveLabels, AiLabels,
          WaitLabels, MenuLabels, CupLabels
<1>1. CASE Begin  BY <1>1 DEF Begin, ResetCharge
<1>2. CASE CoarseReverseWait  BY <1>2 DEF CoarseReverseWait
<1>3. CASE FineReverseWait  BY <1>3 DEF FineReverseWait
<1>4. CASE Settle  BY <1>4 DEF Settle, EmergencyExit, CancelSample
<1>5. CASE Finish  BY <1>5 DEF Finish, RecordsCharge
<1>6. CASE PrechargeEnd  BY <1>6 DEF PrechargeEnd
<1>7. CASE Finished  BY <1>7 DEF Finished
<1>. QED  BY <1>1, <1>2, <1>3, <1>4, <1>5, <1>6, <1>7 DEF ChargeStep

\* The steps of the PID controller and of manual finish are steps of the cycle, or none of its.
LEMMA RefinePidStep ==
  ASSUME DataOK, DriveInv, QuietInv, MenuInv, RestOnlyExits, PidStep
  PROVE  [Cycle!CycleNext]_(Cycle!cycleVars)
<1>. USE DEF DataOK, DriveInv, QuietInv, MenuInv, RestOnlyExits, CyclePhase, PhaseOf,
          Cycle!CycleNext, Cycle!Move, Cycle!Feed, Cycle!Abandon, Cycle!cycleVars, Still,
          CoarseStill, Dispensing, SettleTargets, Labels, PidLabels, AdaptiveLabels, AiLabels,
          WaitLabels, MenuLabels, CupLabels
<1>1. CASE PidPoll  BY <1>1 DEF PidPoll, PollOrAbort, EmergencyExit, CancelSample
<1>2. CASE PidSampleFails  BY <1>2 DEF PidSampleFails, ScaleFails, EmergencyExit, CancelSample
<1>3. CASE PidHandsOver  BY <1>3 DEF PidHandsOver
<1>4. CASE PidReachesFineStop  BY <1>4 DEF PidReachesFineStop, FineReverseThen
<1>5. CASE PidReachesCoarseStop  BY <1>5 DEF PidReachesCoarseStop, MarkCoarseStop
<1>6. CASE PidKeepsOn  BY <1>6 DEF PidKeepsOn
<1>7. CASE PidDrive  BY <1>7 DEF PidDrive
<1>8. CASE PulsePoll  BY <1>8 DEF PulsePoll, PollOrAbort, EmergencyExit, CancelSample
<1>9. CASE PulseOn  BY <1>9 DEF PulseOn
<1>10. CASE PulseWaitPoll  BY <1>10 DEF PulseWaitPoll, PollOrAbort, EmergencyExit, CancelSample
<1>11. CASE PulseOff  BY <1>11 DEF PulseOff
<1>12. CASE ManualPoll  BY <1>12 DEF ManualPoll, PollOrAbort, EmergencyExit, CancelSample
<1>13. CASE ManualSampleFails
  BY <1>13
  DEF ManualSampleFails, ScaleFails, EmergencyExit, CancelSample
<1>14. CASE ManualSample  BY <1>14 DEF ManualSample, FineReverseThen
<1>15. CASE ManualEnd  BY <1>15 DEF ManualEnd
<1>. QED  BY <1>1, <1>2, <1>3, <1>4, <1>5, <1>6, <1>7, <1>8, <1>9, <1>10, <1>11, <1>12, <1>13,
          <1>14, <1>15 DEF PidStep

\* The steps of the adaptive controller are steps of the cycle, or none of its.
LEMMA RefineAdaptiveStep ==
  ASSUME DataOK, DriveInv, QuietInv, MenuInv, RestOnlyExits, AdaptiveStep
  PROVE  [Cycle!CycleNext]_(Cycle!cycleVars)
<1>. USE DEF DataOK, DriveInv, QuietInv, MenuInv, RestOnlyExits, CyclePhase, PhaseOf,
          Cycle!CycleNext, Cycle!Move, Cycle!Feed, Cycle!Abandon, Cycle!cycleVars, Still,
          CoarseStill, Dispensing, SettleTargets, Labels, PidLabels, AdaptiveLabels, AiLabels,
          WaitLabels, MenuLabels, CupLabels
<1>1. CASE AdaptivePoll  BY <1>1 DEF AdaptivePoll, PollOrAbort, EmergencyExit, CancelSample
<1>2. CASE AdaptiveSampleFails
  BY <1>2
  DEF AdaptiveSampleFails, ScaleFails, EmergencyExit, CancelSample
<1>3. CASE BulkDrive  BY <1>3 DEF BulkDrive
<1>4. CASE BulkRunPoll  BY <1>4 DEF BulkRunPoll, PollOrAbort, EmergencyExit, CancelSample
<1>5. CASE BulkRunAgain  BY <1>5 DEF BulkRunAgain
<1>6. CASE CoarseHandoff  BY <1>6 DEF CoarseHandoff, MarkCoarseStop
<1>7. CASE CoarseHandoffSettles  BY <1>7 DEF CoarseHandoffSettles
<1>8. CASE BulkSettled  BY <1>8 DEF BulkSettled
<1>9. CASE BulkDrained  BY <1>9 DEF BulkDrained, ReturnIfExit
<1>10. CASE TrimSettled  BY <1>10 DEF TrimSettled, ReturnIfExit
<1>11. CASE Glide  BY <1>11 DEF Glide
<1>12. CASE TrimDrive  BY <1>12 DEF TrimDrive
<1>13. CASE FineDecision  BY <1>13 DEF FineDecision
<1>14. CASE MarginSettled  BY <1>14 DEF MarginSettled, ReturnIfExit
<1>15. CASE TailWatch  BY <1>15 DEF TailWatch
<1>16. CASE FineSettled  BY <1>16 DEF FineSettled, ReturnIfExit
<1>17. CASE FineVerdict  BY <1>17 DEF FineVerdict
<1>18. CASE DoseReserve  BY <1>18 DEF DoseReserve
<1>19. CASE DosePoll  BY <1>19 DEF DosePoll, PollOrAbort, EmergencyExit, CancelSample
<1>20. CASE DoseOn  BY <1>20 DEF DoseOn
<1>21. CASE DoseWatch  BY <1>21 DEF DoseWatch
<1>22. CASE DoseSettled  BY <1>22 DEF DoseSettled, ReturnIfExit
<1>. QED  BY <1>1, <1>2, <1>3, <1>4, <1>5, <1>6, <1>7, <1>8, <1>9, <1>10, <1>11, <1>12, <1>13,
          <1>14, <1>15, <1>16, <1>17, <1>18, <1>19, <1>20, <1>21, <1>22 DEF AdaptiveStep

\* The steps of an AI sample are steps of the cycle, or none of its.
LEMMA RefineAiStep ==
  ASSUME DataOK, DriveInv, QuietInv, MenuInv, RestOnlyExits, AiStep
  PROVE  [Cycle!CycleNext]_(Cycle!cycleVars)
<1>. USE DEF DataOK, DriveInv, QuietInv, MenuInv, RestOnlyExits, CyclePhase, PhaseOf,
          Cycle!CycleNext, Cycle!Move, Cycle!Feed, Cycle!Abandon, Cycle!cycleVars, Still,
          CoarseStill, Dispensing, SettleTargets, Labels, PidLabels, AdaptiveLabels, AiLabels,
          WaitLabels, MenuLabels, CupLabels
<1>1. CASE AiPlan  BY <1>1 DEF AiPlan, EmergencyExit, CancelSample
<1>2. CASE AiRunPoll  BY <1>2 DEF AiRunPoll, PollOrAbort, EmergencyExit, CancelSample
<1>3. CASE AiRunOn  BY <1>3 DEF AiRunOn
<1>4. CASE AiStop  BY <1>4 DEF AiStop, MarkCoarseStop
<1>. QED  BY <1>1, <1>2, <1>3, <1>4 DEF AiStep

\* The steps of the REST handlers are steps of the cycle, or none of its.
LEMMA RefineRestStep ==
  ASSUME DataOK, DriveInv, QuietInv, MenuInv, RestOnlyExits, RestStep
  PROVE  [Cycle!CycleNext]_(Cycle!cycleVars)
<1>. USE DEF DataOK, DriveInv, QuietInv, MenuInv, RestOnlyExits, CyclePhase, PhaseOf,
          Cycle!CycleNext, Cycle!Move, Cycle!Feed, Cycle!Abandon, Cycle!cycleVars, Still,
          CoarseStill, Dispensing, SettleTargets, Labels, PidLabels, AdaptiveLabels, AiLabels,
          WaitLabels, MenuLabels, CupLabels
<1>1. CASE RestExit  BY <1>1 DEF RestExit, RestUnchanged
<1>2. CASE RestExitSend  BY <1>2 DEF RestExitSend, RestSend, RestUnchanged
<1>3. CASE RestExitWrite  BY <1>3 DEF RestExitWrite, RestUnchanged
<1>4. CASE RestEnter  BY <1>4 DEF RestEnter, RestUnchanged
<1>5. CASE RestAiStart  BY <1>5 DEF RestAiStart, RestUnchanged
<1>6. CASE RestAiDecide  BY <1>6 DEF RestAiDecide, RestUnchanged
<1>7. CASE RestEnterState  BY <1>7 DEF RestEnterState, RestUnchanged
<1>8. CASE RestExitState  BY <1>8 DEF RestExitState, RestUnchanged
<1>9. CASE RestEnterSend  BY <1>9 DEF RestEnterSend, RestSend, RestUnchanged
<1>10. CASE RestAiSend  BY <1>10 DEF RestAiSend, RestSend, RestUnchanged
<1>11. CASE RestForce  BY <1>11 DEF RestForce, RestUnchanged
<1>12. CASE RestCancel  BY <1>12 DEF RestCancel, RestUnchanged
<1>13. CASE RestCancelIdle  BY <1>13 DEF RestCancelIdle, RestUnchanged
<1>14. CASE RestCancelSend  BY <1>14 DEF RestCancelSend, RestSend, RestUnchanged
<1>. QED  BY <1>1, <1>2, <1>3, <1>4, <1>5, <1>6, <1>7, <1>8, <1>9, <1>10, <1>11, <1>12, <1>13,
          <1>14 DEF RestStep

\* Every step, of whichever actor, is a step of the cycle or leaves it where it is.
LEMMA RefineStep ==
  ASSUME RestOnlyExits
  PROVE  IInv /\ SettingsInv /\ [Next]_vars => [Cycle!CycleNext]_(Cycle!cycleVars)
<1>. SUFFICES ASSUME IInv, SettingsInv, [Next]_vars
              PROVE  [Cycle!CycleNext]_(Cycle!cycleVars)
  OBVIOUS
<1>1. DataOK /\ DriveInv /\ QuietInv /\ MenuInv  BY DEF IInv, SettingsInv
<1>2. CASE CycleStep  BY <1>1, <1>2, RefineCycleStep
<1>3. CASE ChargeStep  BY <1>1, <1>3, RefineChargeStep
<1>4. CASE PidStep  BY <1>1, <1>4, RefinePidStep
<1>5. CASE AdaptiveStep  BY <1>1, <1>5, RefineAdaptiveStep
<1>6. CASE AiStep  BY <1>1, <1>6, RefineAiStep
<1>7. CASE RestStep  BY <1>1, <1>7, RefineRestStep
<1>8. ASSUME NEW e \in {"RST", "USER"}, Press(e)
      PROVE  [Cycle!CycleNext]_(Cycle!cycleVars)
  BY <1>8 DEF Press, CyclePhase, Cycle!cycleVars
<1>9. CASE UNCHANGED vars  BY <1>9 DEF vars, CyclePhase, Cycle!cycleVars
<1>. QED  BY <1>2, <1>3, <1>4, <1>5, <1>6, <1>7, <1>8, <1>9 DEF Next, MenuStep

\* With REST clients that only exit, charge mode goes through the cycle of ChargeCycle,
\* under either controller and with every combination of switches: no second charge on
\* one cup, no charge on a scale not zeroed, no motor turning between charges.
THEOREM CycleKept ==
  ASSUME RestOnlyExits PROVE Spec => KeepsCycle
<1>1. Init => Cycle!CycleInit  BY DEF Init, Cycle!CycleInit, CyclePhase, MenuLabels
<1>. QED
  BY <1>1, RefineStep, IInvAlways, SettingsInvAlways, PTL DEF Spec, KeepsCycle, Cycle!CycleSpec

=============================================================================
