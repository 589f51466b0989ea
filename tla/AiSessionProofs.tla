---------------------------- MODULE AiSessionProofs ----------------------------
(***************************************************************************)
(* For any number of profiles, samples and calibration samples: what a      *)
(* session measures goes to the motor and the profile it was measured on,   *)
(* what is saved is what is in memory, and a charge becomes a sample only   *)
(* when a start asked for it or a session was left open.                    *)
(***************************************************************************)
EXTENDS AiSession, TLAPS

LEMMA Bounds ==
  /\ ProfileCount \in Nat \ {0} /\ Samples \in Nat \ {0} /\ CalSamples \in Nat \ {0}
  /\ Production \in Nat /\ CalMin \in Nat /\ CalMin <= Production /\ Production <= CalSamples
BY ProfilesAssumption, SamplesAssumption

States == {"idle", "ready", "error"} \union Characterizing \union Calibrating

\* The index stays inside the stage, and a calibration counts no more than a stage's
\* production samples.
StageOK(s) ==
  /\ s.state \in Characterizing => s.index < Samples
  /\ s.state \in Calibrating => s.index < CalSamples
  /\ s.state \in {"idle", "coarse", "fine"} => s.coarse = 0 /\ s.fine = 0
  /\ s.state = "cal_coarse" => s.coarse + s.fine <= s.index /\ s.coarse + s.fine <= Production
  /\ s.state = "cal_fine" => s.coarse + s.fine <= Production + s.index
  /\ s.coarse + s.fine <= 2 * Production
StageInv == StageOK(session)

\* The motor of a sample being dispensed is that of the stage its session is in.
PlanInv ==
  charge.at \in {"dispense", "record"} /\ charge.ai /\ ~charge.orphan /\ Active
    => charge.motor = MotorOf(session.state)

\* An open session is on its way to charge mode, in a run that was asked for, or left.
AskInv ==
  Active => IF charge.at = "off" THEN entry \/ rest.at = "enter" \/ left ELSE asked \/ left

\* Every model kept is of the profile it is kept for, and holds samples of the right motors.
Clean(p, m) == m \in Models /\ m.owner \in {0, p} /\ ~m.mixed
DataInv ==
  /\ Clean(session.profile, session.model)
  /\ \A p \in Profiles : Clean(p, history[p]) /\ Clean(p, flash[p].model)

\* Only a charge under way is a sample.
SampleInv == charge.at \in {"off", "wait"} => ~charge.ai

\* The block is written from the front: with its first page goes all of it.
BlockInv == flash[1].pages = 0 => \A p \in Profiles : flash[p].pages = 0

Sessions == [state : States, profile : Profiles, index : 0..(Samples + CalSamples - 1),
             coarse : Nat, fine : Nat, model : Models]

-----------------------------------------------------------------------------
(* What the functions of ai_tuning.c do to a session. *)

\* Counting a sample changes one count, and only in a calibration.
LEMMA CountedFacts ==
  ASSUME TypeOK, NEW motor \in {"coarse", "fine"}
  PROVE  /\ Counted(motor) \in Sessions
         /\ Counted(motor).state = session.state /\ Counted(motor).index = session.index
         /\ Counted(motor).profile = session.profile /\ Counted(motor).model = session.model
         /\ Counted(motor).coarse + Counted(motor).fine =
              session.coarse + session.fine +
                IF session.state \in Calibrating /\ session.index < Production THEN 1 ELSE 0
         /\ session.state \notin Calibrating =>
              Counted(motor).coarse = session.coarse /\ Counted(motor).fine = session.fine
         /\ motor = "coarse" => Counted(motor).fine = session.fine
<1>1. CASE motor = "coarse"
  BY <1>1, Bounds DEF Counted, TypeOK, States, Sessions
<1>2. CASE motor = "fine"
  BY <1>2, Bounds DEF Counted, TypeOK, States, Sessions
<1>3. QED
  BY <1>1, <1>2

\* A sample of the right motor, or of a session that is gone, leaves the model unmixed;
\* its profile it leaves in any case.
LEMMA TakenFacts ==
  ASSUME TypeOK, StageInv, PlanInv, charge.at = "record", charge.ai, Active
  PROVE  /\ Taken \in Sessions
         /\ Taken.state = session.state /\ Taken.index = session.index
         /\ Taken.profile = session.profile /\ Taken.model.owner = session.model.owner
         /\ Taken.model.mixed = session.model.mixed
         /\ Taken.coarse + Taken.fine =
              session.coarse + session.fine +
                IF session.state \in Calibrating /\ session.index < Production THEN 1 ELSE 0
         /\ session.state \notin Calibrating =>
              Taken.coarse = session.coarse /\ Taken.fine = session.fine
<1> DEFINE c == Counted(charge.motor)
           m == c.model.mixed \/ (charge.motor # MotorOf(session.state) /\ ~charge.orphan)
<1>1. charge.motor \in {"coarse", "fine"} /\ charge.orphan \in BOOLEAN
  BY DEF TypeOK
<1>2. /\ c \in Sessions
      /\ c.state = session.state /\ c.index = session.index
      /\ c.profile = session.profile /\ c.model = session.model
  BY <1>1, CountedFacts
<1>3. m = session.model.mixed
  BY <1>1, <1>2 DEF PlanInv, TypeOK, Models
<1>4. Taken = [c EXCEPT !.model = [c.model EXCEPT !.mixed = m]]
  BY DEF Taken
<1> HIDE DEF c, m
<1>5. /\ Taken \in Sessions
      /\ Taken.model = session.model
      /\ Taken.state = c.state /\ Taken.index = c.index /\ Taken.profile = c.profile
      /\ Taken.coarse = c.coarse /\ Taken.fine = c.fine
  BY <1>2, <1>3, <1>4 DEF Sessions, Models
<1>6. QED
  BY <1>1, <1>2, <1>5, CountedFacts DEF c

\* What a sample leaves of the session: its stage, the next one, or a verdict.
LEMMA AfterFacts ==
  ASSUME TypeOK, StageInv, PlanInv, charge.at = "record", charge.ai, Active,
         NEW b \in BOOLEAN, NEW d \in BOOLEAN
  PROVE  /\ AfterSample(Taken, b, d) \in Sessions
         /\ StageOK(AfterSample(Taken, b, d))
         /\ AfterSample(Taken, b, d).profile = session.profile
         /\ AfterSample(Taken, b, d).model.owner = session.model.owner
         /\ AfterSample(Taken, b, d).model.mixed = session.model.mixed
<1> DEFINE n == session.index + 1
<1>0. PICK a : a = AfterSample(Taken, b, d)
  OBVIOUS
<1>1. /\ Taken \in Sessions
      /\ Taken.state = session.state /\ Taken.index = session.index
      /\ Taken.profile = session.profile /\ Taken.model.owner = session.model.owner
      /\ Taken.model.mixed = session.model.mixed
      /\ Taken.coarse + Taken.fine =
           session.coarse + session.fine +
             IF session.state \in Calibrating /\ session.index < Production THEN 1 ELSE 0
      /\ session.state \notin Calibrating =>
           Taken.coarse = session.coarse /\ Taken.fine = session.fine
  BY TakenFacts
<1>2. /\ session.index \in Nat /\ session.coarse \in Nat /\ session.fine \in Nat
      /\ Taken.index \in Nat /\ Taken.coarse \in Nat /\ Taken.fine \in Nat
      /\ session.state \in Characterizing \union Calibrating
  BY <1>1, Bounds DEF TypeOK, Sessions, Active
<1>3. CASE ~StageOver(b)
  <2>1. a = [Taken EXCEPT !.index = n]
    BY <1>0, <1>1, <1>3 DEF AfterSample
  <2>2. /\ session.state \in Characterizing => n < Samples
        /\ session.state \in Calibrating => n < CalSamples
    BY <1>2, <1>3, Bounds DEF StageOver, StageInv, StageOK, Characterizing, Calibrating
  <2>3. n \in 0..(Samples + CalSamples - 1)
    BY <1>2, <2>2, Bounds
  <2>4. /\ a \in Sessions
        /\ a.state = Taken.state /\ a.index = n /\ a.coarse = Taken.coarse /\ a.fine = Taken.fine
        /\ a.profile = Taken.profile /\ a.model = Taken.model
    BY <1>1, <2>1, <2>3 DEF Sessions
  <2>5. StageOK(a)
    BY <1>1, <1>2, <2>2, <2>4, Bounds DEF StageInv, StageOK, Characterizing, Calibrating
  <2>6. QED
    BY <1>0, <1>1, <2>4, <2>5
<1>4. CASE StageOver(b) /\ session.state \in {"coarse", "cal_coarse"}
  <2>1. PICK next : next = IF session.state = "coarse" THEN "fine" ELSE "cal_fine"
    OBVIOUS
  <2>2. a = [Taken EXCEPT !.state = next, !.index = 0]
    BY <1>0, <1>1, <1>4, <2>1 DEF AfterSample
  <2>3. next \in States /\ 0 \in 0..(Samples + CalSamples - 1)
    BY <2>1, Bounds DEF States, Characterizing, Calibrating
  <2>4. /\ a \in Sessions
        /\ a.state = next /\ a.index = 0 /\ a.coarse = Taken.coarse /\ a.fine = Taken.fine
        /\ a.profile = Taken.profile /\ a.model = Taken.model
    BY <1>1, <2>2, <2>3 DEF Sessions
  <2>5. StageOK(a)
    BY <1>1, <1>2, <1>4, <2>1, <2>4, Bounds DEF StageInv, StageOK, Characterizing, Calibrating
  <2>6. QED
    BY <1>0, <1>1, <2>4, <2>5
<1>5. CASE StageOver(b) /\ session.state \in {"fine", "cal_fine"}
  <2>1. a = Verdict(Taken, d)
    BY <1>0, <1>1, <1>5 DEF AfterSample
  <2>2. PICK v \in BOOLEAN : v = (Taken.state = "cal_fine")
    OBVIOUS
  <2>3. CASE a = [Taken EXCEPT !.state = "ready", !.model.calibrated = Taken.state = "cal_fine"]
    <3>1. a = [Taken EXCEPT !.state = "ready", !.model = [Taken.model EXCEPT !.calibrated = v]]
      BY <1>1, <2>2, <2>3 DEF Sessions
    <3>2. /\ a \in Sessions
          /\ a.state = "ready" /\ a.coarse = Taken.coarse /\ a.fine = Taken.fine
          /\ a.profile = Taken.profile /\ a.model.owner = Taken.model.owner
          /\ a.model.mixed = Taken.model.mixed
      BY <1>1, <3>1 DEF Sessions, States, Models
    <3>3. StageOK(a)
      BY <1>1, <1>2, <1>5, <3>2, Bounds DEF StageInv, StageOK, Characterizing, Calibrating
    <3>4. QED
      BY <1>0, <1>1, <3>2, <3>3
  <2>4. CASE a = [Taken EXCEPT !.state = "error"]
    <3>1. /\ a \in Sessions
          /\ a.state = "error" /\ a.coarse = Taken.coarse /\ a.fine = Taken.fine
          /\ a.profile = Taken.profile /\ a.model = Taken.model
      BY <1>1, <2>4 DEF Sessions, States
    <3>2. StageOK(a)
      BY <1>1, <1>2, <1>5, <3>1, Bounds DEF StageInv, StageOK, Characterizing, Calibrating
    <3>3. QED
      BY <1>0, <1>1, <3>1, <3>2
  <2>5. QED
    BY <2>1, <2>3, <2>4 DEF Verdict
<1>6. QED
  BY <1>2, <1>3, <1>4, <1>5 DEF Characterizing, Calibrating

\* The sessions and models that the functions make are sessions and models.
LEMMA Made ==
  /\ NoModel \in Models /\ \A p : Clean(p, NoModel)
  /\ NoSession \in Sessions /\ StageOK(NoSession)
  /\ NoSession.state = "idle" /\ NoSession.model = NoModel
BY Bounds DEF Clean, NoModel, Models, NoSession, Sessions, States, Profiles, StageOK, Characterizing, Calibrating

\* TypeOK, as far as it concerns the session, follows from these two.
LEMMA SessionTyped ==
  ASSUME NEW x \in Sessions, StageOK(x)
  PROVE  /\ x \in [state : {"idle", "ready", "error"} \union Characterizing \union Calibrating,
                   profile : Profiles, index : 0..(Samples + CalSamples - 1),
                   coarse : 0..(2 * Production), fine : 0..(2 * Production), model : Models]
         /\ x.coarse + x.fine <= 2 * Production
<1>1. x.coarse \in 0..(2 * Production) /\ x.fine \in 0..(2 * Production)
  BY Bounds DEF Sessions, StageOK
<1>2. QED
  BY <1>1 DEF Sessions, States, StageOK

\* A typed session is one of Sessions.
LEMMA TypedSession == TypeOK => session \in Sessions
BY Bounds DEF TypeOK, Sessions, States

\* A start takes the saved model of its profile, or none.
LEMMA StartFacts ==
  ASSUME TypeOK, StageInv, DataInv, Start
  PROVE  session' \in Sessions /\ StageOK(session') /\ Clean(session'.profile, session'.model)
<1> DEFINE p == rest.profile
           model == IF rest.calibrate THEN [history[p] EXCEPT !.calibrated = FALSE]
                                      ELSE [NoModel EXCEPT !.owner = p]
           state == IF rest.calibrate THEN "cal_coarse" ELSE "coarse"
<1>1. p \in Profiles /\ Clean(p, history[p])
  BY DEF TypeOK, DataInv
<1>2. Clean(p, model)
  BY <1>1, Made DEF Clean, Models, NoModel
<1>3. session' = session \/ session' = [NoSession EXCEPT !.state = state, !.profile = p, !.model = model]
  BY DEF Start
<1> HIDE DEF p, model
<1>4. CASE session' = [NoSession EXCEPT !.state = state, !.profile = p, !.model = model]
  <2>1. state \in {"coarse", "cal_coarse"}
    OBVIOUS
  <2> HIDE DEF state
  <2>2. /\ session' \in Sessions
        /\ session'.state = state /\ session'.profile = p /\ session'.model = model
        /\ session'.index = 0 /\ session'.coarse = 0 /\ session'.fine = 0
    BY <1>1, <1>2, <1>4, <2>1, Made DEF Clean, NoSession, Sessions, States, Characterizing, Calibrating
  <2>3. StageOK(session')
    BY <2>1, <2>2, Bounds DEF StageOK, Characterizing, Calibrating
  <2>4. QED
    BY <1>2, <2>2, <2>3
<1>5. CASE session' = session
  <2>1. StageOK(session') = StageOK(session)
    BY <1>5
  <2>2. QED
    BY <1>5, <2>1, TypedSession DEF StageInv, DataInv
<1>6. QED
  BY <1>3, <1>4, <1>5

\* A recorded sample leaves a session that is typed, inside its stage and clean.
LEMMA RecordFacts ==
  ASSUME TypeOK, StageInv, PlanInv, DataInv, RecordDrop
  PROVE  session' \in Sessions /\ StageOK(session') /\ Clean(session'.profile, session'.model)
<1>1. PICK b \in BOOLEAN, d \in BOOLEAN : session' = AfterSample(Taken, b, d)
  BY DEF RecordDrop
<1>2. charge.at = "record" /\ charge.ai /\ Active
  BY DEF RecordDrop
<1>3. /\ AfterSample(Taken, b, d) \in Sessions
      /\ StageOK(AfterSample(Taken, b, d))
      /\ AfterSample(Taken, b, d).profile = session.profile
      /\ AfterSample(Taken, b, d).model.owner = session.model.owner
      /\ AfterSample(Taken, b, d).model.mixed = session.model.mixed
  BY <1>2, AfterFacts
<1>4. PICK a : a = AfterSample(Taken, b, d)
  OBVIOUS
<1>5. session' = a
  BY <1>1, <1>4
<1>6. a \in Sessions /\ StageOK(a) /\ Clean(a.profile, a.model)
  BY <1>3, <1>4 DEF DataInv, Clean, Sessions
<1>7. StageOK(session') = StageOK(a)
  BY <1>5
<1>8. QED
  BY <1>5, <1>6, <1>7

\* Whatever happens, the session is typed, inside its stage and clean.
LEMMA SessionStep ==
  ASSUME TypeOK, StageInv, PlanInv, DataInv, [Next]_vars
  PROVE  session' \in Sessions /\ StageOK(session') /\ Clean(session'.profile, session'.model)
<1>1. CASE Start
  BY <1>1, StartFacts
<1>2. CASE RecordDrop
  BY <1>2, RecordFacts
<1>3. CASE session' = NoSession
  <2>1. StageOK(session') = StageOK(NoSession)
    BY <1>3
  <2>2. QED
    BY <1>3, <2>1, Made
<1>4. CASE session' = session
  <2>1. StageOK(session') = StageOK(session)
    BY <1>4
  <2>2. QED
    BY <1>4, <2>1, TypedSession DEF StageInv, DataInv
<1>5. Start \/ RecordDrop \/ session' = NoSession \/ session' = session
  BY DEF Next, RestStep, MenuStep, SaveRefused, SavePage, PowerCycle, Select, RestStart, EnterChargeMode,
         EnterFails, Cancel, Apply, ApplyTo, ClearHistory, KernelWeight, EnterCharge, Begin, Plan, Dispense,
         Abort, Dispensed, LeaveCharge, RecordNothing, RecordCharge, Forget, Reset, vars
<1>6. QED
  BY <1>1, <1>2, <1>3, <1>4, <1>5

\* What is loaded from the block is a model that was in it, or none.
LEMMA LoadedFacts ==
  ASSUME TypeOK, DataInv, NEW p \in Profiles, NEW kept \in BOOLEAN
  PROVE  Clean(p, Loaded(p, kept))
<1>1. flash[p].model \in Models /\ Clean(p, flash[p].model)
  BY DEF TypeOK, DataInv
<1>2. [flash[p].model EXCEPT !.enabled = @ /\ kept] =
      [flash[p].model EXCEPT !.enabled = flash[p].model.enabled /\ kept]
  OBVIOUS
<1>3. Clean(p, [flash[p].model EXCEPT !.enabled = flash[p].model.enabled /\ kept])
  BY <1>1 DEF Clean, Models
<1>4. QED
  BY <1>1, <1>2, <1>3, Made DEF Loaded

\* Every model in memory and in flash keeps to its profile and its motors.
LEMMA DataStep ==
  ASSUME TypeOK, StageInv, PlanInv, DataInv, [Next]_vars
  PROVE  DataInv'
<1>1. Clean(session'.profile, session'.model)
  BY SessionStep
<1>2. (\A p \in Profiles : Clean(p, history'[p])) /\ history' \in [Profiles -> Models]
  <2>0. history \in [Profiles -> Models] /\ \A p \in Profiles : Clean(p, history[p])
    BY DEF TypeOK, DataInv
  <2>1. CASE PowerCycle
    <3>1. PICK kept \in BOOLEAN : history' = [p \in Profiles |-> Loaded(p, kept)]
      BY <2>1 DEF PowerCycle
    <3>2. \A p \in Profiles : Clean(p, Loaded(p, kept))
      BY LoadedFacts
    <3>3. QED
      BY <3>1, <3>2 DEF Clean
  <2>2. CASE Apply
    <3>1. PICK m : m = [session.model EXCEPT !.enabled = TRUE]
      OBVIOUS
    <3>2. history' = [history EXCEPT ![session.profile] = m]
      BY <2>2, <3>1 DEF Apply, ApplyTo
    <3>3. Clean(session.profile, m) /\ session.profile \in Profiles
      BY <3>1 DEF DataInv, Clean, Models, TypeOK
    <3>4. QED
      BY <2>0, <3>2, <3>3 DEF Clean
  <2>3. CASE ClearHistory
    BY <2>3, Made DEF ClearHistory
  <2>4. CASE \E p \in Profiles, set \in Weights : KernelWeight(p, set)
    <3>1. PICK q \in Profiles, set \in Weights : KernelWeight(q, set)
      BY <2>4
    <3>2. PICK m : m = [history[q] EXCEPT !.kernel = set]
      OBVIOUS
    <3>3. history' = [history EXCEPT ![q] = m]
      BY <3>1, <3>2 DEF KernelWeight
    <3>4. Clean(q, m)
      BY <2>0, <3>2, WeightsAssumption DEF Clean, Models
    <3>5. QED
      BY <2>0, <3>3, <3>4 DEF Clean
  <2>5. CASE history' = history
    BY <2>0, <2>5
  <2>6. history' = history \/ PowerCycle \/ Apply \/ ClearHistory
          \/ \E p \in Profiles, set \in Weights : KernelWeight(p, set)
    BY DEF Next, RestStep, MenuStep, SaveRefused, SavePage, Select, RestStart, Start, EnterChargeMode,
           EnterFails, Cancel, EnterCharge, Begin, Plan, Dispense, Abort, Dispensed, LeaveCharge, RecordDrop,
           RecordNothing, RecordCharge, vars
  <2>7. QED
    BY <2>1, <2>2, <2>3, <2>4, <2>5, <2>6
<1>3. \A p \in Profiles : Clean(p, flash'[p].model)
  <2>1. CASE SavePage
    <3>1. \A p \in Profiles : flash'[p].model \in {NoModel, history[p]}
      BY <2>1 DEF SavePage
    <3>2. QED
      BY <3>1, Made DEF DataInv
  <2>2. CASE flash' = flash
    BY <2>2 DEF DataInv
  <2>3. SavePage \/ flash' = flash
    BY DEF Next, RestStep, MenuStep, SaveRefused, PowerCycle, Select, RestStart, Start, EnterChargeMode,
           EnterFails, Cancel, Apply, ApplyTo, ClearHistory, KernelWeight, EnterCharge, Begin, Plan, Dispense,
           Abort, Dispensed, LeaveCharge, RecordDrop, RecordNothing, RecordCharge, SaveHistory, disk, vars
  <2>4. QED
    BY <2>1, <2>2, <2>3
<1>4. QED
  BY <1>1, <1>2, <1>3 DEF DataInv

\* How many pages of a profile are there when some pages of the block are.
LEMMA PagesFacts ==
  ASSUME NEW p \in Profiles, NEW n \in Nat
  PROVE  /\ PagesOf(p, n) \in 0..Pages
         /\ PagesOf(1, n) = 0 => PagesOf(p, n) = 0
         /\ n = Pages * ProfileCount => PagesOf(p, n) = Pages
BY Bounds DEF PagesOf, Pages, Profiles

\* Charge mode, as one of its functions leaves it.
Charges == [at : {"off", "wait", "plan", "dispense", "record"},
            motor : {"coarse", "fine"}, ai : BOOLEAN, orphan : BOOLEAN]

LEMMA ChargeStep ==
  ASSUME TypeOK, [Next]_vars
  PROVE  charge' \in Charges
<1>1. charge \in Charges /\ Active \in BOOLEAN /\ MotorOf(session.state) \in {"coarse", "fine"}
  BY DEF TypeOK, Charges, Active, MotorOf
<1>2. Orphaned \in Charges
  BY <1>1 DEF Orphaned, Charges
<1>3. CASE Start \/ EnterFails \/ Cancel \/ Apply
  BY <1>1, <1>2, <1>3 DEF Start, EnterFails, Cancel, Apply, ApplyTo, Forget
<1>4. CASE MenuStep
  BY <1>1, <1>4 DEF MenuStep, EnterCharge, Begin, Plan, Dispense, Abort, Dispensed, LeaveCharge, RecordDrop,
                    RecordNothing, RecordCharge, Charges
<1>5. CASE PowerCycle
  BY <1>1, <1>5 DEF PowerCycle, Charges
<1>6. Start \/ EnterFails \/ Cancel \/ Apply \/ MenuStep \/ PowerCycle \/ charge' = charge
  BY DEF Next, RestStep, SaveRefused, SavePage, Select, RestStart, EnterChargeMode, ClearHistory,
         KernelWeight, menu, vars
<1>7. QED
  BY <1>1, <1>3, <1>4, <1>5, <1>6

\* The flash block and the save keep their types.
LEMMA FlashStep ==
  ASSUME TypeOK, DataInv', [Next]_vars
  PROVE  /\ flash' \in [Profiles -> [model : Models, pages : 0..Pages]]
         /\ save' \in 0..(Pages * ProfileCount + 1) /\ refused' \in BOOLEAN
<1>1. CASE SavePage
  <2>1. save - 1 \in Nat
    BY <1>1, Bounds DEF SavePage, TypeOK, Pages
  <2>2. \A p \in Profiles : PagesOf(p, save - 1) \in 0..Pages
    BY <2>1, PagesFacts
  <2>3. \A p \in Profiles : history[p] \in Models
    BY DEF TypeOK
  <2>4. \A p \in Profiles : flash'[p] \in [model : Models, pages : 0..Pages]
    BY <1>1, <2>2, <2>3, Made DEF SavePage
  <2>5. flash' \in [Profiles -> [model : Models, pages : 0..Pages]]
    BY <1>1, <2>4 DEF SavePage
  <2>6. save' \in 0..(Pages * ProfileCount + 1) /\ refused' \in BOOLEAN
    BY <1>1, <2>1, Bounds DEF SavePage, TypeOK, Pages
  <2>7. QED
    BY <2>5, <2>6
<1>2. CASE SaveRefused \/ PowerCycle \/ SaveHistory
  <2>1. flash' = flash /\ save' \in {0, 1} /\ refused' \in {refused, TRUE, FALSE}
    BY <1>2 DEF SaveRefused, PowerCycle, SaveHistory
  <2>2. {0, 1} \subseteq 0..(Pages * ProfileCount + 1)
    BY Bounds DEF Pages
  <2>3. QED
    BY <2>1, <2>2 DEF TypeOK
<1>3. SavePage \/ SaveRefused \/ PowerCycle \/ SaveHistory \/ UNCHANGED disk
  BY DEF Next, RestStep, MenuStep, Select, RestStart, Start, EnterChargeMode, EnterFails, Cancel, Apply,
         ApplyTo, ClearHistory, KernelWeight, EnterCharge, Begin, Plan, Dispense, Abort, Dispensed,
         LeaveCharge, RecordDrop, RecordNothing, RecordCharge, disk, vars
<1>4. QED
  BY <1>1, <1>2, <1>3 DEF TypeOK, disk

\* The rest of the types: what the TCP/IP thread and the flags hold.
LEMMA RestTyped ==
  ASSUME TypeOK, [Next]_vars
  PROVE  /\ selected' \in Profiles
         /\ rest' \in [at : {"idle", "start", "enter"}, profile : Profiles, calibrate : BOOLEAN]
         /\ {entry', stop', asked', left'} \subseteq BOOLEAN
<1>1. NoRequest \in [at : {"idle", "start", "enter"}, profile : Profiles, calibrate : BOOLEAN]
  BY Bounds DEF NoRequest, Profiles
<1>2. selected' \in Profiles
  BY DEF TypeOK, Next, RestStep, MenuStep, SaveRefused, SavePage, PowerCycle, Select, RestStart, Start,
         EnterChargeMode, EnterFails, Cancel, Apply, ApplyTo, ClearHistory, KernelWeight, EnterCharge, Begin,
         Plan, Dispense, Abort, Dispensed, LeaveCharge, RecordDrop, RecordNothing, RecordCharge, vars
<1>3. rest' \in [at : {"idle", "start", "enter"}, profile : Profiles, calibrate : BOOLEAN]
  BY <1>1 DEF TypeOK, Next, RestStep, MenuStep, SaveRefused, SavePage, PowerCycle, Select, RestStart, Start,
         EnterChargeMode, EnterFails, Cancel, Apply, ApplyTo, ClearHistory, KernelWeight, EnterCharge, Begin,
         Plan, Dispense, Abort, Dispensed, LeaveCharge, RecordDrop, RecordNothing, RecordCharge, vars
<1>4. entry' \in BOOLEAN /\ stop' \in BOOLEAN
  BY DEF TypeOK, Next, RestStep, MenuStep, SaveRefused, SavePage, PowerCycle, Select, RestStart, Start,
         EnterChargeMode, EnterFails, Cancel, Apply, ApplyTo, ClearHistory, KernelWeight, EnterCharge, Begin,
         Plan, Dispense, Abort, Dispensed, LeaveCharge, RecordDrop, RecordNothing, RecordCharge, menu, vars
<1>5. asked' \in BOOLEAN /\ left' \in BOOLEAN
  BY DEF TypeOK, Next, RestStep, MenuStep, SaveRefused, SavePage, PowerCycle, Select, RestStart, Start,
         EnterChargeMode, EnterFails, Cancel, Apply, ApplyTo, ClearHistory, KernelWeight, EnterCharge, Begin,
         Plan, Dispense, Abort, Dispensed, LeaveCharge, RecordDrop, RecordNothing, RecordCharge, Active,
         Reset, Forget, ghosts, vars
<1>6. QED
  BY <1>2, <1>3, <1>4, <1>5

LEMMA TypeStep ==
  ASSUME TypeOK, StageInv, PlanInv, DataInv, [Next]_vars
  PROVE  TypeOK' /\ StageInv'
<1>1. session' \in Sessions /\ StageOK(session') /\ DataInv'
  BY SessionStep, DataStep
<1>2. StageInv'
  BY <1>1 DEF StageInv
<1>3. /\ session' \in [state : {"idle", "ready", "error"} \union Characterizing \union Calibrating,
                        profile : Profiles, index : 0..(Samples + CalSamples - 1),
                        coarse : 0..(2 * Production), fine : 0..(2 * Production), model : Models]
      /\ session'.coarse + session'.fine <= 2 * Production
  BY <1>1, SessionTyped
<1>4. history' \in [Profiles -> Models]
  <2>1. \A p \in Profiles : history'[p] \in Models
    BY <1>1 DEF DataInv, Clean
  <2>2. DOMAIN history' = Profiles /\ history' = [p \in Profiles |-> history'[p]]
    BY DEF TypeOK, Next, RestStep, MenuStep, SaveRefused, SavePage, PowerCycle, Select, RestStart, Start,
         EnterChargeMode, EnterFails, Cancel, Apply, ApplyTo, ClearHistory, KernelWeight, EnterCharge, Begin,
         Plan, Dispense, Abort, Dispensed, LeaveCharge, RecordDrop, RecordNothing, RecordCharge, vars
  <2>3. QED
    BY <2>1, <2>2
<1>5. /\ charge' \in Charges
      /\ flash' \in [Profiles -> [model : Models, pages : 0..Pages]]
      /\ save' \in 0..(Pages * ProfileCount + 1) /\ refused' \in BOOLEAN
      /\ selected' \in Profiles
      /\ rest' \in [at : {"idle", "start", "enter"}, profile : Profiles, calibrate : BOOLEAN]
      /\ {entry', stop', asked', left'} \subseteq BOOLEAN
  BY <1>1, ChargeStep, FlashStep, RestTyped
<1>6. QED
  BY <1>2, <1>3, <1>4, <1>5 DEF TypeOK, Charges

\* A session that is open after a step was open before, or has just been started.
LEMMA PlanStep ==
  ASSUME TypeOK, PlanInv, SampleInv, [Next]_vars
  PROVE  PlanInv' /\ SampleInv'
<1>0. charge \in Charges /\ session \in Sessions
  BY TypedSession DEF TypeOK, Charges
<1>1. CASE Start \/ EnterFails \/ Cancel \/ Apply
  <2>1. CASE charge' = Orphaned
    <3>1. PICK o \in BOOLEAN : o = (charge.orphan \/ (charge.ai /\ charge.at \in {"dispense", "record"}))
      BY <1>0 DEF Charges
    <3>2. charge' = [charge EXCEPT !.orphan = o]
      BY <2>1, <3>1 DEF Orphaned
    <3>3. /\ charge'.at = charge.at /\ charge'.ai = charge.ai /\ charge'.orphan = o
      BY <1>0, <3>2 DEF Charges
    <3>4. QED
      BY <3>1, <3>3 DEF PlanInv, SampleInv
  <2>2. CASE charge' = charge /\ session' = session
    BY <2>2 DEF PlanInv, SampleInv, Active, MotorOf
  <2>3. QED
    BY <1>1, <2>1, <2>2 DEF Start, EnterFails, Cancel, Apply, ApplyTo, Forget
<1>2. CASE EnterCharge \/ Abort \/ LeaveCharge \/ RecordDrop \/ RecordNothing \/ RecordCharge \/ PowerCycle
  <2>1. charge'.at \in {"off", "wait"} /\ ~charge'.ai
    BY <1>0, <1>2 DEF EnterCharge, Abort, LeaveCharge, RecordDrop, RecordNothing, RecordCharge, PowerCycle,
                      Charges, SampleInv
  <2>2. QED
    BY <2>1 DEF PlanInv, SampleInv
<1>3. CASE Begin
  <2>1. charge'.at = "plan"
    BY <1>0, <1>3 DEF Begin, Charges
  <2>2. QED
    BY <2>1 DEF PlanInv, SampleInv
<1>4. CASE Plan
  <2>1. charge'.at = "dispense" /\ charge'.motor = MotorOf(session.state) /\ session' = session
    BY <1>0, <1>4 DEF Plan, Dispense, Charges
  <2>2. QED
    BY <2>1 DEF PlanInv, SampleInv, MotorOf
<1>5. CASE Dispensed
  <2>1. /\ charge.at = "dispense" /\ charge'.at = "record" /\ session' = session
        /\ charge'.motor = charge.motor /\ charge'.ai = charge.ai /\ charge'.orphan = charge.orphan
    BY <1>0, <1>5 DEF Dispensed, Charges
  <2>2. QED
    BY <2>1 DEF PlanInv, SampleInv, MotorOf, Active
<1>6. CASE charge' = charge /\ session' = session
  BY <1>6 DEF PlanInv, SampleInv, Active, MotorOf
<1>7. \/ Start \/ EnterFails \/ Cancel \/ Apply
      \/ EnterCharge \/ Abort \/ LeaveCharge \/ RecordDrop \/ RecordNothing \/ RecordCharge \/ PowerCycle
      \/ Begin \/ Plan \/ Dispensed
      \/ charge' = charge /\ session' = session
  BY DEF Next, RestStep, MenuStep, SaveRefused, SavePage, Select, RestStart, EnterChargeMode, ClearHistory,
         KernelWeight, menu, vars
<1>8. QED
  BY <1>1, <1>2, <1>3, <1>4, <1>5, <1>6, <1>7

\* A session starts with charge mode on its way; when charge mode ends, the session
\* is over or marked as left.
LEMMA AskStep ==
  ASSUME TypeOK, AskInv, SampleInv, [Next]_vars
  PROVE  AskInv'
<1>0. charge \in Charges /\ session \in Sessions /\ {asked, left, entry} \subseteq BOOLEAN
  BY TypedSession DEF TypeOK, Charges
<1>1. CASE Start
  <2>1. charge'.at = charge.at
    BY <1>0, <1>1 DEF Start, Orphaned, Charges
  <2>2. CASE session' = session /\ rest' = NoRequest
    <3>1. entry' = entry /\ asked' = asked /\ left' = left /\ rest.at = "start"
      BY <1>1, <2>2 DEF Start, NoSession, Sessions, NoRequest, TypeOK, ghosts
    <3>2. QED
      BY <2>1, <2>2, <3>1 DEF AskInv, Active
  <2>3. CASE asked' = (asked \/ charge.at # "off") /\ rest' = [rest EXCEPT !.at = "enter"]
    <3>1. rest'.at = "enter"
      BY <2>3 DEF TypeOK
    <3>2. QED
      BY <2>1, <2>3, <3>1 DEF AskInv
  <2>4. QED
    BY <1>1, <2>2, <2>3 DEF Start
<1>2. CASE EnterFails \/ Cancel \/ Apply \/ PowerCycle
  <2>1. session' = NoSession
    BY <1>2 DEF EnterFails, Cancel, Apply, ApplyTo, Forget, Reset, PowerCycle
  <2>2. QED
    BY <2>1 DEF AskInv, Active, NoSession, Characterizing, Calibrating
<1>3. CASE EnterChargeMode
  BY <1>3 DEF EnterChargeMode, AskInv, Active, ghosts
<1>4. CASE EnterCharge
  <2>1. charge'.at = "wait" /\ charge.at = "off"
    BY <1>0, <1>4 DEF EnterCharge, Charges
  <2>2. QED
    BY <1>4, <2>1 DEF EnterCharge, AskInv, Active
<1>5. CASE Abort
  <2>1. charge.at # "off" /\ charge'.at = "off"
    BY <1>0, <1>5 DEF Abort, Charges
  <2>2. CASE charge.ai
    <3>1. session' = NoSession
      BY <1>5, <2>2 DEF Abort, Reset
    <3>2. QED
      BY <3>1 DEF AskInv, Active, NoSession, Characterizing, Calibrating
  <2>3. CASE ~charge.ai
    <3>1. left' = (left \/ Active) /\ session' = session
      BY <1>5, <2>3 DEF Abort
    <3>2. QED
      BY <2>1, <3>1 DEF AskInv, Active
  <2>4. QED
    BY <2>2, <2>3
<1>6. CASE LeaveCharge
  <2>1. charge'.at = "off" /\ left' = (left \/ Active) /\ session' = session
    BY <1>0, <1>6 DEF LeaveCharge, Charges
  <2>2. QED
    BY <2>1 DEF AskInv, Active
<1>7. CASE RecordDrop
  <2>1. /\ charge.at = "record" /\ Active /\ asked' = asked /\ left' = left
        /\ charge'.at = IF session'.state = "ready" THEN "off" ELSE "wait"
    BY <1>0, <1>7 DEF RecordDrop, Charges, ghosts
  <2>2. QED
    BY <2>1 DEF AskInv, Active, Characterizing, Calibrating
<1>8. CASE Begin \/ Plan \/ Dispensed \/ RecordNothing \/ RecordCharge
  <2>1. /\ charge.at # "off" /\ charge'.at # "off"
        /\ asked' = asked /\ left' = left /\ session' = session
    BY <1>0, <1>8 DEF Begin, Plan, Dispense, Dispensed, RecordNothing, RecordCharge, Charges, ghosts
  <2>2. QED
    BY <2>1 DEF AskInv, Active
<1>9. CASE \E p \in Profiles, calibrate \in BOOLEAN : RestStart(p, calibrate)
  <2>1. /\ rest.at = "idle" /\ charge' = charge /\ session' = session /\ entry' = entry
        /\ asked' = asked /\ left' = left
    BY <1>9 DEF RestStart, menu, ghosts
  <2>2. QED
    BY <2>1 DEF AskInv, Active
<1>10. CASE UNCHANGED <<session, charge, entry, rest, asked, left>>
  BY <1>10 DEF AskInv, Active
<1>11. \/ Start \/ EnterFails \/ Cancel \/ Apply \/ PowerCycle \/ EnterChargeMode \/ EnterCharge
       \/ Abort \/ LeaveCharge \/ RecordDrop \/ Begin \/ Plan \/ Dispensed \/ RecordNothing \/ RecordCharge
       \/ \E p \in Profiles, calibrate \in BOOLEAN : RestStart(p, calibrate)
       \/ UNCHANGED <<session, charge, entry, rest, asked, left>>
  BY DEF Next, RestStep, MenuStep, SaveRefused, SavePage, Select, ClearHistory, KernelWeight, menu, ghosts, vars
<1>12. QED
  BY <1>1, <1>2, <1>3, <1>4, <1>5, <1>6, <1>7, <1>8, <1>9, <1>10, <1>11

\* Writing from the front, a step leaves no page behind a first page that is missing.
LEMMA BlockStep ==
  ASSUME TypeOK, BlockInv, [Next]_vars
  PROVE  BlockInv'
<1>1. CASE SavePage
  <2>1. save - 1 \in Nat
    BY <1>1, Bounds DEF SavePage, TypeOK, Pages
  <2>2. 1 \in Profiles
    BY Bounds DEF Profiles
  <2>3. \A p \in Profiles : flash'[p].pages = PagesOf(p, save - 1)
    BY <1>1 DEF SavePage
  <2>4. QED
    BY <2>1, <2>2, <2>3, PagesFacts DEF BlockInv
<1>2. CASE flash' = flash
  BY <1>2 DEF BlockInv
<1>3. SavePage \/ flash' = flash
  BY DEF Next, RestStep, MenuStep, SaveRefused, PowerCycle, Select, RestStart, Start, EnterChargeMode,
         EnterFails, Cancel, Apply, ApplyTo, ClearHistory, KernelWeight, EnterCharge, Begin, Plan, Dispense,
         Abort, Dispensed, LeaveCharge, RecordDrop, RecordNothing, RecordCharge, SaveHistory, disk, vars
<1>4. QED
  BY <1>1, <1>2, <1>3

\* The last page of a save completes the block; a power cycle takes the block as it is.
LEMMA StoredStep ==
  ASSUME TypeOK, BlockInv, StoredIsSaved, [Next]_vars
  PROVE  StoredIsSaved'
<1>1. CASE SavePage
  <2>1. save - 1 \in Nat
    BY <1>1, Bounds DEF SavePage, TypeOK, Pages
  <2>2. CASE save' = 0
    <3>1. save - 1 = Pages * ProfileCount
      BY <1>1, <2>2, Bounds DEF SavePage, TypeOK, Pages
    <3>2. \A p \in Profiles : PagesOf(p, save - 1) = Pages
      BY <2>1, <3>1, PagesFacts
    <3>3. \A p \in Profiles : flash'[p].model = history[p]
      BY <1>1, <3>2 DEF SavePage, Pages
    <3>4. QED
      BY <1>1, <3>3 DEF SavePage, StoredIsSaved
  <2>3. QED
    BY <2>2 DEF StoredIsSaved
<1>2. CASE PowerCycle
  <2>1. PICK kept \in BOOLEAN : history' = [p \in Profiles |-> Loaded(p, kept)]
    BY <1>2 DEF PowerCycle
  <2>2. 1 \in Profiles
    BY Bounds DEF Profiles
  <2>3. \A p \in Profiles : flash[p].pages = Pages => flash[1].pages # 0 /\ flash[p].pages # 0
    BY <2>2 DEF BlockInv, Pages
  <2>4. \A p \in Profiles : flash[p].pages = Pages => Loaded(p, kept) = flash[p].model
    BY <2>3 DEF Loaded
  <2>5. QED
    BY <1>2, <2>1, <2>4 DEF PowerCycle, StoredIsSaved
<1>3. CASE SaveHistory \/ SaveRefused
  BY <1>3 DEF SaveHistory, SaveRefused, StoredIsSaved
<1>4. CASE history' = history /\ UNCHANGED disk
  BY <1>4 DEF disk, StoredIsSaved
<1>5. SavePage \/ PowerCycle \/ SaveHistory \/ SaveRefused \/ (history' = history /\ UNCHANGED disk)
  BY DEF Next, RestStep, MenuStep, Select, RestStart, Start, EnterChargeMode, EnterFails, Cancel, Apply,
         ApplyTo, ClearHistory, KernelWeight, EnterCharge, Begin, Plan, Dispense, Abort, Dispensed,
         LeaveCharge, RecordDrop, RecordNothing, RecordCharge, disk, vars
<1>6. QED
  BY <1>1, <1>2, <1>3, <1>4, <1>5

-----------------------------------------------------------------------------
(* The inductive invariant: the stage bounds the counters, the plan names    *)
(* the motor, and the data were clean before.                               *)

IInv == TypeOK /\ StageInv /\ PlanInv /\ SampleInv /\ AskInv /\ DataInv /\ BlockInv /\ StoredIsSaved

LEMMA InitIInv == Init => IInv
<1> SUFFICES ASSUME Init
             PROVE  IInv
  OBVIOUS
<1>1. session = NoSession /\ history = [p \in Profiles |-> NoModel]
  BY DEF Init
<1>2. flash = [p \in Profiles |-> [model |-> NoModel, pages |-> Pages]]
  BY DEF Init
<1>3. ~Active
  BY <1>1 DEF Active, NoSession, Characterizing, Calibrating
<1>4. StageInv
  <2>1. StageOK(session) = StageOK(NoSession)
    BY <1>1
  <2>2. QED
    BY <2>1, Made DEF StageInv
<1>5. TypeOK
  <2>1. charge \in Charges /\ save = 0 /\ {refused, entry, stop, asked, left} \subseteq BOOLEAN
    BY DEF Init, Charges
  <2>2. 0 \in 0..(Pages * ProfileCount + 1)
    BY Bounds DEF Pages
  <2>3. rest \in [at : {"idle", "start", "enter"}, profile : Profiles, calibrate : BOOLEAN]
    BY Bounds DEF Init, NoRequest, Profiles
  <2>4. flash \in [Profiles -> [model : Models, pages : 0..Pages]] /\ history \in [Profiles -> Models]
    BY <1>1, <1>2, Made DEF Pages
  <2>5. selected \in Profiles
    BY DEF Init
  <2>6. session \in Sessions
    BY <1>1, Made
  <2>7. QED
    BY <1>4, <2>1, <2>2, <2>3, <2>4, <2>5, <2>6, SessionTyped DEF TypeOK, Charges, StageInv
<1>6. DataInv
  <2>1. \A p \in Profiles : flash[p].model = NoModel /\ history[p] = NoModel
    BY <1>1, <1>2
  <2>2. session.model = NoModel
    BY <1>1, Made
  <2>3. QED
    BY <2>1, <2>2, Made DEF DataInv
<1>7. charge.at = "off" /\ ~charge.ai
  BY DEF Init
<1>8. BlockInv /\ StoredIsSaved
  BY <1>1, <1>2, Bounds DEF BlockInv, StoredIsSaved, Pages, Profiles
<1>9. QED
  BY <1>3, <1>4, <1>5, <1>6, <1>7, <1>8 DEF IInv, PlanInv, SampleInv, AskInv

LEMMA NextIInv == IInv /\ [Next]_vars => IInv'
BY TypeStep, PlanStep, AskStep, DataStep, BlockStep, StoredStep DEF IInv

LEMMA SpecIInv == Spec => []IInv
BY InitIInv, NextIInv, PTL DEF Spec

\* Every variable keeps its type: the sample index stays inside its stage, and a
\* calibration never counts more than its production samples (ai_tuning_record_drop).
THEOREM TypeCorrect == Spec => []TypeOK
<1>1. IInv => TypeOK
  BY DEF IInv
<1>2. QED
  BY <1>1, SpecIInv, PTL

\* No model, working, saved or stored, holds a sample of the other motor unless the
\* session it was planned for was replaced under way: ai_tuning_get_active_plan is
\* asked again for every sample.
THEOREM SamplesTheirs == Spec => []SamplesFromTheirMotor
<1>1. IInv => SamplesFromTheirMotor
  BY DEF IInv, DataInv, Clean, SamplesFromTheirMotor, Kept
<1>2. QED
  BY <1>1, SpecIInv, PTL

\* A model is saved under the profile it was measured for and read back under it, after
\* any power cut: ai_tuning_apply_params takes the profile from the session.
THEOREM ModelsTheirs == Spec => []ModelsBelongToProfile
<1>1. IInv => ModelsBelongToProfile
  BY DEF IInv, DataInv, Clean, ModelsBelongToProfile
<1>2. QED
  BY <1>1, SpecIInv, PTL

\* Between two operations the flash block holds the history in RAM, page for page,
\* unless the last write was refused: every function that changes the history saves it.
THEOREM FlashKept == Spec => []StoredIsSaved
<1>1. IInv => StoredIsSaved
  BY DEF IInv
<1>2. QED
  BY <1>1, SpecIInv, PTL

\* A charge becomes an AI sample only in a run of charge mode that a start asked for, or
\* when an earlier run left the session open.
THEOREM SamplesAsked == Spec => []SampleWasAsked
<1>1. IInv => SampleWasAsked
  BY DEF IInv, AskInv, SampleInv, SampleWasAsked
<1>2. QED
  BY <1>1, SpecIInv, PTL

=============================================================================
