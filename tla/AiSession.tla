------------------------------ MODULE AiSession ------------------------------
(***************************************************************************)
(* The AI tuning session and the history it fills: src/src/ai_tuning.c, the *)
(* REST handlers of src/src/rest_ai_tuning.c, the flash block of            *)
(* src/src/flash_storage.c, and charge mode as far as it serves a session.  *)
(*                                                                         *)
(* A characterization measures samples of the coarse and then of the fine  *)
(* motor; a machine calibration starts from the saved model of a profile    *)
(* and adds samples to it.  What the samples weigh decides whether a budget *)
(* is used up and whether a model is valid: both are free here.  Every      *)
(* function of ai_tuning.c holds g_ai_tuning_mutex from its first line to   *)
(* its last and is one step; its save to flash, during which nothing else  *)
(* runs, is several, because the power may fail between them.              *)
(***************************************************************************)
EXTENDS Naturals

CONSTANTS
  ProfileCount,    \* MAX_PROFILE_CNT
  Samples,     \* coarse_sample_count = fine_sample_count (2 to 12)
  CalSamples,  \* AI_MACHINE_CAL_COARSE_SAMPLE_COUNT and its fine twin (8)
  Production,  \* calibration samples at production speed (4), the ones counted
  CalMin,      \* AI_MACHINE_CAL_MIN_VALID_SAMPLE_COUNT (3)
  Weights      \* what the operator does to the kernel weight: TRUE sets, FALSE clears

ASSUME ProfilesAssumption == ProfileCount \in Nat \ {0}
ASSUME WeightsAssumption == Weights \subseteq BOOLEAN
ASSUME SamplesAssumption ==
  /\ Samples \in Nat \ {0} /\ CalSamples \in Nat /\ Production \in Nat /\ CalMin \in Nat
  /\ CalMin <= Production /\ Production <= CalSamples /\ CalSamples # 0

VARIABLES
  session,   \* g_session: state, stage_sample_index, machine samples, working model
  history,   \* g_history.models
  selected,  \* profile_data.current_profile_idx
  flash,     \* the history block: for each profile a model and how much of it is there
  save,      \* 0, or one more than the pages of the save that is going on
  refused,   \* history: the last write was refused, the result was ignored
  charge,    \* charge mode: where it is, the motor, whether it takes an AI sample, and
             \* (history) whether the session that planned the sample is gone
  entry,     \* an OVERRIDE with exit_state = CHARGE waits for the menu
  stop,      \* charge_mode_state = EXIT, written by a cancel
  rest,      \* where the TCP/IP thread is in a start
  asked,     \* history: this run of charge mode was asked for by a start
  left       \* history: charge mode ended and left the session open

Profiles == 1..ProfileCount    \* history.models lies in flash in this order

disk == <<flash, save, refused>>
menu == <<charge, entry, stop>>
ghosts == <<asked, left>>
vars == <<session, history, selected, disk, menu, rest, ghosts>>

\* A model: valid and enabled, the machine calibration valid, the operator's kernel
\* weight set, and two facts about its past: the profile it was measured for, and
\* whether a sample was counted in the stage of the other motor although the session
\* that planned it is still the open one.
NoModel == [enabled |-> FALSE, calibrated |-> FALSE, kernel |-> FALSE, owner |-> 0,
            mixed |-> FALSE]
Models == [enabled : BOOLEAN, calibrated : BOOLEAN, kernel : BOOLEAN,
           owner : Profiles \union {0}, mixed : BOOLEAN]

NoSession == [state |-> "idle", profile |-> 1, index |-> 0, coarse |-> 0, fine |-> 0,
              model |-> NoModel]

NoRequest == [at |-> "idle", profile |-> 1, calibrate |-> FALSE]

Characterizing == {"coarse", "fine"}
Calibrating == {"cal_coarse", "cal_fine"}
Active == session.state \in Characterizing \union Calibrating
MotorOf(state) == IF state \in {"coarse", "cal_coarse"} THEN "coarse" ELSE "fine"

Pages == 2                    \* pages a model spreads over
Quiet == save = 0             \* g_ai_tuning_mutex is free and no flash operation runs

Init ==
  /\ session = NoSession
  /\ history = [p \in Profiles |-> NoModel]
  /\ selected \in Profiles
  /\ flash = [p \in Profiles |-> [model |-> NoModel, pages |-> Pages]]
  /\ save = 0 /\ refused = FALSE
  /\ charge = [at |-> "off", motor |-> "coarse", ai |-> FALSE, orphan |-> FALSE]
  /\ entry = FALSE /\ stop = FALSE
  /\ rest = NoRequest
  /\ asked = FALSE /\ left = FALSE

-----------------------------------------------------------------------------
(* The flash block: erased whole, then programmed page by page from the     *)
(* front.  The pages of profile p are 2p-1 and 2p.                          *)

PagesOf(p, done) == IF done >= Pages * p THEN Pages
                    ELSE IF done <= Pages * (p - 1) THEN 0 ELSE done - Pages * (p - 1)

\* save_history_to_flash asks for the flash-safe zone; nobody looks at the result.
\* Bound: no second refusal before a save that succeeds.
SaveRefused ==
  /\ save = 1 /\ ~refused
  /\ save' = 0
  /\ refused' = TRUE
  /\ UNCHANGED <<session, history, selected, flash, menu, rest, ghosts>>

\* save = 1: erase.  save = n + 1: n pages are to be there after this step.
SavePage ==
  /\ save # 0
  /\ flash' = [p \in Profiles |-> LET n == PagesOf(p, save - 1)
                                 IN [model |-> IF n = 0 THEN NoModel ELSE history[p],
                                     pages |-> n]]
  /\ save' = IF save - 1 = Pages * ProfileCount THEN 0 ELSE save + 1
  /\ refused' = (refused /\ save' # 0)
  /\ UNCHANGED <<session, history, selected, menu, rest, ghosts>>

SaveHistory == save' = 1 /\ UNCHANGED <<flash, refused>>

\* load_history_from_flash: without its revision, which is in the first page, there
\* is no history.  Nothing else vouches for it: a model whose samples are cut off is
\* valid or not by the numbers that are left, one with no page at all is not.
Loaded(p, kept) ==
  CASE flash[1].pages = 0 \/ flash[p].pages = 0 -> NoModel
    [] flash[p].pages = Pages -> flash[p].model
    [] OTHER -> [flash[p].model EXCEPT !.enabled = @ /\ kept]

PowerCycle ==
  /\ \E kept \in BOOLEAN : history' = [p \in Profiles |-> Loaded(p, kept)]
  /\ session' = NoSession
  /\ save' = 0 /\ refused' = FALSE
  /\ charge' = [charge EXCEPT !.at = "off", !.ai = FALSE, !.orphan = FALSE]
  /\ entry' = FALSE /\ stop' = FALSE
  /\ rest' = NoRequest
  /\ asked' = FALSE /\ left' = FALSE
  /\ UNCHANGED <<selected, flash>>

-----------------------------------------------------------------------------
(* The REST handlers. *)

\* Another request, or the profile list of the menu, selects a profile.
Select(p) ==
  /\ Quiet
  /\ selected' = p
  /\ UNCHANGED <<session, history, disk, menu, rest, ghosts>>

\* http_rest_ai_tuning_start and http_rest_ai_machine_calibration_start.
RestStart(p, calibrate) ==
  /\ Quiet /\ rest.at = "idle"
  /\ selected' = p
  /\ rest' = [at |-> "start", profile |-> p, calibrate |-> calibrate]
  /\ UNCHANGED <<session, history, disk, menu, ghosts>>

\* The session a sample that is being dispensed was planned for is replaced.
Orphaned == [charge EXCEPT !.orphan = @ \/ (charge.ai /\ charge.at \in {"dispense", "record"})]

\* ai_tuning_start and ai_tuning_start_machine_calibration; the second needs a saved
\* model.  A session that is open is forgotten.
Start ==
  /\ Quiet /\ rest.at = "start"
  /\ LET p == rest.profile
         model == IF rest.calibrate THEN [history[p] EXCEPT !.calibrated = FALSE]
                                    ELSE [NoModel EXCEPT !.owner = p]
     IN IF rest.calibrate /\ ~history[p].enabled
          THEN /\ rest' = NoRequest
               /\ UNCHANGED <<session, charge, ghosts>>
          ELSE /\ session' = [NoSession EXCEPT
                    !.state = IF rest.calibrate THEN "cal_coarse" ELSE "coarse",
                    !.profile = p,
                    !.model = model]
               /\ charge' = Orphaned
               /\ rest' = [rest EXCEPT !.at = "enter"]
               /\ asked' = (asked \/ charge.at # "off") /\ left' = FALSE
  /\ UNCHANGED <<history, selected, disk, entry, stop>>

\* charge_mode_state = WAIT_FOR_ZERO; the menu is sent there unless it is there.
EnterChargeMode ==
  /\ Quiet /\ rest.at = "enter"
  /\ entry' = (entry \/ charge.at = "off" \/ stop)
  /\ stop' = FALSE
  /\ rest' = NoRequest
  /\ UNCHANGED <<session, history, selected, disk, charge, ghosts>>

\* What ai_tuning_cancel does to the session.
Reset == session' = NoSession /\ left' = FALSE
Forget == Reset /\ charge' = Orphaned

\* The event queue was full: the start is cancelled.
EnterFails ==
  /\ Quiet /\ rest.at = "enter"
  /\ charge.at = "off" \/ stop
  /\ Forget
  /\ stop' = TRUE
  /\ rest' = NoRequest
  /\ UNCHANGED <<history, selected, disk, entry, asked>>

Cancel ==
  /\ Quiet /\ rest.at = "idle"
  /\ session.state # "idle"
  /\ Forget
  /\ stop' = (charge.at # "off")
  /\ UNCHANGED <<history, selected, disk, entry, rest, asked>>

\* ai_tuning_apply_params: the working model, all of it, becomes the saved one.
ApplyTo(p) ==
  /\ Quiet /\ rest.at = "idle"
  /\ session.state = "ready"
  /\ history' = [history EXCEPT ![p] = [session.model EXCEPT !.enabled = TRUE]]
  /\ SaveHistory
  /\ Forget
  /\ UNCHANGED <<selected, entry, stop, rest, asked>>

ApplyToSelected == ApplyTo(selected)    \* mutant: the profile selected by now
Apply == ApplyTo(session.profile)

ClearHistoryInRam ==        \* mutant: the flash block stays
  /\ Quiet /\ rest.at = "idle"
  /\ history' = [p \in Profiles |-> NoModel]
  /\ UNCHANGED <<session, selected, disk, menu, rest, ghosts>>

ClearHistory ==
  /\ Quiet /\ rest.at = "idle"
  /\ history' = [p \in Profiles |-> NoModel]
  /\ SaveHistory
  /\ UNCHANGED <<session, selected, menu, rest, ghosts>>

\* ai_tuning_set_user_kernel_weight_gn: a weight, or 0 for none.
KernelWeight(p, set) ==
  /\ Quiet /\ rest.at = "idle"
  /\ history' = [history EXCEPT ![p].kernel = set]
  /\ SaveHistory
  /\ UNCHANGED <<session, selected, menu, rest, ghosts>>

-----------------------------------------------------------------------------
(* Charge mode as far as it serves a session. *)

\* The menu runs charge_mode_menu, sent by a start or by the operator.
EnterCharge ==
  /\ Quiet /\ charge.at = "off"
  /\ charge' = [charge EXCEPT !.at = "wait"]
  /\ asked' = (entry \/ rest.at = "enter")
  /\ entry' = FALSE /\ stop' = FALSE
  /\ UNCHANGED <<session, history, selected, disk, rest, left>>

\* charge_mode_wait_for_complete: an active session makes the charge a sample.
Begin ==
  /\ Quiet /\ charge.at = "wait"
  /\ charge' = [charge EXCEPT !.at = "plan", !.ai = Active]
  /\ UNCHANGED <<session, history, selected, disk, entry, stop, rest, ghosts>>

\* ai_tuning_get_active_plan: the motor of the stage the session is in now.
Dispense(motor) ==
  /\ Quiet /\ charge.at = "plan"
  /\ charge.ai => Active
  /\ charge' = [charge EXCEPT !.at = "dispense", !.motor = motor, !.orphan = FALSE]
  /\ UNCHANGED <<session, history, selected, disk, entry, stop, rest, ghosts>>

PlanOfLastSample == Dispense(charge.motor)    \* mutant: a plan not refreshed
Plan == Dispense(MotorOf(session.state))

AbortKeepsSession ==        \* mutant: emergency_exit does not cancel the session
  /\ Quiet /\ charge.at \in {"plan", "dispense"}
  /\ charge' = [charge EXCEPT !.at = "off", !.ai = FALSE, !.orphan = FALSE]
  /\ stop' = FALSE
  /\ UNCHANGED <<session, history, selected, disk, entry, rest, ghosts>>

\* RST, a failing scale or a plan that is gone: emergency_exit, which cancels the
\* session if this charge is a sample, whatever session is open now.
Abort ==
  /\ Quiet /\ charge.at \in {"plan", "dispense"}
  /\ IF charge.ai THEN Reset ELSE left' = (left \/ Active) /\ UNCHANGED session
  /\ charge' = [charge EXCEPT !.at = "off", !.ai = FALSE, !.orphan = FALSE]
  /\ stop' = FALSE
  /\ UNCHANGED <<history, selected, disk, entry, rest, asked>>

Dispensed ==
  /\ Quiet /\ charge.at = "dispense"
  /\ charge' = [charge EXCEPT !.at = "record"]
  /\ UNCHANGED <<session, history, selected, disk, entry, stop, rest, ghosts>>

\* RST in one of the waits for zero, the tare or the cup: nobody tells the session.
LeaveCharge ==
  /\ Quiet /\ charge.at = "wait"
  /\ charge' = [charge EXCEPT !.at = "off", !.ai = FALSE, !.orphan = FALSE]
  /\ left' = (left \/ Active)
  /\ stop' = FALSE
  /\ UNCHANGED <<session, history, selected, disk, entry, rest, asked>>

\* ai_tuning_record_drop, in the stage the session is in now.  A stage ends with its
\* last sample or, when its budget is used up, before.
Counted(motor) ==
  IF session.state \in Calibrating /\ session.index < Production
    THEN [session EXCEPT ![motor] = @ + 1]
    ELSE session
Taken == [Counted(charge.motor) EXCEPT
            !.model.mixed = @ \/ (charge.motor # MotorOf(session.state) /\ ~charge.orphan)]

StageOver(budgetUsed) ==
  LET n == session.index + 1
  IN IF session.state \in Characterizing
       THEN n >= Samples \/ budgetUsed
       ELSE n >= CalSamples \/ (n >= CalMin /\ budgetUsed)

MachineValid(s) == s.coarse >= CalMin /\ s.fine >= CalMin

Verdict(s, sound) ==
  IF sound /\ (s.state = "cal_fine" => MachineValid(s))
    THEN [s EXCEPT !.state = "ready", !.model.calibrated = s.state = "cal_fine"]
    ELSE [s EXCEPT !.state = "error"]

\* The verdict on the last sample; the flows it depends on are free.
AfterSample(s, budgetUsed, sound) ==
  IF ~StageOver(budgetUsed) THEN [s EXCEPT !.index = @ + 1]
  ELSE CASE s.state = "coarse" -> [s EXCEPT !.state = "fine", !.index = 0]
         [] s.state = "cal_coarse" -> [s EXCEPT !.state = "cal_fine", !.index = 0]
         [] OTHER -> Verdict(s, sound)

\* A recorded sample goes on to the next one, or ends the run if it was the last.
RecordDrop ==
  /\ Quiet /\ charge.at = "record"
  /\ charge.ai /\ Active
  /\ \E budgetUsed, sound \in BOOLEAN : session' = AfterSample(Taken, budgetUsed, sound)
  /\ charge' = [charge EXCEPT !.at = IF session'.state = "ready" THEN "off" ELSE "wait",
                              !.ai = FALSE, !.orphan = FALSE]
  /\ UNCHANGED <<history, selected, disk, entry, stop, rest, ghosts>>

\* No stable weight, or an unreasonable one, or no session left.
RecordNothing ==
  /\ Quiet /\ charge.at = "record"
  /\ charge' = [charge EXCEPT !.at = "wait", !.ai = FALSE, !.orphan = FALSE]
  /\ UNCHANGED <<session, history, selected, disk, entry, stop, rest, ghosts>>

\* ai_tuning_record_charge after an ordinary charge: the history is saved again.
RecordCharge ==
  /\ Quiet /\ charge.at = "record"
  /\ ~charge.ai
  /\ charge' = [charge EXCEPT !.at = "wait"]
  /\ SaveHistory
  /\ UNCHANGED <<session, history, selected, entry, stop, rest, ghosts>>

-----------------------------------------------------------------------------

RestStep ==
  \/ \E p \in Profiles, calibrate \in BOOLEAN : RestStart(p, calibrate)
  \/ Start \/ EnterChargeMode \/ EnterFails \/ Cancel \/ Apply \/ ClearHistory
  \/ \E p \in Profiles, set \in Weights : KernelWeight(p, set)

MenuStep ==
  EnterCharge \/ Begin \/ Plan \/ Abort \/ Dispensed \/ LeaveCharge
  \/ RecordDrop \/ RecordNothing \/ RecordCharge

Next ==
  \/ RestStep \/ MenuStep \/ SaveRefused \/ SavePage \/ PowerCycle
  \/ \E p \in Profiles : Select(p)

Spec == Init /\ [][Next]_vars

TypeOK ==
  /\ session \in [state : {"idle", "ready", "error"} \union Characterizing \union Calibrating,
                  profile : Profiles, index : 0..(Samples + CalSamples - 1),
                  coarse : 0..(2 * Production), fine : 0..(2 * Production), model : Models]
  /\ session.coarse + session.fine <= 2 * Production
  /\ history \in [Profiles -> Models]
  /\ selected \in Profiles
  /\ flash \in [Profiles -> [model : Models, pages : 0..Pages]]
  /\ save \in 0..(Pages * ProfileCount + 1)
  /\ charge \in [at : {"off", "wait", "plan", "dispense", "record"},
                 motor : {"coarse", "fine"}, ai : BOOLEAN, orphan : BOOLEAN]
  /\ rest \in [at : {"idle", "start", "enter"}, profile : Profiles, calibrate : BOOLEAN]
  /\ {refused, entry, stop, asked, left} \subseteq BOOLEAN

Kept == {session.model} \union {history[p] : p \in Profiles}

\* Every sample in a model was dispensed by the motor whose stage it is counted in
\* ("Coarse only", "Fine only" in README.md:103-104), except one whose own session was
\* replaced while it was under way: ai_tuning_record_drop asks whether a session is
\* active, not whether it is the one the sample was planned for.
SamplesFromTheirMotor == \A m \in Kept : ~m.mixed

\* A saved model was measured for the profile it is saved under, whichever profile has
\* been selected since the session began.
ModelsBelongToProfile ==
  \A p \in Profiles : history[p].owner \in {0, p} /\ flash[p].model.owner \in {0, p}

\* Between two operations the flash block holds the history in RAM, page for page,
\* unless the last write was refused.
StoredIsSaved ==
  save = 0 /\ ~refused =>
    \A p \in Profiles : flash[p].pages = Pages => flash[p].model = history[p]

\* A charge becomes an AI sample only in a run of charge mode that a start asked for,
\* or when an earlier run left the session open.
SampleWasAsked == charge.ai /\ Active => asked \/ left

\* A kernel weight the operator has set stays until the operator changes or clears it
\* (ai_tuning.h: "Pass 0 to clear an override").
OverrideStands ==
  [][\A p \in Profiles : history[p].kernel /\ ~history'[p].kernel =>
        ClearHistory \/ PowerCycle \/ KernelWeight(p, FALSE)]_vars

=============================================================================
