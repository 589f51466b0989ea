------------------------------- MODULE Profiles -------------------------------
(***************************************************************************)
(* Profiles, the charge settings each has, and the stop thresholds learned   *)
(* for each.  Source: profile.c, charge_mode.cpp (the per-profile table, its *)
(* working copy and its REST handler), learn_from_throws.c, pid_autotune.cpp *)
(* (the fitted values), mui_menu.c (the profile list).                      *)
(*                                                                         *)
(* The table has the settings of every profile; the charge mode works on a   *)
(* copy, and remembers in `loaded` which profile it copied.  The selected    *)
(* profile is another variable, and the list of the menu writes it without   *)
(* touching the copy.  The menu task and the REST handlers run the same      *)
(* functions, without a lock: a request is the list of steps it has left.    *)
(* Settings are the profile they were made for and one threshold; a save is  *)
(* one step here (ConfigStore has the pages).                               *)
(***************************************************************************)
EXTENDS Naturals, Sequences

CONSTANTS
  Profiles,
  Old,           \* the default threshold
  Edits,         \* thresholds a user may set
  Wide,          \* those of them outside the range of the learner,
  Limit,         \* which takes the end of the range for them
  Learned,       \* what the learner makes of a charge
  Fitted,        \* the threshold of the autotune
  MaxRequests    \* bound on the requests, of both tasks

Stops == Edits \union {Old, Limit, Learned, Fitted}
Settings == [of : Profiles, stop : Stops]
Learners == [on : BOOLEAN, stop : Stops \ Wide, charged : BOOLEAN]
Tasks == {"menu", "tcpip"}

ASSUME StopsAssumption == Wide \subseteq Edits /\ Wide \intersect {Old, Limit, Learned} = {}
ASSUME BoundAssumption == MaxRequests \in Nat

VARIABLES
  selected,      \* profile_data.current_profile_idx
  working,       \* charge_mode_config.eeprom_charge_mode_data
  loaded,        \* charge_mode_config.loaded_profile_idx
  table,         \* charge_mode_profile_data.profiles
  learner,       \* g_ltl.profiles
  result,        \* pid_autotune.result_valid
  saved,         \* EEPROM: the profile record, the table, the learners
  op,            \* op[t]: the steps t has left, and their arguments
  slot,          \* slot[t]: the profile whose slot t is about to write, 0 if none
  requests,      \* counted against MaxRequests
  charge,        \* history: the profile of the charge, and whose settings it began with
  fit,           \* history: where the gains and the threshold of the last fit went
  clash          \* history: a task loaded, compared or saved amid the other's load, or
                 \* loaded amid the other's save

vars == <<selected, working, loaded, table, learner, result, saved, op, slot, requests, charge,
          fit, clash>>

Nobody == [p |-> 0, of |-> 0, calm |-> FALSE]
NoFit == [gains |-> 0, stop |-> 0]
Free == [steps |-> <<>>, p |-> 0, v |-> Old]

Init ==
  /\ selected \in Profiles
  /\ table = [p \in Profiles |-> [of |-> p, stop |-> Old]]
  /\ learner = [p \in Profiles |-> [on |-> FALSE, stop |-> Old, charged |-> FALSE]]
  /\ working = table[selected] /\ loaded = selected
  /\ saved = [selected |-> selected, table |-> table, learner |-> learner]
  /\ result = FALSE
  /\ op = [t \in Tasks |-> Free] /\ slot = [t \in Tasks |-> 0]
  /\ requests = 0 /\ charge = Nobody /\ fit = NoFit /\ clash = FALSE

-----------------------------------------------------------------------------
(* The steps. *)

At(t, step) == op[t].steps # <<>> /\ Head(op[t].steps) = step
Rest(o) == IF Len(o.steps) = 1 THEN Free ELSE [o EXCEPT !.steps = Tail(o.steps)]
Done(t) == op' = [op EXCEPT ![t] = Rest(op[t])]
DoneThen(t, p, more) ==
  op' = [op EXCEPT ![t] = [steps |-> more \o Tail(op[t].steps), p |-> p, v |-> op[t].v]]

\* The other task is inside charge_mode_data_load_for_profile: copied, not yet marked.
Torn(t) == \E u \in Tasks \ {t} : At(u, "mark")
\* The other task is inside charge_mode_config_save: it knows the slot, and has not written it.
Storing(t) == \E u \in Tasks \ {t} : At(u, "slot")

\* profile_select
Select(t) ==
  /\ At(t, "select")
  /\ selected' = op[t].p
  /\ Done(t)
  /\ UNCHANGED <<working, loaded, table, learner, result, saved, slot, requests, charge, fit,
                 clash>>

\* charge_mode_data_load_for_profile
Copy(t) ==
  /\ At(t, "copy")
  /\ working' = table[op[t].p]
  /\ clash' = (clash \/ Torn(t) \/ Storing(t))
  /\ Done(t)
  /\ UNCHANGED <<selected, loaded, table, learner, result, saved, slot, requests, charge, fit>>

Mark(t) ==
  /\ At(t, "mark")
  /\ loaded' = op[t].p
  /\ clash' = (clash \/ Torn(t))
  /\ Done(t)
  /\ UNCHANGED <<selected, working, table, learner, result, saved, slot, requests, charge, fit>>

Edit(t) ==
  /\ At(t, "edit")
  /\ working' = [working EXCEPT !.stop = op[t].v]
  /\ Done(t)
  /\ UNCHANGED <<selected, loaded, table, learner, result, saved, slot, requests, charge, fit,
                 clash>>

\* charge_mode_config_save: the working copy goes to the slot it came from ...
IndexOfSelected(t) ==           \* mutant: it goes to the slot of the selected profile
  /\ At(t, "index")
  /\ slot' = [slot EXCEPT ![t] = selected]
  /\ clash' = (clash \/ Torn(t))
  /\ Done(t)
  /\ UNCHANGED <<selected, working, loaded, table, learner, result, saved, requests, charge, fit>>

Index(t) ==
  /\ At(t, "index")
  /\ slot' = [slot EXCEPT ![t] = loaded]
  /\ clash' = (clash \/ Torn(t))
  /\ Done(t)
  /\ UNCHANGED <<selected, working, loaded, table, learner, result, saved, requests, charge, fit>>

Slot(t) ==
  /\ At(t, "slot")
  /\ table' = [table EXCEPT ![slot[t]] = working]
  /\ slot' = [slot EXCEPT ![t] = 0]
  /\ Done(t)
  /\ UNCHANGED <<selected, working, loaded, learner, result, saved, requests, charge, fit, clash>>

\* ... and the table to the EEPROM; the profile record and the learners have their own place.
Write(t) ==
  /\ \E step \in {"table", "profile", "learners"} :
       /\ At(t, step)
       /\ saved' = CASE step = "table" -> [saved EXCEPT !.table = table]
                     [] step = "profile" -> [saved EXCEPT !.selected = selected]
                     [] step = "learners" -> [saved EXCEPT !.learner = learner]
  /\ Done(t)
  /\ UNCHANGED <<selected, working, loaded, table, learner, result, slot, requests, charge,
                 fit, clash>>

-----------------------------------------------------------------------------
(* Learn From Throws. *)

\* charge_mode_get_profile_thresholds
SetTo(p) == IF p = loaded THEN working.stop ELSE table[p].stop
Clamped(v) == IF v \in Wide THEN Limit ELSE v
SeedFromTable(p) == [learner[p] EXCEPT !.stop = Clamped(table[p].stop), !.charged = FALSE]
                               \* mutant: what the table says, not the working copy
Seed(p) == [learner[p] EXCEPT !.stop = Clamped(SetTo(p)), !.charged = FALSE]

\* learn_from_throws_reset, learn_from_throws_set_enabled
Learner(t) ==
  /\ \E step \in {"reset", "on", "off"} :
       /\ At(t, step)
       /\ LET p == op[t].p
              first == step = "on" /\ ~learner[p].on /\ ~learner[p].charged
              l == IF step = "reset" \/ first THEN Seed(p) ELSE learner[p] IN
          learner' = [learner EXCEPT ![p] = [l EXCEPT !.on = IF step = "reset" THEN l.on ELSE step = "on"]]
  /\ Done(t)
  /\ UNCHANGED <<selected, working, loaded, table, result, saved, slot, requests, charge, fit,
                 clash>>

\* What a charge of p stops at.
StopsAt(p) == IF learner[p].on THEN learner[p].stop ELSE SetTo(p)

\* learn_from_throws_record, after the charge; saved straight away.
RecordUnsaved(t) ==             \* mutant: it waits for the next save
  /\ At(t, "record")
  /\ learner' = IF learner[charge.p].on
                THEN [learner EXCEPT ![charge.p].stop = Learned, ![charge.p].charged = TRUE]
                ELSE learner
  /\ DoneThen(t, op[t].p, <<"leave">>)
  /\ UNCHANGED <<selected, working, loaded, table, result, saved, slot, requests, charge, fit,
                 clash>>

Record(t) ==
  /\ At(t, "record")
  /\ \/ /\ learner[charge.p].on
        /\ learner' = [learner EXCEPT ![charge.p].stop = Learned, ![charge.p].charged = TRUE]
        /\ DoneThen(t, op[t].p, <<"learners", "leave">>)
     \/ /\ DoneThen(t, op[t].p, <<"leave">>)        \* off, or no plausible throw
        /\ UNCHANGED learner
  /\ UNCHANGED <<selected, working, loaded, table, result, saved, slot, requests, charge, fit,
                 clash>>

-----------------------------------------------------------------------------
(* The charge mode, as far as it reads profiles. *)

\* A charge is calm when no REST request runs, or comes, until it begins.
Quiet == op["tcpip"].steps = <<>>

\* charge_mode_menu loads the selected profile if another one is loaded.
EnterUnloaded(t) ==             \* mutant: it charges with what is loaded
  /\ At(t, "enter")
  /\ Done(t)
  /\ charge' = [Nobody EXCEPT !.calm = Quiet]
  /\ UNCHANGED <<selected, working, loaded, table, learner, result, saved, slot, requests,
                 fit, clash>>

Enter(t) ==
  /\ At(t, "enter")
  /\ DoneThen(t, selected, IF selected = loaded THEN <<>> ELSE <<"copy", "mark">>)
  /\ clash' = (clash \/ Torn(t))
  /\ charge' = [Nobody EXCEPT !.calm = Quiet]
  /\ UNCHANGED <<selected, working, loaded, table, learner, result, saved, slot, requests, fit>>

\* The charge takes its profile and its thresholds once.
Begin(t) ==
  /\ At(t, "begin")
  /\ charge' = [p |-> selected, of |-> working.of, calm |-> charge.calm]
  /\ Done(t)
  /\ UNCHANGED <<selected, working, loaded, table, learner, result, saved, slot, requests,
                 fit, clash>>

Leave(t) ==
  /\ At(t, "leave")
  /\ charge' = Nobody
  /\ Done(t)
  /\ UNCHANGED <<selected, working, loaded, table, learner, result, saved, slot, requests,
                 fit, clash>>

\* pid_autotune_apply_to_profile: the gains go to the selected profile ...
FitGains(t) ==
  /\ At(t, "gains")
  /\ fit' = [gains |-> selected, stop |-> fit.stop]
  /\ result' = TRUE
  /\ Done(t)
  /\ UNCHANGED <<selected, working, loaded, table, learner, saved, slot, requests, charge,
                 clash>>

\* ... and the threshold to the working copy.
FitStop(t) ==
  /\ At(t, "stop")
  /\ working' = [working EXCEPT !.stop = Fitted]
  /\ fit' = [fit EXCEPT !.stop = working.of]
  /\ Done(t)
  /\ UNCHANGED <<selected, loaded, table, learner, result, saved, slot, requests, charge,
                 clash>>

-----------------------------------------------------------------------------
(* The requests. *)

Start(t, steps, p, v) ==
  /\ op[t].steps = <<>>
  /\ requests < MaxRequests
  /\ requests' = requests + 1
  /\ op' = [op EXCEPT ![t] = [steps |-> steps, p |-> p, v |-> v]]
  /\ charge' = IF t = "tcpip" THEN [charge EXCEPT !.calm = FALSE] ELSE charge
  /\ UNCHANGED <<selected, working, loaded, table, learner, saved, slot, fit, clash>>

Selecting == <<"select", "copy", "mark">>
Saving == <<"index", "slot", "table">>

\* /rest/charge_mode_config with or without pf, a threshold and ee; the AI handlers select too.
RestConfig ==
  /\ \E p \in Profiles, select, edit, ee \in BOOLEAN, v \in Edits :
       /\ select \/ edit \/ ee
       /\ Start("tcpip", (IF select THEN Selecting ELSE <<>>) \o (IF edit THEN <<"edit">> ELSE <<>>)
                           \o (IF ee THEN Saving ELSE <<>>), p, v)
  /\ UNCHANGED result

\* /rest/profile_config with ee, as far as it concerns the selection.
RestProfile ==
  /\ \E p \in Profiles : Start("tcpip", Selecting \o <<"profile">>, p, Old)
  /\ UNCHANGED result

\* /rest/learn_from_throws
RestLearner ==
  /\ \E p \in Profiles, step \in {"reset", "on", "off"} : Start("tcpip", <<step, "learners">>, p, Old)
  /\ UNCHANGED result

\* /rest/pid_autotune_action: apply, save
RestFit ==
  /\ result
  /\ \E save \in BOOLEAN : Start("tcpip", <<"gains", "stop">> \o
                             IF save THEN <<"profile">> \o Saving ELSE <<>>, 0, Old)
  /\ UNCHANGED result

\* The profile list of the menu: the selection alone.
MenuList ==
  /\ \E p \in Profiles \ {selected} : Start("menu", <<"select">>, p, Old)
  /\ UNCHANGED result

MenuCharge ==
  /\ Start("menu", <<"enter", "begin", "record">>, 0, Old)
  /\ UNCHANGED result

\* pid_autotune_menu: the last result goes; a new one is applied if the throws succeed.
MenuAutotune ==
  /\ result' = FALSE
  /\ \E ok \in BOOLEAN : Start("menu", IF ok THEN <<"gains", "stop">> ELSE <<>>, 0, Old)

\* eeprom_save_all, the handler registered last first.
MenuSaveAll ==
  /\ Start("menu", <<"learners">> \o Saving \o <<"profile">>, 0, Old)
  /\ UNCHANGED result

\* Power goes, or a reboot: start-up reads what was saved.
Restart ==
  /\ selected' = saved.selected
  /\ table' = saved.table
  /\ working' = saved.table[saved.selected] /\ loaded' = saved.selected
  /\ learner' = saved.learner
  /\ result' = FALSE
  /\ op' = [t \in Tasks |-> Free] /\ slot' = [t \in Tasks |-> 0]
  /\ charge' = Nobody /\ fit' = NoFit
  /\ UNCHANGED <<saved, requests, clash>>

Step(t) ==
  \/ Select(t) \/ Copy(t) \/ Mark(t) \/ Edit(t) \/ Index(t) \/ Slot(t) \/ Write(t)
  \/ Learner(t) \/ Record(t) \/ Enter(t) \/ Begin(t) \/ Leave(t) \/ FitGains(t) \/ FitStop(t)

Request ==
  \/ RestConfig \/ RestProfile \/ RestLearner \/ RestFit
  \/ MenuList \/ MenuCharge \/ MenuAutotune \/ MenuSaveAll

Next == (\E t \in Tasks : Step(t)) \/ Request \/ Restart

Spec == Init /\ [][Next]_vars

-----------------------------------------------------------------------------
(* Properties. *)

\* Every variable holds a value the code can give it.
TypeOK ==
  /\ selected \in Profiles /\ loaded \in Profiles /\ working \in Settings
  /\ table \in [Profiles -> Settings] /\ learner \in [Profiles -> Learners]
  /\ saved \in [selected : Profiles, table : [Profiles -> Settings], learner : [Profiles -> Learners]]
  /\ slot \in [Tasks -> Profiles \union {0}]
  /\ result \in BOOLEAN /\ clash \in BOOLEAN /\ requests \in 0..MaxRequests

\* The settings of a profile stay in its slot, in memory and in the EEPROM, whichever
\* profile is selected when a save comes; a load that runs into a load or a save of the
\* other task is the only way to lose one (charge_mode_config_save).
SlotsKeepOwner ==
  ~clash => \A p \in Profiles : table[p].of = p /\ saved.table[p].of = p

\* A charge begins with the settings of the profile that is selected, also after the menu
\* selected it without loading it (charge_mode_menu), unless a request was under way.
ChargeUsesSelected ==
  charge.calm /\ ~clash => charge.of = charge.p

\* What a charge taught is in the EEPROM once the write that follows is over, however
\* charges, switches and resets interleave (learn_from_throws.c: "a power cycle never
\* loses what the last charge taught it").
LearnedIsSaved ==
  (\A t \in Tasks : \A i \in DOMAIN op[t].steps : op[t].steps[i] # "learners")
    => saved.learner = learner

\* Switching learning on for the first time does not change what the next charge stops at
\* (ltl_seed), if that is in the range of the learner.
SwitchOnKeepsStop ==
  [][\A p \in Profiles :
       (At("tcpip", "on") /\ At("tcpip", "learners")' /\ ~learner[p].on /\ learner'[p].on
          /\ ~learner[p].charged /\ SetTo(p) \notin Wide)
         => StopsAt(p)' = StopsAt(p)]_vars

\* Gains and coarse stop of one fit go to one profile ("write the fitted values into the
\* selected profile", pid_autotune.h).
FitInOneProfile ==
  (\A t \in Tasks : ~At(t, "stop")) => fit.gains = fit.stop

=============================================================================
