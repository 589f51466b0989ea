----------------------------- MODULE ChargeCycle -----------------------------
(***************************************************************************)
(* What charge mode promises the operator: charges come one at a time, each *)
(* on a scale that has been zeroed after the cup of the last one was taken  *)
(* away and put back, and powder moves only while a charge is dispensed or  *)
(* topped up.  charge_mode_menu (src/src/charge_mode.cpp:4030-4058) is the  *)
(* cycle; ChargeMode implements it.                                         *)
(***************************************************************************)

VARIABLES
  phase,     \* "idle", or the phase of the cycle
  feeding    \* some motor is commanded to turn

cycleVars == <<phase, feeding>>

CycleInit == phase = "idle" /\ feeding = FALSE

\* From one phase to another, with the motors at rest on both sides.
Move(from, to) ==
  /\ phase = from /\ phase' = to
  /\ ~feeding /\ UNCHANGED feeding

\* While a charge is dispensed, or settles, motors start and stop.
Feed ==
  /\ phase \in {"dispense", "settle"}
  /\ feeding' \in BOOLEAN
  /\ UNCHANGED phase

\* Stop, error or abort: from anywhere back to the menu, and everything stops.
Abandon ==
  /\ phase' = "idle"
  /\ feeding' = FALSE

CycleNext ==
  \/ Move("idle", "zero")
  \/ Move("zero", "dispense")
  \/ Feed
  \/ Move("dispense", "settle")
  \/ Move("dispense", "removal")      \* the operator finished it by hand
  \/ Move("settle", "removal")
  \/ Move("removal", "return")
  \/ Move("return", "zero")
  \/ Abandon

CycleSpec == CycleInit /\ [][CycleNext]_cycleVars

=============================================================================
