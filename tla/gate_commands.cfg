SPECIFICATION GateFairSpec
CONSTANTS
  GateCallers = {"menu", "rest"}
  Blocking = {"menu"}
  Ratios = {"open", "half", "closed"}
  None = "none"
INVARIANTS LastCommandHolds NoLostWakeup
PROPERTY BlockedCallReturns
