SPECIFICATION Spec
CONSTANTS
  QueueLen = 2
  FailLimit = 2
  Controllers = {"pid"}
  RestCommands = {"exit"}
  GateEnabled = TRUE
  CoarseReverse = FALSE
  FineReverse = FALSE
  ManualFinish = FALSE
  Precharge = TRUE
INVARIANTS GateClosedAtIdle NoPhantomCharge
PROPERTY StopHonoured
