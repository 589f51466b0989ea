SPECIFICATION Spec
CONSTANTS
  QueueLen = 2
  FailLimit = 2
  Controllers = {"pid", "adaptive"}
  RestCommands = {"exit"}
  GateEnabled = TRUE
  CoarseReverse = TRUE
  FineReverse = TRUE
  ManualFinish = TRUE
  Precharge = TRUE
PROPERTY KeepsCycle
