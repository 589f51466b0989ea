SPECIFICATION Spec
CONSTANTS
  QueueLen = 2
  FailLimit = 2
  Controllers = {"pid", "adaptive"}
  RestCommands = {"enter", "force", "ai_start", "ai_cancel"}
  GateEnabled = TRUE
  CoarseReverse = TRUE
  FineReverse = TRUE
  ManualFinish = TRUE
  Precharge = TRUE
INVARIANTS TypeOK NoMotionOutsideDispensing FeedsThroughOpenGate NoStaleRecord RecordsMatchController AbortEndsCharge ChargesWithMotorsEnabled
