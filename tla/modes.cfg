SPECIFICATION FairSpec
CONSTANTS
  QueueLen = 2
  Requests = {"charge_enter", "charge_exit", "cleanup_enter", "cleanup_exit", "tune_start", "tune_abort", "tune_exit", "button"}
  MaxRequests = 6
  MaxLate = 2
INVARIANTS TypeOK AbortStopsLadder
PROPERTY RequestAnswered
CHECK_DEADLOCK FALSE
