SPECIFICATION FairSpec
CONSTANTS
  Selected = {"coarse"}
  Speeds <- MCSpeeds
  RestOps = {"speed", "direction"}
INVARIANTS LastSpeedHolds DisabledMeansStopped DirectionFollowsSign
PROPERTY SendReturns
