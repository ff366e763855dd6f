SPECIFICATION FairSpec
CONSTANTS
  a = a
  b = b
  c = c
  NoJob = NoJob
  Jobs <- AllThree
  OneShots <- AAndB
  Mode <- ExecuteWake
  MaxRetries = 1
  WakeMaxRetries = 1
  Expiring = {}
  Wedging = {}
  UserOps = {"cancel"}
  MaxNow = 0
  MaxCrashes = 1
  MidCrash = FALSE
CHECK_DEADLOCK FALSE
INVARIANT FiringIsBacked
INVARIANT NothingDropped
INVARIANT NotEarly
PROPERTY ExactlyMaxRetries
PROPERTY OneShotEnds
