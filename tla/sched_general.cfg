SPECIFICATION Spec
CONSTANTS
  a = a
  b = b
  c = c
  NoJob = NoJob
  Jobs <- AAndB
  OneShots <- JustA
  Mode <- ExecuteWake
  MaxRetries = 1
  WakeMaxRetries = 1
  Expiring <- JustB
  Wedging = {}
  UserOps = {"toggle", "cancel", "delete", "runNow"}
  MaxNow = 1
  MaxCrashes = 1
  MidCrash = TRUE
CHECK_DEADLOCK FALSE
INVARIANT ClaimedOnce
INVARIANT RunsAccountedFor
PROPERTY DoneStaysDone
