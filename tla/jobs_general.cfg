SPECIFICATION FairSpec
CONSTANTS
  a = a
  b = b
  NoConv = NoConv
  Convs = {a}
  Kinds = {"retro", "extract", "analyzeNow", "analyzeIdle", "embed", "prune"}
  SlowCap = 2
  FastCap = 1
  EmbedCap = 2
  MaxAttempts = 2
  MaxDeferrals = 2
  Threshold = 2
  Wipes = TRUE
  MaxRows = 2
  MaxQueries = 1
  MaxCrashes = 1
CHECK_DEADLOCK FALSE
INVARIANT TriggersCovered
INVARIANT Serial
INVARIANT RunsCounted
INVARIANT HalfOpenHasProbe
PROPERTY CompletedForGood
PROPERTY JobsEnd
