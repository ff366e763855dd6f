SPECIFICATION Spec
CONSTANTS
  a = a
  b = b
  NoConv = NoConv
  Convs = {a}
  Kinds = {"retro"}
  SlowCap = 1
  FastCap = 1
  EmbedCap = 1
  MaxAttempts = 2
  MaxDeferrals = 2
  Threshold = 2
  Wipes = TRUE
  MaxRows = 2
  MaxQueries = 0
  MaxCrashes = 0
CHECK_DEADLOCK FALSE
PROPERTY FailedForGood
