SPECIFICATION FairSpec
CONSTANTS
  Kinds = {"content", "other"}
  RingLimit = 1
  Block = 2
  HighWater = 1
  MaxPieces = 2
  MaxRows = 1
  MaxSignals = 1
  MaxFaults = 1
  None = None
CHECK_DEADLOCK FALSE
INVARIANT TypeOK
 
INVARIANT NeverBackwards
INVARIANT NoSilentLoss
INVARIANT NothingSkipped
PROPERTY CatchesUp
