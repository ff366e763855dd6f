SPECIFICATION FairSpec
CONSTANTS
    N = 4
    Shapes <- Texts
    MaxBytes = 3
    SlashIO = {}
    PostOutcomes = {"ok"}
    DrainOutcomes = {"ok", "dup", "err"}
    Controls = {"steer", "delete"}
INVARIANTS MemoryMatchesRows NeverBusy InArrivalOrder NothingForgotten
PROPERTIES EveryoneSettles
CHECK_DEADLOCK FALSE
