SPECIFICATION FairSpec
CONSTANTS
    N = 2
    Shapes <- OneSender
    MaxBytes = 2
    SlashIO = {}
    PostOutcomes = {"ok", "dup"}
    DrainOutcomes = {"ok"}
    Controls = {}
PROPERTIES EveryoneSettles
CHECK_DEADLOCK FALSE
