SPECIFICATION Spec
CONSTANTS
    N = 3
    Shapes <- SlashShapes
    MaxBytes = 2
    SlashIO = {"text", "solo", "info", "compact"}
    PostOutcomes = {"ok", "dup", "err"}
    DrainOutcomes = {"ok", "dup", "err"}
    Controls = {"cancel", "steer", "delete"}
INVARIANTS FlagHasHolder QueueAccounted
PROPERTY SettledOnce
CHECK_DEADLOCK FALSE
