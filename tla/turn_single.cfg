SPECIFICATION Spec
CONSTANTS
    N = 3
    Shapes <- AllShapes
    MaxBytes = 2
    SlashIO = {}
    PostOutcomes = {"ok", "dup", "err"}
    DrainOutcomes = {"ok", "dup", "err"}
    Controls = {"cancel", "steer", "delete"}
INVARIANT TurnOwnsConversation
CHECK_DEADLOCK FALSE
