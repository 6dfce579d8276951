SPECIFICATION Spec
CONSTANTS
    MaxForestRows = 5
    LiteralBits = 32
    MaxHeight = 3
    MaxLeaves = 4
    AddSizes = {0, 1}
    Sizes = {1, 2, 3, 4}
    ServeUpTo = 4
    MaxDels = 1
    Memorable = {1}
    MaxIngested = 1
    MaxPruned = 1
    AnyBlock = FALSE
INVARIANTS
    StartsFromStump
