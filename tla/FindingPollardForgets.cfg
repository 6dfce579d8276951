SPECIFICATION Spec
CONSTANTS
    MaxForestRows = 5
    LiteralBits = 32
    MaxHeight = 3
    MaxLeaves = 4
    AddSizes = {0, 4}
    Sizes = {4}
    ServeUpTo = 0
    MaxDels = 1
    Memorable = {1, 2, 3, 4}
    MaxIngested = 0
    MaxPruned = 0
    AnyBlock = FALSE
INVARIANTS
    KeepsWhatItWasAsked
