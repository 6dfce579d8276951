SPECIFICATION Spec
CONSTANTS
    MaxForestRows = 5
    LiteralBits = 32
    MaxHeight = 3
    MaxLeaves = 4
    AddSizes = {0, 1, 2}
    MaxDels = 4
    MaxRemembered = 2
    MaxFetched = 1
    AnyBlock = TRUE
INVARIANTS
    NothingIsForgotten
