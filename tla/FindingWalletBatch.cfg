SPECIFICATION Spec
CONSTANTS
    MaxForestRows = 5
    LiteralBits = 32
    MaxHeight = 3
    MaxLeaves = 7
    AddSizes = {0, 2, 5}
    MaxDels = 4
    MaxRemembered = 1
    MaxFetched = 0
    AnyBlock = TRUE
INVARIANTS
    CacheIsSpendable
