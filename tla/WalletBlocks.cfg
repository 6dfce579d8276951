SPECIFICATION Spec
CONSTANTS
    MaxForestRows = 5
    LiteralBits = 32
    MaxHeight = 3
    MaxLeaves = 7
    AddSizes = {0, 1, 3}
    MaxDels = 2
    MaxRemembered = 2
    MaxFetched = 2
    AnyBlock = FALSE
INVARIANTS
    CacheIsTheForestsProof
    NothingIsForgotten
    CacheIsSpendable
