SPECIFICATION FairStorageSpec
CONSTANTS
    MaxForestRows = 5
    LiteralBits = 32
    MaxLeaves = 5
    AddSizes = {0, 1, 2, 4}
    MaxDels = 2
    MaxNodes = 12
PROPERTIES
    ReloadIsInvisible
    CallReturns
