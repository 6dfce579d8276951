SPECIFICATION Spec
CONSTANTS
    MaxForestRows = 5
    LiteralBits = 32
    MaxHeight = 3
    MaxLeaves = 5
    AddSizes = {0, 1, 3}
    MaxDels = 2
    HoldUpTo = 5
    MaxHeld = 0
INVARIANTS
    VerifyIsComplete
