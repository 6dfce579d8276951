SPECIFICATION Spec
CONSTANTS
    MaxForestRows = 5
    LiteralBits = 32
    MaxHeight = 3
    MaxLeaves = 7
    AddSizes = {0, 1, 3}
    MaxDels = 6
    MaxHeld = 2
    HoldUpTo = 4
INVARIANTS
    StumpFollowsForest
    FirstRowVerifies
    NewNodesAreWhereTheySay
    DestroyedRootsReported
    SingleProofIsSound
PROPERTIES
    OnlyMembersAreDeleted
