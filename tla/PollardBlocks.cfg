SPECIFICATION Spec
VIEW View
CONSTANTS
    MaxForestRows = 5
    LiteralBits = 32
    MaxHeight = 3
    MaxLeaves = 8
    AddSizes = {0, 1, 3, 8}
    Sizes = {1, 2, 3, 4, 8}
    ServeUpTo = 4
    MaxDels = 2
    Memorable = {1, 3}
    MaxIngested = 2
    MaxPruned = 2
    AnyBlock = FALSE
INVARIANTS
    PollardFollowsForest
    CachedNodesAreTheForests
    OwnedByTheAunt
    ProofsAreTheForests
    SingleProofsVerify
    RestartForgetsNothing
PROPERTIES
    CallsSucceed
    RememberedCanBeProved
    OtherTreesAreKept
