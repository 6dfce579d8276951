SPECIFICATION Spec
CONSTANTS
    MaxForestRows = 5
    LiteralBits = 32
    MaxLeaves = 8
    AddSizes = {0, 3, 4}
    MaxDels = 2
    MaxNodes = 16
INVARIANTS
    RootsMatchLeafCount
    MapIsTheLeaves
    HashesCommit
    Inv
    NothingLeaks
    RootHashesCommit
    PositionsLeadBack
    ProofIsAsPromised
PROPERTIES
    ImplementsAccumulator
    ImplementsLeafSet
