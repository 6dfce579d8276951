SPECIFICATION Spec
CONSTANTS
    MaxForestRows = 6
    LiteralBits = 32
    MaxLeaves = 18
INVARIANTS
    PositionTracksNode
    RootPositionsMatchForest
    OffsetLeadsToNode
    AncestorsAreThePathUp
PROPERTIES
    SharedPositionIsStable
