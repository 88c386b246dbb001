SPECIFICATION Spec

CONSTANTS
    Steps = {1, 2, 3, 4, 5}
    Graphs <- Acyclic
    VersionSets <- OneVersion
    MaxDepth = 2
    MaxNodes = 4
    MaxEdges = 4

CHECK_DEADLOCK FALSE

INVARIANTS
    TypeOK
    ReturnsAncestors
    AcceptedWithinBounds
    ParentsFirst
    LowestFirst
