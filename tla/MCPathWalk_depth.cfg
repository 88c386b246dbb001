SPECIFICATION Spec

CONSTANTS
    Steps = {1, 2, 3, 4, 5}
    Graphs <- Acyclic
    VersionSets <- Youngest
    MaxDepth = 2
    MaxNodes = 5
    MaxEdges = 10

CHECK_DEADLOCK FALSE

INVARIANT LimitMeansExceeded
