SPECIFICATION Spec

CONSTANTS
    Sources = {"langsmith"}
    Profiles = {"acme"}
    Traces = {"t1", "t2"}
    Imports = {i1, i2}
    Requests = {1, 2, 3, 4, 5, 6, 7, 8}
    GeneratedId = GeneratedId
    Batches <- TwoTraces
    SourceCap = 1
    StageTtl = 0
    TicksPerSecond = 2
    MaxClock = 0
    MaxRevision = 2

SYMMETRY ImportSymmetry

CONSTRAINTS
    InOrder
    FewReplays

INVARIANTS
    OneTracePerRecord
    RevisionsGrow
