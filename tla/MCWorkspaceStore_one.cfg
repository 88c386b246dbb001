SPECIFICATION Spec

CONSTANTS
    Sources = {"langsmith"}
    Profiles = {"acme"}
    Traces = {"t1"}
    Imports = {i1, i2}
    Requests = {1, 2, 3, 4, 5, 6, 7}
    GeneratedId = GeneratedId
    Batches <- OneTrace
    SourceCap = 1
    StageTtl = 0
    TicksPerSecond = 2
    MaxClock = 2
    MaxRevision = 2

SYMMETRY ImportSymmetry

CONSTRAINTS
    InOrder
    FewReplays

INVARIANTS
    TypeOK
    HistoryAudited
    CommitsAreRevisions
    NothingStagedIsDropped
    RetriesStand
    LogDecidesImports
    CountsAccount

PROPERTIES
    NothingRewritten
    ExpiryRespected
    ImplementsLedger
