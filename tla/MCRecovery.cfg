SPECIFICATION Spec

CONSTANTS
    t1 = t1
    t2 = t2
    d1 = d1
    i1 = i1
    i2 = i2
    Traces = {t1, t2}
    Digests = {d1}
    Imports = {i1, i2}
    Batch <- Content
    NoRow = NoRow
    NoPin = NoPin
    NoBackup = NoBackup
    HistoryRevisions = 2
    ArtifactAge = 1
    LeaseTime = 1
    StageTtl = 0
    MaxTime = 1
    Bounds <- SomeBounds

INVARIANTS
    TypeOK
    PrunesTold
    LossExplained
    PinHolds

PROPERTY
    LeasesHold
