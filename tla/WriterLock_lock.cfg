SPECIFICATION FairSpec

CONSTANTS
    Procs = {p1, p2, p3}
    Nobody = Nobody
    MaxStarts = 5

CHECK_DEADLOCK FALSE

INVARIANT TypeOK

PROPERTIES
    SettledExcludes
    AttemptsEnd
    DeadLockReclaimed
