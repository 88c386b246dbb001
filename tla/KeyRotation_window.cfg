SPECIFICATION Spec

CONSTANTS
    Procs = {p1, p2}
    Nobody = Nobody
    Keys = {k1, k2, k3}
    FirstKey = k1
    NoKey = NoKey
    MaxEntries = 4

CHECK_DEADLOCK FALSE

INVARIANT OldKeySignsRotation
