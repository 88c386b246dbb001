SPECIFICATION Spec

CONSTANTS
    Procs = {p1, p2}
    Nobody = Nobody
    MaxStarts = 2

CHECK_DEADLOCK FALSE

INVARIANT OneWriter
