SPECIFICATION Spec

CONSTANTS
    Verifiers = {v, w}
    Role = "origin"
    Hashes = {"a1", "a2", "a3", "b2", "c2"}
    Body <- Bodies
    Zero = "zero"
    Required = {"s3"}
    Envelopes <- Circulating
    Packages <- AllPackages

SYMMETRY VerifierSymmetry

CHECK_DEADLOCK FALSE

INVARIANTS
    TypeOK
    PinsDecide
    TrustedIsPinnedChain

PROPERTIES
    DistrustStays
