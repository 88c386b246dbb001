SPECIFICATION Spec

CONSTANTS
    Steps <- AllSteps
    Body <- Bodies
    Origins <- Attestations
    Inputs <- Traces
    Zero = "zero"
    Nothing = Nothing
    Nobody = Nobody

CHECK_DEADLOCK FALSE

INVARIANTS
    TypeOK
    CyclesSuppressed
    CyclesReported
    NothingDropped
    OriginGapsAreHoles
