SPECIFICATION Spec
CONSTANTS
    i1 = i1
    i2 = i2
    i3 = i3
    digest = digest
    Steps = {1, 2, 3, 4, 5, 6, 7}
    Body <- Bodies
    Origins <- Attestations
    Elsewhere <- Others
    Zero = "zero"
    Nothing = Nothing
    Digests = {digest}
    Length <- Lengths
    Imports = {i1, i2, i3}
    Batch <- Batches
    Requests <- Asked
    Refused = Refused
    NoBundle = NoBundle
    MaxEntries = 4
INVARIANTS
    HonestVerifies
    ValidIsRevision
CHECK_DEADLOCK FALSE
