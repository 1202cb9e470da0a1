CONSTANTS
    r1 = r1
    r2 = r2
    b1 = b1
    b2 = b2
    NoCidr = NoCidr
    NoBatch = NoBatch
    Requests <- TwoRequests
    Batches <- OneBatch
    MaxLines = 2
    Cidrs <- SomeCidrs
    Overlapping <- OverlappingCidrs
SPECIFICATION Spec
INVARIANTS
    NoOverlap
