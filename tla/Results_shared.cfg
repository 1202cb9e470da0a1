CONSTANTS
    r1 = r1
    r2 = r2
    h1 = h1
    h2 = h2
    h3 = h3
    t1 = t1
    e1 = e1
    e2 = e2
    e3 = e3
    None = None
    Ranges <- TwoRanges
    Hosts <- ThreeHosts
    Templates <- OneTemplate
    Executions <- OfTwoRanges
    ScopeOf <- Shared
    RangeOf <- RangesOf
    MayUse <- Asks
SPECIFICATION Spec
CONSTRAINT TwoOverlap
INVARIANTS
    FoundWhereShown
CHECK_DEADLOCK FALSE
