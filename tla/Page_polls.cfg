CONSTANTS
    a = a
    b = b
    s1 = s1
    s2 = s2
    None = None
    Executions <- TwoExecutions
    Initial <- Waiting
    Slots <- OneSlot
    MaxFailures = 2
SPECIFICATION FairSpec
PROPERTIES
    ListSettles
    DrawerSettles
    CancelEnds
