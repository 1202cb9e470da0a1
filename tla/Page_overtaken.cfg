CONSTANTS
    a = a
    b = b
    s1 = s1
    s2 = s2
    None = None
    Executions <- OneExecution
    Initial <- Running
    Slots <- TwoSlots
    MaxFailures = 1
SPECIFICATION FairSpec
PROPERTIES
    ListSettles
