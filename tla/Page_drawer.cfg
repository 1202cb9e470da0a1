CONSTANTS
    a = a
    b = b
    s1 = s1
    s2 = s2
    None = None
    Executions <- TwoExecutions
    Initial <- Waiting
    Slots <- TwoSlots
    MaxFailures = 1
SPECIFICATION Spec
INVARIANTS
    DrawerIsOfSelection
