CONSTANTS
    h1 = h1
    h2 = h2
    t22 = t22
    t80 = t80
    u161 = u161
    e1 = e1
    e2 = e2
    e3 = e3
    NoExecution = NoExecution
    Hosts <- TwoHosts
    TcpKeys <- TwoTcp
    UdpKeys <- NoUdp
    Executions <- TwoExecutions
    Selected <- FullProfiles
    Raw <- Nobody
    Detecting <- TwoExecutions
SPECIFICATION Spec
INVARIANTS
    PartialKeepsResults
CHECK_DEADLOCK FALSE
