CONSTANTS
    h1 = h1
    h2 = h2
    t22 = t22
    t80 = t80
    u161 = u161
    e1 = e1
    e2 = e2
    e3 = e3
    NoExecution = NoExecution
    Hosts <- OneHost
    TcpKeys <- OneTcp
    UdpKeys <- NoUdp
    Executions <- TwoExecutions
    Selected <- FullProfiles
    Raw <- Nobody
    Detecting <- Nobody
SPECIFICATION Spec
PROPERTIES
    CompleteScanCloses
CHECK_DEADLOCK FALSE
