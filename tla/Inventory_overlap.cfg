CONSTANTS
    h1 = h1
    h2 = h2
    t22 = t22
    t80 = t80
    u161 = u161
    e1 = e1
    e2 = e2
    e3 = e3
    NoExecution = NoExecution
    Hosts <- OneHost
    TcpKeys <- TwoTcp
    UdpKeys <- OneUdp
    Executions <- ThreeExecutions
    Selected <- PartialProfile
    Raw <- FirstTwo
    Detecting <- OnlyFirst
SPECIFICATION Spec
INVARIANTS
    HistoryBacksInventory
PROPERTIES
    TcpClosedOnlyByLook
    SeenIsShownUnlessOverlapped
CHECK_DEADLOCK FALSE
