CONSTANTS
    ssh = ssh
    web = web
    snmp = snmp
    TimeLimit = 80
    Grace = 5
    Tcp <- OneTcp
    Udp <- NoUdp
    MaxParallelism = 1
    ProbeLimit = 4
    HbInterval = 75
    Staleness = 30
    CheckEvery = 10
    Retries = 5
    MaxOutages = 0
    MaxRivals = 0
    LoopBeat = 5
    Poll = 2
    VersionLimit = 5
    CallLimit = 10
    Hosts = 0
    MaxSignals = 0
    MaxCrashes = 0
SPECIFICATION Spec
INVARIANTS
    ContainerStaysHealthy
