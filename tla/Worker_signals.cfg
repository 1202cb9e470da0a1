CONSTANTS
    ssh = ssh
    web = web
    snmp = snmp
    TimeLimit = 2
    Grace = 1
    Tcp <- TwoTcp
    Udp <- NoUdp
    MaxParallelism = 1
    ProbeLimit = 1
    HbInterval = 1
    Staleness = 2
    CheckEvery = 1
    Retries = 1
    MaxOutages = 1
    MaxRivals = 0
    LoopBeat = 2
    Poll = 1
    VersionLimit = 1
    CallLimit = 2
    Hosts = 1
    MaxSignals = 2
    MaxCrashes = 1
SPECIFICATION Spec
INVARIANTS
    NoChildOutlives
    NoScanAfterSignal
