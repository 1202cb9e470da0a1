CONSTANTS
    ssh = ssh
    web = web
    snmp = snmp
    TimeLimit = 3
    Grace = 1
    Tcp <- TwoTcp
    Udp <- OneUdp
    MaxParallelism = 1
    ProbeLimit = 1
    HbInterval = 1
    Staleness = 1
    CheckEvery = 1
    Retries = 1
    MaxOutages = 3
    MaxRivals = 1
    LoopBeat = 1
    Poll = 1
    VersionLimit = 1
    CallLimit = 2
    Hosts = 2
    MaxSignals = 2
    MaxCrashes = 1
SPECIFICATION Spec
INVARIANTS
    ChildKilledWithCall
    ScanIsBounded
    StopIsPrompt
    StaleOnlyAfterThree
    LiveIsHealthy
