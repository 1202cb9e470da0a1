CONSTANTS
    ssh = ssh
    web = web
    snmp = snmp
    TimeLimit = 2
    Grace = 1
    Tcp <- TwoTcp
    Udp <- NoUdp
    MaxParallelism = 1
    ProbeLimit = 1
    HbInterval = 2
    Staleness = 1
    CheckEvery = 1
    Retries = 1
    MaxOutages = 1
    MaxRivals = 1
    LoopBeat = 1
    Poll = 1
    VersionLimit = 1
    CallLimit = 2
    Hosts = 1
    MaxSignals = 2
    MaxCrashes = 0
SPECIFICATION FairSpec
PROPERTIES
    ScanEnds
    StopEnds
