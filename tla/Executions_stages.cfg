CONSTANTS
    w1 = w1
    w2 = w2
    NoWorker = NoWorker
    Workers <- TwoWorkers
    MaxExecutions = 1
    StageChoices <- NmapOrThree
    LocksRows = TRUE
    HeartbeatsMayFail = TRUE
    MayCancel = TRUE
    Limit <- OneOfEach
SPECIFICATION FairSpec
INVARIANTS
    SingleRunningEngine
    HostsKeptOnFailure
PROPERTIES
    EngineEndRewrittenOnlyByRace
    QueuedIsSettled
    BootRecoversStale
