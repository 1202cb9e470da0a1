CONSTANTS
    w1 = w1
    w2 = w2
    NoWorker = NoWorker
    Workers <- OneWorker
    MaxExecutions = 1
    StageChoices <- NmapOnly
    LocksRows = TRUE
    HeartbeatsMayFail = FALSE
    MayCancel = FALSE
    Limit <- DatabaseOutage
SPECIFICATION FairSpec
PROPERTIES
    OrphanIsRecovered
