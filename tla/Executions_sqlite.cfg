CONSTANTS
    w1 = w1
    w2 = w2
    NoWorker = NoWorker
    Workers <- TwoWorkers
    MaxExecutions = 2
    StageChoices <- NmapMaybeZabbix
    LocksRows = FALSE
    HeartbeatsMayFail = FALSE
    MayCancel = TRUE
    Limit <- OneSignal
SPECIFICATION Spec
SYMMETRY WorkerSymmetry
INVARIANTS
    ExclusiveClaim
PROPERTIES
    QueuePromise
