CONSTANTS
    w1 = w1
    w2 = w2
    NoWorker = NoWorker
    Workers <- TwoWorkers
    MaxExecutions = 2
    StageChoices <- NucleiOnly
    LocksRows = TRUE
    HeartbeatsMayFail = FALSE
    MayCancel = TRUE
    Limit <- CrashAndDatabase
SPECIFICATION Spec
SYMMETRY WorkerSymmetry
INVARIANTS
    TypeOK
    OutcomeHasNoRunningEngine
    CompletedHasNoFailedEngine
PROPERTIES
    OutcomeRewrittenOnlyByRace
