CONSTANTS
    s1 = s1
    s2 = s2
    p1 = p1
    p2 = p2
    r1 = r1
    r2 = r2
    NoSchedule = NoSchedule
    Schedules <- OneSchedule
    Schedulers <- OneScheduler
    Requests <- TwoRequests
    MaxTime = 3
    MaxPatches = 4
    MaxRollbacks = 0
    Cron <- EveryTwo
SPECIFICATION Spec
INVARIANTS
    EnabledIsPlanned
