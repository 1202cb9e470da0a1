CONSTANTS
    s1 = s1
    s2 = s2
    p1 = p1
    p2 = p2
    r1 = r1
    r2 = r2
    NoSchedule = NoSchedule
    Schedules <- TwoSchedules
    Schedulers <- TwoSchedulers
    Requests <- TwoRequests
    MaxTime = 4
    MaxPatches = 2
    MaxRollbacks = 1
    Cron <- EveryTwo
SPECIFICATION FairSpec
INVARIANTS
    NoOverlap
    OneRunPerSlot
PROPERTIES
    EnqueuedOnlyWhenEnabled
    DueIsServed
