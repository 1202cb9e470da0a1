--------------------------- MODULE ScheduledScans ---------------------------
(***************************************************************************)
(* Schedules and the executions they cause: the scheduler processes that   *)
(* poll for due schedules, and the API requests that create, enable,       *)
(* disable and delete them meanwhile.  The database is PostgreSQL: the     *)
(* poll is one transaction that holds the FOR UPDATE locks of the rows it  *)
(* selected, and what it inserts is visible when it commits.               *)
(***************************************************************************)
EXTENDS Naturals, FiniteSets

CONSTANTS
    Schedules,          \* the schedules ever created
    Schedulers,         \* the scheduler processes
    Requests,           \* bound: the PATCH requests that may be in flight together
    NoSchedule,         \* "no request in flight"
    MaxTime,            \* bound: the clock stops there
    MaxPatches,         \* bound: how many PATCH requests are made
    MaxRollbacks,       \* bound: how often a poll fails or its process dies
    Cron                \* the next occurrence of the cron expression after an instant

Times == 0..MaxTime
NoTime == 0             \* next_run_at IS NULL

ASSUME SchedulesAssumption == NoSchedule \notin Schedules
ASSUME BoundsAssumption == MaxTime \in Nat /\ MaxPatches \in Nat /\ MaxRollbacks \in Nat
ASSUME CronAssumption == Cron \in [Times -> Nat] /\ \A t \in Times : Cron[t] > t

VARIABLES
    clock,              \* utcnow(), the same for every process
    schedules,          \* scan_schedules
    executions,         \* the scan_executions of a schedule
    batch,              \* the poll of a scheduler: its transaction and its locals
    requests,           \* the PATCH requests in flight
    patches,            \* how many PATCH requests were made
    rollbacks           \* how many polls failed

vars == <<clock, schedules, executions, batch, requests, patches, rollbacks>>

Rows == [state : {"new", "present", "deleted"}, enabled : BOOLEAN, nextRun : Nat]

\* number tells executions of one slot apart; there should be but one.
Executions == [schedule : Schedules, slot : Nat, number : Nat, live : BOOLEAN]

\* held: the rows the poll has locked; todo: those its loop has still to visit.
Batches == [held : SUBSET Schedules, todo : SUBSET Schedules, now : Times,
            slot : [Schedules -> Nat], inserts : SUBSET Executions]
NoBatch == [held |-> {}, todo |-> {}, now |-> 0,
            slot |-> [s \in Schedules |-> NoTime], inserts |-> {}]

\* What the request read, and the values it will write.
PatchRequests == [schedule : Schedules \union {NoSchedule}, wasEnabled : BOOLEAN,
                  wasNext : Nat, enabled : BOOLEAN, nextRun : Nat]
NoRequest == [schedule |-> NoSchedule, wasEnabled |-> FALSE, wasNext |-> NoTime,
              enabled |-> FALSE, nextRun |-> NoTime]

Locked(s) == \E p \in Schedulers : s \in batch[p].held
ExecutionsOf(s) == {x \in executions : x.schedule = s}

TypeOK ==
    /\ clock \in Times
    /\ schedules \in [Schedules -> Rows]
    /\ executions \subseteq Executions
    /\ batch \in [Schedulers -> Batches]
    /\ requests \in [Requests -> PatchRequests]
    /\ patches \in Nat
    /\ rollbacks \in Nat

Init ==
    /\ clock = 0
    /\ schedules = [s \in Schedules |-> [state |-> "new", enabled |-> FALSE,
                                         nextRun |-> NoTime]]
    /\ executions = {}
    /\ batch = [p \in Schedulers |-> NoBatch]
    /\ requests = [r \in Requests |-> NoRequest]
    /\ patches = 0
    /\ rollbacks = 0

----------------------------------------------------------------------------
(* The API.                                                                *)

CreateSchedule(s) ==
    /\ schedules[s].state = "new"
    /\ schedules' = [schedules EXCEPT ![s] = [state |-> "present", enabled |-> TRUE,
                                              nextRun |-> Cron[clock]]]
    /\ UNCHANGED <<clock, executions, batch, requests, patches, rollbacks>>

\* PATCH /schedules/{id} reads the row and computes what to write.
ReadForPatch(r, s) ==
    /\ requests[r] = NoRequest
    /\ patches < MaxPatches
    /\ schedules[s].state = "present"
    /\ patches' = patches + 1
    /\ \E enable \in BOOLEAN :
        requests' = [requests EXCEPT ![r] =
            [schedule |-> s, wasEnabled |-> schedules[s].enabled,
             wasNext |-> schedules[s].nextRun, enabled |-> enable,
             nextRun |-> IF enable THEN Cron[clock] ELSE NoTime]]
    /\ UNCHANGED <<clock, schedules, executions, batch, rollbacks>>

\* Variant: the UPDATE does not wait for the poll's row lock.
NoWait(s) == TRUE

RowFree(s) == ~Locked(s)

\* Its commit: the session's UPDATE sets only the columns whose value differs from
\* the one it read; it matches no row once the schedule is deleted.
CommitPatch(r) ==
    LET q == requests[r]
        s == q.schedule
    IN
    /\ s # NoSchedule
    /\ q.enabled # q.wasEnabled \/ q.nextRun # q.wasNext => RowFree(s)
    /\ schedules' =
        IF schedules[s].state = "present"
        THEN [schedules EXCEPT ![s] =
                [state |-> "present",
                 enabled |-> IF q.enabled # q.wasEnabled THEN q.enabled
                             ELSE schedules[s].enabled,
                 nextRun |-> IF q.nextRun # q.wasNext THEN q.nextRun
                             ELSE schedules[s].nextRun]]
        ELSE schedules
    /\ requests' = [requests EXCEPT ![r] = NoRequest]
    /\ UNCHANGED <<clock, executions, batch, patches, rollbacks>>

\* DELETE /schedules/{id}: the foreign key of its executions becomes NULL.
DeleteSchedule(s) ==
    /\ schedules[s].state = "present"
    /\ RowFree(s)
    /\ schedules' = [schedules EXCEPT ![s] = [state |-> "deleted", enabled |-> FALSE,
                                              nextRun |-> NoTime]]
    /\ executions' = executions \ ExecutionsOf(s)
    /\ UNCHANGED <<clock, batch, requests, patches, rollbacks>>

----------------------------------------------------------------------------
(* The poll of a scheduler process: enqueue_due_schedules.                 *)

Due(s) ==
    /\ schedules[s].state = "present"
    /\ schedules[s].enabled
    /\ schedules[s].nextRun # NoTime
    /\ schedules[s].nextRun <= clock

DueSchedules == {s \in Schedules : Due(s) /\ ~Locked(s)}

PollNothing(p) ==
    /\ batch[p].held = {}
    /\ DueSchedules = {}
    /\ UNCHANGED vars

\* SELECT ... FOR UPDATE SKIP LOCKED.
SelectDue(p) ==
    /\ batch[p].held = {}
    /\ DueSchedules # {}
    /\ batch' = [batch EXCEPT ![p] =
            [held |-> DueSchedules, todo |-> DueSchedules, now |-> clock,
             slot |-> [s \in Schedules |-> schedules[s].nextRun], inserts |-> {}]]
    /\ UNCHANGED <<clock, schedules, executions, requests, patches, rollbacks>>

\* Variants: only live executions count; the check for one in progress is missing.
SlotLive(s, t) == \E x \in ExecutionsOf(s) : x.slot = t /\ x.live
NeverBusy(s) == FALSE

\* The check for an execution of the same slot, and the unique index behind it.
SlotTaken(s, t) == \E x \in ExecutionsOf(s) : x.slot = t

InProgress(s) == \E x \in ExecutionsOf(s) : x.live

MayEnqueue(p, s) == ~SlotTaken(s, batch[p].slot[s]) /\ ~InProgress(s)

NewExecution(s, t) ==
    [schedule |-> s, slot |-> t, live |-> TRUE,
     number |-> Cardinality({x \in ExecutionsOf(s) : x.slot = t})]

\* One turn of the loop.
VisitSchedule(p, s) ==
    /\ s \in batch[p].todo
    /\ LET b == batch[p]
           new == IF MayEnqueue(p, s) THEN {NewExecution(s, b.slot[s])} ELSE {}
       IN batch' = [batch EXCEPT ![p] = [b EXCEPT !.todo = b.todo \ {s},
                                                  !.inserts = b.inserts \union new]]
    /\ UNCHANGED <<clock, schedules, executions, requests, patches, rollbacks>>

\* Variant: the next run is planned only when an execution was enqueued.
PlannedIfEnqueued(p, s) ==
    IF \E x \in batch[p].inserts : x.schedule = s
    THEN Cron[batch[p].now] ELSE batch[p].slot[s]

\* The next run counts from the instant of the poll: missed slots are dropped.
PlannedNext(p, s) == Cron[batch[p].now]

CommitPoll(p) ==
    /\ batch[p].held # {}
    /\ batch[p].todo = {}
    /\ schedules' = [s \in Schedules |->
            IF s \in batch[p].held
            THEN [schedules[s] EXCEPT !.nextRun = PlannedNext(p, s)] ELSE schedules[s]]
    /\ executions' = executions \union batch[p].inserts
    /\ batch' = [batch EXCEPT ![p] = NoBatch]
    /\ UNCHANGED <<clock, requests, patches, rollbacks>>

\* The poll raises, or its process dies: the transaction is rolled back, and the
\* loop (or the restarted container) polls again.
RollbackPoll(p) ==
    /\ batch[p].held # {}
    /\ rollbacks < MaxRollbacks
    /\ rollbacks' = rollbacks + 1
    /\ batch' = [batch EXCEPT ![p] = NoBatch]
    /\ UNCHANGED <<clock, schedules, executions, requests, patches>>

----------------------------------------------------------------------------
(* The environment.                                                        *)

\* A worker settles the execution (see ScanExecutions).
SettleExecution(x) ==
    /\ x.live
    /\ executions' = (executions \ {x}) \union {[x EXCEPT !.live = FALSE]}
    /\ UNCHANGED <<clock, schedules, batch, requests, patches, rollbacks>>

Tick ==
    /\ clock < MaxTime
    /\ clock' = clock + 1
    /\ UNCHANGED <<schedules, executions, batch, requests, patches, rollbacks>>

Poll(p) ==
    \/ PollNothing(p) \/ SelectDue(p) \/ CommitPoll(p)
    \/ \E s \in Schedules : VisitSchedule(p, s)

Next ==
    \/ \E s \in Schedules : CreateSchedule(s) \/ DeleteSchedule(s)
    \/ \E r \in Requests : CommitPatch(r) \/ \E s \in Schedules : ReadForPatch(r, s)
    \/ \E p \in Schedulers : Poll(p) \/ RollbackPoll(p)
    \/ \E x \in executions : SettleExecution(x)
    \/ Tick

Spec == Init /\ [][Next]_vars

\* The scheduler loop polls for ever.
FairSpec == Spec /\ \A p \in Schedulers : WF_vars(Poll(p))

----------------------------------------------------------------------------
(* Properties.                                                             *)

\* A schedule never has two executions in progress: two polls, a poll and a stale
\* PATCH, or a slow scan do not make it overlap itself.
NoOverlap ==
    \A x, y \in executions : x.schedule = y.schedule /\ x.live /\ y.live => x = y

\* A slot is run at most once, also when a stale PATCH brings a past slot back.
OneRunPerSlot ==
    \A x, y \in executions : x.schedule = y.schedule /\ x.slot = y.slot => x = y

\* Why neither happens: a poll inserts only for rows it has locked and visited, at
\* most one execution each, which met no execution of its slot and none in progress;
\* and nobody else can add one while the row is locked.
PollInvariant ==
    /\ \A p \in Schedulers : batch[p].todo \subseteq batch[p].held
    /\ \A p, q \in Schedulers : p # q => batch[p].held \intersect batch[q].held = {}
    /\ \A p \in Schedulers : \A x \in batch[p].inserts :
        /\ x.schedule \in batch[p].held \ batch[p].todo
        /\ \A y \in executions : y.schedule = x.schedule => ~y.live /\ y.slot # x.slot
        /\ \A y \in batch[p].inserts : y.schedule = x.schedule => y = x
    /\ NoOverlap
    /\ OneRunPerSlot

\* Nothing is enqueued for a schedule that was disabled or deleted before the poll
\* commits.
EnqueuedOnlyWhenEnabled ==
    [][\A x \in executions' \ executions :
        x.live => schedules[x.schedule].state = "present" /\ schedules[x.schedule].enabled]_vars

\* A due schedule is served, though a poll may fail: its next run is planned.
DueIsServed == \A s \in Schedules : Due(s) ~> ~Due(s)

\* An enabled schedule has a next run.
EnabledIsPlanned ==
    \A s \in Schedules : schedules[s].enabled => schedules[s].nextRun # NoTime
=============================================================================
