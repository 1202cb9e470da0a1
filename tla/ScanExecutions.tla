--------------------------- MODULE ScanExecutions ---------------------------
(***************************************************************************)
(* The life of a scan execution: the API that queues and cancels it, the   *)
(* worker processes that claim it and drive its engines, the recovery a    *)
(* worker runs when it boots, and the failures in between.  The processes  *)
(* share nothing but the tables scan_executions and engine_runs; a step    *)
(* here is one database transaction, or the local work between two.        *)
(***************************************************************************)
EXTENDS Naturals, FiniteSets

CONSTANTS
    MaxExecutions,      \* bound: executions ever queued, numbered by queued_at
    Workers,            \* the worker processes
    NoWorker,           \* "no row lock is held"
    StageChoices,       \* the optional engines a profile and a schedule may enable
    LocksRows,          \* TRUE: PostgreSQL, SELECT ... FOR UPDATE SKIP LOCKED; FALSE: SQLite
    HeartbeatsMayFail,  \* TRUE: a live worker's heartbeats may fail for the whole stale timeout
    MayCancel,          \* TRUE: operators use POST /executions/{id}/cancel
    Limit               \* bound: how often each fault of Faults happens

Executions == 1..MaxExecutions
NoExecution == 0

Engines == {"nmap", "banner_tls", "nuclei", "zabbix"}
NoEngine == "none"
OptionalEngines == Engines \ {"nmap"}

Faults == {"crash", "signal", "database"}

ASSUME BoundsAssumption == MaxExecutions \in Nat
ASSUME WorkersAssumption == NoWorker \notin Workers
ASSUME StagesAssumption == StageChoices \subseteq SUBSET OptionalEngines
ASSUME SwitchesAssumption ==
    /\ LocksRows \in BOOLEAN
    /\ HeartbeatsMayFail \in BOOLEAN
    /\ MayCancel \in BOOLEAN
ASSUME LimitAssumption == Limit \in [Faults -> Nat]

VARIABLES
    status,             \* scan_executions.status, "absent" before the INSERT
    cancelRequested,    \* scan_executions.cancellation_requested
    fresh,              \* coalesce(heartbeat_at, started_at) is younger than the stale timeout
    engineRun,          \* engine_runs.status by execution and engine
    saved,              \* some host of the execution was committed to the inventory
    lockedBy,           \* the FOR UPDATE lock on the scan_executions row
    cancelRead,         \* the status an API cancel request in flight has read
    pc,                 \* where each worker process stands
    job,                \* the locals of execute_scan
    sweep,              \* the locals of recover_stale_executions
    shutdown,           \* the worker's _shutdown flag
    interrupt,          \* a cancellation of the active task is pending
    used                \* how often each fault happened

tables == <<status, cancelRequested, fresh, engineRun, saved>>
vars == <<tables, lockedBy, cancelRead, pc, job, sweep, shutdown, interrupt, used>>

Live == {"queued", "running"}
Settled == {"completed", "partially_completed", "failed", "cancelled"}
Statuses == {"absent"} \union Live \union Settled
RunStates == {"none", "running", "completed", "failed"}

\* The places where a worker has the execution of job[w].exec in its hands.
Busy == {"load", "ready", "scanning", "persist", "finish", "cancelcheck",
         "failing", "interrupted"}
Places == {"down", "boot", "recovering", "idle", "claiming"} \union Busy

Jobs == [exec : Executions \union {NoExecution}, engine : Engines \union {NoEngine},
         remaining : SUBSET Engines, hosts : BOOLEAN, partial : BOOLEAN]
Sweeps == [todo : SUBSET Executions, pending : SUBSET Executions,
           exec : Executions \union {NoExecution}, engine : Engines \union {NoEngine}]
NoJob == [exec |-> NoExecution, engine |-> NoEngine, remaining |-> {},
          hosts |-> FALSE, partial |-> FALSE]
NoSweep == [todo |-> {}, pending |-> {}, exec |-> NoExecution, engine |-> NoEngine]

Owns(w, e) == pc[w] \in Busy /\ job[w].exec = e
Owned(e) == \E w \in Workers : Owns(w, e)
Sweeping(w, e) == e \in sweep[w].todo \union sweep[w].pending \/ e = sweep[w].exec

\* An UPDATE of the row waits for another transaction's FOR UPDATE lock.
Writable(e, w) == lockedBy[e] \in {NoWorker, w}
LockAfter(S, w) == [e \in Executions |-> IF LocksRows /\ e \in S THEN w ELSE lockedBy[e]]
Unlocked(w) == [e \in Executions |-> IF lockedBy[e] = w THEN NoWorker ELSE lockedBy[e]]

Spend(f) == used[f] < Limit[f] /\ used' = [used EXCEPT ![f] = @ + 1]

TypeOK ==
    /\ status \in [Executions -> Statuses]
    /\ cancelRequested \in [Executions -> BOOLEAN]
    /\ fresh \in [Executions -> BOOLEAN]
    /\ engineRun \in [Executions -> [Engines -> RunStates]]
    /\ saved \in [Executions -> BOOLEAN]
    /\ lockedBy \in [Executions -> Workers \union {NoWorker}]
    /\ cancelRead \in [Executions -> {"none"} \union Live]
    /\ pc \in [Workers -> Places]
    /\ job \in [Workers -> Jobs]
    /\ sweep \in [Workers -> Sweeps]
    /\ shutdown \in [Workers -> BOOLEAN]
    /\ interrupt \in [Workers -> BOOLEAN]
    /\ used \in [Faults -> Nat]

Init ==
    /\ status = [e \in Executions |-> "absent"]
    /\ cancelRequested = [e \in Executions |-> FALSE]
    /\ fresh = [e \in Executions |-> FALSE]
    /\ engineRun = [e \in Executions |-> [g \in Engines |-> "none"]]
    /\ saved = [e \in Executions |-> FALSE]
    /\ lockedBy = [e \in Executions |-> NoWorker]
    /\ cancelRead = [e \in Executions |-> "none"]
    /\ pc = [w \in Workers |-> "down"]
    /\ job = [w \in Workers |-> NoJob]
    /\ sweep = [w \in Workers |-> NoSweep]
    /\ shutdown = [w \in Workers |-> FALSE]
    /\ interrupt = [w \in Workers |-> FALSE]
    /\ used = [f \in Faults |-> 0]

----------------------------------------------------------------------------
(* The API.                                                                *)

\* The commit of POST /executions, or of the scheduler's batch.  queued_at was set at
\* the flush before it: a row may become visible after rows that are younger.
CreateExecution(e) ==
    /\ status[e] = "absent"
    /\ status' = [status EXCEPT ![e] = "queued"]
    /\ UNCHANGED <<cancelRequested, fresh, engineRun, saved, lockedBy, cancelRead,
                   pc, job, sweep, shutdown, interrupt, used>>

\* POST /executions/{id}/cancel reads the row without a lock; any other status
\* answers 409 "A execucao ja foi finalizada.".
\* Bound: one cancel request of an execution in flight at a time.
ReadForCancel(e) ==
    /\ MayCancel
    /\ cancelRead[e] = "none"
    /\ status[e] \in Live
    /\ cancelRead' = [cancelRead EXCEPT ![e] = status[e]]
    /\ UNCHANGED <<tables, lockedBy, pc, job, sweep, shutdown, interrupt, used>>

\* The same request commits what it decided from the status it read: the UPDATE
\* is by primary key and does not look at the status the row has by now.
CommitCancel(e) ==
    /\ cancelRead[e] # "none"
    /\ lockedBy[e] = NoWorker
    /\ cancelRequested' = [cancelRequested EXCEPT ![e] = TRUE]
    /\ status' = IF cancelRead[e] = "queued"
                 THEN [status EXCEPT ![e] = "cancelled"] ELSE status
    /\ cancelRead' = [cancelRead EXCEPT ![e] = "none"]
    /\ UNCHANGED <<fresh, engineRun, saved, lockedBy, pc, job, sweep, shutdown,
                   interrupt, used>>

----------------------------------------------------------------------------
(* A worker process boots and recovers the stale executions it finds.      *)

Boot(w) ==
    /\ pc[w] = "down"
    /\ pc' = [pc EXCEPT ![w] = "boot"]
    /\ UNCHANGED <<tables, lockedBy, cancelRead, job, sweep, shutdown, interrupt, used>>

\* Variant: only executions with a running engine are recovered.
StaleWithEngine ==
    {e \in Executions : /\ status[e] = "running" /\ ~fresh[e] /\ lockedBy[e] = NoWorker
                        /\ \E g \in Engines : engineRun[e][g] = "running"}

\* Variant: every running execution counts as stale, however recent its heartbeat.
StaleIgnoringHeartbeat ==
    {e \in Executions : status[e] = "running" /\ lockedBy[e] = NoWorker}

StaleExecutions ==
    {e \in Executions : status[e] = "running" /\ ~fresh[e] /\ lockedBy[e] = NoWorker}

SelectStale(w) ==
    /\ pc[w] = "boot"
    /\ pc' = [pc EXCEPT ![w] = "recovering"]
    /\ sweep' = [sweep EXCEPT ![w].todo = StaleExecutions]
    /\ lockedBy' = LockAfter(StaleExecutions, w)
    /\ UNCHANGED <<tables, cancelRead, job, shutdown, interrupt, used>>

\* Variant: the SELECT has no "status = 'running'", and finds engines that ended.
StartedEngines(e) == {g \in Engines : engineRun[e][g] \in {"running", "completed"}}

RunningEngines(e) == {g \in Engines : engineRun[e][g] = "running"}

\* What the commit of worker w's recovery writes for the executions already visited.
FlushSweep(w) ==
    [e \in Executions |-> IF e \in sweep[w].pending THEN "failed" ELSE status[e]]

\* One turn of the loop reads the running engine, without a lock.
FindRunningEngine(w, e) ==
    /\ pc[w] = "recovering"
    /\ sweep[w].exec = NoExecution
    /\ e \in sweep[w].todo
    /\ \E g \in RunningEngines(e) :
        sweep' = [sweep EXCEPT ![w] =
            [todo |-> @.todo \ {e}, pending |-> @.pending, exec |-> e, engine |-> g]]
    /\ UNCHANGED <<tables, lockedBy, cancelRead, pc, job, shutdown, interrupt, used>>

\* _finish_engine writes the engine it was given by primary key, whatever the row has by
\* now, and commits: that ends the transaction, writes the executions visited before,
\* and gives up the locks of the ones still to visit.
RecoverEngine(w, e) ==
    /\ pc[w] = "recovering"
    /\ e = sweep[w].exec
    /\ \A d \in sweep[w].pending : Writable(d, w)
    /\ engineRun' = [engineRun EXCEPT ![e][sweep[w].engine] = "failed"]
    /\ status' = FlushSweep(w)
    /\ lockedBy' = Unlocked(w)
    /\ sweep' = [sweep EXCEPT ![w] = [todo |-> @.todo, pending |-> {e},
                                      exec |-> NoExecution, engine |-> NoEngine]]
    /\ UNCHANGED <<cancelRequested, fresh, saved, cancelRead, pc, job, shutdown,
                   interrupt, used>>

RecoverWithoutEngine(w, e) ==
    /\ pc[w] = "recovering"
    /\ sweep[w].exec = NoExecution
    /\ e \in sweep[w].todo
    /\ RunningEngines(e) = {}
    /\ sweep' = [sweep EXCEPT ![w] = [todo |-> @.todo \ {e}, pending |-> @.pending \union {e},
                                      exec |-> @.exec, engine |-> @.engine]]
    /\ UNCHANGED <<tables, lockedBy, cancelRead, pc, job, shutdown, interrupt, used>>

CommitRecovery(w) ==
    /\ pc[w] = "recovering"
    /\ sweep[w].todo = {} /\ sweep[w].exec = NoExecution
    /\ \A d \in sweep[w].pending : Writable(d, w)
    /\ status' = FlushSweep(w)
    /\ lockedBy' = Unlocked(w)
    /\ sweep' = [sweep EXCEPT ![w] = NoSweep]
    /\ pc' = [pc EXCEPT ![w] = "idle"]
    /\ UNCHANGED <<cancelRequested, fresh, engineRun, saved, cancelRead, job,
                   shutdown, interrupt, used>>

----------------------------------------------------------------------------
(* Claiming.                                                               *)

Claimable == {e \in Executions : status[e] = "queued" /\ lockedBy[e] = NoWorker}

\* Nothing to claim: the worker sleeps and polls again.
PollNothing(w) ==
    /\ pc[w] = "idle"
    /\ ~shutdown[w]
    /\ Claimable = {}
    /\ UNCHANGED vars

Oldest(S) == {e \in S : \A d \in S : e <= d}

\* SELECT ... WHERE status = 'queued' ORDER BY queued_at LIMIT 1.
SelectQueued(w) ==
    /\ pc[w] = "idle"
    /\ ~shutdown[w]
    /\ \E e \in Oldest(Claimable) :
        /\ job' = [job EXCEPT ![w].exec = e]
        /\ lockedBy' = LockAfter({e}, w)
    /\ pc' = [pc EXCEPT ![w] = "claiming"]
    /\ UNCHANGED <<tables, cancelRead, sweep, shutdown, interrupt, used>>

\* Variant: the UPDATE of the claim has no "AND status = 'queued'".
NoGuard(e) == TRUE

ClaimGuard(e) == status[e] = "queued"

\* UPDATE ... WHERE id = ? AND status = 'queued', then COMMIT.
ClaimQueued(w) ==
    LET e == job[w].exec IN
    /\ pc[w] = "claiming"
    /\ ClaimGuard(e)
    /\ Writable(e, w)
    /\ status' = [status EXCEPT ![e] = "running"]
    /\ fresh' = [fresh EXCEPT ![e] = TRUE]
    /\ lockedBy' = Unlocked(w)
    /\ pc' = [pc EXCEPT ![w] = "load"]
    /\ UNCHANGED <<cancelRequested, engineRun, saved, cancelRead, job, sweep,
                   shutdown, interrupt, used>>

\* The worker lets go of the execution and returns to its polling loop.
Release(w) ==
    /\ pc' = [pc EXCEPT ![w] = "idle"]
    /\ job' = [job EXCEPT ![w] = NoJob]
    /\ interrupt' = [interrupt EXCEPT ![w] = FALSE]

\* rowcount = 0: somebody else took or cancelled it.
LoseClaim(w) ==
    /\ pc[w] = "claiming"
    /\ ~ClaimGuard(job[w].exec)
    /\ Release(w)
    /\ lockedBy' = Unlocked(w)
    /\ UNCHANGED <<tables, cancelRead, sweep, shutdown, used>>

----------------------------------------------------------------------------
(* execute_scan: load and validate, then one engine after the other.       *)

SkipNotRunning(w) ==
    /\ pc[w] = "load"
    /\ status[job[w].exec] # "running"
    /\ Release(w)
    /\ UNCHANGED <<tables, lockedBy, cancelRead, sweep, shutdown, used>>

\* The profile and the schedule read here fix the engines of the whole scan.
AcceptScan(w) ==
    /\ pc[w] = "load"
    /\ status[job[w].exec] = "running"
    /\ \E stages \in StageChoices :
        job' = [job EXCEPT ![w].remaining = {"nmap"} \union stages]
    /\ pc' = [pc EXCEPT ![w] = "ready"]
    /\ UNCHANGED <<tables, lockedBy, cancelRead, sweep, shutdown, interrupt, used>>

\* Range or profile gone, scope refused, range disabled or not authorised.
RejectScan(w) ==
    /\ pc[w] = "load"
    /\ status[job[w].exec] = "running"
    /\ pc' = [pc EXCEPT ![w] = "failing"]
    /\ UNCHANGED <<tables, lockedBy, cancelRead, job, sweep, shutdown, interrupt, used>>

\* The order in which execute_scan calls the engines.
Before(g) == CASE g = "nmap" -> {}
               [] g = "banner_tls" -> {"nmap"}
               [] g = "nuclei" -> {"nmap", "banner_tls"}
               [] OTHER -> {"nmap", "banner_tls", "nuclei"}

StartEngine(w) ==
    LET e == job[w].exec IN
    /\ pc[w] = "ready"
    /\ Writable(e, w)
    /\ \E g \in job[w].remaining :
        /\ Before(g) \intersect job[w].remaining = {}
        /\ engineRun' = [engineRun EXCEPT ![e][g] = "running"]
        /\ job' = [job EXCEPT ![w].engine = g]
    /\ fresh' = [fresh EXCEPT ![e] = TRUE]
    /\ pc' = [pc EXCEPT ![w] = "scanning"]
    /\ UNCHANGED <<status, cancelRequested, saved, lockedBy, cancelRead, sweep,
                   shutdown, interrupt, used>>

\* The engine answers.  Only Nmap decides whether there are hosts.
EngineReturns(w) ==
    /\ pc[w] = "scanning"
    /\ \E found \in BOOLEAN :
        job' = [job EXCEPT ![w].hosts = IF job[w].engine = "nmap" THEN found ELSE @]
    /\ pc' = [pc EXCEPT ![w] = "persist"]
    /\ UNCHANGED <<tables, lockedBy, cancelRead, sweep, shutdown, interrupt, used>>

\* Variant: the error is noted, the engine run is left as it is.
LeftRunning == "running"

PartialRunState == "failed"

\* Nuclei's and Zabbix's own errors are recorded and the scan goes on.
EngineFailsPartially(w) ==
    LET e == job[w].exec g == job[w].engine IN
    /\ pc[w] = "scanning"
    /\ g \in {"nuclei", "zabbix"}
    /\ engineRun' = [engineRun EXCEPT ![e][g] = PartialRunState]
    /\ job' = [job EXCEPT ![w].partial = TRUE, ![w].remaining = @ \ {g}]
    /\ pc' = [pc EXCEPT ![w] = "ready"]
    /\ UNCHANGED <<status, cancelRequested, fresh, saved, lockedBy, cancelRead,
                   sweep, shutdown, interrupt, used>>

\* Any other exception of an engine goes to execute_scan's handler.
EngineRaises(w) ==
    /\ pc[w] = "scanning"
    /\ pc' = [pc EXCEPT ![w] = "failing"]
    /\ UNCHANGED <<tables, lockedBy, cancelRead, job, sweep, shutdown, interrupt, used>>

\* Variant: the hosts are saved only once their banners are known.
SavesEnriched(w) == job[w].engine = "banner_tls" /\ job[w].hosts

\* _persist_hosts commits the hosts, if there are any.
SavesHosts(w) == job[w].engine \in {"nmap", "banner_tls"} /\ job[w].hosts

\* _persist_hosts, _persist_findings or the Zabbix flags: a commit of its own.
PersistResults(w) ==
    /\ pc[w] = "persist"
    /\ saved' = IF SavesHosts(w) THEN [saved EXCEPT ![job[w].exec] = TRUE] ELSE saved
    /\ pc' = [pc EXCEPT ![w] = "finish"]
    /\ UNCHANGED <<status, cancelRequested, fresh, engineRun, lockedBy, cancelRead,
                   job, sweep, shutdown, interrupt, used>>

FinishEngine(w) ==
    LET e == job[w].exec g == job[w].engine IN
    /\ pc[w] = "finish"
    /\ engineRun' = [engineRun EXCEPT ![e][g] = "completed"]
    /\ job' = [job EXCEPT ![w].remaining = @ \ {g}]
    /\ pc' = [pc EXCEPT ![w] = IF g = "nmap" THEN "cancelcheck" ELSE "ready"]
    /\ UNCHANGED <<status, cancelRequested, fresh, saved, lockedBy, cancelRead,
                   sweep, shutdown, interrupt, used>>

\* The only place where a scan looks at cancellation_requested: after Nmap.
HonourCancel(w) ==
    LET e == job[w].exec IN
    /\ pc[w] = "cancelcheck"
    /\ cancelRequested[e]
    /\ Writable(e, w)
    /\ status' = [status EXCEPT ![e] = "cancelled"]
    /\ Release(w)
    /\ UNCHANGED <<cancelRequested, fresh, engineRun, saved, lockedBy, cancelRead,
                   sweep, shutdown, used>>

PassCancelCheck(w) ==
    /\ pc[w] = "cancelcheck"
    /\ ~cancelRequested[job[w].exec]
    /\ pc' = [pc EXCEPT ![w] = "ready"]
    /\ UNCHANGED <<tables, lockedBy, cancelRead, job, sweep, shutdown, interrupt, used>>

\* Variants: the partial errors are ignored; the outcome is misspelt.
AlwaysCompleted(partial) == "completed"
Misspelt(partial) == IF partial THEN "partial" ELSE "completed"

Outcome(partial) == IF partial THEN "partially_completed" ELSE "completed"

\* The last commit: by primary key, whatever status the row has by now.
Finalize(w) ==
    LET e == job[w].exec IN
    /\ pc[w] = "ready"
    /\ job[w].remaining = {}
    /\ Writable(e, w)
    /\ status' = [status EXCEPT ![e] = Outcome(job[w].partial)]
    /\ Release(w)
    /\ UNCHANGED <<cancelRequested, fresh, engineRun, saved, lockedBy, cancelRead,
                   sweep, shutdown, used>>

----------------------------------------------------------------------------
(* Failures of execute_scan: an independent session settles the rows, first *)
(* the running engine, then the execution.                                  *)

\* A statement or a commit of the scan's own session fails.
DatabaseError(w) ==
    /\ pc[w] \in Busy \ {"failing", "interrupted"}
    /\ Spend("database")
    /\ pc' = [pc EXCEPT ![w] = "failing"]
    /\ UNCHANGED <<tables, lockedBy, cancelRead, job, sweep, shutdown, interrupt>>

\* claim_next_execution raises: run_worker logs it and polls again.
ClaimError(w) ==
    /\ pc[w] = "claiming"
    /\ Spend("database")
    /\ Release(w)
    /\ lockedBy' = Unlocked(w)
    /\ UNCHANGED <<tables, cancelRead, sweep, shutdown>>

FailRunningEngine(w) ==
    LET e == job[w].exec IN
    /\ pc[w] \in {"failing", "interrupted"}
    /\ \E g \in RunningEngines(e) : engineRun' = [engineRun EXCEPT ![e][g] = "failed"]
    /\ UNCHANGED <<status, cancelRequested, fresh, saved, lockedBy, cancelRead, pc,
                   job, sweep, shutdown, interrupt, used>>

\* Variants: the handler forgets the execution; it forgets the engine.
StatusKept(w) == status[job[w].exec]
AnyTime(e) == TRUE

\* An interrupted scan fails; any other error is partial when Nmap had hosts.
FailureStatus(w) ==
    IF pc[w] = "failing" /\ job[w].hosts THEN "partially_completed" ELSE "failed"

EnginesFinished(e) == RunningEngines(e) = {}

FailExecution(w) ==
    LET e == job[w].exec IN
    /\ pc[w] \in {"failing", "interrupted"}
    /\ EnginesFinished(e)
    /\ Writable(e, w)
    /\ status' = [status EXCEPT ![e] = FailureStatus(w)]
    /\ Release(w)
    /\ UNCHANGED <<cancelRequested, fresh, engineRun, saved, lockedBy, cancelRead,
                   sweep, shutdown, used>>

\* The handler's own session fails too: the error is logged and swallowed.
HandlerError(w) ==
    /\ pc[w] \in {"failing", "interrupted"}
    /\ Spend("database")
    /\ Release(w)
    /\ UNCHANGED <<tables, lockedBy, cancelRead, sweep, shutdown>>

----------------------------------------------------------------------------
(* Signals, crashes and heartbeats.                                        *)

\* SIGTERM.  Only an active task is cancelled: between the claim and create_task
\* ("load") there may be none yet.
Signal(w) ==
    /\ pc[w] # "down"
    /\ ~shutdown[w]
    /\ Spend("signal")
    /\ shutdown' = [shutdown EXCEPT ![w] = TRUE]
    /\ \E armed \in BOOLEAN :
        /\ pc[w] # "load" => (armed <=> pc[w] \in Busy)
        /\ interrupt' = [interrupt EXCEPT ![w] = armed]
    /\ UNCHANGED <<tables, lockedBy, cancelRead, pc, job, sweep>>

\* The cancellation arrives where the task awaits: in an engine.
Interrupt(w) ==
    /\ pc[w] = "scanning"
    /\ interrupt[w]
    /\ pc' = [pc EXCEPT ![w] = "interrupted"]
    /\ interrupt' = [interrupt EXCEPT ![w] = FALSE]
    /\ UNCHANGED <<tables, lockedBy, cancelRead, job, sweep, shutdown, used>>

Stop(w) ==
    /\ pc[w] = "idle"
    /\ shutdown[w]
    /\ pc' = [pc EXCEPT ![w] = "down"]
    /\ shutdown' = [shutdown EXCEPT ![w] = FALSE]
    /\ UNCHANGED <<tables, lockedBy, cancelRead, job, sweep, interrupt, used>>

\* SIGKILL, out of memory, an exception out of run_worker: the database session
\* rolls back and every local is lost.
Crash(w) ==
    /\ pc[w] # "down"
    /\ Spend("crash")
    /\ pc' = [pc EXCEPT ![w] = "down"]
    /\ job' = [job EXCEPT ![w] = NoJob]
    /\ sweep' = [sweep EXCEPT ![w] = NoSweep]
    /\ shutdown' = [shutdown EXCEPT ![w] = FALSE]
    /\ interrupt' = [interrupt EXCEPT ![w] = FALSE]
    /\ lockedBy' = Unlocked(w)
    /\ UNCHANGED <<tables, cancelRead>>

\* _periodic_heartbeat runs while the task awaits an engine.
Heartbeat(w) ==
    LET e == job[w].exec IN
    /\ pc[w] = "scanning"
    /\ status[e] = "running"
    /\ lockedBy[e] = NoWorker
    /\ fresh' = [fresh EXCEPT ![e] = TRUE]
    /\ UNCHANGED <<status, cancelRequested, engineRun, saved, lockedBy, cancelRead,
                   pc, job, sweep, shutdown, interrupt, used>>

\* The stale timeout passes without a heartbeat.
HeartbeatLapses(e) ==
    /\ status[e] = "running"
    /\ Owned(e) => HeartbeatsMayFail
    /\ fresh' = [fresh EXCEPT ![e] = FALSE]
    /\ UNCHANGED <<status, cancelRequested, engineRun, saved, lockedBy, cancelRead,
                   pc, job, sweep, shutdown, interrupt, used>>

----------------------------------------------------------------------------
Recover(w) ==
    \/ SelectStale(w)
    \/ \E e \in Executions :
        FindRunningEngine(w, e) \/ RecoverEngine(w, e) \/ RecoverWithoutEngine(w, e)
    \/ CommitRecovery(w)

Claim(w) == PollNothing(w) \/ SelectQueued(w) \/ ClaimQueued(w) \/ LoseClaim(w)

RunEngines(w) ==
    \/ SkipNotRunning(w) \/ AcceptScan(w) \/ RejectScan(w)
    \/ StartEngine(w)
    \/ EngineReturns(w) \/ EngineFailsPartially(w) \/ EngineRaises(w)
    \/ PersistResults(w) \/ FinishEngine(w)
    \/ HonourCancel(w) \/ PassCancelCheck(w)
    \/ Finalize(w)

HandleFailure(w) == FailRunningEngine(w) \/ FailExecution(w)

\* What a worker process does when nothing goes wrong with it.
WorkerStep(w) ==
    Boot(w) \/ Recover(w) \/ Claim(w) \/ RunEngines(w) \/ HandleFailure(w)
        \/ Interrupt(w) \/ Stop(w)

FaultStep(w) ==
    DatabaseError(w) \/ ClaimError(w) \/ HandlerError(w) \/ Signal(w) \/ Crash(w)

Next ==
    \/ \E e \in Executions :
        CreateExecution(e) \/ ReadForCancel(e) \/ CommitCancel(e) \/ HeartbeatLapses(e)
    \/ \E w \in Workers : WorkerStep(w) \/ FaultStep(w) \/ Heartbeat(w)

Spec == Init /\ [][Next]_vars

\* A worker process is scheduled, its engines end (they have a time limit) and its
\* container is started again; an API request in flight ends; time passes.
Fairness ==
    /\ \A w \in Workers : WF_vars(WorkerStep(w))
    /\ \A e \in Executions : WF_vars(CommitCancel(e)) /\ WF_vars(HeartbeatLapses(e))

FairSpec == Spec /\ Fairness

----------------------------------------------------------------------------
(* Properties.                                                             *)

\* No two workers ever have the same execution in their hands: a claim is
\* exclusive although every worker polls the same oldest row.
ExclusiveClaim ==
    \A v, w \in Workers, e \in Executions : Owns(v, e) /\ Owns(w, e) => v = w

\* An execution has at most one running engine, whatever failed before: the
\* handlers and the recovery, which finish ONE running engine, miss none.
SingleRunningEngine ==
    \A e \in Executions, g, h \in Engines :
        engineRun[e][g] = "running" /\ engineRun[e][h] = "running" => g = h

\* What makes the claim exclusive whatever happens: an execution in somebody's
\* hands has left the queue, and nothing puts it back.
Taken(e) == status[e] \notin {"absent", "queued"}
ClaimInvariant ==
    /\ \A w \in Workers : pc[w] \in Busy \union {"claiming"} => job[w].exec \in Executions
    /\ \A w \in Workers, e \in Executions : Owns(w, e) => Taken(e)
    /\ ExclusiveClaim

\* What keeps a second engine from running: only the worker that holds the execution
\* starts engines, and it starts one when none is running.
EngineInvariant ==
    /\ \A e \in Executions : ~Taken(e) => RunningEngines(e) = {}
    /\ \A w \in Workers :
        pc[w] \in {"load", "ready", "cancelcheck"} => RunningEngines(job[w].exec) = {}
    /\ \A w \in Workers :
        pc[w] \in {"scanning", "persist", "finish"} =>
            RunningEngines(job[w].exec) \subseteq {job[w].engine}
    /\ SingleRunningEngine

\* Once a scan has an outcome and nobody works on it, no engine of it is shown as
\* running for ever (a cancelled row is excepted: a late cancel request may write it
\* over an orphan whose engine no recovery will then look at).
OutcomeHasNoRunningEngine ==
    \A e \in Executions :
        status[e] \in Settled \ {"cancelled"} /\ ~Owned(e) => RunningEngines(e) = {}

\* "completed" is never shown over a failed engine: an engine that fails makes the
\* outcome partial or ends the scan.  This holds where the heartbeats of a live worker
\* arrive: a recovery that read its engine as running writes "failed" over the end the
\* worker has committed since, and the worker completes the scan.
CompletedHasNoFailedEngine ==
    \A e \in Executions :
        status[e] = "completed" => \A g \in Engines : engineRun[e][g] # "failed"

\* The end of an engine is rewritten only where a recovery and a live worker whose
\* heartbeats failed both write it: by the recovery that read it as running before, or,
\* over what a recovery wrote, by the worker that still has that engine in its hands.
\* No handler and no retry touches an engine that ended, and none starts twice.
EngineEndRewrittenOnlyByRace ==
    [][\A e \in Executions, g \in Engines :
        engineRun[e][g] \in {"completed", "failed"} /\ engineRun'[e][g] # engineRun[e][g] =>
            \/ /\ engineRun'[e][g] = "failed"
               /\ \E w \in Workers : sweep[w].exec = e /\ sweep[w].engine = g
            \/ /\ engineRun'[e][g] = "completed"
               /\ \E w \in Workers : Owns(w, e) /\ job[w].engine = g]_vars

\* Hosts that Nmap reported are in the inventory before any later failure of the
\* scan can be handled, unless the database itself failed.
HostsKeptOnFailure ==
    \A w \in Workers :
        pc[w] \in {"failing", "interrupted"} /\ job[w].hosts /\ used["database"] = 0
            => saved[job[w].exec]

\* The outcome of a scan changes afterwards only where a request or a worker acts on
\* what it read before: a cancel request that read "queued" may overwrite any
\* outcome, and a cancelled row may be overwritten by the worker that holds it or by
\* a recovery that has it in its list.
OutcomeRewrittenOnlyByRace ==
    [][\A e \in Executions :
        status[e] \in Settled /\ status'[e] # status[e] =>
            \/ status'[e] = "cancelled" /\ cancelRead[e] = "queued"
            \/ status[e] = "cancelled" /\ (Owned(e) \/ \E w \in Workers : Sweeping(w, e))]_vars

\* Where an execution stands in the queue, and who holds it.
Phase(s) == CASE s = "absent" -> "new"
              [] s = "queued" -> "waiting"
              [] s = "running" -> "taken"
              [] OTHER -> "settled"
Phases == [e \in Executions |-> Phase(status[e])]
Holders == [e \in Executions |-> {w \in Workers : Owns(w, e)}]

\* The promise of the queue: see ScanQueue.
Queue == INSTANCE ScanQueue WITH phase <- Phases, holders <- Holders
QueuePromise == Queue!Spec

\* An orphan is an execution marked running that no worker runs.
Orphan(e) == status[e] = "running" /\ ~Owned(e)

\* Every queued execution reaches an outcome, unless a crash or a failing database
\* leaves it running without a worker; engines may fail and a worker may be told to stop.
QueuedIsSettled ==
    \A e \in Executions :
        status[e] = "queued" ~>
            \/ status[e] \in Settled
            \/ Orphan(e) /\ used["crash"] + used["database"] > 0

\* A stale orphan that is there when a worker boots, after the last fault, is settled.
BootRecoversStale ==
    \A e \in Executions :
        (/\ Orphan(e) /\ ~fresh[e]
         /\ \A f \in Faults : used[f] = Limit[f]
         /\ \E w \in Workers : pc[w] = "boot") ~> status[e] \in Settled

\* Every orphan is settled some day.
OrphanIsRecovered == \A e \in Executions : Orphan(e) ~> ~Orphan(e)

\* A cancelled execution stays cancelled.
CancelledIsFinal ==
    [][\A e \in Executions : status[e] = "cancelled" => status'[e] = "cancelled"]_vars

\* An execution whose cancellation was accepted does not complete.
CancelIsHonoured ==
    \A e \in Executions : status[e] = "completed" => ~cancelRequested[e]
=============================================================================
