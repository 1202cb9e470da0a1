------------------------ MODULE ScanExecutionsProofs ------------------------
(***************************************************************************)
(* For every number of executions and of workers, on both databases, with  *)
(* any number of faults: ScanExecutions keeps its types, a claim is        *)
(* exclusive, an execution has at most one running engine, and the         *)
(* executions implement the queue of ScanQueue; on a database whose SELECT *)
(* locks nothing they leave it in the order they entered it.  And what the *)
(* rows of an execution say once it has an outcome: the hosts of a failed  *)
(* scan are kept, a completed scan has no failed engine, a settled scan    *)
(* shows no running engine and its outcome is rewritten only by a late     *)
(* cancel, or over one.                                                    *)
(***************************************************************************)
EXTENDS ScanExecutions, TLAPS

USE DEF Executions, NoExecution, Statuses, Live, Settled, RunStates, Places, Busy

----------------------------------------------------------------------------
(* Updating one field of a record keeps the record's type.                 *)

\* The execution a worker selects.
LEMMA JobExec ==
    ASSUME job \in [Workers -> Jobs], NEW w \in Workers, NEW e \in Executions
    PROVE  [job EXCEPT ![w].exec = e] \in [Workers -> Jobs]
<1>1. [job[w] EXCEPT !.exec = e] \in Jobs
    BY DEF Jobs
<1>2. [job EXCEPT ![w].exec = e] = [job EXCEPT ![w] = [job[w] EXCEPT !.exec = e]]
    OBVIOUS
<1> QED
    BY <1>1, <1>2

\* The engine a worker starts.
LEMMA JobEngine ==
    ASSUME job \in [Workers -> Jobs], NEW w \in Workers, NEW g \in Engines
    PROVE  [job EXCEPT ![w].engine = g] \in [Workers -> Jobs]
<1>1. [job[w] EXCEPT !.engine = g] \in Jobs
    BY DEF Jobs
<1>2. [job EXCEPT ![w].engine = g] = [job EXCEPT ![w] = [job[w] EXCEPT !.engine = g]]
    OBVIOUS
<1> QED
    BY <1>1, <1>2

\* The engines a scan still has to run.
LEMMA JobRemaining ==
    ASSUME job \in [Workers -> Jobs], NEW w \in Workers, NEW S \in SUBSET Engines
    PROVE  [job EXCEPT ![w].remaining = S] \in [Workers -> Jobs]
<1>1. [job[w] EXCEPT !.remaining = S] \in Jobs
    BY DEF Jobs
<1>2. [job EXCEPT ![w].remaining = S] = [job EXCEPT ![w] = [job[w] EXCEPT !.remaining = S]]
    OBVIOUS
<1> QED
    BY <1>1, <1>2

\* Whether Nmap reported hosts.
LEMMA JobHosts ==
    ASSUME job \in [Workers -> Jobs], NEW w \in Workers, NEW b \in BOOLEAN
    PROVE  [job EXCEPT ![w].hosts = b] \in [Workers -> Jobs]
<1>1. [job[w] EXCEPT !.hosts = b] \in Jobs
    BY DEF Jobs
<1>2. [job EXCEPT ![w].hosts = b] = [job EXCEPT ![w] = [job[w] EXCEPT !.hosts = b]]
    OBVIOUS
<1> QED
    BY <1>1, <1>2

\* An engine that failed partially is noted and not run again.
LEMMA JobPartial ==
    ASSUME job \in [Workers -> Jobs], NEW w \in Workers, NEW g
    PROVE  [job EXCEPT ![w].partial = TRUE, ![w].remaining = @ \ {g}] \in [Workers -> Jobs]
<1>1. [job[w] EXCEPT !.partial = TRUE, !.remaining = @ \ {g}] \in Jobs
    BY DEF Jobs
<1>2. [job EXCEPT ![w].partial = TRUE, ![w].remaining = @ \ {g}]
        = [job EXCEPT ![w] = [job[w] EXCEPT !.partial = TRUE, !.remaining = @ \ {g}]]
    BY DEF Jobs
<1> QED
    BY <1>1, <1>2

\* No execution is the mark for none.
LEMMA NoExecutionIsNone == \A e \in Executions : e # NoExecution
    BY BoundsAssumption DEF Executions, NoExecution

\* The executions a recovery has still to visit.
LEMMA SweepTodo ==
    ASSUME sweep \in [Workers -> Sweeps], NEW w \in Workers, NEW S \in SUBSET Executions
    PROVE  [sweep EXCEPT ![w].todo = S] \in [Workers -> Sweeps]
<1>1. [sweep[w] EXCEPT !.todo = S] \in Sweeps
    BY DEF Sweeps
<1>2. [sweep EXCEPT ![w].todo = S] = [sweep EXCEPT ![w] = [sweep[w] EXCEPT !.todo = S]]
    OBVIOUS
<1> QED
    BY <1>1, <1>2

\* The status of one engine run.
LEMMA RunUpdate ==
    ASSUME engineRun \in [Executions -> [Engines -> RunStates]], NEW e, NEW g,
           NEW s \in RunStates
    PROVE  [engineRun EXCEPT ![e][g] = s] \in [Executions -> [Engines -> RunStates]]
    OBVIOUS

----------------------------------------------------------------------------
(* Every variable keeps its type.                                          *)

\* TypeOK is inductive, one step per action.
LEMMA TypeStep == TypeOK /\ [Next]_vars => TypeOK'
<1> USE BoundsAssumption, WorkersAssumption, LimitAssumption DEF TypeOK
<1> SUFFICES ASSUME TypeOK, [Next]_vars PROVE TypeOK'
    OBVIOUS
<1>1. ASSUME NEW e \in Executions, CreateExecution(e) PROVE TypeOK'
    BY <1>1 DEF CreateExecution, tables
<1>2. ASSUME NEW e \in Executions, ReadForCancel(e) PROVE TypeOK'
    BY <1>2 DEF ReadForCancel, tables
<1>3. ASSUME NEW e \in Executions, CommitCancel(e) PROVE TypeOK'
    BY <1>3 DEF CommitCancel, tables
<1>4. ASSUME NEW e \in Executions, HeartbeatLapses(e) PROVE TypeOK'
    BY <1>4 DEF HeartbeatLapses, tables
<1>5. ASSUME NEW w \in Workers, NEW e \in Executions, RecoverEngine(w, e) PROVE TypeOK'
    <2>1. engineRun' \in [Executions -> [Engines -> RunStates]]
        BY <1>5, RunUpdate DEF RecoverEngine
    <2>2. sweep' \in [Workers -> Sweeps]
        BY <1>5 DEF RecoverEngine, NoSweep, Sweeps
    <2> QED
        BY <1>5, <2>1, <2>2 DEF RecoverEngine, FlushSweep, Unlocked, tables
<1>6. ASSUME NEW w \in Workers, NEW e \in Executions, RecoverWithoutEngine(w, e) PROVE TypeOK'
    BY <1>6 DEF RecoverWithoutEngine, Sweeps, tables
<1>7. ASSUME NEW w \in Workers, Boot(w) PROVE TypeOK'
    BY <1>7 DEF Boot, tables
<1>8. ASSUME NEW w \in Workers, SelectStale(w) PROVE TypeOK'
    <2>1. StaleExecutions \subseteq Executions
        BY DEF StaleExecutions
    <2>2. sweep' \in [Workers -> Sweeps]
        BY <1>8, <2>1, SweepTodo DEF SelectStale
    <2>3. lockedBy' \in [Executions -> Workers \union {NoWorker}]
        BY <1>8 DEF SelectStale, LockAfter
    <2> QED
        BY <1>8, <2>2, <2>3 DEF SelectStale, tables
<1>9. ASSUME NEW w \in Workers, CommitRecovery(w) PROVE TypeOK'
    BY <1>9 DEF CommitRecovery, FlushSweep, Unlocked, NoSweep, Sweeps, tables
<1>10. ASSUME NEW w \in Workers, PollNothing(w) PROVE TypeOK'
    BY <1>10 DEF PollNothing, vars, tables
<1>11. ASSUME NEW w \in Workers, SelectQueued(w) PROVE TypeOK'
    <2>1. PICK e \in Executions :
            job' = [job EXCEPT ![w].exec = e] /\ lockedBy' = LockAfter({e}, w)
        BY <1>11 DEF SelectQueued, Oldest, Claimable
    <2>2. job' \in [Workers -> Jobs]
        BY <2>1, JobExec
    <2>3. lockedBy' \in [Executions -> Workers \union {NoWorker}]
        BY <2>1 DEF LockAfter
    <2> QED
        BY <1>11, <2>2, <2>3 DEF SelectQueued, tables
<1>12. ASSUME NEW w \in Workers, ClaimQueued(w) PROVE TypeOK'
    BY <1>12 DEF ClaimQueued, Unlocked, tables
<1>13. ASSUME NEW w \in Workers, LoseClaim(w) PROVE TypeOK'
    BY <1>13 DEF LoseClaim, Release, Unlocked, NoJob, Jobs, tables
<1>14. ASSUME NEW w \in Workers, SkipNotRunning(w) PROVE TypeOK'
    BY <1>14 DEF SkipNotRunning, Release, NoJob, Jobs, tables
<1>15. ASSUME NEW w \in Workers, AcceptScan(w) PROVE TypeOK'
    <2>1. PICK stages \in StageChoices :
            job' = [job EXCEPT ![w].remaining = {"nmap"} \union stages]
        BY <1>15 DEF AcceptScan
    <2>2. {"nmap"} \union stages \in SUBSET Engines
        BY StagesAssumption DEF OptionalEngines, Engines
    <2>3. job' \in [Workers -> Jobs]
        BY <2>1, <2>2, JobRemaining
    <2> QED
        BY <1>15, <2>3 DEF AcceptScan, tables
<1>16. ASSUME NEW w \in Workers, RejectScan(w) PROVE TypeOK'
    BY <1>16 DEF RejectScan, tables
<1>17. ASSUME NEW w \in Workers, StartEngine(w) PROVE TypeOK'
    <2>1. PICK g \in job[w].remaining :
            /\ engineRun' = [engineRun EXCEPT ![job[w].exec][g] = "running"]
            /\ job' = [job EXCEPT ![w].engine = g]
        BY <1>17 DEF StartEngine
    <2>2. g \in Engines
        BY DEF Jobs
    <2>3. job' \in [Workers -> Jobs]
        BY <2>1, <2>2, JobEngine
    <2>4. engineRun' \in [Executions -> [Engines -> RunStates]]
        BY <2>1, RunUpdate
    <2> QED
        BY <1>17, <2>3, <2>4 DEF StartEngine, tables
<1>18. ASSUME NEW w \in Workers, EngineReturns(w) PROVE TypeOK'
    <2>1. PICK found \in BOOLEAN :
            job' = [job EXCEPT ![w].hosts = IF job[w].engine = "nmap" THEN found ELSE @]
        BY <1>18 DEF EngineReturns
    <2>2. job' = [job EXCEPT ![w].hosts =
                    IF job[w].engine = "nmap" THEN found ELSE job[w].hosts]
        BY <2>1
    <2>3. (IF job[w].engine = "nmap" THEN found ELSE job[w].hosts) \in BOOLEAN
        BY DEF Jobs
    <2>4. job' \in [Workers -> Jobs]
        BY <2>2, <2>3, JobHosts
    <2> QED
        BY <1>18, <2>4 DEF EngineReturns, tables
<1>19. ASSUME NEW w \in Workers, EngineFailsPartially(w) PROVE TypeOK'
    <2>1. job' \in [Workers -> Jobs]
        BY <1>19, JobPartial DEF EngineFailsPartially
    <2>2. engineRun' \in [Executions -> [Engines -> RunStates]]
        BY <1>19, RunUpdate DEF EngineFailsPartially, PartialRunState
    <2> QED
        BY <1>19, <2>1, <2>2 DEF EngineFailsPartially, tables
<1>20. ASSUME NEW w \in Workers, EngineRaises(w) PROVE TypeOK'
    BY <1>20 DEF EngineRaises, tables
<1>21. ASSUME NEW w \in Workers, PersistResults(w) PROVE TypeOK'
    BY <1>21 DEF PersistResults, tables
<1>22. ASSUME NEW w \in Workers, FinishEngine(w) PROVE TypeOK'
    <2>1. job' = [job EXCEPT ![w].remaining = job[w].remaining \ {job[w].engine}]
        BY <1>22 DEF FinishEngine
    <2>2. job[w].remaining \ {job[w].engine} \in SUBSET Engines
        BY DEF Jobs
    <2>3. job' \in [Workers -> Jobs]
        BY <2>1, <2>2, JobRemaining
    <2>4. engineRun' \in [Executions -> [Engines -> RunStates]]
        BY <1>22, RunUpdate DEF FinishEngine
    <2> QED
        BY <1>22, <2>3, <2>4 DEF FinishEngine, tables
<1>23. ASSUME NEW w \in Workers, HonourCancel(w) PROVE TypeOK'
    BY <1>23 DEF HonourCancel, Release, NoJob, Jobs, tables
<1>24. ASSUME NEW w \in Workers, PassCancelCheck(w) PROVE TypeOK'
    BY <1>24 DEF PassCancelCheck, tables
<1>25. ASSUME NEW w \in Workers, Finalize(w) PROVE TypeOK'
    BY <1>25 DEF Finalize, Outcome, Release, NoJob, Jobs, tables
<1>26. ASSUME NEW w \in Workers, FailRunningEngine(w) PROVE TypeOK'
    <2>1. PICK g : engineRun' = [engineRun EXCEPT ![job[w].exec][g] = "failed"]
        BY <1>26 DEF FailRunningEngine
    <2>2. engineRun' \in [Executions -> [Engines -> RunStates]]
        BY <2>1, RunUpdate
    <2> QED
        BY <1>26, <2>2 DEF FailRunningEngine, tables
<1>27. ASSUME NEW w \in Workers, FailExecution(w) PROVE TypeOK'
    BY <1>27 DEF FailExecution, FailureStatus, Release, NoJob, Jobs, tables
<1>28. ASSUME NEW w \in Workers, Interrupt(w) PROVE TypeOK'
    BY <1>28 DEF Interrupt, tables
<1>29. ASSUME NEW w \in Workers, Stop(w) PROVE TypeOK'
    BY <1>29 DEF Stop, tables
<1>30. ASSUME NEW w \in Workers, DatabaseError(w) PROVE TypeOK'
    BY <1>30 DEF DatabaseError, Spend, Faults, tables
<1>31. ASSUME NEW w \in Workers, ClaimError(w) PROVE TypeOK'
    BY <1>31 DEF ClaimError, Release, Unlocked, NoJob, Jobs, Spend, Faults, tables
<1>32. ASSUME NEW w \in Workers, HandlerError(w) PROVE TypeOK'
    BY <1>32 DEF HandlerError, Release, NoJob, Jobs, Spend, Faults, tables
<1>33. ASSUME NEW w \in Workers, Signal(w) PROVE TypeOK'
    BY <1>33 DEF Signal, Spend, Faults, tables
<1>34. ASSUME NEW w \in Workers, Crash(w) PROVE TypeOK'
    BY <1>34 DEF Crash, Spend, Unlocked, NoJob, NoSweep, Jobs, Sweeps, Faults, tables
<1>35. ASSUME NEW w \in Workers, Heartbeat(w) PROVE TypeOK'
    BY <1>35 DEF Heartbeat, tables
<1>36. CASE UNCHANGED vars
    BY <1>36 DEF vars, tables
<1>37. ASSUME NEW w \in Workers, NEW e \in Executions, FindRunningEngine(w, e) PROVE TypeOK'
    <2>1. PICK g \in Engines :
            sweep' = [sweep EXCEPT ![w] = [todo |-> sweep[w].todo \ {e},
                        pending |-> sweep[w].pending, exec |-> e, engine |-> g]]
        BY <1>37 DEF FindRunningEngine, RunningEngines
    <2>2. sweep' \in [Workers -> Sweeps]
        BY <2>1 DEF Sweeps
    <2> QED
        BY <1>37, <2>2 DEF FindRunningEngine, tables
<1> QED
    BY <1>1, <1>2, <1>3, <1>4, <1>5, <1>6, <1>7, <1>8, <1>9, <1>10, <1>11,
       <1>12, <1>13, <1>14, <1>15, <1>16, <1>17, <1>18, <1>19, <1>20, <1>21,
       <1>22, <1>23, <1>24, <1>25, <1>26, <1>27, <1>28, <1>29, <1>30, <1>31,
       <1>32, <1>33, <1>34, <1>35, <1>36, <1>37
       DEF Next, WorkerStep, FaultStep, Recover, Claim, RunEngines, HandleFailure

\* Spec keeps the types of every variable.
THEOREM TypeCorrect == Spec => []TypeOK
<1>1. Init => TypeOK
    BY BoundsAssumption, WorkersAssumption, LimitAssumption
       DEF Init, TypeOK, NoJob, NoSweep, Jobs, Sweeps, Engines, NoEngine, Faults
<1> QED
    BY <1>1, TypeStep, PTL DEF Spec

----------------------------------------------------------------------------
(* The claim is exclusive.  A step of one worker leaves what the others     *)
(* hold alone, and no step takes a taken execution back to the queue.       *)

KeepsOthers(w) == \A v \in Workers \ {w} : pc'[v] = pc[v] /\ job'[v] = job[v]
KeepsTaken == \A e \in Executions : Taken(e) => Taken(e)'

\* A step that moves no worker.
LEMMA ClaimStill ==
    ASSUME ClaimInvariant, pc' = pc, job' = job, KeepsTaken
    PROVE  ClaimInvariant'
    BY DEF ClaimInvariant, ExclusiveClaim, Owns, KeepsTaken

\* A worker goes on with the execution it has.
LEMMA ClaimGoesOn ==
    ASSUME ClaimInvariant, NEW w \in Workers, KeepsOthers(w), KeepsTaken,
           pc[w] \in Busy, job'[w].exec = job[w].exec
    PROVE  ClaimInvariant'
    BY DEF ClaimInvariant, ExclusiveClaim, Owns, KeepsOthers, KeepsTaken

\* A worker has no execution after the step.
LEMMA ClaimLeaves ==
    ASSUME ClaimInvariant, NEW w \in Workers, KeepsOthers(w), KeepsTaken,
           pc'[w] \notin Busy \union {"claiming"}
    PROVE  ClaimInvariant'
    BY DEF ClaimInvariant, ExclusiveClaim, Owns, KeepsOthers, KeepsTaken

\* ClaimInvariant is inductive relative to the types, one step per action.
LEMMA ClaimStep == TypeOK /\ ClaimInvariant /\ [Next]_vars => ClaimInvariant'
<1> SUFFICES ASSUME TypeOK, ClaimInvariant, [Next]_vars PROVE ClaimInvariant'
    OBVIOUS
<1> USE DEF TypeOK
<1>1. ASSUME NEW e \in Executions, CreateExecution(e) PROVE ClaimInvariant'
    <2>1. KeepsTaken
        BY <1>1 DEF KeepsTaken, Taken, CreateExecution, tables
    <2> QED
        BY <1>1, <2>1, ClaimStill DEF CreateExecution
<1>2. ASSUME NEW e \in Executions, ReadForCancel(e) PROVE ClaimInvariant'
    <2>1. KeepsTaken
        BY <1>2 DEF KeepsTaken, Taken, ReadForCancel, tables
    <2> QED
        BY <1>2, <2>1, ClaimStill DEF ReadForCancel
<1>3. ASSUME NEW e \in Executions, CommitCancel(e) PROVE ClaimInvariant'
    <2>1. KeepsTaken
        BY <1>3 DEF KeepsTaken, Taken, CommitCancel, tables
    <2> QED
        BY <1>3, <2>1, ClaimStill DEF CommitCancel
<1>4. ASSUME NEW e \in Executions, HeartbeatLapses(e) PROVE ClaimInvariant'
    <2>1. KeepsTaken
        BY <1>4 DEF KeepsTaken, Taken, HeartbeatLapses, tables
    <2> QED
        BY <1>4, <2>1, ClaimStill DEF HeartbeatLapses
<1>5. ASSUME NEW w \in Workers, NEW e \in Executions, RecoverEngine(w, e) PROVE ClaimInvariant'
    <2>1. KeepsTaken
        BY <1>5 DEF KeepsTaken, Taken, RecoverEngine, tables, FlushSweep
    <2> QED
        BY <1>5, <2>1, ClaimStill DEF RecoverEngine
<1>6. ASSUME NEW w \in Workers, NEW e \in Executions, RecoverWithoutEngine(w, e) PROVE ClaimInvariant'
    <2>1. KeepsTaken
        BY <1>6 DEF KeepsTaken, Taken, RecoverWithoutEngine, tables
    <2> QED
        BY <1>6, <2>1, ClaimStill DEF RecoverWithoutEngine
<1>7. ASSUME NEW w \in Workers, Boot(w) PROVE ClaimInvariant'
    <2>1. KeepsTaken
        BY <1>7 DEF KeepsTaken, Taken, Boot, tables
    <2>2. KeepsOthers(w)
        BY <1>7 DEF KeepsOthers, Boot
    <2>3. pc'[w] \notin Busy \union {"claiming"}
        BY <1>7 DEF Boot
    <2> QED
        BY <2>1, <2>2, <2>3, ClaimLeaves
<1>8. ASSUME NEW w \in Workers, SelectStale(w) PROVE ClaimInvariant'
    <2>1. KeepsTaken
        BY <1>8 DEF KeepsTaken, Taken, SelectStale, tables
    <2>2. KeepsOthers(w)
        BY <1>8 DEF KeepsOthers, SelectStale
    <2>3. pc'[w] \notin Busy \union {"claiming"}
        BY <1>8 DEF SelectStale
    <2> QED
        BY <2>1, <2>2, <2>3, ClaimLeaves
<1>9. ASSUME NEW w \in Workers, CommitRecovery(w) PROVE ClaimInvariant'
    <2>1. KeepsTaken
        BY <1>9 DEF KeepsTaken, Taken, CommitRecovery, tables, FlushSweep
    <2>2. KeepsOthers(w)
        BY <1>9 DEF KeepsOthers, CommitRecovery
    <2>3. pc'[w] \notin Busy \union {"claiming"}
        BY <1>9 DEF CommitRecovery
    <2> QED
        BY <2>1, <2>2, <2>3, ClaimLeaves
<1>10. ASSUME NEW w \in Workers, PollNothing(w) PROVE ClaimInvariant'
    BY <1>10, ClaimStill DEF PollNothing, vars, tables, KeepsTaken, Taken
<1>11. ASSUME NEW w \in Workers, SelectQueued(w) PROVE ClaimInvariant'
    <2>1. PICK e \in Executions : job' = [job EXCEPT ![w].exec = e]
        BY <1>11 DEF SelectQueued, Oldest, Claimable
    <2>2. KeepsOthers(w) /\ job'[w].exec = e
        BY <1>11, <2>1 DEF KeepsOthers, SelectQueued, Jobs
    <2>3. pc'[w] = "claiming" /\ status' = status
        BY <1>11 DEF SelectQueued, tables
    <2>4. \A v \in Workers : pc'[v] \in Busy => pc'[v] = pc[v] /\ job'[v] = job[v]
        BY <2>2, <2>3 DEF KeepsOthers
    <2>5. \A v \in Workers, d \in Executions : Owns(v, d)' => Owns(v, d)
        BY <2>4 DEF Owns
    <2> QED
        BY <2>2, <2>3, <2>5 DEF ClaimInvariant, ExclusiveClaim, KeepsOthers, Taken
<1>12. ASSUME NEW w \in Workers, ClaimQueued(w) PROVE ClaimInvariant'
    <2>0. PICK e \in Executions : e = job[w].exec
        BY <1>12 DEF ClaimInvariant, ClaimQueued
    <2>1. KeepsTaken /\ KeepsOthers(w) /\ job' = job
        BY <1>12 DEF KeepsTaken, KeepsOthers, Taken, ClaimQueued, tables
    <2>2. \A v \in Workers : ~Owns(v, e)
        BY <1>12, <2>0 DEF ClaimInvariant, ClaimQueued, ClaimGuard, Taken
    <2>3. Taken(e)'
        BY <1>12, <2>0 DEF Taken, ClaimQueued
    <2>4. \A v \in Workers, d \in Executions : Owns(v, d)' => Owns(v, d) \/ (v = w /\ d = e)
        BY <2>0, <2>1 DEF Owns, KeepsOthers
    <2>5. \A v \in Workers :
            pc'[v] \in Busy \union {"claiming"} => job'[v].exec \in Executions
        BY <2>0, <2>1 DEF ClaimInvariant, KeepsOthers
    <2>6. \A v \in Workers, d \in Executions : Owns(v, d)' => Taken(d)'
        BY <2>1, <2>3, <2>4 DEF ClaimInvariant, KeepsTaken
    <2>7. ExclusiveClaim'
        BY <2>2, <2>4 DEF ClaimInvariant, ExclusiveClaim
    <2> QED
        BY <2>5, <2>6, <2>7 DEF ClaimInvariant
<1>13. ASSUME NEW w \in Workers, LoseClaim(w) PROVE ClaimInvariant'
    <2>1. KeepsTaken
        BY <1>13 DEF KeepsTaken, Taken, LoseClaim, tables
    <2>2. KeepsOthers(w)
        BY <1>13 DEF KeepsOthers, LoseClaim, Release
    <2>3. pc'[w] \notin Busy \union {"claiming"}
        BY <1>13 DEF LoseClaim, Release
    <2> QED
        BY <2>1, <2>2, <2>3, ClaimLeaves
<1>14. ASSUME NEW w \in Workers, SkipNotRunning(w) PROVE ClaimInvariant'
    <2>1. KeepsTaken
        BY <1>14 DEF KeepsTaken, Taken, SkipNotRunning, tables
    <2>2. KeepsOthers(w)
        BY <1>14 DEF KeepsOthers, SkipNotRunning, Release
    <2>3. pc'[w] \notin Busy \union {"claiming"}
        BY <1>14 DEF SkipNotRunning, Release
    <2> QED
        BY <2>1, <2>2, <2>3, ClaimLeaves
<1>15. ASSUME NEW w \in Workers, AcceptScan(w) PROVE ClaimInvariant'
    <2>1. KeepsTaken
        BY <1>15 DEF KeepsTaken, Taken, AcceptScan, tables
    <2>2. KeepsOthers(w)
        BY <1>15 DEF KeepsOthers, AcceptScan
    <2>3. pc[w] \in Busy /\ job'[w].exec = job[w].exec
        BY <1>15 DEF AcceptScan, Jobs
    <2> QED
        BY <2>1, <2>2, <2>3, ClaimGoesOn
<1>16. ASSUME NEW w \in Workers, RejectScan(w) PROVE ClaimInvariant'
    <2>1. KeepsTaken
        BY <1>16 DEF KeepsTaken, Taken, RejectScan, tables
    <2>2. KeepsOthers(w)
        BY <1>16 DEF KeepsOthers, RejectScan
    <2>3. pc[w] \in Busy /\ job'[w].exec = job[w].exec
        BY <1>16 DEF RejectScan, Jobs
    <2> QED
        BY <2>1, <2>2, <2>3, ClaimGoesOn
<1>17. ASSUME NEW w \in Workers, StartEngine(w) PROVE ClaimInvariant'
    <2>1. KeepsTaken
        BY <1>17 DEF KeepsTaken, Taken, StartEngine, tables
    <2>2. KeepsOthers(w)
        BY <1>17 DEF KeepsOthers, StartEngine
    <2>3. pc[w] \in Busy /\ job'[w].exec = job[w].exec
        BY <1>17 DEF StartEngine, Jobs
    <2> QED
        BY <2>1, <2>2, <2>3, ClaimGoesOn
<1>18. ASSUME NEW w \in Workers, EngineReturns(w) PROVE ClaimInvariant'
    <2>1. KeepsTaken
        BY <1>18 DEF KeepsTaken, Taken, EngineReturns, tables
    <2>2. KeepsOthers(w)
        BY <1>18 DEF KeepsOthers, EngineReturns
    <2>3. pc[w] \in Busy /\ job'[w].exec = job[w].exec
        BY <1>18 DEF EngineReturns, Jobs
    <2> QED
        BY <2>1, <2>2, <2>3, ClaimGoesOn
<1>19. ASSUME NEW w \in Workers, EngineFailsPartially(w) PROVE ClaimInvariant'
    <2>1. KeepsTaken
        BY <1>19 DEF KeepsTaken, Taken, EngineFailsPartially, tables
    <2>2. KeepsOthers(w)
        BY <1>19 DEF KeepsOthers, EngineFailsPartially
    <2>3. pc[w] \in Busy /\ job'[w].exec = job[w].exec
        BY <1>19 DEF EngineFailsPartially, Jobs
    <2> QED
        BY <2>1, <2>2, <2>3, ClaimGoesOn
<1>20. ASSUME NEW w \in Workers, EngineRaises(w) PROVE ClaimInvariant'
    <2>1. KeepsTaken
        BY <1>20 DEF KeepsTaken, Taken, EngineRaises, tables
    <2>2. KeepsOthers(w)
        BY <1>20 DEF KeepsOthers, EngineRaises
    <2>3. pc[w] \in Busy /\ job'[w].exec = job[w].exec
        BY <1>20 DEF EngineRaises, Jobs
    <2> QED
        BY <2>1, <2>2, <2>3, ClaimGoesOn
<1>21. ASSUME NEW w \in Workers, PersistResults(w) PROVE ClaimInvariant'
    <2>1. KeepsTaken
        BY <1>21 DEF KeepsTaken, Taken, PersistResults, tables
    <2>2. KeepsOthers(w)
        BY <1>21 DEF KeepsOthers, PersistResults
    <2>3. pc[w] \in Busy /\ job'[w].exec = job[w].exec
        BY <1>21 DEF PersistResults, Jobs
    <2> QED
        BY <2>1, <2>2, <2>3, ClaimGoesOn
<1>22. ASSUME NEW w \in Workers, FinishEngine(w) PROVE ClaimInvariant'
    <2>1. KeepsTaken
        BY <1>22 DEF KeepsTaken, Taken, FinishEngine, tables
    <2>2. KeepsOthers(w)
        BY <1>22 DEF KeepsOthers, FinishEngine
    <2>3. pc[w] \in Busy /\ job'[w].exec = job[w].exec
        BY <1>22 DEF FinishEngine, Jobs
    <2> QED
        BY <2>1, <2>2, <2>3, ClaimGoesOn
<1>23. ASSUME NEW w \in Workers, HonourCancel(w) PROVE ClaimInvariant'
    <2>1. KeepsTaken
        BY <1>23 DEF KeepsTaken, Taken, HonourCancel, tables
    <2>2. KeepsOthers(w)
        BY <1>23 DEF KeepsOthers, HonourCancel, Release
    <2>3. pc'[w] \notin Busy \union {"claiming"}
        BY <1>23 DEF HonourCancel, Release
    <2> QED
        BY <2>1, <2>2, <2>3, ClaimLeaves
<1>24. ASSUME NEW w \in Workers, PassCancelCheck(w) PROVE ClaimInvariant'
    <2>1. KeepsTaken
        BY <1>24 DEF KeepsTaken, Taken, PassCancelCheck, tables
    <2>2. KeepsOthers(w)
        BY <1>24 DEF KeepsOthers, PassCancelCheck
    <2>3. pc[w] \in Busy /\ job'[w].exec = job[w].exec
        BY <1>24 DEF PassCancelCheck, Jobs
    <2> QED
        BY <2>1, <2>2, <2>3, ClaimGoesOn
<1>25. ASSUME NEW w \in Workers, Finalize(w) PROVE ClaimInvariant'
    <2>1. KeepsTaken
        BY <1>25 DEF KeepsTaken, Taken, Finalize, tables, Outcome
    <2>2. KeepsOthers(w)
        BY <1>25 DEF KeepsOthers, Finalize, Release
    <2>3. pc'[w] \notin Busy \union {"claiming"}
        BY <1>25 DEF Finalize, Release
    <2> QED
        BY <2>1, <2>2, <2>3, ClaimLeaves
<1>26. ASSUME NEW w \in Workers, FailRunningEngine(w) PROVE ClaimInvariant'
    <2>1. KeepsTaken
        BY <1>26 DEF KeepsTaken, Taken, FailRunningEngine, tables
    <2> QED
        BY <1>26, <2>1, ClaimStill DEF FailRunningEngine
<1>27. ASSUME NEW w \in Workers, FailExecution(w) PROVE ClaimInvariant'
    <2>1. KeepsTaken
        BY <1>27 DEF KeepsTaken, Taken, FailExecution, tables, FailureStatus
    <2>2. KeepsOthers(w)
        BY <1>27 DEF KeepsOthers, FailExecution, Release
    <2>3. pc'[w] \notin Busy \union {"claiming"}
        BY <1>27 DEF FailExecution, Release
    <2> QED
        BY <2>1, <2>2, <2>3, ClaimLeaves
<1>28. ASSUME NEW w \in Workers, Interrupt(w) PROVE ClaimInvariant'
    <2>1. KeepsTaken
        BY <1>28 DEF KeepsTaken, Taken, Interrupt, tables
    <2>2. KeepsOthers(w)
        BY <1>28 DEF KeepsOthers, Interrupt
    <2>3. pc[w] \in Busy /\ job'[w].exec = job[w].exec
        BY <1>28 DEF Interrupt, Jobs
    <2> QED
        BY <2>1, <2>2, <2>3, ClaimGoesOn
<1>29. ASSUME NEW w \in Workers, Stop(w) PROVE ClaimInvariant'
    <2>1. KeepsTaken
        BY <1>29 DEF KeepsTaken, Taken, Stop, tables
    <2>2. KeepsOthers(w)
        BY <1>29 DEF KeepsOthers, Stop
    <2>3. pc'[w] \notin Busy \union {"claiming"}
        BY <1>29 DEF Stop
    <2> QED
        BY <2>1, <2>2, <2>3, ClaimLeaves
<1>30. ASSUME NEW w \in Workers, DatabaseError(w) PROVE ClaimInvariant'
    <2>1. KeepsTaken
        BY <1>30 DEF KeepsTaken, Taken, DatabaseError, tables
    <2>2. KeepsOthers(w)
        BY <1>30 DEF KeepsOthers, DatabaseError
    <2>3. pc[w] \in Busy /\ job'[w].exec = job[w].exec
        BY <1>30 DEF DatabaseError, Jobs
    <2> QED
        BY <2>1, <2>2, <2>3, ClaimGoesOn
<1>31. ASSUME NEW w \in Workers, ClaimError(w) PROVE ClaimInvariant'
    <2>1. KeepsTaken
        BY <1>31 DEF KeepsTaken, Taken, ClaimError, tables
    <2>2. KeepsOthers(w)
        BY <1>31 DEF KeepsOthers, ClaimError, Release
    <2>3. pc'[w] \notin Busy \union {"claiming"}
        BY <1>31 DEF ClaimError, Release
    <2> QED
        BY <2>1, <2>2, <2>3, ClaimLeaves
<1>32. ASSUME NEW w \in Workers, HandlerError(w) PROVE ClaimInvariant'
    <2>1. KeepsTaken
        BY <1>32 DEF KeepsTaken, Taken, HandlerError, tables
    <2>2. KeepsOthers(w)
        BY <1>32 DEF KeepsOthers, HandlerError, Release
    <2>3. pc'[w] \notin Busy \union {"claiming"}
        BY <1>32 DEF HandlerError, Release
    <2> QED
        BY <2>1, <2>2, <2>3, ClaimLeaves
<1>33. ASSUME NEW w \in Workers, Signal(w) PROVE ClaimInvariant'
    <2>1. KeepsTaken
        BY <1>33 DEF KeepsTaken, Taken, Signal, tables
    <2> QED
        BY <1>33, <2>1, ClaimStill DEF Signal
<1>34. ASSUME NEW w \in Workers, Crash(w) PROVE ClaimInvariant'
    <2>1. KeepsTaken
        BY <1>34 DEF KeepsTaken, Taken, Crash, tables
    <2>2. KeepsOthers(w)
        BY <1>34 DEF KeepsOthers, Crash
    <2>3. pc'[w] \notin Busy \union {"claiming"}
        BY <1>34 DEF Crash
    <2> QED
        BY <2>1, <2>2, <2>3, ClaimLeaves
<1>35. ASSUME NEW w \in Workers, Heartbeat(w) PROVE ClaimInvariant'
    <2>1. KeepsTaken
        BY <1>35 DEF KeepsTaken, Taken, Heartbeat, tables
    <2> QED
        BY <1>35, <2>1, ClaimStill DEF Heartbeat
<1>36. CASE UNCHANGED vars
    BY <1>36, ClaimStill DEF vars, tables, KeepsTaken, Taken
<1>37. ASSUME NEW w \in Workers, NEW e \in Executions, FindRunningEngine(w, e) PROVE ClaimInvariant'
    <2>1. KeepsTaken
        BY <1>37 DEF KeepsTaken, Taken, FindRunningEngine, tables
    <2> QED
        BY <1>37, <2>1, ClaimStill DEF FindRunningEngine
<1> QED
    BY <1>1, <1>2, <1>3, <1>4, <1>5, <1>6, <1>7, <1>8, <1>9, <1>10, <1>11,
       <1>12, <1>13, <1>14, <1>15, <1>16, <1>17, <1>18, <1>19, <1>20, <1>21,
       <1>22, <1>23, <1>24, <1>25, <1>26, <1>27, <1>28, <1>29, <1>30, <1>31,
       <1>32, <1>33, <1>34, <1>35, <1>36, <1>37
       DEF Next, WorkerStep, FaultStep, Recover, Claim, RunEngines, HandleFailure

\* Spec keeps the claim exclusive: ExclusiveClaim, the part of ClaimInvariant that
\* says no two workers ever run the same execution.
THEOREM ClaimIsExclusive == Spec => []ExclusiveClaim
<1>1. Init => ClaimInvariant
    BY DEF Init, ClaimInvariant, ExclusiveClaim, Owns
<1>2. ClaimInvariant => ExclusiveClaim
    BY DEF ClaimInvariant
<1> QED
    BY <1>1, <1>2, TypeCorrect, ClaimStep, PTL DEF Spec

----------------------------------------------------------------------------
(* An execution has at most one running engine.  Every step but StartEngine *)
(* only ends engine runs; StartEngine finds none running.                  *)

EndsRuns == \A e \in Executions : RunningEngines(e)' \subseteq RunningEngines(e)
NoneInHand(w) ==
    pc[w] \in {"load", "ready", "cancelcheck"} => RunningEngines(job[w].exec) = {}
OneInHand(w) ==
    pc[w] \in {"scanning", "persist", "finish"} =>
        RunningEngines(job[w].exec) \subseteq {job[w].engine}

\* Ending engine runs disturbs only what the worker of the step has in its hands.
LEMMA EngineLocal ==
    ASSUME ClaimInvariant, EngineInvariant, NEW w \in Workers, KeepsOthers(w), KeepsTaken,
           EndsRuns, NoneInHand(w)', OneInHand(w)'
    PROVE  EngineInvariant'
<1>1. \A e \in Executions : ~Taken(e)' => RunningEngines(e)' = {}
    BY DEF EngineInvariant, KeepsTaken, EndsRuns
<1>2. \A v \in Workers : NoneInHand(v)' /\ OneInHand(v)'
    <2> SUFFICES ASSUME NEW v \in Workers, v # w
                 PROVE  NoneInHand(v)' /\ OneInHand(v)'
        OBVIOUS
    <2>1. pc'[v] = pc[v] /\ job'[v] = job[v]
        BY DEF KeepsOthers
    <2>2. pc[v] \in Busy => job[v].exec \in Executions
        BY DEF ClaimInvariant
    <2>3. pc[v] \in Busy => RunningEngines(job[v].exec)' \subseteq RunningEngines(job[v].exec)
        BY <2>2, <2>1 DEF EndsRuns, RunningEngines
    <2> QED
        BY <2>1, <2>2, <2>3 DEF EngineInvariant, NoneInHand, OneInHand, EndsRuns, RunningEngines
<1>3. SingleRunningEngine'
    BY DEF EngineInvariant, SingleRunningEngine, EndsRuns, RunningEngines
<1> QED
    BY <1>1, <1>2, <1>3 DEF EngineInvariant, NoneInHand, OneInHand

\* A step that moves no worker and ends engine runs, if anything.
LEMMA EngineStill ==
    ASSUME ClaimInvariant, EngineInvariant, pc' = pc, job' = job, KeepsTaken, EndsRuns
    PROVE  EngineInvariant'
<1>1. \A e \in Executions : ~Taken(e)' => RunningEngines(e)' = {}
    BY DEF EngineInvariant, KeepsTaken, EndsRuns
<1>2. \A v \in Workers : NoneInHand(v)' /\ OneInHand(v)'
    BY DEF EngineInvariant, ClaimInvariant, EndsRuns, NoneInHand, OneInHand, RunningEngines
<1>3. SingleRunningEngine'
    BY DEF EngineInvariant, SingleRunningEngine, EndsRuns, RunningEngines
<1> QED
    BY <1>1, <1>2, <1>3 DEF EngineInvariant, NoneInHand, OneInHand

\* EngineInvariant is inductive relative to the types and the exclusive claim.
LEMMA EngineStep ==
    TypeOK /\ ClaimInvariant /\ EngineInvariant /\ [Next]_vars => EngineInvariant'
<1> SUFFICES ASSUME TypeOK, ClaimInvariant, EngineInvariant, [Next]_vars
             PROVE  EngineInvariant'
    OBVIOUS
<1> USE DEF TypeOK
<1>1. ASSUME NEW e \in Executions, CreateExecution(e) PROVE EngineInvariant'
    <2>1. KeepsTaken
        BY <1>1 DEF KeepsTaken, Taken, CreateExecution, tables
    <2>2. EndsRuns
        BY <1>1 DEF EndsRuns, RunningEngines, CreateExecution, tables
    <2> QED
        BY <1>1, <2>1, <2>2, EngineStill DEF CreateExecution
<1>2. ASSUME NEW e \in Executions, ReadForCancel(e) PROVE EngineInvariant'
    <2>1. KeepsTaken
        BY <1>2 DEF KeepsTaken, Taken, ReadForCancel, tables
    <2>2. EndsRuns
        BY <1>2 DEF EndsRuns, RunningEngines, ReadForCancel, tables
    <2> QED
        BY <1>2, <2>1, <2>2, EngineStill DEF ReadForCancel
<1>3. ASSUME NEW e \in Executions, CommitCancel(e) PROVE EngineInvariant'
    <2>1. KeepsTaken
        BY <1>3 DEF KeepsTaken, Taken, CommitCancel, tables
    <2>2. EndsRuns
        BY <1>3 DEF EndsRuns, RunningEngines, CommitCancel, tables
    <2> QED
        BY <1>3, <2>1, <2>2, EngineStill DEF CommitCancel
<1>4. ASSUME NEW e \in Executions, HeartbeatLapses(e) PROVE EngineInvariant'
    <2>1. KeepsTaken
        BY <1>4 DEF KeepsTaken, Taken, HeartbeatLapses, tables
    <2>2. EndsRuns
        BY <1>4 DEF EndsRuns, RunningEngines, HeartbeatLapses, tables
    <2> QED
        BY <1>4, <2>1, <2>2, EngineStill DEF HeartbeatLapses
<1>5. ASSUME NEW w \in Workers, NEW e \in Executions, RecoverEngine(w, e) PROVE EngineInvariant'
    <2>1. KeepsTaken
        BY <1>5 DEF KeepsTaken, Taken, RecoverEngine, tables, FlushSweep
    <2>2. EndsRuns
        BY <1>5 DEF EndsRuns, RunningEngines, RecoverEngine, tables
    <2> QED
        BY <1>5, <2>1, <2>2, EngineStill DEF RecoverEngine
<1>6. ASSUME NEW w \in Workers, NEW e \in Executions, RecoverWithoutEngine(w, e) PROVE EngineInvariant'
    <2>1. KeepsTaken
        BY <1>6 DEF KeepsTaken, Taken, RecoverWithoutEngine, tables
    <2>2. EndsRuns
        BY <1>6 DEF EndsRuns, RunningEngines, RecoverWithoutEngine, tables
    <2> QED
        BY <1>6, <2>1, <2>2, EngineStill DEF RecoverWithoutEngine
<1>7. ASSUME NEW w \in Workers, Boot(w) PROVE EngineInvariant'
    <2>1. KeepsTaken
        BY <1>7 DEF KeepsTaken, Taken, Boot, tables
    <2>2. EndsRuns
        BY <1>7 DEF EndsRuns, RunningEngines, Boot, tables
    <2>3. KeepsOthers(w) /\ NoneInHand(w)' /\ OneInHand(w)'
        BY <1>7 DEF KeepsOthers, NoneInHand, OneInHand, Boot
    <2> QED
        BY <2>1, <2>2, <2>3, EngineLocal
<1>8. ASSUME NEW w \in Workers, SelectStale(w) PROVE EngineInvariant'
    <2>1. KeepsTaken
        BY <1>8 DEF KeepsTaken, Taken, SelectStale, tables
    <2>2. EndsRuns
        BY <1>8 DEF EndsRuns, RunningEngines, SelectStale, tables
    <2>3. KeepsOthers(w) /\ NoneInHand(w)' /\ OneInHand(w)'
        BY <1>8 DEF KeepsOthers, NoneInHand, OneInHand, SelectStale
    <2> QED
        BY <2>1, <2>2, <2>3, EngineLocal
<1>9. ASSUME NEW w \in Workers, CommitRecovery(w) PROVE EngineInvariant'
    <2>1. KeepsTaken
        BY <1>9 DEF KeepsTaken, Taken, CommitRecovery, tables, FlushSweep
    <2>2. EndsRuns
        BY <1>9 DEF EndsRuns, RunningEngines, CommitRecovery, tables
    <2>3. KeepsOthers(w) /\ NoneInHand(w)' /\ OneInHand(w)'
        BY <1>9 DEF KeepsOthers, NoneInHand, OneInHand, CommitRecovery
    <2> QED
        BY <2>1, <2>2, <2>3, EngineLocal
<1>10. ASSUME NEW w \in Workers, PollNothing(w) PROVE EngineInvariant'
    BY <1>10, EngineStill DEF PollNothing, vars, tables, KeepsTaken, Taken, EndsRuns, RunningEngines
<1>11. ASSUME NEW w \in Workers, SelectQueued(w) PROVE EngineInvariant'
    <2>1. KeepsTaken
        BY <1>11 DEF KeepsTaken, Taken, SelectQueued, tables
    <2>2. EndsRuns
        BY <1>11 DEF EndsRuns, RunningEngines, SelectQueued, tables
    <2>3. KeepsOthers(w) /\ NoneInHand(w)' /\ OneInHand(w)'
        BY <1>11 DEF KeepsOthers, NoneInHand, OneInHand, SelectQueued
    <2> QED
        BY <2>1, <2>2, <2>3, EngineLocal
<1>12. ASSUME NEW w \in Workers, ClaimQueued(w) PROVE EngineInvariant'
    <2>1. KeepsTaken
        BY <1>12 DEF KeepsTaken, Taken, ClaimQueued
    <2>2. EndsRuns
        BY <1>12 DEF EndsRuns, RunningEngines, ClaimQueued
    <2>3. job[w].exec \in Executions /\ ~Taken(job[w].exec)
        BY <1>12 DEF ClaimInvariant, ClaimQueued, ClaimGuard, Taken
    <2>4. KeepsOthers(w) /\ job' = job /\ engineRun' = engineRun /\ pc'[w] = "load"
        BY <1>12 DEF KeepsOthers, ClaimQueued
    <2>5. NoneInHand(w)' /\ OneInHand(w)'
        BY <2>3, <2>4 DEF NoneInHand, OneInHand, EngineInvariant, RunningEngines
    <2> QED
        BY <2>1, <2>2, <2>4, <2>5, EngineLocal
<1>13. ASSUME NEW w \in Workers, LoseClaim(w) PROVE EngineInvariant'
    <2>1. KeepsTaken
        BY <1>13 DEF KeepsTaken, Taken, LoseClaim, tables
    <2>2. EndsRuns
        BY <1>13 DEF EndsRuns, RunningEngines, LoseClaim, tables
    <2>3. KeepsOthers(w) /\ NoneInHand(w)' /\ OneInHand(w)'
        BY <1>13 DEF KeepsOthers, NoneInHand, OneInHand, LoseClaim, Release
    <2> QED
        BY <2>1, <2>2, <2>3, EngineLocal
<1>14. ASSUME NEW w \in Workers, SkipNotRunning(w) PROVE EngineInvariant'
    <2>1. KeepsTaken
        BY <1>14 DEF KeepsTaken, Taken, SkipNotRunning, tables
    <2>2. EndsRuns
        BY <1>14 DEF EndsRuns, RunningEngines, SkipNotRunning, tables
    <2>3. KeepsOthers(w) /\ NoneInHand(w)' /\ OneInHand(w)'
        BY <1>14 DEF KeepsOthers, NoneInHand, OneInHand, SkipNotRunning, Release
    <2> QED
        BY <2>1, <2>2, <2>3, EngineLocal
<1>15. ASSUME NEW w \in Workers, AcceptScan(w) PROVE EngineInvariant'
    <2>1. KeepsTaken
        BY <1>15 DEF KeepsTaken, Taken, AcceptScan, tables
    <2>2. EndsRuns
        BY <1>15 DEF EndsRuns, RunningEngines, AcceptScan, tables
    <2>3. KeepsOthers(w) /\ job'[w].exec = job[w].exec /\ job'[w].engine = job[w].engine
        BY <1>15 DEF KeepsOthers, AcceptScan, Jobs
    <2>4. NoneInHand(w)' /\ OneInHand(w)'
        BY <1>15, <2>3 DEF NoneInHand, OneInHand, EngineInvariant, RunningEngines, AcceptScan, tables
    <2> QED
        BY <2>1, <2>2, <2>3, <2>4, EngineLocal
<1>16. ASSUME NEW w \in Workers, RejectScan(w) PROVE EngineInvariant'
    <2>1. KeepsTaken
        BY <1>16 DEF KeepsTaken, Taken, RejectScan, tables
    <2>2. EndsRuns
        BY <1>16 DEF EndsRuns, RunningEngines, RejectScan, tables
    <2>3. KeepsOthers(w) /\ NoneInHand(w)' /\ OneInHand(w)'
        BY <1>16 DEF KeepsOthers, NoneInHand, OneInHand, RejectScan
    <2> QED
        BY <2>1, <2>2, <2>3, EngineLocal
<1>17. ASSUME NEW w \in Workers, StartEngine(w) PROVE EngineInvariant'
    <2>0. PICK e \in Executions : e = job[w].exec
        BY <1>17 DEF ClaimInvariant, StartEngine
    <2>1. PICK g \in job[w].remaining :
            /\ engineRun' = [engineRun EXCEPT ![e][g] = "running"]
            /\ job' = [job EXCEPT ![w].engine = g]
        BY <1>17, <2>0 DEF StartEngine
    <2>2. g \in Engines /\ Taken(e)
        BY <1>17, <2>0 DEF ClaimInvariant, StartEngine, Jobs, Owns
    <2>3. RunningEngines(e) = {}
        BY <1>17, <2>0 DEF EngineInvariant, StartEngine
    <2>4. /\ RunningEngines(e)' \subseteq {g}
          /\ \A d \in Executions \ {e} : RunningEngines(d)' = RunningEngines(d)
        BY <2>1, <2>2, <2>3 DEF RunningEngines
    <2>5. job'[w].exec = e /\ job'[w].engine = g /\ pc'[w] = "scanning" /\ status' = status
        BY <1>17, <2>0, <2>1, <2>2 DEF StartEngine, Jobs
    <2>6. \A v \in Workers \ {w} :
            /\ pc'[v] = pc[v] /\ job'[v] = job[v]
            /\ pc[v] \in Busy => job[v].exec \in Executions \ {e}
        BY <1>17, <2>0, <2>1, <2>2 DEF StartEngine, ClaimInvariant, ExclusiveClaim, Owns
    <2>7. \A d \in Executions : ~Taken(d)' => RunningEngines(d)' = {}
        BY <2>2, <2>4, <2>5 DEF EngineInvariant, Taken
    <2>8. \A v \in Workers \ {w} : NoneInHand(v)' /\ OneInHand(v)'
        <3> SUFFICES ASSUME NEW v \in Workers \ {w}, pc[v] \in Busy
                     PROVE  NoneInHand(v)' /\ OneInHand(v)'
            BY <2>6 DEF NoneInHand, OneInHand
        <3>1. PICK d \in Executions \ {e} : d = job[v].exec
            BY <2>6
        <3>2. job'[v].exec = d /\ job'[v].engine = job[v].engine /\ pc'[v] = pc[v]
            BY <2>6, <3>1
        <3>3. RunningEngines(job[v].exec)' = RunningEngines(d)
            BY <2>4, <3>2 DEF RunningEngines
        <3>4. NoneInHand(v) /\ OneInHand(v)
            BY DEF EngineInvariant, NoneInHand, OneInHand
        <3> QED
            BY <3>1, <3>2, <3>3, <3>4 DEF NoneInHand, OneInHand
    <2>9. NoneInHand(w)' /\ OneInHand(w)'
        BY <2>4, <2>5 DEF NoneInHand, OneInHand, RunningEngines
    <2>10. SingleRunningEngine'
        <3>1. \A d \in Executions \ {e}, h, i \in Engines :
                engineRun'[d][h] = "running" /\ engineRun'[d][i] = "running" => h = i
            BY <2>4 DEF EngineInvariant, SingleRunningEngine, RunningEngines
        <3>2. \A h \in Engines : engineRun'[e][h] = "running" => h = g
            BY <2>4 DEF RunningEngines
        <3> QED
            BY <3>1, <3>2 DEF SingleRunningEngine
    <2> QED
        BY <2>7, <2>8, <2>9, <2>10 DEF EngineInvariant, NoneInHand, OneInHand
<1>18. ASSUME NEW w \in Workers, EngineReturns(w) PROVE EngineInvariant'
    <2>1. KeepsTaken
        BY <1>18 DEF KeepsTaken, Taken, EngineReturns, tables
    <2>2. EndsRuns
        BY <1>18 DEF EndsRuns, RunningEngines, EngineReturns, tables
    <2>3. KeepsOthers(w) /\ job'[w].exec = job[w].exec /\ job'[w].engine = job[w].engine
        BY <1>18 DEF KeepsOthers, EngineReturns, Jobs
    <2>4. NoneInHand(w)' /\ OneInHand(w)'
        BY <1>18, <2>3 DEF NoneInHand, OneInHand, EngineInvariant, RunningEngines, EngineReturns, tables
    <2> QED
        BY <2>1, <2>2, <2>3, <2>4, EngineLocal
<1>19. ASSUME NEW w \in Workers, EngineFailsPartially(w) PROVE EngineInvariant'
    <2>1. KeepsTaken
        BY <1>19 DEF KeepsTaken, Taken, EngineFailsPartially, tables
    <2>2. EndsRuns
        BY <1>19 DEF EndsRuns, RunningEngines, EngineFailsPartially, tables, PartialRunState
    <2>3. KeepsOthers(w) /\ job'[w].exec = job[w].exec
        BY <1>19 DEF KeepsOthers, EngineFailsPartially, Jobs
    <2>4. job[w].exec \in Executions /\ job[w].engine \in Engines \union {NoEngine}
        BY <1>19 DEF ClaimInvariant, EngineFailsPartially, Jobs
    <2>5. RunningEngines(job[w].exec) \subseteq {job[w].engine}
        BY <1>19 DEF EngineInvariant, EngineFailsPartially
    <2>6. RunningEngines(job[w].exec)' = {}
        BY <1>19, <2>3, <2>4, <2>5 DEF RunningEngines, EngineFailsPartially, PartialRunState
    <2>7. NoneInHand(w)' /\ OneInHand(w)'
        BY <1>19, <2>3, <2>6 DEF NoneInHand, OneInHand, EngineFailsPartially
    <2> QED
        BY <2>1, <2>2, <2>3, <2>7, EngineLocal
<1>20. ASSUME NEW w \in Workers, EngineRaises(w) PROVE EngineInvariant'
    <2>1. KeepsTaken
        BY <1>20 DEF KeepsTaken, Taken, EngineRaises, tables
    <2>2. EndsRuns
        BY <1>20 DEF EndsRuns, RunningEngines, EngineRaises, tables
    <2>3. KeepsOthers(w) /\ NoneInHand(w)' /\ OneInHand(w)'
        BY <1>20 DEF KeepsOthers, NoneInHand, OneInHand, EngineRaises
    <2> QED
        BY <2>1, <2>2, <2>3, EngineLocal
<1>21. ASSUME NEW w \in Workers, PersistResults(w) PROVE EngineInvariant'
    <2>1. KeepsTaken
        BY <1>21 DEF KeepsTaken, Taken, PersistResults, tables
    <2>2. EndsRuns
        BY <1>21 DEF EndsRuns, RunningEngines, PersistResults, tables
    <2>3. KeepsOthers(w) /\ job'[w].exec = job[w].exec /\ job'[w].engine = job[w].engine
        BY <1>21 DEF KeepsOthers, PersistResults, Jobs
    <2>4. NoneInHand(w)' /\ OneInHand(w)'
        BY <1>21, <2>3 DEF NoneInHand, OneInHand, EngineInvariant, RunningEngines, PersistResults, tables
    <2> QED
        BY <2>1, <2>2, <2>3, <2>4, EngineLocal
<1>22. ASSUME NEW w \in Workers, FinishEngine(w) PROVE EngineInvariant'
    <2>1. KeepsTaken
        BY <1>22 DEF KeepsTaken, Taken, FinishEngine, tables
    <2>2. EndsRuns
        BY <1>22 DEF EndsRuns, RunningEngines, FinishEngine, tables
    <2>3. KeepsOthers(w) /\ job'[w].exec = job[w].exec
        BY <1>22 DEF KeepsOthers, FinishEngine, Jobs
    <2>4. job[w].exec \in Executions /\ job[w].engine \in Engines \union {NoEngine}
        BY <1>22 DEF ClaimInvariant, FinishEngine, Jobs
    <2>5. RunningEngines(job[w].exec) \subseteq {job[w].engine}
        BY <1>22 DEF EngineInvariant, FinishEngine
    <2>6. RunningEngines(job[w].exec)' = {}
        BY <1>22, <2>3, <2>4, <2>5 DEF RunningEngines, FinishEngine, PartialRunState
    <2>7. NoneInHand(w)' /\ OneInHand(w)'
        BY <1>22, <2>3, <2>6 DEF NoneInHand, OneInHand, FinishEngine
    <2> QED
        BY <2>1, <2>2, <2>3, <2>7, EngineLocal
<1>23. ASSUME NEW w \in Workers, HonourCancel(w) PROVE EngineInvariant'
    <2>1. KeepsTaken
        BY <1>23 DEF KeepsTaken, Taken, HonourCancel, tables
    <2>2. EndsRuns
        BY <1>23 DEF EndsRuns, RunningEngines, HonourCancel, tables
    <2>3. KeepsOthers(w) /\ NoneInHand(w)' /\ OneInHand(w)'
        BY <1>23 DEF KeepsOthers, NoneInHand, OneInHand, HonourCancel, Release
    <2> QED
        BY <2>1, <2>2, <2>3, EngineLocal
<1>24. ASSUME NEW w \in Workers, PassCancelCheck(w) PROVE EngineInvariant'
    <2>1. KeepsTaken
        BY <1>24 DEF KeepsTaken, Taken, PassCancelCheck, tables
    <2>2. EndsRuns
        BY <1>24 DEF EndsRuns, RunningEngines, PassCancelCheck, tables
    <2>3. KeepsOthers(w) /\ job'[w].exec = job[w].exec /\ job'[w].engine = job[w].engine
        BY <1>24 DEF KeepsOthers, PassCancelCheck, Jobs
    <2>4. NoneInHand(w)' /\ OneInHand(w)'
        BY <1>24, <2>3 DEF NoneInHand, OneInHand, EngineInvariant, RunningEngines, PassCancelCheck, tables
    <2> QED
        BY <2>1, <2>2, <2>3, <2>4, EngineLocal
<1>25. ASSUME NEW w \in Workers, Finalize(w) PROVE EngineInvariant'
    <2>1. KeepsTaken
        BY <1>25 DEF KeepsTaken, Taken, Finalize, tables, Outcome
    <2>2. EndsRuns
        BY <1>25 DEF EndsRuns, RunningEngines, Finalize, tables
    <2>3. KeepsOthers(w) /\ NoneInHand(w)' /\ OneInHand(w)'
        BY <1>25 DEF KeepsOthers, NoneInHand, OneInHand, Finalize, Release
    <2> QED
        BY <2>1, <2>2, <2>3, EngineLocal
<1>26. ASSUME NEW w \in Workers, FailRunningEngine(w) PROVE EngineInvariant'
    <2>1. KeepsTaken
        BY <1>26 DEF KeepsTaken, Taken, FailRunningEngine, tables
    <2>2. EndsRuns
        BY <1>26 DEF EndsRuns, RunningEngines, FailRunningEngine, tables
    <2> QED
        BY <1>26, <2>1, <2>2, EngineStill DEF FailRunningEngine
<1>27. ASSUME NEW w \in Workers, FailExecution(w) PROVE EngineInvariant'
    <2>1. KeepsTaken
        BY <1>27 DEF KeepsTaken, Taken, FailExecution, tables, FailureStatus
    <2>2. EndsRuns
        BY <1>27 DEF EndsRuns, RunningEngines, FailExecution, tables
    <2>3. KeepsOthers(w) /\ NoneInHand(w)' /\ OneInHand(w)'
        BY <1>27 DEF KeepsOthers, NoneInHand, OneInHand, FailExecution, Release
    <2> QED
        BY <2>1, <2>2, <2>3, EngineLocal
<1>28. ASSUME NEW w \in Workers, Interrupt(w) PROVE EngineInvariant'
    <2>1. KeepsTaken
        BY <1>28 DEF KeepsTaken, Taken, Interrupt, tables
    <2>2. EndsRuns
        BY <1>28 DEF EndsRuns, RunningEngines, Interrupt, tables
    <2>3. KeepsOthers(w) /\ NoneInHand(w)' /\ OneInHand(w)'
        BY <1>28 DEF KeepsOthers, NoneInHand, OneInHand, Interrupt
    <2> QED
        BY <2>1, <2>2, <2>3, EngineLocal
<1>29. ASSUME NEW w \in Workers, Stop(w) PROVE EngineInvariant'
    <2>1. KeepsTaken
        BY <1>29 DEF KeepsTaken, Taken, Stop, tables
    <2>2. EndsRuns
        BY <1>29 DEF EndsRuns, RunningEngines, Stop, tables
    <2>3. KeepsOthers(w) /\ NoneInHand(w)' /\ OneInHand(w)'
        BY <1>29 DEF KeepsOthers, NoneInHand, OneInHand, Stop
    <2> QED
        BY <2>1, <2>2, <2>3, EngineLocal
<1>30. ASSUME NEW w \in Workers, DatabaseError(w) PROVE EngineInvariant'
    <2>1. KeepsTaken
        BY <1>30 DEF KeepsTaken, Taken, DatabaseError, tables
    <2>2. EndsRuns
        BY <1>30 DEF EndsRuns, RunningEngines, DatabaseError, tables
    <2>3. KeepsOthers(w) /\ NoneInHand(w)' /\ OneInHand(w)'
        BY <1>30 DEF KeepsOthers, NoneInHand, OneInHand, DatabaseError
    <2> QED
        BY <2>1, <2>2, <2>3, EngineLocal
<1>31. ASSUME NEW w \in Workers, ClaimError(w) PROVE EngineInvariant'
    <2>1. KeepsTaken
        BY <1>31 DEF KeepsTaken, Taken, ClaimError, tables
    <2>2. EndsRuns
        BY <1>31 DEF EndsRuns, RunningEngines, ClaimError, tables
    <2>3. KeepsOthers(w) /\ NoneInHand(w)' /\ OneInHand(w)'
        BY <1>31 DEF KeepsOthers, NoneInHand, OneInHand, ClaimError, Release
    <2> QED
        BY <2>1, <2>2, <2>3, EngineLocal
<1>32. ASSUME NEW w \in Workers, HandlerError(w) PROVE EngineInvariant'
    <2>1. KeepsTaken
        BY <1>32 DEF KeepsTaken, Taken, HandlerError, tables
    <2>2. EndsRuns
        BY <1>32 DEF EndsRuns, RunningEngines, HandlerError, tables
    <2>3. KeepsOthers(w) /\ NoneInHand(w)' /\ OneInHand(w)'
        BY <1>32 DEF KeepsOthers, NoneInHand, OneInHand, HandlerError, Release
    <2> QED
        BY <2>1, <2>2, <2>3, EngineLocal
<1>33. ASSUME NEW w \in Workers, Signal(w) PROVE EngineInvariant'
    <2>1. KeepsTaken
        BY <1>33 DEF KeepsTaken, Taken, Signal, tables
    <2>2. EndsRuns
        BY <1>33 DEF EndsRuns, RunningEngines, Signal, tables
    <2> QED
        BY <1>33, <2>1, <2>2, EngineStill DEF Signal
<1>34. ASSUME NEW w \in Workers, Crash(w) PROVE EngineInvariant'
    <2>1. KeepsTaken
        BY <1>34 DEF KeepsTaken, Taken, Crash, tables
    <2>2. EndsRuns
        BY <1>34 DEF EndsRuns, RunningEngines, Crash, tables
    <2>3. KeepsOthers(w) /\ NoneInHand(w)' /\ OneInHand(w)'
        BY <1>34 DEF KeepsOthers, NoneInHand, OneInHand, Crash
    <2> QED
        BY <2>1, <2>2, <2>3, EngineLocal
<1>35. ASSUME NEW w \in Workers, Heartbeat(w) PROVE EngineInvariant'
    <2>1. KeepsTaken
        BY <1>35 DEF KeepsTaken, Taken, Heartbeat, tables
    <2>2. EndsRuns
        BY <1>35 DEF EndsRuns, RunningEngines, Heartbeat, tables
    <2> QED
        BY <1>35, <2>1, <2>2, EngineStill DEF Heartbeat
<1>36. CASE UNCHANGED vars
    BY <1>36, EngineStill DEF vars, tables, KeepsTaken, Taken, EndsRuns, RunningEngines
<1>37. ASSUME NEW w \in Workers, NEW e \in Executions, FindRunningEngine(w, e) PROVE EngineInvariant'
    <2>1. KeepsTaken
        BY <1>37 DEF KeepsTaken, Taken, FindRunningEngine, tables
    <2>2. EndsRuns
        BY <1>37 DEF EndsRuns, RunningEngines, FindRunningEngine, tables
    <2> QED
        BY <1>37, <2>1, <2>2, EngineStill DEF FindRunningEngine
<1> QED
    BY <1>1, <1>2, <1>3, <1>4, <1>5, <1>6, <1>7, <1>8, <1>9, <1>10, <1>11,
       <1>12, <1>13, <1>14, <1>15, <1>16, <1>17, <1>18, <1>19, <1>20, <1>21,
       <1>22, <1>23, <1>24, <1>25, <1>26, <1>27, <1>28, <1>29, <1>30, <1>31,
       <1>32, <1>33, <1>34, <1>35, <1>36, <1>37
       DEF Next, WorkerStep, FaultStep, Recover, Claim, RunEngines, HandleFailure

\* Spec keeps at most one engine of an execution running: SingleRunningEngine.  The
\* handlers and the recovery, which look for one running engine, need no more.
THEOREM EngineRunIsSingle == Spec => []SingleRunningEngine
<1>1. Init => ClaimInvariant /\ EngineInvariant
    BY DEF Init, ClaimInvariant, ExclusiveClaim, Owns, EngineInvariant, SingleRunningEngine,
           RunningEngines
<1>2. EngineInvariant => SingleRunningEngine
    BY DEF EngineInvariant
<1> QED
    BY <1>1, <1>2, TypeCorrect, ClaimStep, EngineStep, PTL DEF Spec

----------------------------------------------------------------------------
(* The steps of ScanQueue, in terms of Phases and Holders.                 *)

LEMMA QueueStutters ==
    ASSUME Phases' = Phases, Holders' = Holders
    PROVE  [Queue!Next]_(Queue!vars)
    BY DEF Queue!vars

LEMMA QueueSubmits ==
    ASSUME NEW e \in Executions, Phases[e] = "new",
           Phases' = [Phases EXCEPT ![e] = "waiting"], Holders' = Holders
    PROVE  [Queue!Next]_(Queue!vars)
    BY DEF Queue!Next, Queue!Submit, Queue!Executions

LEMMA QueueWithdraws ==
    ASSUME NEW e \in Executions, Phases[e] = "waiting",
           Phases' = [Phases EXCEPT ![e] = "settled"], Holders' = Holders
    PROVE  [Queue!Next]_(Queue!vars)
    BY DEF Queue!Next, Queue!Withdraw, Queue!Executions

LEMMA QueueTakes ==
    ASSUME NEW w \in Workers, NEW e \in Executions, Phases[e] = "waiting",
           Phases' = [Phases EXCEPT ![e] = "taken"],
           Holders' = [Holders EXCEPT ![e] = {w}]
    PROVE  [Queue!Next]_(Queue!vars)
    BY DEF Queue!Next, Queue!Take, Queue!Executions

LEMMA QueueSettles ==
    ASSUME NEW E \in SUBSET Executions, \A e \in E : Phases[e] = "taken",
           Phases' = [e \in Executions |-> IF e \in E THEN "settled" ELSE Phases[e]],
           Holders' = Holders
    PROVE  [Queue!Next]_(Queue!vars)
<1>1. CASE E = {}
    <2>1. Phases' = Phases
        BY <1>1 DEF Phases
    <2> QED
        BY <2>1, QueueStutters
<1>2. CASE E # {}
    BY <1>2 DEF Queue!Next, Queue!Settle, Queue!Executions
<1> QED
    BY <1>1, <1>2

LEMMA QueueLeaves ==
    ASSUME NEW w \in Workers, NEW e \in Executions, w \in Holders[e],
           Holders' = [Holders EXCEPT ![e] = @ \ {w}],
           \/ Phases' = Phases
           \/ Phases[e] = "taken" /\ Phases' = [Phases EXCEPT ![e] = "settled"]
    PROVE  [Queue!Next]_(Queue!vars)
    BY DEF Queue!Next, Queue!Leave, Queue!Executions

----------------------------------------------------------------------------
(* Every step of ScanExecutions is a step of ScanQueue, or none.            *)

\* A cancel request has read a row that was there, and a recovery has only executions
\* in its list that left the queue.
ReadInvariant ==
    /\ \A e \in Executions : cancelRead[e] # "none" => status[e] # "absent"
    /\ \A w \in Workers, e \in Executions : Sweeping(w, e) => Taken(e)

\* No row disappears, what is taken stays taken, and the lists and requests only shrink.
LEMMA ReadKept ==
    ASSUME ReadInvariant, KeepsTaken,
           \A e \in Executions : status[e] # "absent" => status'[e] # "absent",
           \A e \in Executions : cancelRead'[e] # "none" => cancelRead[e] # "none",
           \A w \in Workers, e \in Executions : Sweeping(w, e)' => Sweeping(w, e)
    PROVE  ReadInvariant'
    BY DEF ReadInvariant, KeepsTaken

\* ReadInvariant is inductive relative to the types and the claims.
LEMMA ReadStep == TypeOK /\ ClaimInvariant /\ ReadInvariant /\ [Next]_vars => ReadInvariant'
<1> SUFFICES ASSUME TypeOK, ClaimInvariant, ReadInvariant, [Next]_vars PROVE ReadInvariant'
    OBVIOUS
<1> USE DEF TypeOK
<1>1. ASSUME NEW e \in Executions, CreateExecution(e) PROVE ReadInvariant'
    <2>1. KeepsTaken
        BY <1>1 DEF KeepsTaken, Taken, CreateExecution, tables
    <2>2. /\ \A d \in Executions : status[d] # "absent" => status'[d] # "absent"
          /\ \A d \in Executions : cancelRead'[d] # "none" => cancelRead[d] # "none"
          /\ \A v \in Workers, d \in Executions : Sweeping(v, d)' => Sweeping(v, d)
        BY <1>1 DEF CreateExecution, tables, Sweeping
    <2> QED
        BY <2>1, <2>2, ReadKept
<1>2. ASSUME NEW e \in Executions, ReadForCancel(e) PROVE ReadInvariant'
    BY <1>2 DEF ReadForCancel, tables, ReadInvariant, Taken, Sweeping
<1>3. ASSUME NEW e \in Executions, CommitCancel(e) PROVE ReadInvariant'
    <2>1. KeepsTaken
        BY <1>3 DEF KeepsTaken, Taken, CommitCancel, tables
    <2>2. /\ \A d \in Executions : status[d] # "absent" => status'[d] # "absent"
          /\ \A d \in Executions : cancelRead'[d] # "none" => cancelRead[d] # "none"
          /\ \A v \in Workers, d \in Executions : Sweeping(v, d)' => Sweeping(v, d)
        BY <1>3 DEF CommitCancel, tables, Sweeping
    <2> QED
        BY <2>1, <2>2, ReadKept
<1>4. ASSUME NEW e \in Executions, HeartbeatLapses(e) PROVE ReadInvariant'
    <2>1. KeepsTaken
        BY <1>4 DEF KeepsTaken, Taken, HeartbeatLapses, tables
    <2>2. /\ \A d \in Executions : status[d] # "absent" => status'[d] # "absent"
          /\ \A d \in Executions : cancelRead'[d] # "none" => cancelRead[d] # "none"
          /\ \A v \in Workers, d \in Executions : Sweeping(v, d)' => Sweeping(v, d)
        BY <1>4 DEF HeartbeatLapses, tables, Sweeping
    <2> QED
        BY <2>1, <2>2, ReadKept
<1>5. ASSUME NEW w \in Workers, NEW e \in Executions, RecoverEngine(w, e)
      PROVE  ReadInvariant'
    <2>1. KeepsTaken
        BY <1>5 DEF KeepsTaken, Taken, RecoverEngine, tables, FlushSweep
    <2>2. /\ sweep'[w].todo = sweep[w].todo /\ sweep'[w].pending = {e}
          /\ sweep'[w].exec = NoExecution /\ e = sweep[w].exec
          /\ \A v \in Workers \ {w} : sweep'[v] = sweep[v]
        BY <1>5 DEF RecoverEngine, NoSweep, Sweeps
    <2>3. \A v \in Workers, d \in Executions : Sweeping(v, d)' => Sweeping(v, d)
        BY <2>2, NoExecutionIsNone DEF Sweeping
    <2>4. \A d \in Executions : status[d] # "absent" => status'[d] # "absent"
        BY <1>5 DEF RecoverEngine, FlushSweep
    <2> QED
        BY <1>5, <2>1, <2>3, <2>4, ReadKept DEF RecoverEngine
<1>6. ASSUME NEW w \in Workers, NEW e \in Executions, RecoverWithoutEngine(w, e)
      PROVE  ReadInvariant'
    <2>1. KeepsTaken
        BY <1>6 DEF KeepsTaken, Taken, RecoverWithoutEngine, tables
    <2>2. /\ sweep'[w].todo = sweep[w].todo \ {e}
          /\ sweep'[w].pending = sweep[w].pending \union {e}
          /\ \A v \in Workers \ {w} : sweep'[v] = sweep[v]
        BY <1>6 DEF RecoverWithoutEngine
    <2>3. \A v \in Workers, d \in Executions : Sweeping(v, d)' => Sweeping(v, d)
        BY <1>6, <2>2 DEF RecoverWithoutEngine, Sweeping
    <2> QED
        BY <1>6, <2>1, <2>3, ReadKept DEF RecoverWithoutEngine, tables
<1>7. ASSUME NEW w \in Workers, Boot(w) PROVE ReadInvariant'
    <2>1. KeepsTaken
        BY <1>7 DEF KeepsTaken, Taken, Boot, tables
    <2>2. /\ \A d \in Executions : status[d] # "absent" => status'[d] # "absent"
          /\ \A d \in Executions : cancelRead'[d] # "none" => cancelRead[d] # "none"
          /\ \A v \in Workers, d \in Executions : Sweeping(v, d)' => Sweeping(v, d)
        BY <1>7 DEF Boot, tables, Sweeping
    <2> QED
        BY <2>1, <2>2, ReadKept
<1>8. ASSUME NEW w \in Workers, SelectStale(w) PROVE ReadInvariant'
    <2>1. /\ sweep'[w].todo = StaleExecutions /\ sweep'[w].pending = sweep[w].pending
          /\ sweep'[w].exec = sweep[w].exec
          /\ \A v \in Workers \ {w} : sweep'[v] = sweep[v]
        BY <1>8 DEF SelectStale, Sweeps
    <2>2. \A e \in StaleExecutions : Taken(e)
        BY DEF StaleExecutions, Taken
    <2>3. status' = status /\ cancelRead' = cancelRead
        BY <1>8 DEF SelectStale, tables
    <2> QED
        BY <2>1, <2>2, <2>3 DEF ReadInvariant, Sweeping, Taken
<1>9. ASSUME NEW w \in Workers, CommitRecovery(w) PROVE ReadInvariant'
    <2>1. KeepsTaken
        BY <1>9 DEF KeepsTaken, Taken, CommitRecovery, tables, FlushSweep, NoSweep
    <2>2. /\ \A d \in Executions : status[d] # "absent" => status'[d] # "absent"
          /\ \A d \in Executions : cancelRead'[d] # "none" => cancelRead[d] # "none"
          /\ \A v \in Workers, d \in Executions : Sweeping(v, d)' => Sweeping(v, d)
        BY <1>9 DEF CommitRecovery, tables, Sweeping, FlushSweep, NoSweep
    <2> QED
        BY <2>1, <2>2, ReadKept
<1>10. ASSUME NEW w \in Workers, PollNothing(w) PROVE ReadInvariant'
    <2>1. KeepsTaken
        BY <1>10 DEF KeepsTaken, Taken, PollNothing, tables, vars
    <2>2. /\ \A d \in Executions : status[d] # "absent" => status'[d] # "absent"
          /\ \A d \in Executions : cancelRead'[d] # "none" => cancelRead[d] # "none"
          /\ \A v \in Workers, d \in Executions : Sweeping(v, d)' => Sweeping(v, d)
        BY <1>10 DEF PollNothing, tables, Sweeping, vars
    <2> QED
        BY <2>1, <2>2, ReadKept
<1>11. ASSUME NEW w \in Workers, SelectQueued(w) PROVE ReadInvariant'
    <2>1. KeepsTaken
        BY <1>11 DEF KeepsTaken, Taken, SelectQueued, tables
    <2>2. /\ \A d \in Executions : status[d] # "absent" => status'[d] # "absent"
          /\ \A d \in Executions : cancelRead'[d] # "none" => cancelRead[d] # "none"
          /\ \A v \in Workers, d \in Executions : Sweeping(v, d)' => Sweeping(v, d)
        BY <1>11 DEF SelectQueued, tables, Sweeping
    <2> QED
        BY <2>1, <2>2, ReadKept
<1>12. ASSUME NEW w \in Workers, ClaimQueued(w) PROVE ReadInvariant'
    <2>1. KeepsTaken
        BY <1>12 DEF KeepsTaken, Taken, ClaimQueued, tables
    <2>2. /\ \A d \in Executions : status[d] # "absent" => status'[d] # "absent"
          /\ \A d \in Executions : cancelRead'[d] # "none" => cancelRead[d] # "none"
          /\ \A v \in Workers, d \in Executions : Sweeping(v, d)' => Sweeping(v, d)
        BY <1>12 DEF ClaimQueued, tables, Sweeping
    <2> QED
        BY <2>1, <2>2, ReadKept
<1>13. ASSUME NEW w \in Workers, LoseClaim(w) PROVE ReadInvariant'
    <2>1. KeepsTaken
        BY <1>13 DEF KeepsTaken, Taken, LoseClaim, tables
    <2>2. /\ \A d \in Executions : status[d] # "absent" => status'[d] # "absent"
          /\ \A d \in Executions : cancelRead'[d] # "none" => cancelRead[d] # "none"
          /\ \A v \in Workers, d \in Executions : Sweeping(v, d)' => Sweeping(v, d)
        BY <1>13 DEF LoseClaim, tables, Sweeping
    <2> QED
        BY <2>1, <2>2, ReadKept
<1>14. ASSUME NEW w \in Workers, SkipNotRunning(w) PROVE ReadInvariant'
    <2>1. KeepsTaken
        BY <1>14 DEF KeepsTaken, Taken, SkipNotRunning, tables
    <2>2. /\ \A d \in Executions : status[d] # "absent" => status'[d] # "absent"
          /\ \A d \in Executions : cancelRead'[d] # "none" => cancelRead[d] # "none"
          /\ \A v \in Workers, d \in Executions : Sweeping(v, d)' => Sweeping(v, d)
        BY <1>14 DEF SkipNotRunning, tables, Sweeping
    <2> QED
        BY <2>1, <2>2, ReadKept
<1>15. ASSUME NEW w \in Workers, AcceptScan(w) PROVE ReadInvariant'
    <2>1. KeepsTaken
        BY <1>15 DEF KeepsTaken, Taken, AcceptScan, tables
    <2>2. /\ \A d \in Executions : status[d] # "absent" => status'[d] # "absent"
          /\ \A d \in Executions : cancelRead'[d] # "none" => cancelRead[d] # "none"
          /\ \A v \in Workers, d \in Executions : Sweeping(v, d)' => Sweeping(v, d)
        BY <1>15 DEF AcceptScan, tables, Sweeping
    <2> QED
        BY <2>1, <2>2, ReadKept
<1>16. ASSUME NEW w \in Workers, RejectScan(w) PROVE ReadInvariant'
    <2>1. KeepsTaken
        BY <1>16 DEF KeepsTaken, Taken, RejectScan, tables
    <2>2. /\ \A d \in Executions : status[d] # "absent" => status'[d] # "absent"
          /\ \A d \in Executions : cancelRead'[d] # "none" => cancelRead[d] # "none"
          /\ \A v \in Workers, d \in Executions : Sweeping(v, d)' => Sweeping(v, d)
        BY <1>16 DEF RejectScan, tables, Sweeping
    <2> QED
        BY <2>1, <2>2, ReadKept
<1>17. ASSUME NEW w \in Workers, StartEngine(w) PROVE ReadInvariant'
    <2>1. KeepsTaken
        BY <1>17 DEF KeepsTaken, Taken, StartEngine, tables
    <2>2. /\ \A d \in Executions : status[d] # "absent" => status'[d] # "absent"
          /\ \A d \in Executions : cancelRead'[d] # "none" => cancelRead[d] # "none"
          /\ \A v \in Workers, d \in Executions : Sweeping(v, d)' => Sweeping(v, d)
        BY <1>17 DEF StartEngine, tables, Sweeping
    <2> QED
        BY <2>1, <2>2, ReadKept
<1>18. ASSUME NEW w \in Workers, EngineReturns(w) PROVE ReadInvariant'
    <2>1. KeepsTaken
        BY <1>18 DEF KeepsTaken, Taken, EngineReturns, tables
    <2>2. /\ \A d \in Executions : status[d] # "absent" => status'[d] # "absent"
          /\ \A d \in Executions : cancelRead'[d] # "none" => cancelRead[d] # "none"
          /\ \A v \in Workers, d \in Executions : Sweeping(v, d)' => Sweeping(v, d)
        BY <1>18 DEF EngineReturns, tables, Sweeping
    <2> QED
        BY <2>1, <2>2, ReadKept
<1>19. ASSUME NEW w \in Workers, EngineFailsPartially(w) PROVE ReadInvariant'
    <2>1. KeepsTaken
        BY <1>19 DEF KeepsTaken, Taken, EngineFailsPartially, tables
    <2>2. /\ \A d \in Executions : status[d] # "absent" => status'[d] # "absent"
          /\ \A d \in Executions : cancelRead'[d] # "none" => cancelRead[d] # "none"
          /\ \A v \in Workers, d \in Executions : Sweeping(v, d)' => Sweeping(v, d)
        BY <1>19 DEF EngineFailsPartially, tables, Sweeping
    <2> QED
        BY <2>1, <2>2, ReadKept
<1>20. ASSUME NEW w \in Workers, EngineRaises(w) PROVE ReadInvariant'
    <2>1. KeepsTaken
        BY <1>20 DEF KeepsTaken, Taken, EngineRaises, tables
    <2>2. /\ \A d \in Executions : status[d] # "absent" => status'[d] # "absent"
          /\ \A d \in Executions : cancelRead'[d] # "none" => cancelRead[d] # "none"
          /\ \A v \in Workers, d \in Executions : Sweeping(v, d)' => Sweeping(v, d)
        BY <1>20 DEF EngineRaises, tables, Sweeping
    <2> QED
        BY <2>1, <2>2, ReadKept
<1>21. ASSUME NEW w \in Workers, PersistResults(w) PROVE ReadInvariant'
    <2>1. KeepsTaken
        BY <1>21 DEF KeepsTaken, Taken, PersistResults, tables
    <2>2. /\ \A d \in Executions : status[d] # "absent" => status'[d] # "absent"
          /\ \A d \in Executions : cancelRead'[d] # "none" => cancelRead[d] # "none"
          /\ \A v \in Workers, d \in Executions : Sweeping(v, d)' => Sweeping(v, d)
        BY <1>21 DEF PersistResults, tables, Sweeping
    <2> QED
        BY <2>1, <2>2, ReadKept
<1>22. ASSUME NEW w \in Workers, FinishEngine(w) PROVE ReadInvariant'
    <2>1. KeepsTaken
        BY <1>22 DEF KeepsTaken, Taken, FinishEngine, tables
    <2>2. /\ \A d \in Executions : status[d] # "absent" => status'[d] # "absent"
          /\ \A d \in Executions : cancelRead'[d] # "none" => cancelRead[d] # "none"
          /\ \A v \in Workers, d \in Executions : Sweeping(v, d)' => Sweeping(v, d)
        BY <1>22 DEF FinishEngine, tables, Sweeping
    <2> QED
        BY <2>1, <2>2, ReadKept
<1>23. ASSUME NEW w \in Workers, HonourCancel(w) PROVE ReadInvariant'
    <2>1. KeepsTaken
        BY <1>23 DEF KeepsTaken, Taken, HonourCancel, tables
    <2>2. /\ \A d \in Executions : status[d] # "absent" => status'[d] # "absent"
          /\ \A d \in Executions : cancelRead'[d] # "none" => cancelRead[d] # "none"
          /\ \A v \in Workers, d \in Executions : Sweeping(v, d)' => Sweeping(v, d)
        BY <1>23 DEF HonourCancel, tables, Sweeping
    <2> QED
        BY <2>1, <2>2, ReadKept
<1>24. ASSUME NEW w \in Workers, PassCancelCheck(w) PROVE ReadInvariant'
    <2>1. KeepsTaken
        BY <1>24 DEF KeepsTaken, Taken, PassCancelCheck, tables
    <2>2. /\ \A d \in Executions : status[d] # "absent" => status'[d] # "absent"
          /\ \A d \in Executions : cancelRead'[d] # "none" => cancelRead[d] # "none"
          /\ \A v \in Workers, d \in Executions : Sweeping(v, d)' => Sweeping(v, d)
        BY <1>24 DEF PassCancelCheck, tables, Sweeping
    <2> QED
        BY <2>1, <2>2, ReadKept
<1>25. ASSUME NEW w \in Workers, Finalize(w) PROVE ReadInvariant'
    <2>1. KeepsTaken
        BY <1>25 DEF KeepsTaken, Taken, Finalize, tables, Outcome
    <2>2. /\ \A d \in Executions : status[d] # "absent" => status'[d] # "absent"
          /\ \A d \in Executions : cancelRead'[d] # "none" => cancelRead[d] # "none"
          /\ \A v \in Workers, d \in Executions : Sweeping(v, d)' => Sweeping(v, d)
        BY <1>25 DEF Finalize, tables, Sweeping, Outcome
    <2> QED
        BY <2>1, <2>2, ReadKept
<1>26. ASSUME NEW w \in Workers, FailRunningEngine(w) PROVE ReadInvariant'
    <2>1. KeepsTaken
        BY <1>26 DEF KeepsTaken, Taken, FailRunningEngine, tables
    <2>2. /\ \A d \in Executions : status[d] # "absent" => status'[d] # "absent"
          /\ \A d \in Executions : cancelRead'[d] # "none" => cancelRead[d] # "none"
          /\ \A v \in Workers, d \in Executions : Sweeping(v, d)' => Sweeping(v, d)
        BY <1>26 DEF FailRunningEngine, tables, Sweeping
    <2> QED
        BY <2>1, <2>2, ReadKept
<1>27. ASSUME NEW w \in Workers, FailExecution(w) PROVE ReadInvariant'
    <2>1. KeepsTaken
        BY <1>27 DEF KeepsTaken, Taken, FailExecution, tables, FailureStatus
    <2>2. /\ \A d \in Executions : status[d] # "absent" => status'[d] # "absent"
          /\ \A d \in Executions : cancelRead'[d] # "none" => cancelRead[d] # "none"
          /\ \A v \in Workers, d \in Executions : Sweeping(v, d)' => Sweeping(v, d)
        BY <1>27 DEF FailExecution, tables, Sweeping, FailureStatus
    <2> QED
        BY <2>1, <2>2, ReadKept
<1>28. ASSUME NEW w \in Workers, Interrupt(w) PROVE ReadInvariant'
    <2>1. KeepsTaken
        BY <1>28 DEF KeepsTaken, Taken, Interrupt, tables
    <2>2. /\ \A d \in Executions : status[d] # "absent" => status'[d] # "absent"
          /\ \A d \in Executions : cancelRead'[d] # "none" => cancelRead[d] # "none"
          /\ \A v \in Workers, d \in Executions : Sweeping(v, d)' => Sweeping(v, d)
        BY <1>28 DEF Interrupt, tables, Sweeping
    <2> QED
        BY <2>1, <2>2, ReadKept
<1>29. ASSUME NEW w \in Workers, Stop(w) PROVE ReadInvariant'
    <2>1. KeepsTaken
        BY <1>29 DEF KeepsTaken, Taken, Stop, tables
    <2>2. /\ \A d \in Executions : status[d] # "absent" => status'[d] # "absent"
          /\ \A d \in Executions : cancelRead'[d] # "none" => cancelRead[d] # "none"
          /\ \A v \in Workers, d \in Executions : Sweeping(v, d)' => Sweeping(v, d)
        BY <1>29 DEF Stop, tables, Sweeping
    <2> QED
        BY <2>1, <2>2, ReadKept
<1>30. ASSUME NEW w \in Workers, DatabaseError(w) PROVE ReadInvariant'
    <2>1. KeepsTaken
        BY <1>30 DEF KeepsTaken, Taken, DatabaseError, tables
    <2>2. /\ \A d \in Executions : status[d] # "absent" => status'[d] # "absent"
          /\ \A d \in Executions : cancelRead'[d] # "none" => cancelRead[d] # "none"
          /\ \A v \in Workers, d \in Executions : Sweeping(v, d)' => Sweeping(v, d)
        BY <1>30 DEF DatabaseError, tables, Sweeping
    <2> QED
        BY <2>1, <2>2, ReadKept
<1>31. ASSUME NEW w \in Workers, ClaimError(w) PROVE ReadInvariant'
    <2>1. KeepsTaken
        BY <1>31 DEF KeepsTaken, Taken, ClaimError, tables
    <2>2. /\ \A d \in Executions : status[d] # "absent" => status'[d] # "absent"
          /\ \A d \in Executions : cancelRead'[d] # "none" => cancelRead[d] # "none"
          /\ \A v \in Workers, d \in Executions : Sweeping(v, d)' => Sweeping(v, d)
        BY <1>31 DEF ClaimError, tables, Sweeping
    <2> QED
        BY <2>1, <2>2, ReadKept
<1>32. ASSUME NEW w \in Workers, HandlerError(w) PROVE ReadInvariant'
    <2>1. KeepsTaken
        BY <1>32 DEF KeepsTaken, Taken, HandlerError, tables
    <2>2. /\ \A d \in Executions : status[d] # "absent" => status'[d] # "absent"
          /\ \A d \in Executions : cancelRead'[d] # "none" => cancelRead[d] # "none"
          /\ \A v \in Workers, d \in Executions : Sweeping(v, d)' => Sweeping(v, d)
        BY <1>32 DEF HandlerError, tables, Sweeping
    <2> QED
        BY <2>1, <2>2, ReadKept
<1>33. ASSUME NEW w \in Workers, Signal(w) PROVE ReadInvariant'
    <2>1. KeepsTaken
        BY <1>33 DEF KeepsTaken, Taken, Signal, tables
    <2>2. /\ \A d \in Executions : status[d] # "absent" => status'[d] # "absent"
          /\ \A d \in Executions : cancelRead'[d] # "none" => cancelRead[d] # "none"
          /\ \A v \in Workers, d \in Executions : Sweeping(v, d)' => Sweeping(v, d)
        BY <1>33 DEF Signal, tables, Sweeping
    <2> QED
        BY <2>1, <2>2, ReadKept
<1>34. ASSUME NEW w \in Workers, Crash(w) PROVE ReadInvariant'
    <2>1. KeepsTaken
        BY <1>34 DEF KeepsTaken, Taken, Crash, tables, NoSweep
    <2>2. /\ \A d \in Executions : status[d] # "absent" => status'[d] # "absent"
          /\ \A d \in Executions : cancelRead'[d] # "none" => cancelRead[d] # "none"
          /\ \A v \in Workers, d \in Executions : Sweeping(v, d)' => Sweeping(v, d)
        BY <1>34 DEF Crash, tables, Sweeping, NoSweep
    <2> QED
        BY <2>1, <2>2, ReadKept
<1>35. ASSUME NEW w \in Workers, Heartbeat(w) PROVE ReadInvariant'
    <2>1. KeepsTaken
        BY <1>35 DEF KeepsTaken, Taken, Heartbeat, tables
    <2>2. /\ \A d \in Executions : status[d] # "absent" => status'[d] # "absent"
          /\ \A d \in Executions : cancelRead'[d] # "none" => cancelRead[d] # "none"
          /\ \A v \in Workers, d \in Executions : Sweeping(v, d)' => Sweeping(v, d)
        BY <1>35 DEF Heartbeat, tables, Sweeping
    <2> QED
        BY <2>1, <2>2, ReadKept
<1>36. CASE UNCHANGED vars
    <2>1. KeepsTaken
        BY <1>36 DEF KeepsTaken, Taken, vars, tables
    <2>2. /\ \A d \in Executions : status[d] # "absent" => status'[d] # "absent"
          /\ \A d \in Executions : cancelRead'[d] # "none" => cancelRead[d] # "none"
          /\ \A v \in Workers, d \in Executions : Sweeping(v, d)' => Sweeping(v, d)
        BY <1>36 DEF vars, tables, Sweeping
    <2> QED
        BY <2>1, <2>2, ReadKept
<1>37. ASSUME NEW w \in Workers, NEW e \in Executions, FindRunningEngine(w, e)
       PROVE  ReadInvariant'
    <2>1. KeepsTaken
        BY <1>37 DEF KeepsTaken, Taken, FindRunningEngine, tables
    <2>2. /\ sweep'[w].todo = sweep[w].todo \ {e} /\ sweep'[w].exec = e
          /\ sweep'[w].pending = sweep[w].pending /\ e \in sweep[w].todo
          /\ \A v \in Workers \ {w} : sweep'[v] = sweep[v]
        BY <1>37 DEF FindRunningEngine, Sweeps
    <2>3. \A v \in Workers, d \in Executions : Sweeping(v, d)' => Sweeping(v, d)
        BY <2>2 DEF Sweeping
    <2> QED
        BY <1>37, <2>1, <2>3, ReadKept DEF FindRunningEngine, tables
<1> QED
    BY <1>1, <1>2, <1>3, <1>4, <1>5, <1>6, <1>7, <1>8, <1>9, <1>10, <1>11, <1>12,
       <1>13, <1>14, <1>15, <1>16, <1>17, <1>18, <1>19, <1>20, <1>21, <1>22, <1>23,
       <1>24, <1>25, <1>26, <1>27, <1>28, <1>29, <1>30, <1>31, <1>32, <1>33, <1>34,
       <1>35, <1>36, <1>37
       DEF Next, WorkerStep, FaultStep, Recover, Claim, RunEngines, HandleFailure

\* The workers hold what they held, and no status changes.
LEMMA QueueStays ==
    ASSUME status' = status,
           \A w \in Workers, e \in Executions : Owns(w, e)' <=> Owns(w, e)
    PROVE  [Queue!Next]_(Queue!vars)
<1>1. Phases' = Phases /\ Holders' = Holders
    BY DEF Phases, Holders
<1> QED
    BY <1>1, QueueStutters

\* A worker lets go of its execution, with an outcome or without.
LEMMA QueueReleases ==
    ASSUME TypeOK, ClaimInvariant, NEW w \in Workers, NEW e \in Executions, Owns(w, e),
           KeepsOthers(w), pc'[w] \notin Busy,
           status' = status \/ \E s \in Settled : status' = [status EXCEPT ![e] = s]
    PROVE  [Queue!Next]_(Queue!vars)
<1>1. Taken(e) /\ status[e] \in Statuses /\ status \in [Executions -> Statuses]
    BY DEF ClaimInvariant, TypeOK
<1>2. w \in Holders[e]
    BY DEF Holders
<1>3. \A v \in Workers, d \in Executions : Owns(v, d)' <=> Owns(v, d) /\ v # w
    BY DEF Owns, KeepsOthers
<1>4. \A d \in Executions \ {e} : ~Owns(w, d)
    BY DEF Owns
<1>5. Holders' = [Holders EXCEPT ![e] = @ \ {w}]
    <2>1. {v \in Workers : Owns(v, e)'} = {v \in Workers : Owns(v, e)} \ {w}
        BY <1>3
    <2>2. ASSUME NEW d \in Executions \ {e}
          PROVE  {v \in Workers : Owns(v, d)'} = {v \in Workers : Owns(v, d)}
        BY <1>3, <1>4
    <2> QED
        BY <2>1, <2>2 DEF Holders
<1>6. \/ Phases' = Phases
      \/ Phases[e] = "taken" /\ Phases' = [Phases EXCEPT ![e] = "settled"]
    <2>1. CASE status' = status
        BY <2>1 DEF Phases
    <2>2. ASSUME NEW s \in Settled, status' = [status EXCEPT ![e] = s]
          PROVE  \/ Phases' = Phases
                 \/ Phases[e] = "taken" /\ Phases' = [Phases EXCEPT ![e] = "settled"]
        <3>1. /\ \A d \in Executions \ {e} : status'[d] = status[d]
              /\ Phase(status'[e]) = "settled"
            BY <1>1, <2>2 DEF Phase
        <3>2. Phases' = [Phases EXCEPT ![e] = "settled"]
            BY <3>1 DEF Phases
        <3>3. Phases[e] \in {"taken", "settled"}
            BY <1>1 DEF Phases, Phase, Taken
        <3>4. CASE Phases[e] = "settled"
            BY <3>2, <3>4 DEF Phases
        <3> QED
            BY <3>2, <3>3, <3>4
    <2> QED
        BY <2>1, <2>2
<1> QED
    BY <1>2, <1>5, <1>6, QueueLeaves

\* A recovery writes "failed" for the executions it has visited.
LEMMA QueueFlushes ==
    ASSUME TypeOK, ReadInvariant, NEW w \in Workers, status' = FlushSweep(w),
           \A v \in Workers, e \in Executions : Owns(v, e)' <=> Owns(v, e)
    PROVE  [Queue!Next]_(Queue!vars)
<1> DEFINE E == {e \in Executions : e \in sweep[w].pending /\ status[e] = "running"}
<1>1. Holders' = Holders
    BY DEF Holders
<1>2. \A e \in E : Phases[e] = "taken"
    BY DEF Phases, Phase
<1>3. ASSUME NEW e \in Executions
      PROVE  Phase(status'[e]) = IF e \in E THEN "settled" ELSE Phase(status[e])
    <2>1. e \in sweep[w].pending => status[e] \in {"running"} \union Settled
        BY DEF ReadInvariant, Sweeping, Taken, TypeOK
    <2>2. status'[e] = IF e \in sweep[w].pending THEN "failed" ELSE status[e]
        BY DEF FlushSweep
    <2> QED
        BY <2>1, <2>2 DEF Phase
<1>4. Phases' = [e \in Executions |-> IF e \in E THEN "settled" ELSE Phases[e]]
    BY <1>3 DEF Phases
<1> QED
    BY <1>1, <1>2, <1>4, QueueSettles

\* Every step maps to a step of the queue or to a stutter.
LEMMA QueueStep ==
    TypeOK /\ ClaimInvariant /\ ReadInvariant /\ [Next]_vars => [Queue!Next]_(Queue!vars)
<1> SUFFICES ASSUME TypeOK, ClaimInvariant, ReadInvariant, [Next]_vars
             PROVE  [Queue!Next]_(Queue!vars)
    OBVIOUS
<1> USE DEF TypeOK
<1>1. ASSUME NEW e \in Executions, CreateExecution(e) PROVE [Queue!Next]_(Queue!vars)
    <2>1. Holders' = Holders
        BY <1>1 DEF CreateExecution, Holders, Owns
    <2>2. Phases[e] = "new"
        BY <1>1 DEF CreateExecution, Phases, Phase
    <2>3. Phase(status'[e]) = "waiting" /\ \A d \in Executions \ {e} : status'[d] = status[d]
        BY <1>1 DEF CreateExecution, Phase
    <2>4. Phases' = [Phases EXCEPT ![e] = "waiting"]
        BY <2>3 DEF Phases
    <2> QED
        BY <2>1, <2>2, <2>4, QueueSubmits
<1>2. ASSUME NEW e \in Executions, ReadForCancel(e) PROVE [Queue!Next]_(Queue!vars)
    <2>1. \A v \in Workers, d \in Executions : Owns(v, d)' <=> Owns(v, d)
        BY <1>2 DEF ReadForCancel, tables, Owns
    <2>2. status' = status
        BY <1>2 DEF ReadForCancel, tables
    <2> QED
        BY <2>1, <2>2, QueueStays
<1>3. ASSUME NEW e \in Executions, CommitCancel(e) PROVE [Queue!Next]_(Queue!vars)
    <2>1. \A w \in Workers, d \in Executions : Owns(w, d)' <=> Owns(w, d)
        BY <1>3 DEF CommitCancel, Owns
    <2>2. Holders' = Holders
        BY <2>1 DEF Holders
    <2>3. CASE status' = status
        BY <2>1, <2>3, QueueStays
    <2>4. CASE status' = [status EXCEPT ![e] = "cancelled"]
        <3>1. Phases' = [Phases EXCEPT ![e] = "settled"]
            <4>1. /\ Phase(status'[e]) = "settled"
                  /\ \A d \in Executions \ {e} : status'[d] = status[d]
                BY <2>4 DEF Phase
            <4> QED
                BY <4>1 DEF Phases
        <3>2. status[e] # "absent"
            BY <1>3 DEF CommitCancel, ReadInvariant
        <3>3. Phases[e] \in {"waiting", "taken", "settled"}
            BY <3>2 DEF Phases, Phase
        <3>4. CASE Phases[e] = "waiting"
            BY <2>2, <3>1, <3>4, QueueWithdraws
        <3>5. CASE Phases[e] = "taken"
            <4>1. Phases' = [d \in Executions |-> IF d \in {e} THEN "settled" ELSE Phases[d]]
                BY <3>1 DEF Phases
            <4>2. {e} \in SUBSET Executions /\ \A d \in {e} : Phases[d] = "taken"
                BY <3>5
            <4> QED
                BY <2>2, <4>1, <4>2, QueueSettles
        <3>6. CASE Phases[e] = "settled"
            <4>1. Phases' = Phases
                BY <3>1, <3>6 DEF Phases
            <4> QED
                BY <2>2, <4>1, QueueStutters
        <3> QED
            BY <3>3, <3>4, <3>5, <3>6
    <2> QED
        BY <1>3, <2>3, <2>4 DEF CommitCancel
<1>4. ASSUME NEW e \in Executions, HeartbeatLapses(e) PROVE [Queue!Next]_(Queue!vars)
    <2>1. \A v \in Workers, d \in Executions : Owns(v, d)' <=> Owns(v, d)
        BY <1>4 DEF HeartbeatLapses, tables, Owns
    <2>2. status' = status
        BY <1>4 DEF HeartbeatLapses, tables
    <2> QED
        BY <2>1, <2>2, QueueStays
<1>5. ASSUME NEW w \in Workers, NEW e \in Executions, RecoverEngine(w, e)
      PROVE  [Queue!Next]_(Queue!vars)
    <2>1. status' = FlushSweep(w)
        BY <1>5 DEF RecoverEngine
    <2>2. \A v \in Workers, d \in Executions : Owns(v, d)' <=> Owns(v, d)
        BY <1>5 DEF RecoverEngine, Owns
    <2> QED
        BY <2>1, <2>2, QueueFlushes
<1>6. ASSUME NEW w \in Workers, NEW e \in Executions, RecoverWithoutEngine(w, e)
      PROVE  [Queue!Next]_(Queue!vars)
    <2>1. \A v \in Workers, d \in Executions : Owns(v, d)' <=> Owns(v, d)
        BY <1>6 DEF RecoverWithoutEngine, tables, Owns
    <2>2. status' = status
        BY <1>6 DEF RecoverWithoutEngine, tables
    <2> QED
        BY <2>1, <2>2, QueueStays
<1>7. ASSUME NEW w \in Workers, Boot(w) PROVE [Queue!Next]_(Queue!vars)
    <2>1. \A v \in Workers, d \in Executions : Owns(v, d)' <=> Owns(v, d)
        BY <1>7 DEF Boot, tables, Owns
    <2>2. status' = status
        BY <1>7 DEF Boot, tables
    <2> QED
        BY <2>1, <2>2, QueueStays
<1>8. ASSUME NEW w \in Workers, SelectStale(w) PROVE [Queue!Next]_(Queue!vars)
    <2>1. \A v \in Workers, d \in Executions : Owns(v, d)' <=> Owns(v, d)
        BY <1>8 DEF SelectStale, tables, Owns
    <2>2. status' = status
        BY <1>8 DEF SelectStale, tables
    <2> QED
        BY <2>1, <2>2, QueueStays
<1>9. ASSUME NEW w \in Workers, CommitRecovery(w) PROVE [Queue!Next]_(Queue!vars)
    <2>1. status' = FlushSweep(w)
        BY <1>9 DEF CommitRecovery
    <2>2. \A v \in Workers, d \in Executions : Owns(v, d)' <=> Owns(v, d)
        BY <1>9 DEF CommitRecovery, Owns
    <2> QED
        BY <2>1, <2>2, QueueFlushes
<1>10. ASSUME NEW w \in Workers, PollNothing(w) PROVE [Queue!Next]_(Queue!vars)
    <2>1. \A v \in Workers, d \in Executions : Owns(v, d)' <=> Owns(v, d)
        BY <1>10 DEF PollNothing, tables, Owns, vars
    <2>2. status' = status
        BY <1>10 DEF PollNothing, tables, vars
    <2> QED
        BY <2>1, <2>2, QueueStays
<1>11. ASSUME NEW w \in Workers, SelectQueued(w) PROVE [Queue!Next]_(Queue!vars)
    <2>1. \A v \in Workers, d \in Executions : Owns(v, d)' <=> Owns(v, d)
        BY <1>11 DEF SelectQueued, tables, Owns, Jobs
    <2>2. status' = status
        BY <1>11 DEF SelectQueued, tables
    <2> QED
        BY <2>1, <2>2, QueueStays
<1>12. ASSUME NEW w \in Workers, ClaimQueued(w) PROVE [Queue!Next]_(Queue!vars)
    <2>1. PICK e \in Executions : e = job[w].exec
        BY <1>12 DEF ClaimQueued, ClaimInvariant
    <2>2. status[e] = "queued" /\ status' = [status EXCEPT ![e] = "running"]
        BY <1>12, <2>1 DEF ClaimQueued, ClaimGuard
    <2>3. Phases[e] = "waiting"
        BY <2>2 DEF Phases, Phase
    <2>4. Phase(status'[e]) = "taken" /\ \A d \in Executions \ {e} : status'[d] = status[d]
        BY <2>2 DEF Phase
    <2>5. Phases' = [Phases EXCEPT ![e] = "taken"]
        BY <2>4 DEF Phases
    <2>6. \A v \in Workers : ~Owns(v, e)
        BY <2>2 DEF ClaimInvariant, Taken
    <2>7. \A v \in Workers, d \in Executions :
            Owns(v, d)' <=> Owns(v, d) \/ (v = w /\ d = e)
        BY <1>12, <2>1 DEF ClaimQueued, Owns
    <2>8. Holders' = [Holders EXCEPT ![e] = {w}]
        <3>1. {v \in Workers : Owns(v, e)'} = {w}
            BY <2>6, <2>7
        <3>2. ASSUME NEW d \in Executions \ {e}
              PROVE  {v \in Workers : Owns(v, d)'} = {v \in Workers : Owns(v, d)}
            BY <2>7
        <3> QED
            BY <3>1, <3>2 DEF Holders
    <2> QED
        BY <2>3, <2>5, <2>8, QueueTakes
<1>13. ASSUME NEW w \in Workers, LoseClaim(w) PROVE [Queue!Next]_(Queue!vars)
    <2>1. \A v \in Workers, d \in Executions : Owns(v, d)' <=> Owns(v, d)
        BY <1>13 DEF LoseClaim, tables, Owns, Release
    <2>2. status' = status
        BY <1>13 DEF LoseClaim, tables
    <2> QED
        BY <2>1, <2>2, QueueStays
<1>14. ASSUME NEW w \in Workers, SkipNotRunning(w) PROVE [Queue!Next]_(Queue!vars)
    <2>1. PICK e \in Executions : e = job[w].exec /\ Owns(w, e)
        BY <1>14 DEF SkipNotRunning, ClaimInvariant, Owns
    <2>2. KeepsOthers(w) /\ pc'[w] \notin Busy
        BY <1>14 DEF SkipNotRunning, Release, KeepsOthers
    <2>3. status' = status \/ \E s \in Settled : status' = [status EXCEPT ![e] = s]
        BY <1>14, <2>1 DEF SkipNotRunning, tables
    <2> QED
        BY <2>1, <2>2, <2>3, QueueReleases
<1>15. ASSUME NEW w \in Workers, AcceptScan(w) PROVE [Queue!Next]_(Queue!vars)
    <2>1. \A v \in Workers, d \in Executions : Owns(v, d)' <=> Owns(v, d)
        BY <1>15 DEF AcceptScan, tables, Owns, Jobs
    <2>2. status' = status
        BY <1>15 DEF AcceptScan, tables
    <2> QED
        BY <2>1, <2>2, QueueStays
<1>16. ASSUME NEW w \in Workers, RejectScan(w) PROVE [Queue!Next]_(Queue!vars)
    <2>1. \A v \in Workers, d \in Executions : Owns(v, d)' <=> Owns(v, d)
        BY <1>16 DEF RejectScan, tables, Owns
    <2>2. status' = status
        BY <1>16 DEF RejectScan, tables
    <2> QED
        BY <2>1, <2>2, QueueStays
<1>17. ASSUME NEW w \in Workers, StartEngine(w) PROVE [Queue!Next]_(Queue!vars)
    <2>1. \A v \in Workers, d \in Executions : Owns(v, d)' <=> Owns(v, d)
        BY <1>17 DEF StartEngine, tables, Owns, Jobs
    <2>2. status' = status
        BY <1>17 DEF StartEngine, tables
    <2> QED
        BY <2>1, <2>2, QueueStays
<1>18. ASSUME NEW w \in Workers, EngineReturns(w) PROVE [Queue!Next]_(Queue!vars)
    <2>1. \A v \in Workers, d \in Executions : Owns(v, d)' <=> Owns(v, d)
        BY <1>18 DEF EngineReturns, tables, Owns, Jobs
    <2>2. status' = status
        BY <1>18 DEF EngineReturns, tables
    <2> QED
        BY <2>1, <2>2, QueueStays
<1>19. ASSUME NEW w \in Workers, EngineFailsPartially(w) PROVE [Queue!Next]_(Queue!vars)
    <2>1. \A v \in Workers, d \in Executions : Owns(v, d)' <=> Owns(v, d)
        BY <1>19 DEF EngineFailsPartially, tables, Owns, Jobs
    <2>2. status' = status
        BY <1>19 DEF EngineFailsPartially, tables
    <2> QED
        BY <2>1, <2>2, QueueStays
<1>20. ASSUME NEW w \in Workers, EngineRaises(w) PROVE [Queue!Next]_(Queue!vars)
    <2>1. \A v \in Workers, d \in Executions : Owns(v, d)' <=> Owns(v, d)
        BY <1>20 DEF EngineRaises, tables, Owns
    <2>2. status' = status
        BY <1>20 DEF EngineRaises, tables
    <2> QED
        BY <2>1, <2>2, QueueStays
<1>21. ASSUME NEW w \in Workers, PersistResults(w) PROVE [Queue!Next]_(Queue!vars)
    <2>1. \A v \in Workers, d \in Executions : Owns(v, d)' <=> Owns(v, d)
        BY <1>21 DEF PersistResults, tables, Owns
    <2>2. status' = status
        BY <1>21 DEF PersistResults, tables
    <2> QED
        BY <2>1, <2>2, QueueStays
<1>22. ASSUME NEW w \in Workers, FinishEngine(w) PROVE [Queue!Next]_(Queue!vars)
    <2>1. \A v \in Workers, d \in Executions : Owns(v, d)' <=> Owns(v, d)
        BY <1>22 DEF FinishEngine, tables, Owns, Jobs
    <2>2. status' = status
        BY <1>22 DEF FinishEngine, tables
    <2> QED
        BY <2>1, <2>2, QueueStays
<1>23. ASSUME NEW w \in Workers, HonourCancel(w) PROVE [Queue!Next]_(Queue!vars)
    <2>1. PICK e \in Executions : e = job[w].exec /\ Owns(w, e)
        BY <1>23 DEF HonourCancel, ClaimInvariant, Owns
    <2>2. KeepsOthers(w) /\ pc'[w] \notin Busy
        BY <1>23 DEF HonourCancel, Release, KeepsOthers
    <2>3. status' = status \/ \E s \in Settled : status' = [status EXCEPT ![e] = s]
        BY <1>23, <2>1 DEF HonourCancel, tables
    <2> QED
        BY <2>1, <2>2, <2>3, QueueReleases
<1>24. ASSUME NEW w \in Workers, PassCancelCheck(w) PROVE [Queue!Next]_(Queue!vars)
    <2>1. \A v \in Workers, d \in Executions : Owns(v, d)' <=> Owns(v, d)
        BY <1>24 DEF PassCancelCheck, tables, Owns
    <2>2. status' = status
        BY <1>24 DEF PassCancelCheck, tables
    <2> QED
        BY <2>1, <2>2, QueueStays
<1>25. ASSUME NEW w \in Workers, Finalize(w) PROVE [Queue!Next]_(Queue!vars)
    <2>1. PICK e \in Executions : e = job[w].exec /\ Owns(w, e)
        BY <1>25 DEF Finalize, ClaimInvariant, Owns
    <2>2. KeepsOthers(w) /\ pc'[w] \notin Busy
        BY <1>25 DEF Finalize, Release, KeepsOthers
    <2>3. status' = status \/ \E s \in Settled : status' = [status EXCEPT ![e] = s]
        BY <1>25, <2>1 DEF Finalize, tables, Outcome
    <2> QED
        BY <2>1, <2>2, <2>3, QueueReleases
<1>26. ASSUME NEW w \in Workers, FailRunningEngine(w) PROVE [Queue!Next]_(Queue!vars)
    <2>1. \A v \in Workers, d \in Executions : Owns(v, d)' <=> Owns(v, d)
        BY <1>26 DEF FailRunningEngine, tables, Owns
    <2>2. status' = status
        BY <1>26 DEF FailRunningEngine, tables
    <2> QED
        BY <2>1, <2>2, QueueStays
<1>27. ASSUME NEW w \in Workers, FailExecution(w) PROVE [Queue!Next]_(Queue!vars)
    <2>1. PICK e \in Executions : e = job[w].exec /\ Owns(w, e)
        BY <1>27 DEF FailExecution, ClaimInvariant, Owns
    <2>2. KeepsOthers(w) /\ pc'[w] \notin Busy
        BY <1>27 DEF FailExecution, Release, KeepsOthers
    <2>3. status' = status \/ \E s \in Settled : status' = [status EXCEPT ![e] = s]
        BY <1>27, <2>1 DEF FailExecution, tables, FailureStatus
    <2> QED
        BY <2>1, <2>2, <2>3, QueueReleases
<1>28. ASSUME NEW w \in Workers, Interrupt(w) PROVE [Queue!Next]_(Queue!vars)
    <2>1. \A v \in Workers, d \in Executions : Owns(v, d)' <=> Owns(v, d)
        BY <1>28 DEF Interrupt, tables, Owns
    <2>2. status' = status
        BY <1>28 DEF Interrupt, tables
    <2> QED
        BY <2>1, <2>2, QueueStays
<1>29. ASSUME NEW w \in Workers, Stop(w) PROVE [Queue!Next]_(Queue!vars)
    <2>1. \A v \in Workers, d \in Executions : Owns(v, d)' <=> Owns(v, d)
        BY <1>29 DEF Stop, tables, Owns
    <2>2. status' = status
        BY <1>29 DEF Stop, tables
    <2> QED
        BY <2>1, <2>2, QueueStays
<1>30. ASSUME NEW w \in Workers, DatabaseError(w) PROVE [Queue!Next]_(Queue!vars)
    <2>1. \A v \in Workers, d \in Executions : Owns(v, d)' <=> Owns(v, d)
        BY <1>30 DEF DatabaseError, tables, Owns
    <2>2. status' = status
        BY <1>30 DEF DatabaseError, tables
    <2> QED
        BY <2>1, <2>2, QueueStays
<1>31. ASSUME NEW w \in Workers, ClaimError(w) PROVE [Queue!Next]_(Queue!vars)
    <2>1. \A v \in Workers, d \in Executions : Owns(v, d)' <=> Owns(v, d)
        BY <1>31 DEF ClaimError, tables, Owns, Release
    <2>2. status' = status
        BY <1>31 DEF ClaimError, tables
    <2> QED
        BY <2>1, <2>2, QueueStays
<1>32. ASSUME NEW w \in Workers, HandlerError(w) PROVE [Queue!Next]_(Queue!vars)
    <2>1. PICK e \in Executions : e = job[w].exec /\ Owns(w, e)
        BY <1>32 DEF HandlerError, ClaimInvariant, Owns
    <2>2. KeepsOthers(w) /\ pc'[w] \notin Busy
        BY <1>32 DEF HandlerError, Release, KeepsOthers
    <2>3. status' = status \/ \E s \in Settled : status' = [status EXCEPT ![e] = s]
        BY <1>32, <2>1 DEF HandlerError, tables
    <2> QED
        BY <2>1, <2>2, <2>3, QueueReleases
<1>33. ASSUME NEW w \in Workers, Signal(w) PROVE [Queue!Next]_(Queue!vars)
    <2>1. \A v \in Workers, d \in Executions : Owns(v, d)' <=> Owns(v, d)
        BY <1>33 DEF Signal, tables, Owns
    <2>2. status' = status
        BY <1>33 DEF Signal, tables
    <2> QED
        BY <2>1, <2>2, QueueStays
<1>34. ASSUME NEW w \in Workers, Crash(w) PROVE [Queue!Next]_(Queue!vars)
    <2>1. KeepsOthers(w) /\ pc'[w] \notin Busy /\ status' = status
        BY <1>34 DEF Crash, KeepsOthers, tables
    <2>2. CASE pc[w] \in Busy
        <3>1. PICK e \in Executions : e = job[w].exec /\ Owns(w, e)
            BY <2>2 DEF ClaimInvariant, Owns
        <3> QED
            BY <2>1, <3>1, QueueReleases
    <2>3. CASE pc[w] \notin Busy
        <3>1. \A v \in Workers, d \in Executions : Owns(v, d)' <=> Owns(v, d)
            BY <2>1, <2>3 DEF Owns, KeepsOthers
        <3> QED
            BY <2>1, <3>1, QueueStays
    <2> QED
        BY <2>2, <2>3
<1>35. ASSUME NEW w \in Workers, Heartbeat(w) PROVE [Queue!Next]_(Queue!vars)
    <2>1. \A v \in Workers, d \in Executions : Owns(v, d)' <=> Owns(v, d)
        BY <1>35 DEF Heartbeat, tables, Owns
    <2>2. status' = status
        BY <1>35 DEF Heartbeat, tables
    <2> QED
        BY <2>1, <2>2, QueueStays
<1>36. CASE UNCHANGED vars
    <2>1. \A v \in Workers, d \in Executions : Owns(v, d)' <=> Owns(v, d)
        BY <1>36 DEF vars, tables, Owns
    <2>2. status' = status
        BY <1>36 DEF vars, tables
    <2> QED
        BY <2>1, <2>2, QueueStays
<1>37. ASSUME NEW w \in Workers, NEW e \in Executions, FindRunningEngine(w, e)
      PROVE  [Queue!Next]_(Queue!vars)
    <2>1. \A v \in Workers, d \in Executions : Owns(v, d)' <=> Owns(v, d)
        BY <1>37 DEF FindRunningEngine, tables, Owns
    <2>2. status' = status
        BY <1>37 DEF FindRunningEngine, tables
    <2> QED
        BY <2>1, <2>2, QueueStays
<1> QED
    BY <1>1, <1>2, <1>3, <1>4, <1>5, <1>6, <1>7, <1>8, <1>9, <1>10, <1>11, <1>12,
       <1>13, <1>14, <1>15, <1>16, <1>17, <1>18, <1>19, <1>20, <1>21, <1>22, <1>23,
       <1>24, <1>25, <1>26, <1>27, <1>28, <1>29, <1>30, <1>31, <1>32, <1>33, <1>34,
       <1>35, <1>36, <1>37
       DEF Next, WorkerStep, FaultStep, Recover, Claim, RunEngines, HandleFailure

\* ScanExecutions implements ScanQueue: QueuePromise.  Whatever fails, an execution is
\* handed to one worker, once, and what left the queue never returns.
THEOREM QueueIsImplemented == Spec => QueuePromise
<1>1. Init => ClaimInvariant /\ ReadInvariant
    BY DEF Init, ClaimInvariant, ExclusiveClaim, Owns, ReadInvariant, Sweeping, NoSweep
<1>2. Init => Queue!Init
    <2> SUFFICES ASSUME Init PROVE Queue!Init
        OBVIOUS
    <2>1. Phases = [e \in Executions |-> "new"]
        BY DEF Init, Phases, Phase
    <2>2. Holders = [e \in Executions |-> {}]
        BY DEF Init, Holders, Owns
    <2> QED
        BY <2>1, <2>2 DEF Queue!Init, Queue!Executions
<1> QED
    BY <1>1, <1>2, TypeCorrect, ClaimStep, ReadStep, QueueStep, PTL
       DEF Spec, QueuePromise, Queue!Spec

----------------------------------------------------------------------------
(* The hosts of a scan are committed before anything after Nmap can fail.  *)

\* Nmap's answer is saved unless the worker is just about to save it, and a worker
\* that runs nothing remembers no hosts.
HostsInvariant ==
    /\ \A w \in Workers : pc[w] \notin Busy => ~job[w].hosts
    /\ used["database"] = 0 =>
        \A w \in Workers :
            job[w].hosts /\ ~(pc[w] = "persist" /\ job[w].engine = "nmap")
                => saved[job[w].exec]

\* HostsInvariant is inductive relative to the types and the claims, one step per action.
LEMMA HostsStep ==
    TypeOK /\ ClaimInvariant /\ HostsInvariant /\ [Next]_vars => HostsInvariant'
<1> SUFFICES ASSUME TypeOK, ClaimInvariant, HostsInvariant, [Next]_vars
             PROVE  HostsInvariant'
    OBVIOUS
<1> USE DEF TypeOK
<1>1. ASSUME NEW e \in Executions, CreateExecution(e) PROVE HostsInvariant'
    BY <1>1 DEF CreateExecution, tables, HostsInvariant
<1>2. ASSUME NEW e \in Executions, ReadForCancel(e) PROVE HostsInvariant'
    BY <1>2 DEF ReadForCancel, tables, HostsInvariant
<1>3. ASSUME NEW e \in Executions, CommitCancel(e) PROVE HostsInvariant'
    BY <1>3 DEF CommitCancel, tables, HostsInvariant
<1>4. ASSUME NEW e \in Executions, HeartbeatLapses(e) PROVE HostsInvariant'
    BY <1>4 DEF HeartbeatLapses, tables, HostsInvariant
<1>5. ASSUME NEW w \in Workers, NEW e \in Executions, RecoverEngine(w, e)
      PROVE  HostsInvariant'
    BY <1>5 DEF RecoverEngine, tables, HostsInvariant
<1>6. ASSUME NEW w \in Workers, NEW e \in Executions, RecoverWithoutEngine(w, e)
      PROVE  HostsInvariant'
    BY <1>6 DEF RecoverWithoutEngine, tables, HostsInvariant
<1>7. ASSUME NEW w \in Workers, Boot(w) PROVE HostsInvariant'
    BY <1>7 DEF Boot, tables, HostsInvariant
<1>8. ASSUME NEW w \in Workers, SelectStale(w) PROVE HostsInvariant'
    BY <1>8 DEF SelectStale, tables, HostsInvariant
<1>9. ASSUME NEW w \in Workers, CommitRecovery(w) PROVE HostsInvariant'
    BY <1>9 DEF CommitRecovery, tables, HostsInvariant
<1>10. ASSUME NEW w \in Workers, PollNothing(w) PROVE HostsInvariant'
    BY <1>10 DEF PollNothing, tables, HostsInvariant, vars
<1>11. ASSUME NEW w \in Workers, SelectQueued(w) PROVE HostsInvariant'
    BY <1>11 DEF SelectQueued, tables, HostsInvariant, Jobs
<1>12. ASSUME NEW w \in Workers, ClaimQueued(w) PROVE HostsInvariant'
    BY <1>12 DEF ClaimQueued, tables, HostsInvariant
<1>13. ASSUME NEW w \in Workers, LoseClaim(w) PROVE HostsInvariant'
    BY <1>13 DEF LoseClaim, tables, HostsInvariant, Release, NoJob
<1>14. ASSUME NEW w \in Workers, SkipNotRunning(w) PROVE HostsInvariant'
    BY <1>14 DEF SkipNotRunning, tables, HostsInvariant, Release, NoJob
<1>15. ASSUME NEW w \in Workers, AcceptScan(w) PROVE HostsInvariant'
    BY <1>15 DEF AcceptScan, tables, HostsInvariant, Jobs
<1>16. ASSUME NEW w \in Workers, RejectScan(w) PROVE HostsInvariant'
    BY <1>16 DEF RejectScan, tables, HostsInvariant
<1>17. ASSUME NEW w \in Workers, StartEngine(w) PROVE HostsInvariant'
    BY <1>17 DEF StartEngine, tables, HostsInvariant, Jobs
<1>18. ASSUME NEW w \in Workers, EngineReturns(w) PROVE HostsInvariant'
    BY <1>18 DEF EngineReturns, tables, HostsInvariant, Jobs
<1>19. ASSUME NEW w \in Workers, EngineFailsPartially(w) PROVE HostsInvariant'
    BY <1>19 DEF EngineFailsPartially, tables, HostsInvariant, Jobs
<1>20. ASSUME NEW w \in Workers, EngineRaises(w) PROVE HostsInvariant'
    BY <1>20 DEF EngineRaises, tables, HostsInvariant
<1>21. ASSUME NEW w \in Workers, PersistResults(w) PROVE HostsInvariant'
    <2>1. job[w].exec \in Executions
        BY <1>21 DEF PersistResults, ClaimInvariant
    <2>2. /\ job' = job /\ used' = used /\ pc' = [pc EXCEPT ![w] = "finish"]
          /\ \A e \in Executions : saved[e] => saved'[e]
        BY <1>21, <2>1 DEF PersistResults
    <2>3. job[w].hosts /\ job[w].engine = "nmap" => saved'[job[w].exec]
        BY <1>21, <2>1 DEF PersistResults, SavesHosts
    <2>4. \A v \in Workers : job[v].hosts => job[v].exec \in Executions
        BY DEF ClaimInvariant, HostsInvariant
    <2> QED
        BY <1>21, <2>2, <2>3, <2>4 DEF PersistResults, HostsInvariant
<1>22. ASSUME NEW w \in Workers, FinishEngine(w) PROVE HostsInvariant'
    BY <1>22 DEF FinishEngine, tables, HostsInvariant, Jobs
<1>23. ASSUME NEW w \in Workers, HonourCancel(w) PROVE HostsInvariant'
    BY <1>23 DEF HonourCancel, tables, HostsInvariant, Release, NoJob
<1>24. ASSUME NEW w \in Workers, PassCancelCheck(w) PROVE HostsInvariant'
    BY <1>24 DEF PassCancelCheck, tables, HostsInvariant
<1>25. ASSUME NEW w \in Workers, Finalize(w) PROVE HostsInvariant'
    BY <1>25 DEF Finalize, tables, HostsInvariant, Release, NoJob
<1>26. ASSUME NEW w \in Workers, FailRunningEngine(w) PROVE HostsInvariant'
    BY <1>26 DEF FailRunningEngine, tables, HostsInvariant
<1>27. ASSUME NEW w \in Workers, FailExecution(w) PROVE HostsInvariant'
    BY <1>27 DEF FailExecution, tables, HostsInvariant, Release, NoJob
<1>28. ASSUME NEW w \in Workers, Interrupt(w) PROVE HostsInvariant'
    BY <1>28 DEF Interrupt, tables, HostsInvariant
<1>29. ASSUME NEW w \in Workers, Stop(w) PROVE HostsInvariant'
    BY <1>29 DEF Stop, tables, HostsInvariant
<1>30. ASSUME NEW w \in Workers, DatabaseError(w) PROVE HostsInvariant'
    BY <1>30 DEF DatabaseError, tables, HostsInvariant, Spend, Faults
<1>31. ASSUME NEW w \in Workers, ClaimError(w) PROVE HostsInvariant'
    BY <1>31 DEF ClaimError, tables, HostsInvariant, Release, NoJob, Spend, Faults
<1>32. ASSUME NEW w \in Workers, HandlerError(w) PROVE HostsInvariant'
    BY <1>32 DEF HandlerError, tables, HostsInvariant, Release, NoJob, Spend, Faults
<1>33. ASSUME NEW w \in Workers, Signal(w) PROVE HostsInvariant'
    BY <1>33 DEF Signal, tables, HostsInvariant, Spend, Faults
<1>34. ASSUME NEW w \in Workers, Crash(w) PROVE HostsInvariant'
    BY <1>34 DEF Crash, tables, HostsInvariant, Spend, Faults, NoJob
<1>35. ASSUME NEW w \in Workers, Heartbeat(w) PROVE HostsInvariant'
    BY <1>35 DEF Heartbeat, tables, HostsInvariant
<1>36. CASE UNCHANGED vars
    BY <1>36 DEF vars, tables, HostsInvariant
<1>37. ASSUME NEW w \in Workers, NEW e \in Executions, FindRunningEngine(w, e)
      PROVE  HostsInvariant'
    BY <1>37 DEF FindRunningEngine, tables, HostsInvariant
<1> QED
    BY <1>1, <1>2, <1>3, <1>4, <1>5, <1>6, <1>7, <1>8, <1>9, <1>10, <1>11, <1>12,
       <1>13, <1>14, <1>15, <1>16, <1>17, <1>18, <1>19, <1>20, <1>21, <1>22, <1>23,
       <1>24, <1>25, <1>26, <1>27, <1>28, <1>29, <1>30, <1>31, <1>32, <1>33, <1>34,
       <1>35, <1>36, <1>37
       DEF Next, WorkerStep, FaultStep, Recover, Claim, RunEngines, HandleFailure

\* Spec keeps HostsKeptOnFailure: what Nmap reported is in the inventory when a later
\* failure is handled, unless the database failed.
THEOREM HostsAreKept == Spec => []HostsKeptOnFailure
<1>1. Init => ClaimInvariant /\ HostsInvariant
    BY DEF Init, ClaimInvariant, ExclusiveClaim, Owns, HostsInvariant, NoJob
<1>2. HostsInvariant => HostsKeptOnFailure
    BY DEF HostsInvariant, HostsKeptOnFailure
<1> QED
    BY <1>1, <1>2, TypeCorrect, ClaimStep, HostsStep, PTL DEF Spec

----------------------------------------------------------------------------
(* A settled scan shows no running engine, and its outcome is rewritten     *)
(* only by a race with a cancel, where a live worker's heartbeats arrive:   *)
(* what a recovery takes for lost is then lost, so that every row has one   *)
(* writer at a time, its worker or the recoveries.                          *)

\* Per row: a worker's own execution is fresh and has no outcome but a late cancel;
\* a recovery has only lost ones in its list; those it has visited run no engine, and the
\* one it has in hand none but the engine it found.
HeldRow(e) == Owned(e) => fresh[e] /\ status[e] \in {"running", "cancelled"}
SweptRow(e) ==
    \A w \in Workers : Sweeping(w, e) =>
        ~Owned(e) /\ status[e] \in {"running", "cancelled", "failed"}
VisitedRow(e) == \A w \in Workers : e \in sweep[w].pending => RunningEngines(e) = {}
FoundRow(e) ==
    \A w \in Workers : e = sweep[w].exec => RunningEngines(e) \subseteq {sweep[w].engine}
SettledRow(e) ==
    status[e] \in Settled \ {"cancelled"} /\ ~Owned(e) => RunningEngines(e) = {}

RowInvariant(e) ==
    HeldRow(e) /\ SweptRow(e) /\ VisitedRow(e) /\ FoundRow(e) /\ SettledRow(e)

OutcomeInvariant == \A e \in Executions : RowInvariant(e)

\* No worker takes a row or lets it go stale; no recovery takes one into its list.
NothingTaken == \A e \in Executions : Owned(e)' => Owned(e) /\ fresh'[e]
NothingSwept ==
    \A w \in Workers, e \in Executions :
        /\ Sweeping(w, e)' => Sweeping(w, e)
        /\ e \in sweep'[w].pending => e \in sweep[w].pending
        /\ e = sweep'[w].exec => e = sweep[w].exec /\ sweep'[w].engine = sweep[w].engine

\* A step that writes no status and starts no engine.
LEMMA OutcomeQuiet ==
    ASSUME OutcomeInvariant, status' = status, EndsRuns, NothingTaken, NothingSwept
    PROVE  OutcomeInvariant'
<1> SUFFICES ASSUME NEW e \in Executions
             PROVE  RowInvariant(e)'
    BY DEF OutcomeInvariant
<1>1. RowInvariant(e)
    BY DEF OutcomeInvariant
<1>2. HeldRow(e)'
    BY <1>1 DEF RowInvariant, HeldRow, NothingTaken
<1>3. SweptRow(e)'
    BY <1>1 DEF RowInvariant, SweptRow, NothingTaken, NothingSwept
<1>4. VisitedRow(e)'
    BY <1>1 DEF RowInvariant, VisitedRow, NothingSwept, EndsRuns
<1>5. SettledRow(e)'
    BY <1>1 DEF RowInvariant, SettledRow, HeldRow, NothingTaken, EndsRuns
<1>6. FoundRow(e)'
    BY <1>1 DEF RowInvariant, FoundRow, NothingSwept, EndsRuns
<1> QED
    BY <1>2, <1>3, <1>4, <1>5, <1>6 DEF RowInvariant

\* The holder writes the outcome of an execution without a running engine and lets go.
LEMMA OutcomeWritten ==
    ASSUME ClaimInvariant, OutcomeInvariant, NEW w \in Workers, NEW e \in Executions,
           Owns(w, e), RunningEngines(e) = {}, NEW s \in Settled,
           status' = [status EXCEPT ![e] = s], status \in [Executions -> Statuses],
           KeepsOthers(w), pc'[w] = "idle",
           engineRun' = engineRun, fresh' = fresh, sweep' = sweep
    PROVE  OutcomeInvariant'
<1>1. ~Owned(e)' /\ \A d \in Executions : Owned(d)' => Owned(d)
    BY DEF Owned, Owns, KeepsOthers, ClaimInvariant, ExclusiveClaim
<1>2. \A v \in Workers : ~Sweeping(v, e)
    BY DEF OutcomeInvariant, RowInvariant, SweptRow, Owned
<1> SUFFICES ASSUME NEW d \in Executions
             PROVE  RowInvariant(d)'
    BY DEF OutcomeInvariant
<1>3. RowInvariant(d)
    BY DEF OutcomeInvariant
<1>4. RunningEngines(d)' = RunningEngines(d)
    BY DEF RunningEngines
<1>5. CASE d = e
    BY <1>1, <1>2, <1>4, <1>5 DEF RowInvariant, HeldRow, SweptRow, VisitedRow, FoundRow, SettledRow, Sweeping
<1>6. CASE d # e
    BY <1>1, <1>3, <1>4, <1>6 DEF RowInvariant, HeldRow, SweptRow, VisitedRow, FoundRow, SettledRow, Sweeping
<1> QED
    BY <1>5, <1>6

\* A recovery writes "failed" for what it has visited, and ends engines, if any; what it
\* has visited afterwards runs no engine.
LEMMA OutcomeSwept ==
    ASSUME OutcomeInvariant, NEW w \in Workers, status' = FlushSweep(w),
           pc[w] \notin Busy, pc'[w] \notin Busy, KeepsOthers(w), job' = job,
           fresh' = fresh, EndsRuns,
           \A v \in Workers \ {w} : sweep'[v] = sweep[v],
           \A e \in Executions : Sweeping(w, e)' => Sweeping(w, e),
           \A e \in Executions : e \in sweep'[w].pending => RunningEngines(e)' = {},
           \A e \in Executions : e # sweep'[w].exec
    PROVE  OutcomeInvariant'
<1> SUFFICES ASSUME NEW d \in Executions
             PROVE  RowInvariant(d)'
    BY DEF OutcomeInvariant
<1>1. RowInvariant(d)
    BY DEF OutcomeInvariant
<1>2. Owned(d)' <=> Owned(d)
    BY DEF Owned, Owns, KeepsOthers
<1>3. \A v \in Workers : Sweeping(v, d)' => Sweeping(v, d)
    BY DEF Sweeping
<1>4. RunningEngines(d)' \subseteq RunningEngines(d)
    BY DEF EndsRuns
<1>5. VisitedRow(d)'
    <2> SUFFICES ASSUME NEW v \in Workers, d \in sweep'[v].pending
                 PROVE  RunningEngines(d)' = {}
        BY DEF VisitedRow
    <2>1. CASE v = w
        BY <2>1
    <2>2. CASE v # w
        BY <2>2, <1>1, <1>4 DEF RowInvariant, VisitedRow
    <2> QED
        BY <2>1, <2>2
<1>6. FoundRow(d)'
    BY <1>1, <1>4 DEF RowInvariant, FoundRow
<1>7. CASE d \in sweep[w].pending
    <2>1. status'[d] = "failed" /\ ~Owned(d) /\ RunningEngines(d) = {}
        BY <1>1, <1>7 DEF FlushSweep, RowInvariant, SweptRow, VisitedRow, Sweeping
    <2> QED
        BY <1>2, <1>4, <1>5, <1>6, <2>1 DEF RowInvariant, HeldRow, SweptRow, SettledRow
<1>8. CASE d \notin sweep[w].pending
    <2>1. status'[d] = status[d]
        BY <1>8 DEF FlushSweep
    <2> QED
        BY <1>1, <1>2, <1>3, <1>4, <1>5, <1>6, <2>1
           DEF RowInvariant, HeldRow, SweptRow, SettledRow
<1> QED
    BY <1>7, <1>8

\* OutcomeInvariant is inductive where the heartbeats of a live worker arrive.
LEMMA OutcomeStep ==
    ASSUME ~HeartbeatsMayFail
    PROVE  TypeOK /\ ClaimInvariant /\ EngineInvariant /\ OutcomeInvariant /\ [Next]_vars
               => OutcomeInvariant'
<1> SUFFICES ASSUME TypeOK, ClaimInvariant, EngineInvariant, OutcomeInvariant, [Next]_vars
             PROVE  OutcomeInvariant'
    OBVIOUS
<1> USE DEF TypeOK
<1>0. \A d \in Executions : Owned(d) => fresh[d]
    BY DEF OutcomeInvariant, RowInvariant, HeldRow
<1>1. ASSUME NEW e \in Executions, CreateExecution(e) PROVE OutcomeInvariant'
    <2>1. \A d \in Executions : Owned(d)' <=> Owned(d)
        BY <1>1 DEF CreateExecution, Owned, Owns
    <2>2. ~Owned(e) /\ \A w \in Workers : ~Sweeping(w, e)
        BY <1>1 DEF CreateExecution, OutcomeInvariant, RowInvariant, HeldRow, SweptRow
    <2>3. ASSUME NEW d \in Executions
          PROVE  RowInvariant(d)'
        BY <1>1, <2>1, <2>2 DEF CreateExecution, OutcomeInvariant, RowInvariant, HeldRow, SweptRow,
           VisitedRow, FoundRow, SettledRow, Sweeping, RunningEngines
    <2> QED
        BY <2>3 DEF OutcomeInvariant
<1>2. ASSUME NEW e \in Executions, ReadForCancel(e) PROVE OutcomeInvariant'
    <2>1. status' = status /\ EndsRuns /\ NothingSwept
        BY <1>2
           DEF ReadForCancel, tables, EndsRuns, RunningEngines, NothingSwept, Sweeping
    <2>2. NothingTaken
        BY <1>0, <1>2 DEF ReadForCancel, tables, NothingTaken, Owned, Owns
    <2> QED
        BY <2>1, <2>2, OutcomeQuiet
<1>3. ASSUME NEW e \in Executions, CommitCancel(e) PROVE OutcomeInvariant'
    <2>1. \A d \in Executions : Owned(d)' <=> Owned(d)
        BY <1>3 DEF CommitCancel, Owned, Owns
    <2>2. \A d \in Executions : status'[d] \in {status[d], "cancelled"}
        BY <1>3 DEF CommitCancel
    <2>3. ASSUME NEW d \in Executions
          PROVE  RowInvariant(d)'
        BY <1>3, <2>1, <2>2 DEF CommitCancel, OutcomeInvariant, RowInvariant, HeldRow, SweptRow,
           VisitedRow, FoundRow, SettledRow, Sweeping, RunningEngines
    <2> QED
        BY <2>3 DEF OutcomeInvariant
<1>4. ASSUME NEW e \in Executions, HeartbeatLapses(e) PROVE OutcomeInvariant'
    <2>1. status' = status /\ EndsRuns /\ NothingSwept
        BY <1>4 DEF HeartbeatLapses, EndsRuns, RunningEngines, NothingSwept, Sweeping
    <2>2. NothingTaken
        BY <1>0, <1>4 DEF HeartbeatLapses, NothingTaken, Owned, Owns
    <2> QED
        BY <2>1, <2>2, OutcomeQuiet
<1>5. ASSUME NEW w \in Workers, NEW e \in Executions, RecoverEngine(w, e)
      PROVE  OutcomeInvariant'
    <2>1. engineRun' = [engineRun EXCEPT ![e][sweep[w].engine] = "failed"]
        BY <1>5 DEF RecoverEngine
    <2>2. EndsRuns
        BY <2>1 DEF EndsRuns, RunningEngines
    <2>3. RunningEngines(e) \subseteq {sweep[w].engine}
        BY <1>5 DEF RecoverEngine, OutcomeInvariant, RowInvariant, FoundRow
    <2>4. RunningEngines(e)' = {}
        BY <2>1, <2>3 DEF RunningEngines
    <2>5. /\ sweep'[w].todo = sweep[w].todo /\ sweep'[w].pending = {e}
          /\ sweep'[w].exec = NoExecution /\ e = sweep[w].exec
          /\ \A v \in Workers \ {w} : sweep'[v] = sweep[v]
        BY <1>5 DEF RecoverEngine, NoSweep, Sweeps
    <2>6. \A d \in Executions : d # NoExecution
        BY NoExecutionIsNone
    <2>7. \A d \in Executions : Sweeping(w, d)' => Sweeping(w, d)
        BY <2>5, <2>6 DEF Sweeping
    <2>8. /\ status' = FlushSweep(w) /\ job' = job /\ fresh' = fresh
          /\ pc[w] \notin Busy /\ pc'[w] \notin Busy /\ KeepsOthers(w)
        BY <1>5 DEF RecoverEngine, KeepsOthers
    <2>9. \A d \in Executions :
            /\ d \in sweep'[w].pending => RunningEngines(d)' = {}
            /\ d # sweep'[w].exec
        BY <2>4, <2>5, <2>6
    <2> QED
        BY <2>2, <2>5, <2>7, <2>8, <2>9, OutcomeSwept
<1>6. ASSUME NEW w \in Workers, NEW e \in Executions, RecoverWithoutEngine(w, e)
      PROVE  OutcomeInvariant'
    <2>1. /\ sweep'[w].todo = sweep[w].todo \ {e}
          /\ sweep'[w].pending = sweep[w].pending \union {e}
          /\ sweep'[w].exec = sweep[w].exec /\ sweep'[w].engine = sweep[w].engine
          /\ \A v \in Workers \ {w} : sweep'[v] = sweep[v]
        BY <1>6 DEF RecoverWithoutEngine, Sweeps
    <2>2. \A v \in Workers, d \in Executions : Sweeping(v, d)' => Sweeping(v, d)
        BY <1>6, <2>1 DEF RecoverWithoutEngine, Sweeping
    <2>3. /\ status' = status /\ fresh' = fresh
          /\ pc' = pc /\ job' = job /\ engineRun' = engineRun
        BY <1>6 DEF RecoverWithoutEngine, tables
    <2>4. RunningEngines(e) = {}
        BY <1>6 DEF RecoverWithoutEngine
    <2>5. ASSUME NEW d \in Executions
          PROVE  RowInvariant(d)'
        <3>1. RowInvariant(d)
            BY DEF OutcomeInvariant
        <3>2. (Owned(d)' <=> Owned(d)) /\ RunningEngines(d)' = RunningEngines(d)
            BY <2>3 DEF Owned, Owns, RunningEngines
        <3>3. HeldRow(d)' /\ SettledRow(d)' /\ SweptRow(d)'
            BY <2>2, <2>3, <3>1, <3>2 DEF RowInvariant, HeldRow, SettledRow, SweptRow
        <3>4. VisitedRow(d)' /\ FoundRow(d)'
            BY <2>1, <2>4, <3>1, <3>2 DEF RowInvariant, VisitedRow, FoundRow
        <3> QED
            BY <3>3, <3>4 DEF RowInvariant
    <2> QED
        BY <2>5 DEF OutcomeInvariant
<1>7. ASSUME NEW w \in Workers, Boot(w) PROVE OutcomeInvariant'
    <2>1. status' = status /\ EndsRuns /\ NothingSwept
        BY <1>7 DEF Boot, tables, EndsRuns, RunningEngines, NothingSwept, Sweeping
    <2>2. NothingTaken
        BY <1>0, <1>7 DEF Boot, tables, NothingTaken, Owned, Owns
    <2> QED
        BY <2>1, <2>2, OutcomeQuiet
<1>8. ASSUME NEW w \in Workers, SelectStale(w) PROVE OutcomeInvariant'
    <2>1. /\ sweep'[w].todo = StaleExecutions /\ sweep'[w].pending = sweep[w].pending
          /\ sweep'[w].exec = sweep[w].exec /\ sweep'[w].engine = sweep[w].engine
          /\ \A v \in Workers \ {w} : sweep'[v] = sweep[v]
        BY <1>8 DEF SelectStale, Sweeps
    <2>2. status' = status /\ fresh' = fresh /\ job' = job /\ engineRun' = engineRun
        BY <1>8 DEF SelectStale, tables
    <2>3. \A d \in Executions : Owned(d)' <=> Owned(d)
        BY <1>8 DEF SelectStale, Owned, Owns
    <2>4. \A d \in StaleExecutions : ~Owned(d) /\ status[d] = "running"
        BY DEF StaleExecutions, OutcomeInvariant, RowInvariant, HeldRow
    <2>5. ASSUME NEW d \in Executions
          PROVE  RowInvariant(d)'
        <3>1. RowInvariant(d)
            BY DEF OutcomeInvariant
        <3>2. HeldRow(d)' /\ SettledRow(d)'
            BY <2>2, <2>3, <3>1 DEF RowInvariant, HeldRow, SettledRow, RunningEngines
        <3>3. SweptRow(d)'
            BY <2>1, <2>2, <2>3, <2>4, <3>1 DEF RowInvariant, SweptRow, Sweeping
        <3>4. VisitedRow(d)' /\ FoundRow(d)'
            BY <2>1, <2>2, <3>1 DEF RowInvariant, VisitedRow, FoundRow, RunningEngines
        <3> QED
            BY <3>2, <3>3, <3>4 DEF RowInvariant
    <2> QED
        BY <2>5 DEF OutcomeInvariant
<1>9. ASSUME NEW w \in Workers, CommitRecovery(w) PROVE OutcomeInvariant'
    <2>1. /\ sweep'[w] = NoSweep /\ \A v \in Workers \ {w} : sweep'[v] = sweep[v]
          /\ engineRun' = engineRun /\ job' = job /\ fresh' = fresh
          /\ status' = FlushSweep(w)
        BY <1>9 DEF CommitRecovery
    <2>2. KeepsOthers(w) /\ pc[w] \notin Busy /\ pc'[w] \notin Busy
        BY <1>9 DEF CommitRecovery, KeepsOthers
    <2>3. EndsRuns
        BY <2>1 DEF EndsRuns, RunningEngines
    <2>4. \A d \in Executions :
            d \notin sweep'[w].pending /\ d # sweep'[w].exec /\ ~Sweeping(w, d)'
        BY <2>1, NoExecutionIsNone DEF NoSweep, Sweeping
    <2> QED
        BY <2>1, <2>2, <2>3, <2>4, OutcomeSwept
<1>10. ASSUME NEW w \in Workers, PollNothing(w) PROVE OutcomeInvariant'
    <2>1. status' = status /\ EndsRuns /\ NothingSwept
        BY <1>10
           DEF PollNothing, tables, EndsRuns, RunningEngines, NothingSwept, Sweeping, vars
    <2>2. NothingTaken
        BY <1>0, <1>10 DEF PollNothing, tables, NothingTaken, Owned, Owns, vars
    <2> QED
        BY <2>1, <2>2, OutcomeQuiet
<1>11. ASSUME NEW w \in Workers, SelectQueued(w) PROVE OutcomeInvariant'
    <2>1. status' = status /\ EndsRuns /\ NothingSwept
        BY <1>11
           DEF SelectQueued, tables, EndsRuns, RunningEngines, NothingSwept, Sweeping
    <2>2. NothingTaken
        BY <1>0, <1>11 DEF SelectQueued, tables, NothingTaken, Owned, Owns, Jobs
    <2> QED
        BY <2>1, <2>2, OutcomeQuiet
<1>12. ASSUME NEW w \in Workers, ClaimQueued(w) PROVE OutcomeInvariant'
    <2>1. PICK e \in Executions : e = job[w].exec
        BY <1>12 DEF ClaimInvariant, ClaimQueued
    <2>2. status[e] = "queued" /\ status'[e] = "running" /\ fresh'[e]
        BY <1>12, <2>1 DEF ClaimQueued, ClaimGuard
    <2>3. /\ KeepsOthers(w) /\ job' = job /\ engineRun' = engineRun /\ sweep' = sweep
          /\ \A d \in Executions \ {e} : status'[d] = status[d] /\ fresh'[d] = fresh[d]
        BY <1>12, <2>1 DEF KeepsOthers, ClaimQueued
    <2>4. \A v \in Workers : ~Sweeping(v, e)
        BY <2>2 DEF OutcomeInvariant, RowInvariant, SweptRow
    <2>5. \A d \in Executions \ {e} : Owned(d)' <=> Owned(d)
        BY <1>12, <2>1 DEF Owned, Owns, ClaimQueued
    <2>6. ASSUME NEW d \in Executions
          PROVE  RowInvariant(d)'
        <3>1. RowInvariant(d)
            BY DEF OutcomeInvariant
        <3>2. CASE d = e
            BY <2>2, <2>3, <2>4, <3>2
               DEF RowInvariant, HeldRow, SweptRow, VisitedRow, FoundRow, SettledRow, Sweeping
        <3>3. CASE d # e
            BY <2>3, <2>5, <3>1, <3>3
               DEF RowInvariant, HeldRow, SweptRow, VisitedRow, FoundRow, SettledRow, Sweeping, RunningEngines
        <3> QED
            BY <3>2, <3>3
    <2> QED
        BY <2>6 DEF OutcomeInvariant
<1>13. ASSUME NEW w \in Workers, LoseClaim(w) PROVE OutcomeInvariant'
    <2>1. status' = status /\ EndsRuns /\ NothingSwept
        BY <1>13 DEF LoseClaim, tables, EndsRuns, RunningEngines, NothingSwept, Sweeping
    <2>2. NothingTaken
        BY <1>0, <1>13 DEF LoseClaim, tables, NothingTaken, Owned, Owns, Release, NoJob
    <2> QED
        BY <2>1, <2>2, OutcomeQuiet
<1>14. ASSUME NEW w \in Workers, SkipNotRunning(w) PROVE OutcomeInvariant'
    <2>1. status' = status /\ EndsRuns /\ NothingSwept
        BY <1>14
           DEF SkipNotRunning, tables, EndsRuns, RunningEngines, NothingSwept, Sweeping
    <2>2. NothingTaken
        BY <1>0, <1>14
           DEF SkipNotRunning, tables, NothingTaken, Owned, Owns, OutcomeInvariant,
               HeldRow, Release, NoJob
    <2> QED
        BY <2>1, <2>2, OutcomeQuiet
<1>15. ASSUME NEW w \in Workers, AcceptScan(w) PROVE OutcomeInvariant'
    <2>1. status' = status /\ EndsRuns /\ NothingSwept
        BY <1>15 DEF AcceptScan, tables, EndsRuns, RunningEngines, NothingSwept, Sweeping
    <2>2. NothingTaken
        BY <1>0, <1>15 DEF AcceptScan, tables, NothingTaken, Owned, Owns, Jobs
    <2> QED
        BY <2>1, <2>2, OutcomeQuiet
<1>16. ASSUME NEW w \in Workers, RejectScan(w) PROVE OutcomeInvariant'
    <2>1. status' = status /\ EndsRuns /\ NothingSwept
        BY <1>16 DEF RejectScan, tables, EndsRuns, RunningEngines, NothingSwept, Sweeping
    <2>2. NothingTaken
        BY <1>0, <1>16 DEF RejectScan, tables, NothingTaken, Owned, Owns
    <2> QED
        BY <2>1, <2>2, OutcomeQuiet
<1>17. ASSUME NEW w \in Workers, StartEngine(w) PROVE OutcomeInvariant'
    <2>1. PICK e \in Executions : e = job[w].exec /\ Owns(w, e)
        BY <1>17 DEF ClaimInvariant, StartEngine, Owns
    <2>2. PICK g \in job[w].remaining :
            /\ engineRun' = [engineRun EXCEPT ![e][g] = "running"]
            /\ job' = [job EXCEPT ![w].engine = g]
        BY <1>17, <2>1 DEF StartEngine
    <2>3. /\ job'[w].exec = e /\ Owns(w, e)' /\ KeepsOthers(w)
          /\ sweep' = sweep /\ status' = status
        BY <1>17, <2>1, <2>2 DEF StartEngine, Owns, KeepsOthers, Jobs
    <2>4. \A d \in Executions \ {e} :
            RunningEngines(d)' = RunningEngines(d) /\ fresh'[d] = fresh[d]
        BY <1>17, <2>1, <2>2 DEF StartEngine, RunningEngines
    <2>5. fresh'[e] /\ \A d \in Executions : Owned(d)' <=> Owned(d)
        BY <1>17, <2>1, <2>3 DEF StartEngine, Owned, Owns, KeepsOthers
    <2>6. \A v \in Workers : ~Sweeping(v, e)
        BY <2>1 DEF OutcomeInvariant, RowInvariant, SweptRow, Owned
    <2>7. ASSUME NEW d \in Executions
          PROVE  RowInvariant(d)'
        <3>1. RowInvariant(d)
            BY DEF OutcomeInvariant
        <3>2. CASE d = e
            <4>1. Owned(e) /\ Owned(e)'
                BY <2>1, <2>5 DEF Owned
            <4> QED
                BY <2>3, <2>5, <2>6, <3>1, <3>2, <4>1
                   DEF RowInvariant, HeldRow, SweptRow, VisitedRow, FoundRow, SettledRow, Sweeping
        <3>3. CASE d # e
            BY <2>3, <2>4, <2>5, <3>1, <3>3
               DEF RowInvariant, HeldRow, SweptRow, VisitedRow, FoundRow, SettledRow, Sweeping
        <3> QED
            BY <3>2, <3>3
    <2> QED
        BY <2>7 DEF OutcomeInvariant
<1>18. ASSUME NEW w \in Workers, EngineReturns(w) PROVE OutcomeInvariant'
    <2>1. status' = status /\ EndsRuns /\ NothingSwept
        BY <1>18
           DEF EngineReturns, tables, EndsRuns, RunningEngines, NothingSwept, Sweeping
    <2>2. NothingTaken
        BY <1>0, <1>18
           DEF EngineReturns, tables, NothingTaken, Owned, Owns, OutcomeInvariant,
               HeldRow, Jobs
    <2> QED
        BY <2>1, <2>2, OutcomeQuiet
<1>19. ASSUME NEW w \in Workers, EngineFailsPartially(w) PROVE OutcomeInvariant'
    <2>1. status' = status /\ EndsRuns /\ NothingSwept
        BY <1>19
           DEF EngineFailsPartially, tables, EndsRuns, RunningEngines, NothingSwept,
               Sweeping, PartialRunState
    <2>2. NothingTaken
        BY <1>0, <1>19
           DEF EngineFailsPartially, tables, NothingTaken, Owned, Owns,
               OutcomeInvariant, HeldRow, Jobs
    <2> QED
        BY <2>1, <2>2, OutcomeQuiet
<1>20. ASSUME NEW w \in Workers, EngineRaises(w) PROVE OutcomeInvariant'
    <2>1. status' = status /\ EndsRuns /\ NothingSwept
        BY <1>20
           DEF EngineRaises, tables, EndsRuns, RunningEngines, NothingSwept, Sweeping
    <2>2. NothingTaken
        BY <1>0, <1>20 DEF EngineRaises, tables, NothingTaken, Owned, Owns
    <2> QED
        BY <2>1, <2>2, OutcomeQuiet
<1>21. ASSUME NEW w \in Workers, PersistResults(w) PROVE OutcomeInvariant'
    <2>1. status' = status /\ EndsRuns /\ NothingSwept
        BY <1>21
           DEF PersistResults, tables, EndsRuns, RunningEngines, NothingSwept, Sweeping
    <2>2. NothingTaken
        BY <1>0, <1>21
           DEF PersistResults, tables, NothingTaken, Owned, Owns, OutcomeInvariant,
               HeldRow
    <2> QED
        BY <2>1, <2>2, OutcomeQuiet
<1>22. ASSUME NEW w \in Workers, FinishEngine(w) PROVE OutcomeInvariant'
    <2>1. status' = status /\ EndsRuns /\ NothingSwept
        BY <1>22
           DEF FinishEngine, tables, EndsRuns, RunningEngines, NothingSwept, Sweeping
    <2>2. NothingTaken
        BY <1>0, <1>22 DEF FinishEngine, tables, NothingTaken, Owned, Owns, Jobs
    <2> QED
        BY <2>1, <2>2, OutcomeQuiet
<1>23. ASSUME NEW w \in Workers, HonourCancel(w) PROVE OutcomeInvariant'
    <2>1. PICK e \in Executions : e = job[w].exec /\ Owns(w, e)
        BY <1>23 DEF ClaimInvariant, HonourCancel, Owns
    <2>2. RunningEngines(e) = {}
        BY <1>23, <2>1 DEF HonourCancel, EngineInvariant
    <2>3. PICK s \in Settled : status' = [status EXCEPT ![e] = s]
        BY <1>23, <2>1 DEF HonourCancel
    <2>4. /\ KeepsOthers(w) /\ pc'[w] = "idle"
          /\ engineRun' = engineRun /\ fresh' = fresh /\ sweep' = sweep
        BY <1>23 DEF KeepsOthers, HonourCancel, Release
    <2> QED
        BY <2>1, <2>2, <2>3, <2>4, OutcomeWritten
<1>24. ASSUME NEW w \in Workers, PassCancelCheck(w) PROVE OutcomeInvariant'
    <2>1. status' = status /\ EndsRuns /\ NothingSwept
        BY <1>24
           DEF PassCancelCheck, tables, EndsRuns, RunningEngines, NothingSwept, Sweeping
    <2>2. NothingTaken
        BY <1>0, <1>24
           DEF PassCancelCheck, tables, NothingTaken, Owned, Owns, OutcomeInvariant,
               HeldRow
    <2> QED
        BY <2>1, <2>2, OutcomeQuiet
<1>25. ASSUME NEW w \in Workers, Finalize(w) PROVE OutcomeInvariant'
    <2>1. PICK e \in Executions : e = job[w].exec /\ Owns(w, e)
        BY <1>25 DEF ClaimInvariant, Finalize, Owns
    <2>2. RunningEngines(e) = {}
        BY <1>25, <2>1 DEF Finalize, EngineInvariant
    <2>3. PICK s \in Settled : status' = [status EXCEPT ![e] = s]
        BY <1>25, <2>1 DEF Finalize, Outcome
    <2>4. /\ KeepsOthers(w) /\ pc'[w] = "idle"
          /\ engineRun' = engineRun /\ fresh' = fresh /\ sweep' = sweep
        BY <1>25 DEF KeepsOthers, Finalize, Release
    <2> QED
        BY <2>1, <2>2, <2>3, <2>4, OutcomeWritten
<1>26. ASSUME NEW w \in Workers, FailRunningEngine(w) PROVE OutcomeInvariant'
    <2>1. status' = status /\ EndsRuns /\ NothingSwept
        BY <1>26
           DEF FailRunningEngine, tables, EndsRuns, RunningEngines, NothingSwept, Sweeping
    <2>2. NothingTaken
        BY <1>0, <1>26
           DEF FailRunningEngine, tables, NothingTaken, Owned, Owns, OutcomeInvariant,
               HeldRow
    <2> QED
        BY <2>1, <2>2, OutcomeQuiet
<1>27. ASSUME NEW w \in Workers, FailExecution(w) PROVE OutcomeInvariant'
    <2>1. PICK e \in Executions : e = job[w].exec /\ Owns(w, e)
        BY <1>27 DEF ClaimInvariant, FailExecution, Owns
    <2>2. RunningEngines(e) = {}
        BY <1>27, <2>1 DEF FailExecution, EnginesFinished
    <2>3. PICK s \in Settled : status' = [status EXCEPT ![e] = s]
        BY <1>27, <2>1 DEF FailExecution, FailureStatus
    <2>4. /\ KeepsOthers(w) /\ pc'[w] = "idle"
          /\ engineRun' = engineRun /\ fresh' = fresh /\ sweep' = sweep
        BY <1>27 DEF KeepsOthers, FailExecution, Release
    <2> QED
        BY <2>1, <2>2, <2>3, <2>4, OutcomeWritten
<1>28. ASSUME NEW w \in Workers, Interrupt(w) PROVE OutcomeInvariant'
    <2>1. status' = status /\ EndsRuns /\ NothingSwept
        BY <1>28 DEF Interrupt, tables, EndsRuns, RunningEngines, NothingSwept, Sweeping
    <2>2. NothingTaken
        BY <1>0, <1>28 DEF Interrupt, tables, NothingTaken, Owned, Owns
    <2> QED
        BY <2>1, <2>2, OutcomeQuiet
<1>29. ASSUME NEW w \in Workers, Stop(w) PROVE OutcomeInvariant'
    <2>1. status' = status /\ EndsRuns /\ NothingSwept
        BY <1>29 DEF Stop, tables, EndsRuns, RunningEngines, NothingSwept, Sweeping
    <2>2. NothingTaken
        BY <1>0, <1>29 DEF Stop, tables, NothingTaken, Owned, Owns
    <2> QED
        BY <2>1, <2>2, OutcomeQuiet
<1>30. ASSUME NEW w \in Workers, DatabaseError(w) PROVE OutcomeInvariant'
    <2>1. status' = status /\ EndsRuns /\ NothingSwept
        BY <1>30
           DEF DatabaseError, tables, EndsRuns, RunningEngines, NothingSwept, Sweeping
    <2>2. NothingTaken
        BY <1>0, <1>30 DEF DatabaseError, tables, NothingTaken, Owned, Owns
    <2> QED
        BY <2>1, <2>2, OutcomeQuiet
<1>31. ASSUME NEW w \in Workers, ClaimError(w) PROVE OutcomeInvariant'
    <2>1. status' = status /\ EndsRuns /\ NothingSwept
        BY <1>31 DEF ClaimError, tables, EndsRuns, RunningEngines, NothingSwept, Sweeping
    <2>2. NothingTaken
        BY <1>0, <1>31 DEF ClaimError, tables, NothingTaken, Owned, Owns, Release, NoJob
    <2> QED
        BY <2>1, <2>2, OutcomeQuiet
<1>32. ASSUME NEW w \in Workers, HandlerError(w) PROVE OutcomeInvariant'
    <2>1. status' = status /\ EndsRuns /\ NothingSwept
        BY <1>32
           DEF HandlerError, tables, EndsRuns, RunningEngines, NothingSwept, Sweeping
    <2>2. NothingTaken
        BY <1>0, <1>32
           DEF HandlerError, tables, NothingTaken, Owned, Owns, Release, NoJob
    <2> QED
        BY <2>1, <2>2, OutcomeQuiet
<1>33. ASSUME NEW w \in Workers, Signal(w) PROVE OutcomeInvariant'
    <2>1. status' = status /\ EndsRuns /\ NothingSwept
        BY <1>33 DEF Signal, tables, EndsRuns, RunningEngines, NothingSwept, Sweeping
    <2>2. NothingTaken
        BY <1>0, <1>33 DEF Signal, tables, NothingTaken, Owned, Owns
    <2> QED
        BY <2>1, <2>2, OutcomeQuiet
<1>34. ASSUME NEW w \in Workers, Crash(w) PROVE OutcomeInvariant'
    <2>1. status' = status /\ EndsRuns /\ NothingSwept
        BY <1>34
           DEF Crash, tables, EndsRuns, RunningEngines, NothingSwept, Sweeping, NoSweep
    <2>2. NothingTaken
        BY <1>0, <1>34 DEF Crash, tables, NothingTaken, Owned, Owns
    <2> QED
        BY <2>1, <2>2, OutcomeQuiet
<1>35. ASSUME NEW w \in Workers, Heartbeat(w) PROVE OutcomeInvariant'
    <2>1. status' = status /\ EndsRuns /\ NothingSwept
        BY <1>35 DEF Heartbeat, tables, EndsRuns, RunningEngines, NothingSwept, Sweeping
    <2>2. NothingTaken
        BY <1>0, <1>35 DEF Heartbeat, tables, NothingTaken, Owned, Owns
    <2> QED
        BY <2>1, <2>2, OutcomeQuiet
<1>36. CASE UNCHANGED vars
    <2>1. status' = status /\ EndsRuns /\ NothingSwept
        BY <1>36 DEF vars, tables, EndsRuns, RunningEngines, NothingSwept, Sweeping
    <2>2. NothingTaken
        BY <1>0, <1>36 DEF vars, tables, NothingTaken, Owned, Owns
    <2> QED
        BY <2>1, <2>2, OutcomeQuiet
<1>37. ASSUME NEW w \in Workers, NEW e \in Executions, FindRunningEngine(w, e)
       PROVE  OutcomeInvariant'
    <2>1. PICK g \in RunningEngines(e) :
            /\ sweep'[w].exec = e /\ sweep'[w].engine = g
            /\ sweep'[w].todo = sweep[w].todo \ {e} /\ sweep'[w].pending = sweep[w].pending
            /\ \A v \in Workers \ {w} : sweep'[v] = sweep[v]
        BY <1>37 DEF FindRunningEngine, Sweeps
    <2>2. \A v \in Workers, d \in Executions : Sweeping(v, d)' => Sweeping(v, d)
        BY <1>37, <2>1 DEF FindRunningEngine, Sweeping
    <2>3. /\ status' = status /\ fresh' = fresh
          /\ pc' = pc /\ job' = job /\ engineRun' = engineRun
        BY <1>37 DEF FindRunningEngine, tables
    <2>4. RunningEngines(e) \subseteq {g}
        BY <2>1 DEF RunningEngines, EngineInvariant, SingleRunningEngine
    <2>5. ASSUME NEW d \in Executions PROVE RowInvariant(d)'
        <3>1. RowInvariant(d)
            BY DEF OutcomeInvariant
        <3>2. (Owned(d)' <=> Owned(d)) /\ RunningEngines(d)' = RunningEngines(d)
            BY <2>3 DEF Owned, Owns, RunningEngines
        <3>3. HeldRow(d)' /\ SettledRow(d)' /\ SweptRow(d)'
            BY <2>2, <2>3, <3>1, <3>2 DEF RowInvariant, HeldRow, SettledRow, SweptRow
        <3>4. VisitedRow(d)'
            BY <2>1, <3>1, <3>2 DEF RowInvariant, VisitedRow
        <3>5. ASSUME NEW v \in Workers, d = sweep'[v].exec
              PROVE  RunningEngines(d)' \subseteq {sweep'[v].engine}
            <4>1. CASE v = w
                BY <2>1, <2>4, <3>2, <3>5, <4>1
            <4>2. CASE v # w
                BY <2>1, <3>1, <3>2, <3>5, <4>2 DEF RowInvariant, FoundRow
            <4> QED
                BY <4>1, <4>2
        <3> QED
            BY <3>3, <3>4, <3>5 DEF RowInvariant, FoundRow
    <2> QED
        BY <2>5 DEF OutcomeInvariant
<1> QED
    BY <1>1, <1>2, <1>3, <1>4, <1>5, <1>6, <1>7, <1>8, <1>9, <1>10, <1>11, <1>12,
       <1>13, <1>14, <1>15, <1>16, <1>17, <1>18, <1>19, <1>20, <1>21, <1>22, <1>23,
       <1>24, <1>25, <1>26, <1>27, <1>28, <1>29, <1>30, <1>31, <1>32, <1>33, <1>34,
       <1>35, <1>36, <1>37
       DEF Next, WorkerStep, FaultStep, Recover, Claim, RunEngines, HandleFailure

\* The whole invariant holds in every behaviour.
LEMMA OutcomeHolds ==
    ASSUME ~HeartbeatsMayFail
    PROVE  Spec => [](TypeOK /\ ClaimInvariant /\ EngineInvariant /\ OutcomeInvariant)
<1>1. Init => ClaimInvariant /\ EngineInvariant /\ OutcomeInvariant
    BY NoExecutionIsNone
       DEF Init, ClaimInvariant, ExclusiveClaim, Owns, EngineInvariant,
           SingleRunningEngine,
           RunningEngines, OutcomeInvariant, RowInvariant, HeldRow, SweptRow, VisitedRow, FoundRow, SettledRow,
           Owned, Sweeping, NoSweep
<1> QED
    BY <1>1, TypeCorrect, ClaimStep, EngineStep, OutcomeStep, PTL DEF Spec

\* Spec keeps OutcomeHasNoRunningEngine where the heartbeats of a live worker arrive: no
\* engine is shown as running for ever in a settled scan.
THEOREM OutcomeIsQuiet ==
    ASSUME ~HeartbeatsMayFail PROVE Spec => []OutcomeHasNoRunningEngine
<1>1. OutcomeInvariant => OutcomeHasNoRunningEngine
    BY DEF OutcomeInvariant, RowInvariant, SettledRow, OutcomeHasNoRunningEngine
<1> QED
    BY <1>1, OutcomeHolds, PTL

\* What one step does to the outcome of an execution.
LEMMA RewriteStep ==
    ASSUME TypeOK, ClaimInvariant, OutcomeInvariant, [Next]_vars,
           NEW d \in Executions, status[d] \in Settled, status'[d] # status[d]
    PROVE  \/ status'[d] = "cancelled" /\ cancelRead[d] = "queued"
           \/ status[d] = "cancelled" /\ (Owned(d) \/ \E w \in Workers : Sweeping(w, d))
<1> DEFINE Race == \/ status'[d] = "cancelled" /\ cancelRead[d] = "queued"
                   \/ /\ status[d] = "cancelled"
                      /\ Owned(d) \/ \E w \in Workers : Sweeping(w, d)
<1> SUFFICES Race
    OBVIOUS
<1>0. HeldRow(d) /\ SweptRow(d)
    BY DEF OutcomeInvariant, RowInvariant
<1> USE DEF TypeOK
<1>1. ASSUME NEW e \in Executions, CreateExecution(e) PROVE Race
    BY <1>1 DEF CreateExecution
<1>2. ASSUME NEW e \in Executions, ReadForCancel(e) PROVE Race
    BY <1>2 DEF ReadForCancel, tables
<1>3. ASSUME NEW e \in Executions, CommitCancel(e) PROVE Race
    BY <1>3 DEF CommitCancel
<1>4. ASSUME NEW e \in Executions, HeartbeatLapses(e) PROVE Race
    BY <1>4 DEF HeartbeatLapses, tables
<1>5. ASSUME NEW w \in Workers, NEW e \in Executions, RecoverEngine(w, e) PROVE Race
    BY <1>0, <1>5 DEF RecoverEngine, FlushSweep, SweptRow, Sweeping
<1>6. ASSUME NEW w \in Workers, NEW e \in Executions, RecoverWithoutEngine(w, e)
      PROVE  Race
    BY <1>6 DEF RecoverWithoutEngine, tables
<1>7. ASSUME NEW w \in Workers, Boot(w) PROVE Race
    BY <1>7 DEF Boot, tables
<1>8. ASSUME NEW w \in Workers, SelectStale(w) PROVE Race
    BY <1>8 DEF SelectStale, tables
<1>9. ASSUME NEW w \in Workers, CommitRecovery(w) PROVE Race
    BY <1>0, <1>9 DEF CommitRecovery, FlushSweep, SweptRow, Sweeping
<1>10. ASSUME NEW w \in Workers, PollNothing(w) PROVE Race
    BY <1>10 DEF PollNothing, tables, vars
<1>11. ASSUME NEW w \in Workers, SelectQueued(w) PROVE Race
    BY <1>11 DEF SelectQueued, tables
<1>12. ASSUME NEW w \in Workers, ClaimQueued(w) PROVE Race
    BY <1>12 DEF ClaimQueued, ClaimGuard, ClaimInvariant
<1>13. ASSUME NEW w \in Workers, LoseClaim(w) PROVE Race
    BY <1>13 DEF LoseClaim, tables
<1>14. ASSUME NEW w \in Workers, SkipNotRunning(w) PROVE Race
    BY <1>14 DEF SkipNotRunning, tables
<1>15. ASSUME NEW w \in Workers, AcceptScan(w) PROVE Race
    BY <1>15 DEF AcceptScan, tables
<1>16. ASSUME NEW w \in Workers, RejectScan(w) PROVE Race
    BY <1>16 DEF RejectScan, tables
<1>17. ASSUME NEW w \in Workers, StartEngine(w) PROVE Race
    BY <1>17 DEF StartEngine, tables
<1>18. ASSUME NEW w \in Workers, EngineReturns(w) PROVE Race
    BY <1>18 DEF EngineReturns, tables
<1>19. ASSUME NEW w \in Workers, EngineFailsPartially(w) PROVE Race
    BY <1>19 DEF EngineFailsPartially, tables
<1>20. ASSUME NEW w \in Workers, EngineRaises(w) PROVE Race
    BY <1>20 DEF EngineRaises, tables
<1>21. ASSUME NEW w \in Workers, PersistResults(w) PROVE Race
    BY <1>21 DEF PersistResults, tables
<1>22. ASSUME NEW w \in Workers, FinishEngine(w) PROVE Race
    BY <1>22 DEF FinishEngine, tables
<1>23. ASSUME NEW w \in Workers, HonourCancel(w) PROVE Race
    <2>1. CASE d = job[w].exec
        BY <1>0, <1>23, <2>1 DEF HonourCancel, HeldRow, Owned, Owns
    <2>2. CASE d # job[w].exec
        BY <1>23, <2>2 DEF HonourCancel
    <2> QED
        BY <2>1, <2>2
<1>24. ASSUME NEW w \in Workers, PassCancelCheck(w) PROVE Race
    BY <1>24 DEF PassCancelCheck, tables
<1>25. ASSUME NEW w \in Workers, Finalize(w) PROVE Race
    <2>1. CASE d = job[w].exec
        BY <1>0, <1>25, <2>1 DEF Finalize, HeldRow, Owned, Owns
    <2>2. CASE d # job[w].exec
        BY <1>25, <2>2 DEF Finalize
    <2> QED
        BY <2>1, <2>2
<1>26. ASSUME NEW w \in Workers, FailRunningEngine(w) PROVE Race
    BY <1>26 DEF FailRunningEngine, tables
<1>27. ASSUME NEW w \in Workers, FailExecution(w) PROVE Race
    <2>1. CASE d = job[w].exec
        BY <1>0, <1>27, <2>1 DEF FailExecution, HeldRow, Owned, Owns
    <2>2. CASE d # job[w].exec
        BY <1>27, <2>2 DEF FailExecution
    <2> QED
        BY <2>1, <2>2
<1>28. ASSUME NEW w \in Workers, Interrupt(w) PROVE Race
    BY <1>28 DEF Interrupt, tables
<1>29. ASSUME NEW w \in Workers, Stop(w) PROVE Race
    BY <1>29 DEF Stop, tables
<1>30. ASSUME NEW w \in Workers, DatabaseError(w) PROVE Race
    BY <1>30 DEF DatabaseError, tables
<1>31. ASSUME NEW w \in Workers, ClaimError(w) PROVE Race
    BY <1>31 DEF ClaimError, tables
<1>32. ASSUME NEW w \in Workers, HandlerError(w) PROVE Race
    BY <1>32 DEF HandlerError, tables
<1>33. ASSUME NEW w \in Workers, Signal(w) PROVE Race
    BY <1>33 DEF Signal, tables
<1>34. ASSUME NEW w \in Workers, Crash(w) PROVE Race
    BY <1>34 DEF Crash, tables
<1>35. ASSUME NEW w \in Workers, Heartbeat(w) PROVE Race
    BY <1>35 DEF Heartbeat, tables
<1>36. CASE UNCHANGED vars
    BY <1>36 DEF vars, tables
<1>37. ASSUME NEW w \in Workers, NEW e \in Executions, FindRunningEngine(w, e)
      PROVE  Race
    BY <1>37 DEF FindRunningEngine, tables
<1> QED
    BY <1>1, <1>2, <1>3, <1>4, <1>5, <1>6, <1>7, <1>8, <1>9, <1>10, <1>11, <1>12,
       <1>13, <1>14, <1>15, <1>16, <1>17, <1>18, <1>19, <1>20, <1>21, <1>22, <1>23,
       <1>24, <1>25, <1>26, <1>27, <1>28, <1>29, <1>30, <1>31, <1>32, <1>33, <1>34,
       <1>35, <1>36, <1>37
       DEF Next, WorkerStep, FaultStep, Recover, Claim, RunEngines, HandleFailure

\* Spec keeps OutcomeRewrittenOnlyByRace where the heartbeats of a live worker arrive: an
\* outcome that changes was written, or is written now, by a late cancel.
THEOREM OutcomeIsRewrittenByRace ==
    ASSUME ~HeartbeatsMayFail PROVE Spec => OutcomeRewrittenOnlyByRace
<1> DEFINE Kept == \A e \in Executions :
        status[e] \in Settled /\ status'[e] # status[e] =>
            \/ status'[e] = "cancelled" /\ cancelRead[e] = "queued"
            \/ status[e] = "cancelled" /\ (Owned(e) \/ \E w \in Workers : Sweeping(w, e))
<1>1. TypeOK /\ ClaimInvariant /\ OutcomeInvariant /\ [Next]_vars => [Kept]_vars
    BY RewriteStep
<1> QED
    BY <1>1, OutcomeHolds, PTL DEF Spec, OutcomeRewrittenOnlyByRace

----------------------------------------------------------------------------
(* A completed scan has no failed engine, where the heartbeats of a live    *)
(* worker arrive.  An engine that fails either makes the scan partial, or   *)
(* ends it, and a recovery ends engines of executions nobody holds.         *)

FailedEngines(e) == {g \in Engines : engineRun[e][g] = "failed"}

\* What a worker that has noted no error has in its hands.
CleanInHand(w) ==
    ~job[w].partial /\ pc[w] \in Busy \ {"failing", "interrupted"} =>
        FailedEngines(job[w].exec) = {}

\* Nobody works on a completed execution any more, and nothing runs or failed in it.
CleanRow(e) ==
    /\ ~Taken(e) => FailedEngines(e) = {}
    /\ status[e] = "completed" =>
        ~Owned(e) /\ RunningEngines(e) = {} /\ FailedEngines(e) = {}

CleanInvariant ==
    /\ \A w \in Workers : CleanInHand(w)
    /\ \A e \in Executions : CleanRow(e)

NothingCompletes ==
    \A e \in Executions : status'[e] = "completed" => status[e] = "completed"

\* A worker goes on, or lets go, and the engine runs stay as they are.
LEMMA CleanLocal ==
    ASSUME ClaimInvariant, CleanInvariant, NEW w \in Workers, KeepsOthers(w), KeepsTaken,
           engineRun' = engineRun, NothingCompletes, CleanInHand(w)',
           pc'[w] \in Busy => pc[w] \in Busy /\ job'[w].exec = job[w].exec
    PROVE  CleanInvariant'
<1>1. \A e \in Executions : Owned(e)' => Owned(e)
    BY DEF Owned, Owns, KeepsOthers
<1>2. \A e \in Executions : CleanRow(e)'
    BY <1>1 DEF CleanInvariant, CleanRow, KeepsTaken, NothingCompletes, RunningEngines,
                FailedEngines
<1>3. \A v \in Workers \ {w} : CleanInHand(v)'
    BY DEF CleanInvariant, CleanInHand, FailedEngines, KeepsOthers
<1> QED
    BY <1>2, <1>3 DEF CleanInvariant

\* No worker moves and the engine runs stay as they are.
LEMMA CleanStill ==
    ASSUME CleanInvariant, pc' = pc, job' = job, KeepsTaken, engineRun' = engineRun,
           NothingCompletes
    PROVE  CleanInvariant'
    BY DEF CleanInvariant, CleanRow, CleanInHand, KeepsTaken, NothingCompletes,
           RunningEngines, FailedEngines, Owned, Owns

\* CleanInvariant is inductive relative to the types, the claims, the engine runs and
\* what is known of a recovery's list.
LEMMA CleanStep ==
    TypeOK /\ ClaimInvariant /\ EngineInvariant /\ OutcomeInvariant /\ CleanInvariant
        /\ [Next]_vars => CleanInvariant'
<1> SUFFICES ASSUME TypeOK, ClaimInvariant, EngineInvariant, OutcomeInvariant,
                    CleanInvariant, [Next]_vars
             PROVE  CleanInvariant'
    OBVIOUS
<1> USE DEF TypeOK
<1>1. ASSUME NEW e \in Executions, CreateExecution(e) PROVE CleanInvariant'
    <2>1. KeepsTaken /\ NothingCompletes
        BY <1>1 DEF KeepsTaken, Taken, NothingCompletes, CreateExecution, tables
    <2> QED
        BY <1>1, <2>1, CleanStill DEF CreateExecution, tables
<1>2. ASSUME NEW e \in Executions, ReadForCancel(e) PROVE CleanInvariant'
    <2>1. KeepsTaken /\ NothingCompletes
        BY <1>2 DEF KeepsTaken, Taken, NothingCompletes, ReadForCancel, tables
    <2> QED
        BY <1>2, <2>1, CleanStill DEF ReadForCancel, tables
<1>3. ASSUME NEW e \in Executions, CommitCancel(e) PROVE CleanInvariant'
    <2>1. KeepsTaken /\ NothingCompletes
        BY <1>3 DEF KeepsTaken, Taken, NothingCompletes, CommitCancel, tables
    <2> QED
        BY <1>3, <2>1, CleanStill DEF CommitCancel, tables
<1>4. ASSUME NEW e \in Executions, HeartbeatLapses(e) PROVE CleanInvariant'
    <2>1. KeepsTaken /\ NothingCompletes
        BY <1>4 DEF KeepsTaken, Taken, NothingCompletes, HeartbeatLapses, tables
    <2> QED
        BY <1>4, <2>1, CleanStill DEF HeartbeatLapses, tables
<1>5. ASSUME NEW w \in Workers, NEW e \in Executions, RecoverEngine(w, e)
      PROVE  CleanInvariant'
    <2>1. engineRun' = [engineRun EXCEPT ![e][sweep[w].engine] = "failed"]
        BY <1>5 DEF RecoverEngine
    <2>2. /\ \A d \in Executions \ {e} : FailedEngines(d)' = FailedEngines(d)
          /\ \A d \in Executions : RunningEngines(d)' \subseteq RunningEngines(d)
        BY <2>1 DEF FailedEngines, RunningEngines
    <2>3. pc' = pc /\ job' = job /\ KeepsTaken /\ NothingCompletes
        BY <1>5 DEF RecoverEngine, KeepsTaken, Taken, NothingCompletes, FlushSweep
    <2>4. ~Owned(e) /\ Taken(e) /\ status[e] # "completed"
        BY <1>5 DEF RecoverEngine, OutcomeInvariant, RowInvariant, SweptRow, Sweeping, Taken
    <2>5. \A d \in Executions : CleanRow(d)'
        BY <2>2, <2>3, <2>4
           DEF CleanInvariant, CleanRow, KeepsTaken, NothingCompletes, Owned, Owns
    <2>6. ASSUME NEW v \in Workers PROVE CleanInHand(v)'
        <3>1. pc[v] \in Busy => job[v].exec \in Executions \ {e}
            BY <2>4 DEF ClaimInvariant, Owned, Owns
        <3>2. pc[v] \in Busy => FailedEngines(job[v].exec)' = FailedEngines(job[v].exec)
            BY <2>2, <2>3, <3>1 DEF FailedEngines
        <3> QED
            BY <2>3, <3>2 DEF CleanInvariant, CleanInHand, Busy
    <2> QED
        BY <2>5, <2>6 DEF CleanInvariant
<1>6. ASSUME NEW w \in Workers, NEW e \in Executions, RecoverWithoutEngine(w, e)
      PROVE  CleanInvariant'
    <2>1. KeepsTaken /\ NothingCompletes
        BY <1>6 DEF KeepsTaken, Taken, NothingCompletes, RecoverWithoutEngine, tables
    <2> QED
        BY <1>6, <2>1, CleanStill DEF RecoverWithoutEngine, tables
<1>7. ASSUME NEW w \in Workers, Boot(w) PROVE CleanInvariant'
    <2>1. KeepsTaken /\ NothingCompletes
        BY <1>7 DEF KeepsTaken, Taken, NothingCompletes, Boot, tables
    <2>2. KeepsOthers(w) /\ engineRun' = engineRun /\ CleanInHand(w)' /\ pc'[w] \notin Busy
        BY <1>7 DEF KeepsOthers, CleanInHand, Boot, tables
    <2> QED
        BY <2>1, <2>2, CleanLocal
<1>8. ASSUME NEW w \in Workers, SelectStale(w) PROVE CleanInvariant'
    <2>1. KeepsTaken /\ NothingCompletes
        BY <1>8 DEF KeepsTaken, Taken, NothingCompletes, SelectStale, tables
    <2>2. KeepsOthers(w) /\ engineRun' = engineRun /\ CleanInHand(w)' /\ pc'[w] \notin Busy
        BY <1>8 DEF KeepsOthers, CleanInHand, SelectStale, tables
    <2> QED
        BY <2>1, <2>2, CleanLocal
<1>9. ASSUME NEW w \in Workers, CommitRecovery(w) PROVE CleanInvariant'
    <2>1. KeepsTaken /\ NothingCompletes
        BY <1>9 DEF KeepsTaken, Taken, NothingCompletes, CommitRecovery, FlushSweep
    <2>2. KeepsOthers(w) /\ CleanInHand(w)' /\ pc'[w] \notin Busy
        BY <1>9 DEF KeepsOthers, CleanInHand, CommitRecovery
    <2> QED
        BY <1>9, <2>1, <2>2, CleanLocal DEF CommitRecovery
<1>10. ASSUME NEW w \in Workers, PollNothing(w) PROVE CleanInvariant'
    <2>1. KeepsTaken /\ NothingCompletes
        BY <1>10 DEF KeepsTaken, Taken, NothingCompletes, PollNothing, tables, vars
    <2> QED
        BY <1>10, <2>1, CleanStill DEF PollNothing, tables, vars
<1>11. ASSUME NEW w \in Workers, SelectQueued(w) PROVE CleanInvariant'
    <2>1. KeepsTaken /\ NothingCompletes
        BY <1>11 DEF KeepsTaken, Taken, NothingCompletes, SelectQueued, tables
    <2>2. KeepsOthers(w) /\ engineRun' = engineRun /\ CleanInHand(w)' /\ pc'[w] \notin Busy
        BY <1>11 DEF KeepsOthers, CleanInHand, SelectQueued, tables
    <2> QED
        BY <2>1, <2>2, CleanLocal
<1>12. ASSUME NEW w \in Workers, ClaimQueued(w) PROVE CleanInvariant'
    <2>1. PICK e \in Executions : e = job[w].exec
        BY <1>12 DEF ClaimInvariant, ClaimQueued
    <2>2. ~Taken(e)
        BY <1>12, <2>1 DEF ClaimQueued, ClaimGuard, Taken
    <2>3. KeepsOthers(w) /\ job' = job /\ engineRun' = engineRun /\ pc'[w] = "load"
        BY <1>12 DEF KeepsOthers, ClaimQueued
    <2>4. /\ KeepsTaken /\ NothingCompletes
          /\ status'[e] = "running"
        BY <1>12, <2>1 DEF KeepsTaken, Taken, NothingCompletes, ClaimQueued
    <2>5. CleanInHand(w)'
        BY <2>1, <2>2, <2>3 DEF CleanInvariant, CleanRow, CleanInHand, FailedEngines
    <2>6. \A d \in Executions \ {e} : Owned(d)' => Owned(d)
        BY <2>1, <2>3 DEF Owned, Owns, KeepsOthers
    <2>7. \A d \in Executions : CleanRow(d)'
        BY <2>3, <2>4, <2>6 DEF CleanInvariant, CleanRow, KeepsTaken, NothingCompletes,
                                RunningEngines, FailedEngines
    <2>8. \A v \in Workers \ {w} : CleanInHand(v)'
        BY <2>3 DEF CleanInvariant, CleanInHand, FailedEngines, KeepsOthers
    <2> QED
        BY <2>5, <2>7, <2>8 DEF CleanInvariant
<1>13. ASSUME NEW w \in Workers, LoseClaim(w) PROVE CleanInvariant'
    <2>1. KeepsTaken /\ NothingCompletes
        BY <1>13 DEF KeepsTaken, Taken, NothingCompletes, LoseClaim, tables
    <2>2. KeepsOthers(w) /\ engineRun' = engineRun /\ CleanInHand(w)' /\ pc'[w] \notin Busy
        BY <1>13 DEF KeepsOthers, CleanInHand, LoseClaim, tables, Release
    <2> QED
        BY <2>1, <2>2, CleanLocal
<1>14. ASSUME NEW w \in Workers, SkipNotRunning(w) PROVE CleanInvariant'
    <2>1. KeepsTaken /\ NothingCompletes
        BY <1>14 DEF KeepsTaken, Taken, NothingCompletes, SkipNotRunning, tables
    <2>2. KeepsOthers(w) /\ engineRun' = engineRun /\ CleanInHand(w)' /\ pc'[w] \notin Busy
        BY <1>14 DEF KeepsOthers, CleanInHand, SkipNotRunning, tables, Release
    <2> QED
        BY <2>1, <2>2, CleanLocal
<1>15. ASSUME NEW w \in Workers, AcceptScan(w) PROVE CleanInvariant'
    <2>1. KeepsTaken /\ NothingCompletes
        BY <1>15 DEF KeepsTaken, Taken, NothingCompletes, AcceptScan, tables
    <2>2. /\ KeepsOthers(w) /\ engineRun' = engineRun /\ pc[w] \in Busy
          /\ job'[w].exec = job[w].exec /\ job'[w].engine = job[w].engine
          /\ job'[w].partial = job[w].partial
        BY <1>15 DEF KeepsOthers, AcceptScan, tables, Jobs
    <2>3. CleanInHand(w)'
        BY <1>15, <2>2 DEF AcceptScan, CleanInvariant, CleanInHand, FailedEngines
    <2> QED
        BY <2>1, <2>2, <2>3, CleanLocal
<1>16. ASSUME NEW w \in Workers, RejectScan(w) PROVE CleanInvariant'
    <2>1. KeepsTaken /\ NothingCompletes
        BY <1>16 DEF KeepsTaken, Taken, NothingCompletes, RejectScan, tables
    <2>2. /\ KeepsOthers(w) /\ engineRun' = engineRun /\ pc[w] \in Busy
          /\ job'[w].exec = job[w].exec /\ job'[w].engine = job[w].engine
          /\ job'[w].partial = job[w].partial
        BY <1>16 DEF KeepsOthers, RejectScan, tables
    <2>3. CleanInHand(w)'
        BY <1>16, <2>2 DEF RejectScan, CleanInvariant, CleanInHand, FailedEngines
    <2> QED
        BY <2>1, <2>2, <2>3, CleanLocal
<1>17. ASSUME NEW w \in Workers, StartEngine(w) PROVE CleanInvariant'
    <2>1. PICK e \in Executions : e = job[w].exec /\ Owns(w, e)
        BY <1>17 DEF ClaimInvariant, StartEngine, Owns
    <2>2. \A v \in Workers \ {w} : pc[v] \in Busy => job[v].exec \in Executions \ {e}
        BY <2>1 DEF ClaimInvariant, ExclusiveClaim, Owns
    <2>3. Taken(e) /\ status[e] # "completed"
        BY <2>1 DEF ClaimInvariant, CleanInvariant, CleanRow, Owned
    <2>4. PICK g \in Engines :
            /\ engineRun' = [engineRun EXCEPT ![e][g] = "running"]
            /\ job'[w].exec = e /\ job'[w].partial = job[w].partial
        <3>1. PICK g \in job[w].remaining :
                /\ engineRun' = [engineRun EXCEPT ![e][g] = "running"]
                /\ job' = [job EXCEPT ![w].engine = g]
            BY <1>17, <2>1 DEF StartEngine
        <3>2. g \in Engines
            BY DEF Jobs
        <3> QED
            BY <2>1, <3>1, <3>2 DEF Jobs
    <2>5. KeepsOthers(w) /\ KeepsTaken /\ NothingCompletes /\ status' = status
        BY <1>17 DEF KeepsOthers, KeepsTaken, Taken, NothingCompletes, StartEngine
    <2>6. /\ \A d \in Executions \ {e} : /\ FailedEngines(d)' = FailedEngines(d)
                                          /\ RunningEngines(d)' = RunningEngines(d)
          /\ \A d \in Executions \ {e} : Owned(d)' => Owned(d)
        BY <2>1, <2>4, <2>5 DEF FailedEngines, RunningEngines, Owned, Owns, KeepsOthers
    <2>7. \A d \in Executions : CleanRow(d)'
        BY <2>3, <2>5, <2>6
           DEF CleanInvariant, CleanRow, KeepsTaken, NothingCompletes, Taken
    <2>8. \A v \in Workers \ {w} : CleanInHand(v)'
        <3> SUFFICES ASSUME NEW v \in Workers \ {w}, pc[v] \in Busy PROVE CleanInHand(v)'
            BY <2>5 DEF KeepsOthers, CleanInHand
        <3>1. FailedEngines(job[v].exec)' = FailedEngines(job[v].exec)
            BY <2>2, <2>5, <2>6 DEF FailedEngines, KeepsOthers
        <3> QED
            BY <2>5, <3>1 DEF CleanInvariant, CleanInHand, KeepsOthers
    <2>9. CleanInHand(w)'
        <3>1. FailedEngines(job[w].exec)' \subseteq FailedEngines(job[w].exec)
            BY <2>1, <2>4 DEF FailedEngines
        <3>2. ~job[w].partial => FailedEngines(job[w].exec) = {}
            BY <1>17 DEF StartEngine, CleanInvariant, CleanInHand, Busy
        <3> QED
            BY <2>4, <3>1, <3>2 DEF CleanInHand
    <2> QED
        BY <2>7, <2>8, <2>9 DEF CleanInvariant
<1>18. ASSUME NEW w \in Workers, EngineReturns(w) PROVE CleanInvariant'
    <2>1. KeepsTaken /\ NothingCompletes
        BY <1>18 DEF KeepsTaken, Taken, NothingCompletes, EngineReturns, tables
    <2>2. /\ KeepsOthers(w) /\ engineRun' = engineRun /\ pc[w] \in Busy
          /\ job'[w].exec = job[w].exec /\ job'[w].engine = job[w].engine
          /\ job'[w].partial = job[w].partial
        BY <1>18 DEF KeepsOthers, EngineReturns, tables, Jobs
    <2>3. CleanInHand(w)'
        <3>1. FailedEngines(job[w].exec)' = FailedEngines(job[w].exec)
            BY <2>2 DEF FailedEngines
        <3>2. ~job[w].partial => FailedEngines(job[w].exec) = {}
            BY <1>18, <2>2 DEF EngineReturns, CleanInvariant, CleanInHand
        <3> QED
            BY <2>2, <3>1, <3>2 DEF CleanInHand
    <2> QED
        BY <2>1, <2>2, <2>3, CleanLocal
<1>19. ASSUME NEW w \in Workers, EngineFailsPartially(w) PROVE CleanInvariant'
    <2>1. PICK e \in Executions : e = job[w].exec /\ Owns(w, e)
        BY <1>19 DEF ClaimInvariant, EngineFailsPartially, Owns
    <2>2. \A v \in Workers \ {w} : pc[v] \in Busy => job[v].exec \in Executions \ {e}
        BY <2>1 DEF ClaimInvariant, ExclusiveClaim, Owns
    <2>3. Taken(e) /\ status[e] # "completed"
        BY <2>1 DEF ClaimInvariant, CleanInvariant, CleanRow, Owned
    <2>4. /\ engineRun' = [engineRun EXCEPT ![e][job[w].engine] = "failed"]
          /\ job'[w].exec = e /\ job'[w].partial
        BY <1>19, <2>1 DEF EngineFailsPartially, PartialRunState, Jobs
    <2>5. KeepsOthers(w) /\ KeepsTaken /\ NothingCompletes /\ status' = status
        BY <1>19
           DEF KeepsOthers, KeepsTaken, Taken, NothingCompletes, EngineFailsPartially
    <2>6. /\ \A d \in Executions \ {e} : /\ FailedEngines(d)' = FailedEngines(d)
                                          /\ RunningEngines(d)' = RunningEngines(d)
          /\ \A d \in Executions \ {e} : Owned(d)' => Owned(d)
        BY <2>1, <2>4, <2>5 DEF FailedEngines, RunningEngines, Owned, Owns, KeepsOthers
    <2>7. \A d \in Executions : CleanRow(d)'
        BY <2>3, <2>5, <2>6
           DEF CleanInvariant, CleanRow, KeepsTaken, NothingCompletes, Taken
    <2>8. \A v \in Workers \ {w} : CleanInHand(v)'
        <3> SUFFICES ASSUME NEW v \in Workers \ {w}, pc[v] \in Busy PROVE CleanInHand(v)'
            BY <2>5 DEF KeepsOthers, CleanInHand
        <3>1. FailedEngines(job[v].exec)' = FailedEngines(job[v].exec)
            BY <2>2, <2>5, <2>6 DEF FailedEngines, KeepsOthers
        <3> QED
            BY <2>5, <3>1 DEF CleanInvariant, CleanInHand, KeepsOthers
    <2>9. CleanInHand(w)'
        BY <2>4 DEF CleanInHand
    <2> QED
        BY <2>7, <2>8, <2>9 DEF CleanInvariant
<1>20. ASSUME NEW w \in Workers, EngineRaises(w) PROVE CleanInvariant'
    <2>1. KeepsTaken /\ NothingCompletes
        BY <1>20 DEF KeepsTaken, Taken, NothingCompletes, EngineRaises, tables
    <2>2. /\ KeepsOthers(w) /\ engineRun' = engineRun /\ pc[w] \in Busy
          /\ job'[w].exec = job[w].exec /\ job'[w].engine = job[w].engine
          /\ job'[w].partial = job[w].partial
        BY <1>20 DEF KeepsOthers, EngineRaises, tables
    <2>3. CleanInHand(w)'
        BY <1>20, <2>2 DEF EngineRaises, CleanInvariant, CleanInHand, FailedEngines
    <2> QED
        BY <2>1, <2>2, <2>3, CleanLocal
<1>21. ASSUME NEW w \in Workers, PersistResults(w) PROVE CleanInvariant'
    <2>1. KeepsTaken /\ NothingCompletes
        BY <1>21 DEF KeepsTaken, Taken, NothingCompletes, PersistResults, tables
    <2>2. /\ KeepsOthers(w) /\ engineRun' = engineRun /\ pc[w] \in Busy
          /\ job'[w].exec = job[w].exec /\ job'[w].engine = job[w].engine
          /\ job'[w].partial = job[w].partial
        BY <1>21 DEF KeepsOthers, PersistResults, tables
    <2>3. CleanInHand(w)'
        BY <1>21, <2>2 DEF PersistResults, CleanInvariant, CleanInHand, FailedEngines
    <2> QED
        BY <2>1, <2>2, <2>3, CleanLocal
<1>22. ASSUME NEW w \in Workers, FinishEngine(w) PROVE CleanInvariant'
    <2>1. PICK e \in Executions : e = job[w].exec /\ Owns(w, e)
        BY <1>22 DEF ClaimInvariant, FinishEngine, Owns
    <2>2. \A v \in Workers \ {w} : pc[v] \in Busy => job[v].exec \in Executions \ {e}
        BY <2>1 DEF ClaimInvariant, ExclusiveClaim, Owns
    <2>3. Taken(e) /\ status[e] # "completed"
        BY <2>1 DEF ClaimInvariant, CleanInvariant, CleanRow, Owned
    <2>4. /\ engineRun' = [engineRun EXCEPT ![e][job[w].engine] = "completed"]
          /\ job'[w].exec = e /\ job'[w].partial = job[w].partial
        BY <1>22, <2>1 DEF FinishEngine, Jobs
    <2>5. KeepsOthers(w) /\ KeepsTaken /\ NothingCompletes /\ status' = status
        BY <1>22 DEF KeepsOthers, KeepsTaken, Taken, NothingCompletes, FinishEngine
    <2>6. /\ \A d \in Executions \ {e} : /\ FailedEngines(d)' = FailedEngines(d)
                                          /\ RunningEngines(d)' = RunningEngines(d)
          /\ \A d \in Executions \ {e} : Owned(d)' => Owned(d)
        BY <2>1, <2>4, <2>5 DEF FailedEngines, RunningEngines, Owned, Owns, KeepsOthers
    <2>7. \A d \in Executions : CleanRow(d)'
        BY <2>3, <2>5, <2>6
           DEF CleanInvariant, CleanRow, KeepsTaken, NothingCompletes, Taken
    <2>8. \A v \in Workers \ {w} : CleanInHand(v)'
        <3> SUFFICES ASSUME NEW v \in Workers \ {w}, pc[v] \in Busy PROVE CleanInHand(v)'
            BY <2>5 DEF KeepsOthers, CleanInHand
        <3>1. FailedEngines(job[v].exec)' = FailedEngines(job[v].exec)
            BY <2>2, <2>5, <2>6 DEF FailedEngines, KeepsOthers
        <3> QED
            BY <2>5, <3>1 DEF CleanInvariant, CleanInHand, KeepsOthers
    <2>9. CleanInHand(w)'
        BY <2>1, <2>4, <1>22
           DEF FinishEngine, CleanInvariant, CleanInHand, FailedEngines
    <2> QED
        BY <2>7, <2>8, <2>9 DEF CleanInvariant
<1>23. ASSUME NEW w \in Workers, HonourCancel(w) PROVE CleanInvariant'
    <2>1. KeepsTaken /\ NothingCompletes
        BY <1>23 DEF KeepsTaken, Taken, NothingCompletes, HonourCancel, tables
    <2>2. KeepsOthers(w) /\ engineRun' = engineRun /\ CleanInHand(w)' /\ pc'[w] \notin Busy
        BY <1>23 DEF KeepsOthers, CleanInHand, HonourCancel, tables, Release
    <2> QED
        BY <2>1, <2>2, CleanLocal
<1>24. ASSUME NEW w \in Workers, PassCancelCheck(w) PROVE CleanInvariant'
    <2>1. KeepsTaken /\ NothingCompletes
        BY <1>24 DEF KeepsTaken, Taken, NothingCompletes, PassCancelCheck, tables
    <2>2. /\ KeepsOthers(w) /\ engineRun' = engineRun /\ pc[w] \in Busy
          /\ job'[w].exec = job[w].exec /\ job'[w].engine = job[w].engine
          /\ job'[w].partial = job[w].partial
        BY <1>24 DEF KeepsOthers, PassCancelCheck, tables
    <2>3. CleanInHand(w)'
        BY <1>24, <2>2 DEF PassCancelCheck, CleanInvariant, CleanInHand, FailedEngines
    <2> QED
        BY <2>1, <2>2, <2>3, CleanLocal
<1>25. ASSUME NEW w \in Workers, Finalize(w) PROVE CleanInvariant'
    <2>1. PICK e \in Executions : e = job[w].exec /\ Owns(w, e)
        BY <1>25 DEF ClaimInvariant, Finalize, Owns
    <2>2. /\ status' = [status EXCEPT ![e] = Outcome(job[w].partial)]
          /\ engineRun' = engineRun /\ pc'[w] = "idle"
        BY <1>25, <2>1 DEF Finalize, Release
    <2>3. KeepsOthers(w)
        BY <1>25 DEF KeepsOthers, Finalize, Release
    <2>4. RunningEngines(e) = {} /\ (~job[w].partial => FailedEngines(e) = {})
        BY <1>25, <2>1 DEF Finalize, EngineInvariant, CleanInvariant, CleanInHand
    <2>5. ~Owned(e)' /\ \A d \in Executions : Owned(d)' => Owned(d)
        BY <2>1, <2>2, <2>3 DEF Owned, Owns, KeepsOthers, ClaimInvariant, ExclusiveClaim
    <2>6. \A d \in Executions : CleanRow(d)'
        BY <2>1, <2>2, <2>4, <2>5
           DEF CleanInvariant, CleanRow, RunningEngines, FailedEngines,
                                 Taken, Outcome, ClaimInvariant
    <2>7. \A v \in Workers : CleanInHand(v)'
        BY <2>2, <2>3 DEF CleanInvariant, CleanInHand, FailedEngines, KeepsOthers
    <2> QED
        BY <2>6, <2>7 DEF CleanInvariant
<1>26. ASSUME NEW w \in Workers, FailRunningEngine(w) PROVE CleanInvariant'
    <2>1. PICK e \in Executions : e = job[w].exec /\ Owns(w, e)
        BY <1>26 DEF ClaimInvariant, FailRunningEngine, Owns
    <2>2. \A v \in Workers \ {w} : pc[v] \in Busy => job[v].exec \in Executions \ {e}
        BY <2>1 DEF ClaimInvariant, ExclusiveClaim, Owns
    <2>3. Taken(e) /\ status[e] # "completed"
        BY <2>1 DEF ClaimInvariant, CleanInvariant, CleanRow, Owned
    <2>4. PICK g \in Engines :
            engineRun' = [engineRun EXCEPT ![e][g] = "failed"] /\ job' = job
        BY <1>26, <2>1 DEF FailRunningEngine, RunningEngines
    <2>5. KeepsOthers(w) /\ KeepsTaken /\ NothingCompletes /\ status' = status
        BY <1>26 DEF KeepsOthers, KeepsTaken, Taken, NothingCompletes, FailRunningEngine
    <2>6. /\ \A d \in Executions \ {e} : /\ FailedEngines(d)' = FailedEngines(d)
                                          /\ RunningEngines(d)' = RunningEngines(d)
          /\ \A d \in Executions \ {e} : Owned(d)' => Owned(d)
        BY <2>1, <2>4, <2>5 DEF FailedEngines, RunningEngines, Owned, Owns, KeepsOthers
    <2>7. \A d \in Executions : CleanRow(d)'
        BY <2>3, <2>5, <2>6
           DEF CleanInvariant, CleanRow, KeepsTaken, NothingCompletes, Taken
    <2>8. \A v \in Workers \ {w} : CleanInHand(v)'
        <3> SUFFICES ASSUME NEW v \in Workers \ {w}, pc[v] \in Busy PROVE CleanInHand(v)'
            BY <2>5 DEF KeepsOthers, CleanInHand
        <3>1. FailedEngines(job[v].exec)' = FailedEngines(job[v].exec)
            BY <2>2, <2>5, <2>6 DEF FailedEngines, KeepsOthers
        <3> QED
            BY <2>5, <3>1 DEF CleanInvariant, CleanInHand, KeepsOthers
    <2>9. CleanInHand(w)'
        BY <1>26 DEF FailRunningEngine, CleanInHand
    <2> QED
        BY <2>7, <2>8, <2>9 DEF CleanInvariant
<1>27. ASSUME NEW w \in Workers, FailExecution(w) PROVE CleanInvariant'
    <2>1. KeepsTaken /\ NothingCompletes
        BY <1>27
           DEF KeepsTaken, Taken, NothingCompletes, FailExecution, tables, FailureStatus
    <2>2. KeepsOthers(w) /\ engineRun' = engineRun /\ CleanInHand(w)' /\ pc'[w] \notin Busy
        BY <1>27 DEF KeepsOthers, CleanInHand, FailExecution, tables, Release
    <2> QED
        BY <2>1, <2>2, CleanLocal
<1>28. ASSUME NEW w \in Workers, Interrupt(w) PROVE CleanInvariant'
    <2>1. KeepsTaken /\ NothingCompletes
        BY <1>28 DEF KeepsTaken, Taken, NothingCompletes, Interrupt, tables
    <2>2. /\ KeepsOthers(w) /\ engineRun' = engineRun /\ pc[w] \in Busy
          /\ job'[w].exec = job[w].exec /\ job'[w].engine = job[w].engine
          /\ job'[w].partial = job[w].partial
        BY <1>28 DEF KeepsOthers, Interrupt, tables
    <2>3. CleanInHand(w)'
        BY <1>28, <2>2 DEF Interrupt, CleanInvariant, CleanInHand, FailedEngines
    <2> QED
        BY <2>1, <2>2, <2>3, CleanLocal
<1>29. ASSUME NEW w \in Workers, Stop(w) PROVE CleanInvariant'
    <2>1. KeepsTaken /\ NothingCompletes
        BY <1>29 DEF KeepsTaken, Taken, NothingCompletes, Stop, tables
    <2>2. KeepsOthers(w) /\ engineRun' = engineRun /\ CleanInHand(w)' /\ pc'[w] \notin Busy
        BY <1>29 DEF KeepsOthers, CleanInHand, Stop, tables
    <2> QED
        BY <2>1, <2>2, CleanLocal
<1>30. ASSUME NEW w \in Workers, DatabaseError(w) PROVE CleanInvariant'
    <2>1. KeepsTaken /\ NothingCompletes
        BY <1>30 DEF KeepsTaken, Taken, NothingCompletes, DatabaseError, tables
    <2>2. /\ KeepsOthers(w) /\ engineRun' = engineRun /\ pc[w] \in Busy
          /\ job'[w].exec = job[w].exec /\ job'[w].engine = job[w].engine
          /\ job'[w].partial = job[w].partial
        BY <1>30 DEF KeepsOthers, DatabaseError, tables
    <2>3. CleanInHand(w)'
        BY <1>30, <2>2 DEF DatabaseError, CleanInvariant, CleanInHand, FailedEngines
    <2> QED
        BY <2>1, <2>2, <2>3, CleanLocal
<1>31. ASSUME NEW w \in Workers, ClaimError(w) PROVE CleanInvariant'
    <2>1. KeepsTaken /\ NothingCompletes
        BY <1>31 DEF KeepsTaken, Taken, NothingCompletes, ClaimError, tables
    <2>2. KeepsOthers(w) /\ engineRun' = engineRun /\ CleanInHand(w)' /\ pc'[w] \notin Busy
        BY <1>31 DEF KeepsOthers, CleanInHand, ClaimError, tables, Release
    <2> QED
        BY <2>1, <2>2, CleanLocal
<1>32. ASSUME NEW w \in Workers, HandlerError(w) PROVE CleanInvariant'
    <2>1. KeepsTaken /\ NothingCompletes
        BY <1>32 DEF KeepsTaken, Taken, NothingCompletes, HandlerError, tables
    <2>2. KeepsOthers(w) /\ engineRun' = engineRun /\ CleanInHand(w)' /\ pc'[w] \notin Busy
        BY <1>32 DEF KeepsOthers, CleanInHand, HandlerError, tables, Release
    <2> QED
        BY <2>1, <2>2, CleanLocal
<1>33. ASSUME NEW w \in Workers, Signal(w) PROVE CleanInvariant'
    <2>1. KeepsTaken /\ NothingCompletes
        BY <1>33 DEF KeepsTaken, Taken, NothingCompletes, Signal, tables
    <2> QED
        BY <1>33, <2>1, CleanStill DEF Signal, tables
<1>34. ASSUME NEW w \in Workers, Crash(w) PROVE CleanInvariant'
    <2>1. KeepsTaken /\ NothingCompletes
        BY <1>34 DEF KeepsTaken, Taken, NothingCompletes, Crash, tables
    <2>2. KeepsOthers(w) /\ engineRun' = engineRun /\ CleanInHand(w)' /\ pc'[w] \notin Busy
        BY <1>34 DEF KeepsOthers, CleanInHand, Crash, tables
    <2> QED
        BY <2>1, <2>2, CleanLocal
<1>35. ASSUME NEW w \in Workers, Heartbeat(w) PROVE CleanInvariant'
    <2>1. KeepsTaken /\ NothingCompletes
        BY <1>35 DEF KeepsTaken, Taken, NothingCompletes, Heartbeat, tables
    <2> QED
        BY <1>35, <2>1, CleanStill DEF Heartbeat, tables
<1>36. CASE UNCHANGED vars
    BY <1>36, CleanStill DEF vars, tables, KeepsTaken, Taken, NothingCompletes
<1>37. ASSUME NEW w \in Workers, NEW e \in Executions, FindRunningEngine(w, e)
      PROVE  CleanInvariant'
    <2>1. KeepsTaken /\ NothingCompletes
        BY <1>37 DEF KeepsTaken, Taken, NothingCompletes, FindRunningEngine, tables
    <2> QED
        BY <1>37, <2>1, CleanStill DEF FindRunningEngine, tables
<1> QED
    BY <1>1, <1>2, <1>3, <1>4, <1>5, <1>6, <1>7, <1>8, <1>9, <1>10, <1>11, <1>12,
       <1>13, <1>14, <1>15, <1>16, <1>17, <1>18, <1>19, <1>20, <1>21, <1>22, <1>23,
       <1>24, <1>25, <1>26, <1>27, <1>28, <1>29, <1>30, <1>31, <1>32, <1>33, <1>34,
       <1>35, <1>36, <1>37
       DEF Next, WorkerStep, FaultStep, Recover, Claim, RunEngines, HandleFailure

\* Spec keeps CompletedHasNoFailedEngine where the heartbeats of a live worker arrive: a
\* completed scan shows no failed engine.
THEOREM CompletedIsClean ==
    ASSUME ~HeartbeatsMayFail PROVE Spec => []CompletedHasNoFailedEngine
<1>1. Init => CleanInvariant
    BY DEF Init, RunningEngines, CleanInvariant, CleanInHand, CleanRow, FailedEngines
<1>2. CleanInvariant => CompletedHasNoFailedEngine
    BY DEF CleanInvariant, CleanRow, CompletedHasNoFailedEngine, FailedEngines
<1> QED
    BY <1>1, <1>2, OutcomeHolds, CleanStep, PTL DEF Spec
=============================================================================
