------------------------ MODULE ScheduledScansProofs ------------------------
(* Type correctness of ScheduledScans, and what makes schedules idempotent. *)
EXTENDS ScheduledScans, FiniteSetTheorems, TLAPS

USE DEF NoTime

----------------------------------------------------------------------------
(* Finiteness: only finitely many executions exist or are about to.        *)

FiniteRows ==
    /\ IsFiniteSet(executions)
    /\ \A p \in Schedulers : IsFiniteSet(batch[p].inserts)

\* The number of a new execution counts its predecessors.
LEMMA NewExecutionType ==
    ASSUME TypeOK, IsFiniteSet(executions), NEW s \in Schedules, NEW t \in Nat
    PROVE  NewExecution(s, t) \in Executions
<1>1. IsFiniteSet({x \in ExecutionsOf(s) : x.slot = t})
    BY FS_Subset, {x \in ExecutionsOf(s) : x.slot = t} \subseteq executions
       DEF ExecutionsOf
<1>2. Cardinality({x \in ExecutionsOf(s) : x.slot = t}) \in Nat
    BY <1>1, FS_CardinalityType
<1> QED
    BY <1>2 DEF NewExecution, Executions

----------------------------------------------------------------------------
(* Every variable keeps its type.                                          *)

TypeInvariant == TypeOK /\ FiniteRows

\* An instant and the next run planned after it.
LEMMA CronType == ASSUME NEW t \in Times PROVE Cron[t] \in Nat /\ Cron[t] # NoTime
    BY CronAssumption, BoundsAssumption DEF Times

\* The poll that is not there has the type of one.
LEMMA NoBatchType == NoBatch \in Batches /\ IsFiniteSet(NoBatch.inserts)
    BY FS_EmptySet, BoundsAssumption DEF NoBatch, Batches, Times

\* TypeInvariant is inductive, one step per action.
LEMMA TypeStep == TypeInvariant /\ [Next]_vars => TypeInvariant'
<1> SUFFICES ASSUME TypeInvariant, [Next]_vars PROVE TypeInvariant'
    OBVIOUS
<1> USE DEF TypeInvariant
<1>1. ASSUME NEW s \in Schedules, CreateSchedule(s) PROVE TypeInvariant'
    BY <1>1, CronType DEF CreateSchedule, TypeOK, FiniteRows, Rows
<1>2. ASSUME NEW s \in Schedules, DeleteSchedule(s) PROVE TypeInvariant'
    <2>1. IsFiniteSet(executions')
        BY <1>2, FS_Subset DEF DeleteSchedule, FiniteRows
    <2>2. QED
        BY <1>2, <2>1 DEF DeleteSchedule, TypeOK, FiniteRows, Rows
<1>3. ASSUME NEW r \in Requests, CommitPatch(r) PROVE TypeInvariant'
    <2> DEFINE q == requests[r]
    <2>1. q \in PatchRequests /\ q.schedule \in Schedules
        BY <1>3 DEF CommitPatch, TypeOK, PatchRequests
    <2>2. schedules' \in [Schedules -> Rows]
        BY <1>3, <2>1 DEF CommitPatch, TypeOK, Rows, PatchRequests
    <2>3. requests' \in [Requests -> PatchRequests]
        BY <1>3 DEF CommitPatch, TypeOK, NoRequest, PatchRequests
    <2>4. QED
        BY <1>3, <2>2, <2>3 DEF CommitPatch, TypeOK, FiniteRows
<1>4. ASSUME NEW r \in Requests, NEW s \in Schedules, ReadForPatch(r, s)
      PROVE  TypeInvariant'
    <2>1. requests' \in [Requests -> PatchRequests]
        BY <1>4, CronType DEF ReadForPatch, TypeOK, Rows, PatchRequests
    <2>2. QED
        BY <1>4, <2>1 DEF ReadForPatch, TypeOK, FiniteRows
<1>5. ASSUME NEW p \in Schedulers, SelectDue(p) PROVE TypeInvariant'
    <2> DEFINE b == [held |-> DueSchedules, todo |-> DueSchedules, now |-> clock,
                     slot |-> [s \in Schedules |-> schedules[s].nextRun],
                     inserts |-> {}]
    <2>1. b \in Batches /\ IsFiniteSet(b.inserts)
        BY FS_EmptySet DEF Batches, DueSchedules, TypeOK, Rows
    <2>2. batch' = [batch EXCEPT ![p] = b]
        BY <1>5 DEF SelectDue
    <2> HIDE DEF b
    <2>3. QED
        BY <1>5, <2>1, <2>2 DEF SelectDue, TypeOK, FiniteRows
<1>6. ASSUME NEW p \in Schedulers, CommitPoll(p) PROVE TypeInvariant'
    <2>1. schedules' \in [Schedules -> Rows]
        BY <1>6, CronType DEF CommitPoll, TypeOK, Rows, Batches, PlannedNext
    <2>2. executions' \subseteq Executions /\ IsFiniteSet(executions')
        BY <1>6, FS_Union DEF CommitPoll, TypeOK, Batches, FiniteRows
    <2>3. QED
        BY <1>6, <2>1, <2>2, NoBatchType DEF CommitPoll, TypeOK, FiniteRows
<1>7. ASSUME NEW p \in Schedulers, NEW s \in Schedules, VisitSchedule(p, s)
      PROVE  TypeInvariant'
    <2> DEFINE new == NewExecution(s, batch[p].slot[s])
               ins == batch[p].inserts \union (IF MayEnqueue(p, s) THEN {new} ELSE {})
    <2>1. new \in Executions
        BY NewExecutionType DEF TypeOK, Batches, FiniteRows
    <2>2. ins \subseteq Executions /\ IsFiniteSet(ins)
        <3>1. batch[p].inserts \subseteq Executions /\ IsFiniteSet(batch[p].inserts)
            BY DEF TypeOK, Batches, FiniteRows
        <3> HIDE DEF new
        <3>2. IsFiniteSet(batch[p].inserts \union {new})
            BY <3>1, FS_AddElement
        <3>3. QED
            BY <2>1, <3>1, <3>2
    <2>3. batch' = [batch EXCEPT ![p] = [batch[p] EXCEPT !.todo = batch[p].todo \ {s},
                                                       !.inserts = ins]]
        BY <1>7 DEF VisitSchedule, TypeOK
    <2> HIDE DEF ins
    <2>4. batch' \in [Schedulers -> Batches]
        BY <2>2, <2>3 DEF TypeOK, Batches
    <2>5. \A q \in Schedulers : IsFiniteSet(batch'[q].inserts)
        BY <2>2, <2>3 DEF TypeOK, Batches, FiniteRows
    <2>6. QED
        BY <1>7, <2>4, <2>5 DEF VisitSchedule, TypeOK, FiniteRows
<1>8. ASSUME NEW p \in Schedulers, RollbackPoll(p) PROVE TypeInvariant'
    BY <1>8, NoBatchType DEF RollbackPoll, TypeOK, FiniteRows
<1>9. ASSUME NEW x \in executions, SettleExecution(x) PROVE TypeInvariant'
    <2>1. [x EXCEPT !.live = FALSE] \in Executions
        BY DEF TypeOK, Executions
    <2>2. IsFiniteSet(executions')
        <3>1. IsFiniteSet(executions \ {x})
            BY FS_Subset DEF FiniteRows
        <3>2. QED
            BY <1>9, <3>1, FS_AddElement DEF SettleExecution
    <2>3. QED
        BY <1>9, <2>1, <2>2 DEF SettleExecution, TypeOK, FiniteRows
<1>10. CASE Tick
    BY <1>10, BoundsAssumption DEF Tick, TypeOK, FiniteRows, Times
<1>11. CASE UNCHANGED vars
    BY <1>11 DEF vars, TypeOK, FiniteRows
<1> QED
    BY <1>1, <1>2, <1>3, <1>4, <1>5, <1>6, <1>7, <1>8, <1>9, <1>10, <1>11
       DEF Next, Poll, PollNothing

\* Spec keeps the types of every variable, and ever only finitely many executions.
THEOREM TypeCorrect == Spec => []TypeInvariant
<1>1. Init => TypeInvariant
    BY NoBatchType, FS_EmptySet, BoundsAssumption
       DEF Init, TypeInvariant, TypeOK, FiniteRows, Rows, NoRequest, PatchRequests, Times
<1> QED
    BY <1>1, TypeStep, PTL DEF Spec

----------------------------------------------------------------------------
(* Schedules neither overlap nor repeat themselves.                        *)

\* A step that leaves the polls alone and adds no execution keeps the invariant.
LEMMA PollStill ==
    ASSUME PollInvariant, executions' \subseteq executions, UNCHANGED batch
    PROVE  PollInvariant'
    BY DEF PollInvariant, NoOverlap, OneRunPerSlot

\* A poll that ends without inserting keeps the invariant.
LEMMA PollEnds ==
    ASSUME TypeOK, PollInvariant, NEW p \in Schedulers,
           batch' = [batch EXCEPT ![p] = NoBatch], UNCHANGED executions
    PROVE  PollInvariant'
    BY DEF PollInvariant, NoOverlap, OneRunPerSlot, NoBatch, TypeOK

\* PollInvariant is inductive, one step per action.
LEMMA PollStep == TypeInvariant /\ PollInvariant /\ [Next]_vars => PollInvariant'
<1> SUFFICES ASSUME TypeOK, PollInvariant, [Next]_vars PROVE PollInvariant'
    BY DEF TypeInvariant
<1>1. ASSUME NEW s \in Schedules, CreateSchedule(s) PROVE PollInvariant'
    BY <1>1, PollStill DEF CreateSchedule
<1>2. ASSUME NEW s \in Schedules, DeleteSchedule(s) PROVE PollInvariant'
    BY <1>2, PollStill DEF DeleteSchedule
<1>3. ASSUME NEW r \in Requests, CommitPatch(r) PROVE PollInvariant'
    BY <1>3, PollStill DEF CommitPatch
<1>4. ASSUME NEW r \in Requests, NEW s \in Schedules, ReadForPatch(r, s)
      PROVE  PollInvariant'
    BY <1>4, PollStill DEF ReadForPatch
<1>5. ASSUME NEW p \in Schedulers, SelectDue(p) PROVE PollInvariant'
    <2>1. /\ \A q \in Schedulers \ {p} : batch'[q] = batch[q]
          /\ batch'[p].held = DueSchedules /\ batch'[p].todo = DueSchedules
          /\ batch'[p].inserts = {}
          /\ UNCHANGED executions
        BY <1>5 DEF SelectDue, TypeOK
    <2>2. \A q \in Schedulers : DueSchedules \intersect batch[q].held = {}
        BY DEF DueSchedules, Locked
    <2>3. QED
        BY <2>1, <2>2 DEF PollInvariant, NoOverlap, OneRunPerSlot
<1>6. ASSUME NEW p \in Schedulers, CommitPoll(p) PROVE PollInvariant'
    <2>1. /\ batch' = [batch EXCEPT ![p] = NoBatch]
          /\ executions' = executions \union batch[p].inserts
        BY <1>6 DEF CommitPoll
    <2>2. NoOverlap' /\ OneRunPerSlot'
        BY <2>1 DEF PollInvariant, NoOverlap, OneRunPerSlot
    <2>3. \A q \in Schedulers : \A x \in batch'[q].inserts : \A y \in executions' :
            y.schedule = x.schedule => ~y.live /\ y.slot # x.slot
        <3> SUFFICES ASSUME NEW q \in Schedulers, NEW x \in batch'[q].inserts,
                            NEW y \in executions', y.schedule = x.schedule
                     PROVE  ~y.live /\ y.slot # x.slot
            OBVIOUS
        <3>1. q # p /\ batch'[q] = batch[q]
            BY <2>1 DEF NoBatch, TypeOK
        <3>2. y \notin batch[p].inserts
            BY <3>1 DEF PollInvariant
        <3>3. QED
            BY <2>1, <3>1, <3>2 DEF PollInvariant
    <2>4. QED
        BY <2>1, <2>2, <2>3 DEF PollInvariant, NoBatch, TypeOK
<1>7. ASSUME NEW p \in Schedulers, NEW s \in Schedules, VisitSchedule(p, s)
      PROVE  PollInvariant'
    <2> DEFINE new == NewExecution(s, batch[p].slot[s])
    <2>1. /\ \A q \in Schedulers \ {p} : batch'[q] = batch[q]
          /\ batch'[p].held = batch[p].held
          /\ batch'[p].todo = batch[p].todo \ {s}
          /\ batch'[p].inserts = IF MayEnqueue(p, s) THEN batch[p].inserts \union {new}
                                 ELSE batch[p].inserts
          /\ s \in batch[p].todo
          /\ UNCHANGED executions
        BY <1>7 DEF VisitSchedule, TypeOK, Batches
    <2>2. new.schedule = s /\ new.slot = batch[p].slot[s]
        BY DEF NewExecution
    <2>3. MayEnqueue(p, s) => \A y \in executions :
            y.schedule = new.schedule => ~y.live /\ y.slot # new.slot
        BY <2>2 DEF MayEnqueue, SlotTaken, InProgress, ExecutionsOf
    <2>4. \A x \in batch[p].inserts : x.schedule # new.schedule
        BY <2>1, <2>2 DEF PollInvariant
    <2> HIDE DEF new
    <2>5. \A x \in batch'[p].inserts :
            /\ x.schedule \in batch'[p].held \ batch'[p].todo
            /\ \A y \in executions' : y.schedule = x.schedule => ~y.live /\ y.slot # x.slot
            /\ \A y \in batch'[p].inserts : y.schedule = x.schedule => y = x
        BY <2>1, <2>2, <2>3, <2>4 DEF PollInvariant
    <2>6. QED
        BY <2>1, <2>5 DEF PollInvariant, NoOverlap, OneRunPerSlot
<1>8. ASSUME NEW p \in Schedulers, RollbackPoll(p) PROVE PollInvariant'
    BY <1>8, PollEnds DEF RollbackPoll
<1>9. ASSUME NEW x \in executions, SettleExecution(x) PROVE PollInvariant'
    <2> DEFINE settled == [x EXCEPT !.live = FALSE]
    <2>1. /\ settled.schedule = x.schedule /\ settled.slot = x.slot /\ ~settled.live
          /\ executions' = (executions \ {x}) \union {settled}
          /\ UNCHANGED batch
        BY <1>9 DEF SettleExecution, TypeOK, Executions
    <2> HIDE DEF settled
    <2>2. QED
        BY <2>1 DEF PollInvariant, NoOverlap, OneRunPerSlot
<1>10. CASE Tick
    BY <1>10, PollStill DEF Tick
<1>11. CASE UNCHANGED vars
    BY <1>11, PollStill DEF vars
<1> QED
    BY <1>1, <1>2, <1>3, <1>4, <1>5, <1>6, <1>7, <1>8, <1>9, <1>10, <1>11
       DEF Next, Poll, PollNothing

\* Spec keeps PollInvariant, with the types it needs.
LEMMA PollsAreIsolated == Spec => []PollInvariant
<1>1. Init => PollInvariant
    BY DEF Init, PollInvariant, NoOverlap, OneRunPerSlot, NoBatch
<1> QED
    BY <1>1, PollStep, TypeCorrect, PTL DEF Spec

\* NoOverlap, for any number of schedulers, schedules and requests: a schedule never
\* has two executions in progress.
THEOREM SchedulesDoNotOverlap == Spec => []NoOverlap
<1>1. PollInvariant => NoOverlap
    BY DEF PollInvariant
<1> QED
    BY <1>1, PollsAreIsolated, PTL

\* OneRunPerSlot, likewise: no slot of a schedule is ever run twice.
THEOREM SlotsRunOnce == Spec => []OneRunPerSlot
<1>1. PollInvariant => OneRunPerSlot
    BY DEF PollInvariant
<1> QED
    BY <1>1, PollsAreIsolated, PTL

----------------------------------------------------------------------------
(* Nothing is enqueued for a schedule that is not enabled.                 *)

\* The rows a poll has locked stay as the poll selected them.
HeldAreEnabled ==
    \A p \in Schedulers : \A s \in batch[p].held :
        schedules[s].state = "present" /\ schedules[s].enabled

\* A step that locks no row and changes only free ones keeps HeldAreEnabled.
LEMMA HeldStill ==
    ASSUME HeldAreEnabled, UNCHANGED batch,
           \A s \in Schedules : Locked(s) => schedules'[s] = schedules[s],
           TypeOK
    PROVE  HeldAreEnabled'
    BY DEF HeldAreEnabled, Locked, TypeOK, Batches

\* HeldAreEnabled is inductive, one step per action.
LEMMA HeldStep == TypeInvariant /\ HeldAreEnabled /\ [Next]_vars => HeldAreEnabled'
<1> SUFFICES ASSUME TypeOK, HeldAreEnabled, [Next]_vars PROVE HeldAreEnabled'
    BY DEF TypeInvariant
<1>1. ASSUME NEW s \in Schedules, CreateSchedule(s) PROVE HeldAreEnabled'
    <2>1. ~Locked(s)
        BY <1>1 DEF CreateSchedule, HeldAreEnabled, Locked
    <2>2. QED
        BY <1>1, <2>1, HeldStill DEF CreateSchedule, TypeOK
<1>2. ASSUME NEW s \in Schedules, DeleteSchedule(s) PROVE HeldAreEnabled'
    BY <1>2, HeldStill DEF DeleteSchedule, RowFree, TypeOK
<1>3. ASSUME NEW r \in Requests, CommitPatch(r) PROVE HeldAreEnabled'
    <2> DEFINE q == requests[r]
    <2>1. q.schedule \in Schedules
        BY <1>3 DEF CommitPatch, TypeOK, PatchRequests
    <2>2. CASE q.enabled # q.wasEnabled \/ q.nextRun # q.wasNext
        BY <1>3, <2>1, <2>2, HeldStill DEF CommitPatch, RowFree, TypeOK
    <2>3. CASE ~(q.enabled # q.wasEnabled \/ q.nextRun # q.wasNext)
        <3>1. schedules' = schedules
            BY <1>3, <2>1, <2>3 DEF CommitPatch, TypeOK, Rows
        <3>2. QED
            BY <1>3, <3>1, HeldStill DEF CommitPatch
    <2>4. QED
        BY <2>2, <2>3
<1>4. ASSUME NEW r \in Requests, NEW s \in Schedules, ReadForPatch(r, s)
      PROVE  HeldAreEnabled'
    BY <1>4, HeldStill DEF ReadForPatch
<1>5. ASSUME NEW p \in Schedulers, SelectDue(p) PROVE HeldAreEnabled'
    <2>1. /\ \A q \in Schedulers \ {p} : batch'[q] = batch[q]
          /\ batch'[p].held = DueSchedules
          /\ UNCHANGED schedules
        BY <1>5 DEF SelectDue, TypeOK
    <2>2. QED
        BY <2>1 DEF HeldAreEnabled, DueSchedules, Due
<1>6. ASSUME NEW p \in Schedulers, CommitPoll(p) PROVE HeldAreEnabled'
    <2>1. \A s \in Schedules : /\ schedules'[s].state = schedules[s].state
                               /\ schedules'[s].enabled = schedules[s].enabled
        BY <1>6 DEF CommitPoll, TypeOK, Rows
    <2>2. \A q \in Schedulers : batch'[q].held \subseteq batch[q].held
        BY <1>6 DEF CommitPoll, TypeOK, NoBatch
    <2>3. QED
        BY <2>1, <2>2 DEF HeldAreEnabled, TypeOK, Batches
<1>7. ASSUME NEW p \in Schedulers, NEW s \in Schedules, VisitSchedule(p, s)
      PROVE  HeldAreEnabled'
    <2>1. (\A q \in Schedulers : batch'[q].held = batch[q].held) /\ UNCHANGED schedules
        BY <1>7 DEF VisitSchedule, TypeOK, Batches
    <2>2. QED
        BY <2>1 DEF HeldAreEnabled
<1>8. ASSUME NEW p \in Schedulers, RollbackPoll(p) PROVE HeldAreEnabled'
    BY <1>8 DEF RollbackPoll, HeldAreEnabled, NoBatch, TypeOK
<1>9. ASSUME NEW x \in executions, SettleExecution(x) PROVE HeldAreEnabled'
    BY <1>9, HeldStill DEF SettleExecution
<1>10. CASE Tick
    BY <1>10, HeldStill DEF Tick
<1>11. CASE UNCHANGED vars
    BY <1>11, HeldStill DEF vars
<1> QED
    BY <1>1, <1>2, <1>3, <1>4, <1>5, <1>6, <1>7, <1>8, <1>9, <1>10, <1>11
       DEF Next, Poll, PollNothing

\* EnqueuedOnlyWhenEnabled, for any number of schedulers and requests: an execution
\* appears only while its schedule is there and enabled.
THEOREM OnlyEnabledAreEnqueued == Spec => EnqueuedOnlyWhenEnabled
<1> DEFINE Fresh ==
        \A x \in executions' \ executions :
            x.live => schedules[x.schedule].state = "present" /\ schedules[x.schedule].enabled
<1>1. Init => HeldAreEnabled
    BY DEF Init, HeldAreEnabled, NoBatch
<1>2. TypeInvariant /\ PollInvariant /\ HeldAreEnabled /\ [Next]_vars => [Fresh]_vars
    <2> SUFFICES ASSUME TypeOK, PollInvariant, HeldAreEnabled, Next PROVE Fresh
        BY DEF TypeInvariant
    <2>1. ASSUME NEW p \in Schedulers, CommitPoll(p) PROVE Fresh
        BY <2>1 DEF CommitPoll, PollInvariant, HeldAreEnabled
    <2>2. ASSUME NEW x \in executions, SettleExecution(x) PROVE Fresh
        <3>1. ~[x EXCEPT !.live = FALSE].live
            BY DEF TypeOK, Executions
        <3>2. QED
            BY <2>2, <3>1 DEF SettleExecution
    <2>3. executions' \subseteq executions => Fresh
        OBVIOUS
    <2> HIDE DEF Fresh
    <2>4. QED
        BY <2>1, <2>2, <2>3
           DEF Next, Poll, PollNothing, CreateSchedule, DeleteSchedule, CommitPatch,
               ReadForPatch, SelectDue, VisitSchedule, RollbackPoll, Tick, vars
<1> QED
    BY <1>1, <1>2, HeldStep, TypeCorrect, PollsAreIsolated, PTL
       DEF Spec, EnqueuedOnlyWhenEnabled
=============================================================================
