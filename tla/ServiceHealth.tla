--------------------------- MODULE ServiceHealth ---------------------------
(***************************************************************************)
(* The heartbeat row of one worker (services.py update_service_heartbeat), *)
(* the heartbeat of the execution it works on, the task that renews both   *)
(* during a scan (_periodic_heartbeat), and the health check the container *)
(* runs (healthcheck.py, docker-compose.yml).  Time is counted in ticks by *)
(* the module that composes this one.                                      *)
(***************************************************************************)
EXTENDS Integers

CONSTANTS HbInterval,  \* max(0.5, worker_stale_timeout_seconds / 4)
          Staleness,   \* --max-staleness of the health check
          CheckEvery,  \* interval of the container's health check
          Retries,     \* failed checks in a row that make it unhealthy
          MaxOutages,  \* bound: heartbeats lost to the database
          MaxRivals    \* bound: writes of another process of the same name

VARIABLES row,      \* the row of (service_name, instance_id): status and age
          touched,  \* ticks since heartbeat_at of the execution was written
          beat,     \* ticks until _periodic_heartbeat wakes, or Off
          missed,   \* heartbeats that failed since the last one written
          outages, rivals,
          failures, \* failed health checks in a row
          check     \* ticks until the next health check, or Off

healthVars == <<row, touched, beat, missed, outages, rivals, failures, check>>

Off == -1
Operational == {"healthy", "running", "idle"}
StaleTimeout == 4 * HbInterval

\* An age is counted no further than what it is compared with.
Older(n, bound) == IF n < bound THEN n + 1 ELSE n
Sooner(n) == IF n > 0 THEN n - 1 ELSE n

HealthTypeOK ==
    /\ row \in [status : {"absent", "stopped"} \union Operational, age : 0..(Staleness + 1)]
    /\ touched \in 0..StaleTimeout
    /\ beat \in Off..HbInterval
    /\ missed \in 0..outages
    /\ outages \in 0..MaxOutages
    /\ rivals \in 0..MaxRivals
    /\ failures \in 0..Retries
    /\ check \in Off..CheckEvery

HealthInit ==
    /\ row = [status |-> "absent", age |-> 0]
    /\ touched = 0
    /\ beat = Off
    /\ missed = 0
    /\ outages = 0
    /\ rivals = 0
    /\ failures = 0
    /\ check = Off

----------------------------------------------------------------------------
(* update_service_heartbeat.                                               *)

\* Variant: an UPDATE that forgets last_heartbeat_at.
StatusOnly(status) == [row EXCEPT !.status = status]

\* Every column is written, last_heartbeat_at included.
Written(status) == [status |-> status, age |-> 0]

WriteRow(status) ==
    /\ row' = Written(status)
    /\ missed' = 0
    /\ UNCHANGED outages

\* The database refuses it: logged by every caller but run_worker's first one.
LoseWrite ==
    /\ outages < MaxOutages
    /\ outages' = outages + 1
    /\ missed' = missed + 1
    /\ UNCHANGED row

\* Another process configured with the same INSTANCE_ID writes the same row.
RivalWrites ==
    /\ rivals < MaxRivals
    /\ rivals' = rivals + 1
    /\ \E status \in {"healthy", "stopped"} : row' = Written(status)
    /\ UNCHANGED <<touched, beat, missed, outages, failures, check>>

----------------------------------------------------------------------------
(* _periodic_heartbeat: created first thing in execute_scan, cancelled and *)
(* awaited in its finally.                                                 *)

StartBeats == beat' = HbInterval

\* Variant: the finally of execute_scan leaves the task to itself.
BeatsGoOn == UNCHANGED beat

StopBeats == beat' = Off

\* Variant: the task renews the row of the service only.
ServiceOnly == UNCHANGED touched

TouchExecution == touched' = 0

\* The execution's heartbeat is committed before the row is looked up, and an
\* error in either is logged: the next turn sleeps a whole interval again.
PeriodicBeat ==
    /\ beat = 0
    /\ beat' = HbInterval
    /\ \/ WriteRow("healthy") /\ TouchExecution
       \/ LoseWrite /\ TouchExecution
       \/ LoseWrite /\ UNCHANGED touched
    /\ UNCHANGED <<rivals, failures, check>>

----------------------------------------------------------------------------
(* check_health, run by the container every CheckEvery ticks.              *)

Healthy == row.status \in Operational /\ row.age <= Staleness

\* The check reads the row at the end of a tick, when everything due was written.
HealthCheck ==
    IF check = 1
    THEN /\ check' = CheckEvery
         /\ failures' = IF Healthy THEN 0
                        ELSE IF failures < Retries THEN failures + 1 ELSE failures
    ELSE /\ check' = Sooner(check)
         /\ UNCHANGED failures

StartChecks == failures' = 0 /\ check' = CheckEvery
StopChecks == failures' = 0 /\ check' = Off

----------------------------------------------------------------------------
HealthStep == PeriodicBeat \/ RivalWrites

HealthQuiet == beat # 0

HealthTick ==
    /\ row' = [row EXCEPT !.age = Older(@, Staleness + 1)]
    /\ touched' = Older(touched, StaleTimeout)
    /\ beat' = Sooner(beat)
    /\ HealthCheck
    /\ UNCHANGED <<missed, outages, rivals>>
=============================================================================
