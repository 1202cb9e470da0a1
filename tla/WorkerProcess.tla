--------------------------- MODULE WorkerProcess ---------------------------
(***************************************************************************)
(* worker.py run_worker as one process under a clock: its loop, the task   *)
(* of the scan it runs, the child processes, banner probes and blocking    *)
(* calls of that scan, the heartbeats it leaves and the signals it is      *)
(* stopped with.                                                           *)
(* What the scan writes about the execution is ScanExecutions' subject;    *)
(* this module is about time: how long things last, and what outlives what.*)
(*                                                                         *)
(* The clock ticks only when the event loop and the kernel have nothing    *)
(* left to do at this time; how long a tick is, is the instance's choice.  *)
(***************************************************************************)
EXTENDS Integers, FiniteSets

CONSTANTS TimeLimit, Grace,                    \* EngineProcess
          Tcp, Udp, MaxParallelism, ProbeLimit, \* BannerProbes
          HbInterval, Staleness, CheckEvery, Retries,
          MaxOutages, MaxRivals,               \* ServiceHealth
          LoopBeat,   \* the five seconds of `now - last_heartbeat >= 5.0'
          Poll,       \* worker_poll_seconds
          VersionLimit, \* the five seconds of engine_version's subprocess.run
          CallLimit,  \* urlopen's timeout, taken for the limit of a whole call to Zabbix
          Hosts,      \* bound: hosts of a scan, one call to Zabbix each
          MaxSignals, \* bound: SIGTERMs and SIGINTs sent to one process
          MaxCrashes  \* bound: processes that die

ASSUME EngineAssumption == TimeLimit \in Nat /\ Grace \in Nat
ASSUME BannerAssumption ==
    /\ IsFiniteSet(Tcp \union Udp) /\ Tcp \intersect Udp = {}
    /\ MaxParallelism \in Nat \ {0} /\ ProbeLimit \in Nat \ {0}
ASSUME HealthAssumption ==
    /\ HbInterval \in Nat \ {0} /\ Staleness \in Nat
    /\ CheckEvery \in Nat \ {0} /\ Retries \in Nat \ {0}
ASSUME WorkerAssumption ==
    /\ LoopBeat \in Nat \ {0} /\ Poll \in Nat \ {0}
    /\ {MaxOutages, MaxRivals, MaxSignals, MaxCrashes} \subseteq Nat
ASSUME CallAssumption == VersionLimit \in Nat \ {0} /\ CallLimit \in Nat \ {0} /\ Hosts \in Nat

VARIABLES call, child, age, deadline,
          probe, open,
          row, touched, beat, missed, outages, rivals, failures, check,
          place,     \* where run_worker stands
          stage,     \* where the task of execute_scan stands
          calls,     \* blocking calls to make, the one that runs included
          waited,    \* ticks since that one began
          cancel,    \* a CancelledError is due at the task's next await
          shutdown,  \* _shutdown
          nap,       \* ticks left of the sleep between two polls
          sinceLoop, \* ticks since the loop's own last_heartbeat
          scanAge,   \* ticks since the task of the scan was created
          stopAge,   \* ticks since the first signal
          signals,   \* signals this process got
          unheard,   \* a signal came when there was no task to cancel yet
          crashes

Engine == INSTANCE EngineProcess
Banner == INSTANCE BannerProbes
Health == INSTANCE ServiceHealth

engineVars == <<call, child, age, deadline>>
bannerVars == <<probe, open>>
healthVars == <<row, touched, beat, missed, outages, rivals, failures, check>>
callVars == <<calls, waited>>
stopVars == <<shutdown, stopAge, signals, unheard>>
vars == <<engineVars, bannerVars, callVars, healthVars, stopVars, place, stage, cancel, nap,
          sinceLoop, scanAge, crashes>>

Places == {"down", "boot", "inserting", "loop", "polling", "claimed", "napping", "scan",
           "leaving"}
Stages == {"none", "versions", "nmap", "banner_tls", "nuclei", "zabbix", "finally"}

\* At most two versions are asked for: Nmap's and Nuclei's.
MostCalls == IF stage = "versions" THEN 2 ELSE Hosts
LimitOfCall == IF stage = "versions" THEN VersionLimit ELSE CallLimit
Up == place # "down"

CallTypeOK ==
    /\ calls \in 0..MostCalls
    /\ waited \in 0..(IF calls = 0 THEN 0 ELSE LimitOfCall)

TypeOK ==
    /\ Engine!EngineTypeOK /\ Banner!BannerTypeOK /\ Health!HealthTypeOK /\ CallTypeOK
    /\ place \in Places /\ stage \in Stages
    /\ cancel \in BOOLEAN /\ shutdown \in BOOLEAN /\ unheard \in BOOLEAN
    /\ nap \in 0..Poll
    /\ sinceLoop \in 0..LoopBeat
    /\ scanAge \in Nat
    /\ stopAge \in Nat
    /\ signals \in 0..MaxSignals /\ crashes \in 0..MaxCrashes

Init ==
    /\ Engine!EngineInit /\ Banner!BannerInit /\ Health!HealthInit
    /\ place = "down" /\ stage = "none"
    /\ calls = 0 /\ waited = 0
    /\ cancel = FALSE /\ shutdown = FALSE /\ unheard = FALSE
    /\ nap = 0 /\ sinceLoop = 0 /\ scanAge = 0 /\ stopAge = 0
    /\ signals = 0 /\ crashes = 0

----------------------------------------------------------------------------
(* The process and its container.                                          *)

\* main(): a container starts, with the row its instance name had before.
Start ==
    /\ place = "down"
    /\ place' = "boot"
    /\ Health!StartChecks
    /\ missed' = 0
    /\ UNCHANGED <<engineVars, bannerVars, callVars, stopVars, row, touched, beat, outages, rivals,
                   stage, cancel, nap, sinceLoop, scanAge, crashes>>

\* The process ends, and with its container whatever it started.
Ends ==
    /\ place' = "down" /\ stage' = "none"
    /\ calls' = 0 /\ waited' = 0
    /\ Health!StopChecks /\ Health!StopBeats
    /\ cancel' = FALSE /\ nap' = 0
    /\ call' = "none" /\ child' = "none"
    /\ age' = 0 /\ deadline' = 0
    /\ probe' = [s \in Banner!Services |-> "none"]
    /\ open' = [s \in Banner!Services |-> 0]
    /\ sinceLoop' = 0 /\ scanAge' = 0
    /\ shutdown' = FALSE /\ unheard' = FALSE /\ stopAge' = 0 /\ signals' = 0
    /\ UNCHANGED <<touched, rivals>>

\* SIGKILL, or an exception out of run_worker.
Crash ==
    /\ Up
    /\ crashes < MaxCrashes
    /\ crashes' = crashes + 1
    /\ Ends
    /\ UNCHANGED <<row, missed, outages>>

----------------------------------------------------------------------------
(* run_worker up to its loop: the first heartbeat, which nothing guards.   *)

\* update_service_heartbeat finds the row and writes it.
FirstBeat ==
    /\ place = "boot"
    /\ row.status # "absent"
    /\ Health!WriteRow("healthy")
    /\ place' = "loop"
    /\ sinceLoop' = LoopBeat
    /\ UNCHANGED <<engineVars, bannerVars, callVars, stopVars, touched, beat, rivals, failures,
                   check, stage, cancel, nap, scanAge, crashes>>

FindNoRow ==
    /\ place = "boot"
    /\ row.status = "absent"
    /\ place' = "inserting"
    /\ UNCHANGED <<engineVars, bannerVars, callVars, healthVars, stopVars, stage, cancel, nap,
                   sinceLoop, scanAge, crashes>>

StillAbsent == row.status = "absent"

InsertRow ==
    /\ place = "inserting"
    /\ StillAbsent
    /\ Health!WriteRow("healthy")
    /\ place' = "loop"
    /\ sinceLoop' = LoopBeat
    /\ UNCHANGED <<engineVars, bannerVars, callVars, stopVars, touched, beat, rivals, failures,
                   check, stage, cancel, nap, scanAge, crashes>>

\* uq_service_instance refuses the second row: the process ends with the error.
InsertConflict ==
    /\ place = "inserting"
    /\ ~StillAbsent
    /\ Ends
    /\ UNCHANGED <<row, missed, outages, crashes>>

----------------------------------------------------------------------------
(* The loop.                                                               *)

\* Variant: `while True'.
Forever == TRUE

GoesOn == ~shutdown

\* `while not _shutdown', then a heartbeat when the last one is five seconds old.
\* One that fails is tried again at the next poll.
BeatInLoop ==
    /\ place = "loop" /\ GoesOn
    /\ sinceLoop >= LoopBeat
    /\ \/ Health!WriteRow("healthy") /\ sinceLoop' = 0
       \/ Health!LoseWrite /\ UNCHANGED sinceLoop
    /\ place' = "polling"
    /\ UNCHANGED <<engineVars, bannerVars, callVars, stopVars, touched, beat, rivals, failures,
                   check, stage, cancel, nap, scanAge, crashes>>

SkipBeat ==
    /\ place = "loop" /\ GoesOn
    /\ sinceLoop < LoopBeat
    /\ place' = "polling"
    /\ UNCHANGED <<engineVars, bannerVars, callVars, healthVars, stopVars, stage, cancel, nap,
                   sinceLoop, scanAge, crashes>>

\* claim_next_execution: heartbeat_at is written with the claim.
ClaimOne ==
    /\ place = "polling"
    /\ place' = "claimed"
    /\ touched' = 0
    /\ UNCHANGED <<engineVars, bannerVars, callVars, row, beat, missed, outages, rivals, failures,
                   check, stopVars, stage, cancel, nap, sinceLoop, scanAge, crashes>>

ClaimNone ==
    /\ place = "polling"
    /\ place' = "napping"
    /\ nap' = Poll
    /\ UNCHANGED <<engineVars, bannerVars, callVars, healthVars, stopVars, stage, cancel,
                   sinceLoop, scanAge, crashes>>

\* The sleep is cut in chunks of half a second, each followed by a look at
\* _shutdown.
Wake ==
    /\ place = "napping"
    /\ nap = 0 \/ shutdown
    /\ place' = "loop"
    /\ nap' = 0
    /\ UNCHANGED <<engineVars, bannerVars, callVars, healthVars, stopVars, stage, cancel,
                   sinceLoop, scanAge, crashes>>

\* After the loop: the row is left `stopped', or as it was if that fails.
StopGracefully ==
    /\ place = "loop" /\ shutdown
    /\ place' = "leaving"
    /\ Health!WriteRow("stopped") \/ Health!LoseWrite
    /\ UNCHANGED <<engineVars, bannerVars, callVars, stopVars, touched, beat, rivals, failures,
                   check, stage, cancel, nap, sinceLoop, scanAge, crashes>>

\* asyncio.run() joins the threads of its executor before main() returns.
Leave ==
    /\ place = "leaving"
    /\ calls = 0
    /\ Ends
    /\ UNCHANGED <<row, missed, outages, crashes>>

----------------------------------------------------------------------------
(* The scan.                                                               *)

\* An engine run is inserted and the execution's heartbeat renewed with it.
Enter(s) ==
    /\ stage' = s
    /\ touched' = 0
    /\ call' = IF s \in {"nmap", "nuclei"} THEN "spawning" ELSE "none"
    /\ child' = "none" /\ age' = 0 /\ deadline' = 0
    /\ IF s = "banner_tls" THEN Banner!StartPass ELSE UNCHANGED bannerVars
    /\ IF s = "zabbix" THEN calls' \in 0..Hosts ELSE calls' = 0
    /\ waited' = 0

\* The task is created even if a signal came since the last look at _shutdown.  Its first
\* await is Nmap's: what comes before, the two versions included, keeps the event loop.
StartScan ==
    /\ place = "claimed"
    /\ place' = "scan" /\ stage' = "versions"
    /\ scanAge' = 0
    /\ calls' \in 0..2 /\ waited' = 0
    /\ UNCHANGED <<engineVars, bannerVars, healthVars, stopVars, cancel, nap, sinceLoop,
                   crashes>>

\* The scan is over before any engine, or between two of them.
Finally ==
    /\ stage' = "finally"
    /\ UNCHANGED <<engineVars, bannerVars, callVars, touched>>

\* The versions are known, or something refused the scan before.  The task that renews the
\* heartbeats runs for the first time when the event loop does.
VersionsOver ==
    /\ stage = "versions"
    /\ calls = 0
    /\ \/ Enter("nmap") /\ Health!StartBeats
       \/ Finally /\ UNCHANGED beat
    /\ UNCHANGED <<row, missed, outages, rivals, failures, check, stopVars, place, cancel,
                   nap, sinceLoop, scanAge, crashes>>

\* What may come after an engine: the profile and the schedule choose.
Later(s) == CASE s = "nmap" -> {"banner_tls", "nuclei", "zabbix"}
              [] s = "banner_tls" -> {"nuclei", "zabbix"}
              [] s = "nuclei" -> {"zabbix"}
              [] OTHER -> {}

Advance == Finally \/ \E s \in Later(stage) : Enter(s)

\* Nmap's error and a cancellation end the scan; Nuclei's error is a partial one.
EngineOver ==
    /\ stage \in {"nmap", "nuclei"}
    /\ call \in Engine!Ended
    /\ IF call = "returned" \/ (stage = "nuclei" /\ call = "failed") THEN Advance ELSE Finally
    /\ UNCHANGED <<row, beat, missed, outages, rivals, failures, check, stopVars, place,
                   cancel, nap, sinceLoop, scanAge, crashes>>

BannerOver ==
    /\ stage = "banner_tls"
    /\ Banner!PassOver
    /\ Advance
    /\ UNCHANGED <<row, beat, missed, outages, rivals, failures, check, stopVars, place,
                   cancel, nap, sinceLoop, scanAge, crashes>>

\* The gather raises CancelledError.
BannerCancelled ==
    /\ stage = "banner_tls"
    /\ Banner!CancelPass
    /\ stage' = "finally"
    /\ UNCHANGED <<engineVars, callVars, healthVars, stopVars, place, nap, sinceLoop, scanAge,
                   crashes>>

\* A call ends and the next one begins; an error ends reconcile with it.
CallOver ==
    /\ calls > 0
    /\ calls' \in {calls - 1} \union (IF stage = "versions" THEN {} ELSE {0})
    /\ waited' = 0
    /\ UNCHANGED <<engineVars, bannerVars, healthVars, stopVars, place, stage, cancel, nap,
                   sinceLoop, scanAge, crashes>>

\* By itself: nothing makes the binary or the Zabbix server answer.
CallEnds == CallOver

CallExpires == waited = LimitOfCall /\ CallOver

\* The task is told that reconcile returned, or raised ZabbixError: the last stage.
ZabbixOver ==
    /\ stage = "zabbix"
    /\ calls = 0
    /\ Finally
    /\ UNCHANGED <<row, beat, missed, outages, rivals, failures, check, stopVars, place,
                   cancel, nap, sinceLoop, scanAge, crashes>>

\* The await of asyncio.to_thread is cancelled; the thread goes on with its calls.
ZabbixCancelled ==
    /\ stage = "zabbix"
    /\ cancel
    /\ cancel' = FALSE
    /\ Finally
    /\ UNCHANGED <<row, beat, missed, outages, rivals, failures, check, stopVars, place, nap,
                   sinceLoop, scanAge, crashes>>

\* The finally of execute_scan.  A cancellation that finds the task here is
\* swallowed with the heartbeat task's own.
EndScan ==
    /\ stage = "finally"
    /\ stage' = "none"
    /\ place' = "loop"
    /\ Health!StopBeats
    /\ cancel' = FALSE
    /\ call' = "none"
    /\ scanAge' = 0
    /\ UNCHANGED <<child, age, deadline, bannerVars, callVars, row, touched, missed, outages,
                   rivals, failures, check, stopVars, nap, sinceLoop, crashes>>

ChildSteps ==
    /\ Engine!EngineStep
    /\ UNCHANGED <<bannerVars, callVars, healthVars, stopVars, place, stage, nap, sinceLoop,
                   scanAge, crashes>>

ChildExits ==
    /\ Engine!ChildExits
    /\ UNCHANGED <<bannerVars, callVars, healthVars, stopVars, place, stage, nap, sinceLoop,
                   scanAge, crashes>>

ProbeSteps ==
    /\ stage = "banner_tls"
    /\ \E s \in Banner!Services : Banner!Acquire(s) \/ Banner!ProbeExpires(s)
    /\ UNCHANGED <<engineVars, callVars, healthVars, stopVars, place, stage, nap, sinceLoop,
                   scanAge, crashes>>

ProbeEnds ==
    /\ \E s \in Banner!Services : Banner!ProbeEnds(s)
    /\ UNCHANGED <<engineVars, callVars, healthVars, stopVars, place, stage, nap, sinceLoop,
                   scanAge, crashes>>

----------------------------------------------------------------------------
(* Signals, heartbeats, time.                                              *)

\* Variant: the flag alone, as if the scan looked at it.
FlagOnly == UNCHANGED cancel

CancelTask == cancel' = (cancel \/ place = "scan")

\* _signal_handler: the flag, and a cancellation if there is a task to cancel.
Signal ==
    /\ place \notin {"down", "boot", "inserting"}
    /\ signals < MaxSignals
    /\ signals' = signals + 1
    /\ shutdown' = TRUE
    /\ CancelTask
    /\ unheard' = (unheard \/ (~shutdown /\ place \in {"polling", "claimed"}))
    /\ UNCHANGED <<engineVars, bannerVars, callVars, healthVars, stopAge, place, stage, nap,
                   sinceLoop, scanAge, crashes>>

HealthSteps ==
    /\ Health!HealthStep
    /\ UNCHANGED <<engineVars, bannerVars, callVars, stopVars, place, stage, cancel, nap,
                   sinceLoop, scanAge, crashes>>

Quiet ==
    /\ place \in {"napping", "scan", "leaving", "down"}
    /\ place = "napping" => nap > 0 /\ ~shutdown
    /\ place = "leaving" \/ stage \in {"versions", "zabbix"} => calls > 0
    /\ stage = "zabbix" => ~cancel
    /\ calls > 0 => waited < LimitOfCall
    /\ stage \in {"nmap", "nuclei"} => call \notin Engine!Ended \union {"spawning"}
    /\ Engine!EngineQuiet
    /\ stage = "banner_tls" => Banner!BannerQuiet
    /\ stage # "finally"
    /\ Health!HealthQuiet

Tick ==
    /\ Quiet
    /\ Engine!EngineTick
    /\ IF stage = "banner_tls" THEN Banner!BannerTick ELSE UNCHANGED bannerVars
    /\ Health!HealthTick
    /\ calls' = calls /\ waited' = IF calls > 0 THEN waited + 1 ELSE waited
    /\ nap' = Health!Sooner(nap)
    /\ sinceLoop' = Health!Older(sinceLoop, LoopBeat)
    /\ scanAge' = IF place = "scan" THEN scanAge + 1 ELSE scanAge
    /\ stopAge' = IF shutdown /\ ~unheard THEN stopAge + 1 ELSE stopAge
    /\ UNCHANGED <<shutdown, signals, unheard, place, stage, cancel, crashes>>

----------------------------------------------------------------------------
Boot == FirstBeat \/ FindNoRow \/ InsertRow \/ InsertConflict

Loop == BeatInLoop \/ SkipBeat \/ ClaimOne \/ ClaimNone \/ Wake \/ StopGracefully \/ Leave

Scan ==
    StartScan \/ VersionsOver \/ ChildSteps \/ ProbeSteps \/ EngineOver \/ BannerOver
        \/ BannerCancelled \/ CallExpires \/ ZabbixOver \/ ZabbixCancelled \/ EndScan

Next ==
    \/ Start \/ Crash \/ Boot \/ Loop \/ Scan
    \/ ChildExits \/ ProbeEnds \/ CallEnds
    \/ Signal \/ HealthSteps \/ Tick

Spec == Init /\ [][Next]_vars

\* The container is started again, the event loop runs what is due and time passes;
\* nothing makes a child process exit or a service, a binary or Zabbix answer.
FairSpec == Spec /\ WF_vars(Start) /\ WF_vars(Boot) /\ WF_vars(Loop) /\ WF_vars(Scan)
                 /\ WF_vars(HealthSteps) /\ WF_vars(Tick)

----------------------------------------------------------------------------
(* Properties.                                                             *)

ChildOutlives == call \in Engine!Ended \union {"none"} /\ child \in Engine!Alive

\* A child process outlives the call that started it only when a cancellation came
\* while the call was already ending it: run_process kills what it started.
ChildKilledWithCall ==
    ChildOutlives => signals >= 2 \/ age >= TimeLimit

\* What the name of a test asks without that exception.
NoChildOutlives == ~ChildOutlives

\* The rounds the semaphore makes of the probes.
Rounds == (Cardinality(Tcp) + MaxParallelism - 1) \div MaxParallelism

\* A scan is bounded although no limit covers it as a whole: each child by its own
\* time limit and the grace, the banners by as many rounds of probes as the
\* semaphore makes of them, Zabbix by one call for each host.
ScanIsBounded ==
    place = "scan" =>
        scanAge <= 2 * VersionLimit + 2 * (TimeLimit + Grace) + Rounds * ProbeLimit
                   + Hosts * CallLimit

\* A worker told to stop is gone within the grace of one child, or once the calls it had
\* begun are over: the versions keep the event loop, and the process waits for the
\* thread that talks to Zabbix, host after host.  It never waits for two of these in
\* turn.  The exception is a signal between its look at _shutdown and the creation of
\* the task.
StopIsPrompt ==
    Up /\ shutdown /\ ~unheard =>
        \E patience \in {Grace, 2 * VersionLimit, Hosts * CallLimit} : stopAge <= patience

\* ... with that exception: a scan is started although the signal came.
NoScanAfterSignal == ~(unheard /\ place = "scan")

\* Other workers take an execution for stale only when its heartbeat is
\* worker_stale_timeout_seconds old: a live scan gets there only by losing three
\* heartbeats in a row.
StaleOnlyAfterThree == place = "scan" /\ touched >= Health!StaleTimeout => missed >= 3

\* The health check passes a worker that polls and whose heartbeats are written, and no
\* longer passes one that has told its end, however long it then waits for its thread:
\* nothing of its last scan writes "healthy" over "stopped".
LiveIsHealthy ==
    missed = 0 /\ rivals = 0 =>
        /\ place = "napping" => Health!Healthy
        /\ place = "leaving" => ~Health!Healthy

\* Docker's verdict: a worker that lives, is asked every CheckEvery ticks and never
\* loses a heartbeat is not declared unhealthy.
ContainerStaysHealthy == place \in {"napping", "scan"} => failures < Retries

\* Whatever a scan waits for, it ends.
ScanEnds == place = "scan" ~> place # "scan"

\* A process told to stop stops.
StopEnds == shutdown ~> place = "down"

----------------------------------------------------------------------------
(* What the proofs need besides: see WorkerProcessProofs.                  *)

\* How a call and its child go together, and how many signals it took to get there.
ChildInvariant ==
    /\ cancel => signals >= 1
    /\ call = "spawning" => child = "none"
    /\ call = "communicating" => deadline = TimeLimit
    /\ call = "terminating" => age >= TimeLimit
    /\ call \in {"cancelling", "reapingCancelled"} => signals >= 1 /\ (cancel => signals >= 2)
    /\ call \in {"reaping", "reapingCancelled"} => child \in {"killed", "gone"}
    /\ ChildKilledWithCall

\* Where the calls and the stage of a scan stand.  Blocking calls outlive their stage only
\* when the worker was told to stop.
PlaceInvariant ==
    /\ place # "scan" => ~cancel /\ call = "none" /\ stage = "none"
    /\ place = "scan" => stage # "none"
    /\ stage \in {"nmap", "nuclei"} => call # "none"
    /\ stage \in {"versions", "banner_tls", "zabbix"} => call = "none"
    /\ stage = "finally" => call \in Engine!Ended \union {"none"}
    /\ ~shutdown => stopAge = 0 /\ ~unheard /\ ~cancel
    /\ place \in {"down", "boot", "inserting"} => ~shutdown
    /\ place = "leaving" => shutdown
    /\ calls > 0 =>
          \/ stage \in {"versions", "zabbix"}
          \/ shutdown /\ (stage = "finally" \/ place \in {"loop", "leaving"})

\* A clock that stood at nought when the first of the calls began, or later.
CallClock(t) == t + calls * LimitOfCall <= MostCalls * LimitOfCall + waited

\* How a told worker gets out of its scan: the cancellation is met at once, or as soon as the
\* versions are known, or the grace of one child is running.
GettingOut ==
    \/ cancel /\ stopAge = 0
    \/ cancel /\ stage = "versions"
    \/ cancel /\ stage = "nmap" /\ call \in {"spawning", "failed"}
    \/ stage = "finally"
    \/ stage \in {"nmap", "nuclei"} /\ call \in {"cancelled", "reapingCancelled"}
    \/ /\ stage \in {"nmap", "nuclei"} /\ call = "cancelling"
       /\ age <= deadline /\ stopAge + deadline = age + Grace

StopInvariant ==
    shutdown /\ ~unheard =>
        /\ place \in {"loop", "napping", "scan", "leaving"}
        /\ StopIsPrompt
        /\ calls > 0 => CallClock(stopAge)
        /\ place = "scan" => GettingOut

\* The execution's heartbeat is as old as the turns its task missed, or as the calls made
\* before the task ran at all.
BeatInvariant ==
    /\ place # "scan" \/ stage = "versions" => beat = Health!Off
    /\ place = "claimed" => touched = 0
    /\ stage = "versions" => CallClock(touched)
    /\ place = "scan" /\ stage # "versions" =>
          \/ beat >= 0 /\ touched + beat <= (missed + 1) * HbInterval
          \/ beat = Health!Off /\ stage = "finally" /\ touched <= 2 * VersionLimit

\* Settings under which an idle worker's row is never too old for the health check.
HeartbeatsSuffice == LoopBeat + Poll <= Staleness + 1

\* Settings under which asking for the versions does not take the whole stale timeout: all
\* but the shortest one.
VersionsAreQuick == 2 * VersionLimit < Health!StaleTimeout

\* The row of a worker that lost no heartbeat, by where the worker stands.
RowInvariant ==
    missed = 0 /\ rivals = 0 /\ place \notin {"down", "boot", "inserting"} =>
        /\ row.status = IF place = "leaving" THEN "stopped" ELSE "healthy"
        /\ place # "leaving" => row.age <= sinceLoop \/ sinceLoop = LoopBeat
        /\ place = "polling" => row.age < LoopBeat
        /\ place = "napping" => row.age + nap < LoopBeat + Poll

\* The probes that had started by round k of a pass that is t ticks old.
StartedBy(t, k) ==
    {s \in Tcp : \/ probe[s] = "over"
                 \/ probe[s] = "open" /\ t - open[s] <= k * ProbeLimit}

\* Each full round of the semaphore has started MaxParallelism more of them, as long as one
\* waits; so the last one starts before the last round.
BannerClock(t) ==
    /\ t \in 0..(Rounds * ProbeLimit)
    /\ \A s \in Udp : probe[s] = "over"
    /\ \A s \in Tcp : probe[s] # "none" /\ (probe[s] = "waiting" => open[s] = 0)
    /\ \A s \in Banner!Probing : t - open[s] <= (Rounds - 1) * ProbeLimit
    /\ Banner!Waiting # {} =>
          \A k \in 0..t : t > k * ProbeLimit =>
              Cardinality(StartedBy(t, k)) >= (k + 1) * MaxParallelism

\* A call that is t ticks old: its child is as old, and under a deadline it cannot pass.
EngineClock(t) ==
    /\ t \in 0..(TimeLimit + Grace)
    /\ call = "spawning" => t = 0
    /\ call \in Engine!Waits => t = age /\ age <= deadline /\ deadline <= TimeLimit + Grace

\* What a scan has behind it when it gets to a stage, and what is to come.
ClockInvariant ==
    LET asked == 2 * VersionLimit
        called == TimeLimit + Grace
        probed == Rounds * ProbeLimit
    IN  place = "scan" =>
            /\ stage = "versions" => CallClock(scanAge)
            /\ stage = "nmap" => \E spent \in 0..asked : EngineClock(scanAge - spent)
            /\ stage = "banner_tls" =>
                  \E spent \in 0..(asked + called) : BannerClock(scanAge - spent)
            /\ stage = "nuclei" =>
                  \E spent \in 0..(asked + called + probed) : EngineClock(scanAge - spent)
            /\ stage = "zabbix" =>
                  \E spent \in 0..(asked + 2 * called + probed) : CallClock(scanAge - spent)
            /\ ScanIsBounded
=============================================================================
