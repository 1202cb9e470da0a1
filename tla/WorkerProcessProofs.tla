------------------------- MODULE WorkerProcessProofs -------------------------
(***************************************************************************)
(* For any limits, services and faults: what becomes of the child process  *)
(* of a call, whatever signals, heartbeats, banners and time do around it; *)
(* how long a stop and a scan take; what the heartbeats tell.              *)
(***************************************************************************)
EXTENDS WorkerProcess, FiniteSetTheorems, TLAPS

\* The types of the engine's variables and the banners', as their own steps keep them.
LEMMA EngineTypes ==
    ASSUME TypeOK, Engine!EngineStep \/ Engine!ChildExits
    PROVE  Engine!EngineTypeOK'
<1> USE EngineAssumption DEF TypeOK, Engine!EngineTypeOK
<1>1. CASE Engine!Spawn
    BY <1>1 DEF Engine!Spawn, Engine!Calls, Engine!Waits, Engine!Children, Engine!Alive
<1>1a. CASE Engine!SpawnFails
    BY <1>1a DEF Engine!SpawnFails, Engine!Calls, Engine!Ended
<1>1b. CASE Engine!SpawnCancelled
    BY <1>1b DEF Engine!SpawnCancelled, Engine!Calls, Engine!Ended, Engine!Children
<1>2. CASE Engine!ChildDies \/ Engine!ChildExits
    BY <1>2 DEF Engine!ChildDies, Engine!ChildExits, Engine!Children
<1>3. CASE Engine!Communicated
    BY <1>3 DEF Engine!Communicated, Engine!Calls, Engine!Ended
<1>4. CASE Engine!TimesOut
    BY <1>4 DEF Engine!TimesOut, Engine!AskToEnd, Engine!Patience, Engine!Calls, Engine!Waits,
           Engine!Children, Engine!Alive
<1>5. CASE Engine!TimesOutTooLate
    BY <1>5 DEF Engine!TimesOutTooLate, Engine!Calls, Engine!Ended
<1>6. CASE Engine!Cancelled
    BY <1>6 DEF Engine!Cancelled, Engine!EndCancelled, Engine!AskToEnd, Engine!Patience,
           Engine!Calls, Engine!Waits, Engine!Ended, Engine!Children, Engine!Alive
<1>7. CASE Engine!Reaped
    BY <1>7 DEF Engine!Reaped, Engine!Verdict, Engine!Calls, Engine!Ended
<1>8. CASE Engine!GraceEnds
    BY <1>8 DEF Engine!GraceEnds, Engine!Kill, Engine!Calls, Engine!Reaps, Engine!Children
<1>9. CASE Engine!CancelledInHandler
    BY <1>9 DEF Engine!CancelledInHandler, Engine!Calls, Engine!Ended
<1> QED
    BY <1>1, <1>2, <1>3, <1>4, <1>5, <1>6, <1>7, <1>8, <1>9, <1>1a, <1>1b DEF Engine!EngineStep

\* A CancelledError is delivered or left where it is.
LEMMA CancelStep ==
    ASSUME Engine!EngineStep \/ Engine!ChildExits
    PROVE  cancel' = cancel \/ cancel' = FALSE
    BY DEF Engine!EngineStep, Engine!Spawn, Engine!SpawnFails, Engine!SpawnCancelled,
           Engine!ChildExits, Engine!ChildDies, Engine!Communicated, Engine!TimesOut,
           Engine!TimesOutTooLate, Engine!Cancelled, Engine!Reaped, Engine!GraceEnds,
           Engine!CancelledInHandler

LEMMA BannerTypes ==
    ASSUME TypeOK, NEW s \in Banner!Services,
           Banner!Acquire(s) \/ Banner!ProbeExpires(s) \/ Banner!ProbeEnds(s)
    PROVE  Banner!BannerTypeOK' /\ cancel' = cancel
    BY DEF TypeOK, Banner!BannerTypeOK, Banner!Acquire, Banner!ProbeExpires, Banner!ProbeEnds,
           Banner!Over

\* The row, as whoever writes or loses it leaves it.
LEMMA WriteTypes ==
    ASSUME TypeOK, NEW status \in Health!Operational \union {"stopped"},
           Health!WriteRow(status) \/ Health!LoseWrite
    PROVE  /\ row' \in [status : {"absent", "stopped"} \union Health!Operational, age : 0..(Staleness + 1)]
           /\ missed' \in 0..outages'
           /\ outages' \in 0..MaxOutages
    BY HealthAssumption, WorkerAssumption
       DEF TypeOK, Health!HealthTypeOK, Health!WriteRow, Health!LoseWrite, Health!Written

\* The blocking calls, as whoever leaves them alone or ends them leaves them.
LEMMA CallsKept ==
    ASSUME CallTypeOK, UNCHANGED callVars, calls = 0 \/ (stage = "versions" <=> stage' = "versions")
    PROVE  CallTypeOK'
    BY CallAssumption DEF CallTypeOK, callVars, MostCalls, LimitOfCall

LEMMA NoCalls == calls' = 0 /\ waited' = 0 => CallTypeOK'
    BY CallAssumption DEF CallTypeOK, MostCalls, LimitOfCall

\* What Enter, Advance and Finally leave of the engine, the banners and the calls.
LEMMA EnterTypes ==
    ASSUME TypeOK, NEW s \in {"nmap", "banner_tls", "nuclei", "zabbix"}, Enter(s)
    PROVE  /\ Engine!EngineTypeOK' /\ Banner!BannerTypeOK' /\ CallTypeOK'
           /\ stage' \in Stages /\ touched' \in 0..Health!StaleTimeout
<1>1. /\ Engine!EngineTypeOK' /\ Banner!BannerTypeOK'
      /\ stage' \in Stages /\ touched' \in 0..Health!StaleTimeout
    BY HealthAssumption DEF TypeOK, Enter, Stages, Engine!EngineTypeOK, Engine!Calls, Engine!Children,
           Banner!BannerTypeOK, Banner!StartPass, bannerVars, Health!StaleTimeout
<1>2. CallTypeOK'
    BY CallAssumption DEF Enter, CallTypeOK, MostCalls, LimitOfCall
<1> QED
    BY <1>1, <1>2

LEMMA FinallyTypes ==
    ASSUME TypeOK, Finally, calls = 0 \/ stage # "versions"
    PROVE  /\ Engine!EngineTypeOK' /\ Banner!BannerTypeOK' /\ CallTypeOK'
           /\ stage' \in Stages /\ touched' \in 0..Health!StaleTimeout
<1>1. CallTypeOK'
    BY CallsKept DEF TypeOK, Finally
<1> QED
    BY <1>1 DEF TypeOK, Finally, Stages, Engine!EngineTypeOK, Banner!BannerTypeOK, engineVars,
           bannerVars, Health!HealthTypeOK

LEMMA AdvanceTypes ==
    ASSUME TypeOK, Advance \/ Finally, calls = 0 \/ stage # "versions"
    PROVE  /\ Engine!EngineTypeOK' /\ Banner!BannerTypeOK' /\ CallTypeOK'
           /\ stage' \in Stages /\ touched' \in 0..Health!StaleTimeout
<1>1. \A s \in Later(stage) : s \in {"nmap", "banner_tls", "nuclei", "zabbix"}
    BY DEF Later
<1> QED
    BY <1>1, EnterTypes, FinallyTypes DEF Advance

LEMMA EndTypes ==
    ASSUME TypeOK, Ends, UNCHANGED crashes,
           /\ row' \in [status : {"absent", "stopped"} \union Health!Operational, age : 0..(Staleness + 1)]
           /\ outages' \in 0..MaxOutages /\ missed' \in 0..outages'
    PROVE  TypeOK'
<1>1. Engine!EngineTypeOK' /\ Banner!BannerTypeOK' /\ CallTypeOK'
    BY NoCalls DEF Ends, Engine!EngineTypeOK, Engine!Calls, Engine!Children, Banner!BannerTypeOK
<1>2. Health!HealthTypeOK'
    BY HealthAssumption DEF TypeOK, Ends, Health!HealthTypeOK, Health!StopChecks, Health!StopBeats, Health!Off
<1>3. cancel' \in BOOLEAN /\ shutdown' \in BOOLEAN /\ unheard' \in BOOLEAN
    BY DEF Ends
<1>4. /\ place' \in Places /\ stage' \in Stages
      /\ nap' \in 0..Poll /\ sinceLoop' \in 0..LoopBeat /\ scanAge' \in Nat /\ stopAge' \in Nat
      /\ signals' \in 0..MaxSignals /\ crashes' \in 0..MaxCrashes
    BY WorkerAssumption DEF TypeOK, Ends, Places, Stages
<1> QED
    BY <1>1, <1>2, <1>3, <1>4 DEF TypeOK

\* Every variable of the process keeps its type, one step per action.
LEMMA TypeStep == TypeOK /\ [Next]_vars => TypeOK'
<1> SUFFICES ASSUME TypeOK, [Next]_vars PROVE TypeOK'
    OBVIOUS
<1> USE EngineAssumption, HealthAssumption, WorkerAssumption
<1>0. ASSUME UNCHANGED <<callVars, stage>> PROVE CallTypeOK'
    BY <1>0, CallsKept DEF TypeOK
<1>1. CASE Start
    BY <1>0, <1>1 DEF Start, TypeOK, Engine!EngineTypeOK, Banner!BannerTypeOK, Health!HealthTypeOK,
           Health!StartChecks, Health!Off, Places, engineVars, bannerVars, stopVars
<1>2. CASE Crash
  <2>1. Engine!EngineTypeOK' /\ Banner!BannerTypeOK' /\ CallTypeOK'
    BY <1>2, NoCalls DEF Crash, Ends, Engine!EngineTypeOK, Engine!Calls, Engine!Children, Banner!BannerTypeOK
  <2>2. Health!HealthTypeOK'
    BY <1>2 DEF Crash, TypeOK, Ends, Health!HealthTypeOK, Health!StopChecks, Health!StopBeats, Health!Off
  <2>3. cancel' \in BOOLEAN /\ shutdown' \in BOOLEAN /\ unheard' \in BOOLEAN
    BY <1>2 DEF Crash, Ends
  <2>4. /\ place' \in Places /\ stage' \in Stages
        /\ nap' \in 0..Poll /\ sinceLoop' \in 0..LoopBeat /\ scanAge' \in Nat /\ stopAge' \in Nat
        /\ signals' \in 0..MaxSignals /\ crashes' \in 0..MaxCrashes
    BY <1>2 DEF Crash, TypeOK, Ends, Places, Stages
  <2> QED
    BY <2>1, <2>2, <2>3, <2>4 DEF TypeOK
<1>3. CASE FirstBeat \/ InsertRow
  <2>1. "healthy" \in Health!Operational \union {"stopped"}
    BY DEF Health!Operational
  <2> QED
    BY <1>0, <1>3, <2>1, WriteTypes DEF FirstBeat, InsertRow, TypeOK, Engine!EngineTypeOK, Banner!BannerTypeOK,
           Health!HealthTypeOK, Places, engineVars, bannerVars, stopVars
<1>4. CASE FindNoRow \/ SkipBeat \/ ClaimNone \/ Wake
    BY <1>0, <1>4 DEF FindNoRow, SkipBeat, ClaimNone, Wake, TypeOK, Engine!EngineTypeOK, Banner!BannerTypeOK,
           Health!HealthTypeOK, Places, engineVars, bannerVars, healthVars, stopVars
<1>5. CASE InsertConflict \/ Leave
    BY <1>5, EndTypes DEF InsertConflict, Leave, TypeOK, Health!HealthTypeOK
<1>6. CASE BeatInLoop
  <2>1. "healthy" \in Health!Operational \union {"stopped"}
    BY DEF Health!Operational
  <2> QED
    BY <1>0, <1>6, <2>1, WriteTypes DEF BeatInLoop, TypeOK, Engine!EngineTypeOK, Banner!BannerTypeOK,
           Health!HealthTypeOK, Places, engineVars, bannerVars, stopVars
<1>7. CASE ClaimOne
    BY <1>0, <1>7 DEF ClaimOne, TypeOK, Engine!EngineTypeOK, Banner!BannerTypeOK,
           Health!HealthTypeOK, Health!StaleTimeout, Places, engineVars, bannerVars, stopVars
<1>8. CASE StopGracefully
  <2>1. "stopped" \in Health!Operational \union {"stopped"}
    OBVIOUS
  <2> QED
    BY <1>0, <1>8, <2>1, WriteTypes DEF StopGracefully, TypeOK, Engine!EngineTypeOK, Banner!BannerTypeOK,
           Health!HealthTypeOK, Places, engineVars, bannerVars, stopVars
<1>9. CASE StartScan
  <2>1. CallTypeOK'
    BY <1>9, CallAssumption DEF StartScan, CallTypeOK, MostCalls, LimitOfCall
  <2> QED
    BY <1>9, <2>1 DEF StartScan, TypeOK, Engine!EngineTypeOK, Banner!BannerTypeOK, Health!HealthTypeOK,
           Places, Stages, engineVars, bannerVars, healthVars, stopVars
<1>10. CASE EngineOver \/ BannerOver
  <2>1. stage # "versions"
    BY <1>10 DEF EngineOver, BannerOver
  <2> QED
    BY <1>10, <2>1, AdvanceTypes DEF EngineOver, BannerOver, TypeOK, Health!HealthTypeOK,
           Health!StaleTimeout, stopVars
<1>10a. CASE VersionsOver \/ ZabbixOver \/ ZabbixCancelled
  <2>1. /\ Engine!EngineTypeOK' /\ Banner!BannerTypeOK' /\ CallTypeOK'
        /\ stage' \in Stages /\ touched' \in 0..Health!StaleTimeout
    BY <1>10a, EnterTypes, FinallyTypes DEF VersionsOver, ZabbixOver, ZabbixCancelled
  <2>2. Health!HealthTypeOK'
    BY <1>10a, <2>1 DEF VersionsOver, ZabbixOver, ZabbixCancelled, TypeOK, Health!HealthTypeOK,
           Health!StaleTimeout, Health!StartBeats, Health!Off
  <2> QED
    BY <1>10a, <2>1, <2>2 DEF VersionsOver, ZabbixOver, ZabbixCancelled, TypeOK, stopVars
<1>10b. CASE CallOver
  <2>1. CallTypeOK'
    BY <1>10b, CallAssumption DEF CallOver, TypeOK, CallTypeOK, MostCalls, LimitOfCall
  <2> QED
    BY <1>10b, <2>1 DEF CallOver, TypeOK, Engine!EngineTypeOK, Banner!BannerTypeOK,
           Health!HealthTypeOK, engineVars, bannerVars, healthVars, stopVars
<1>11. CASE BannerCancelled
  <2>1. CallTypeOK'
    BY <1>11, CallsKept DEF BannerCancelled, TypeOK
  <2> QED
    BY <1>11, <2>1 DEF BannerCancelled, Banner!CancelPass, TypeOK, Engine!EngineTypeOK,
           Banner!BannerTypeOK, Health!HealthTypeOK, Stages, engineVars, healthVars, stopVars
<1>12. CASE EndScan
  <2>0. CallTypeOK'
    BY <1>12, CallsKept DEF EndScan, TypeOK
  <2>1. Engine!EngineTypeOK' /\ Banner!BannerTypeOK' /\ Health!HealthTypeOK'
    BY <1>12 DEF EndScan, Health!StopBeats, Health!Off, TypeOK, Engine!EngineTypeOK, Engine!Calls,
           Banner!BannerTypeOK, Health!HealthTypeOK, bannerVars
  <2>2. cancel' \in BOOLEAN /\ shutdown' \in BOOLEAN /\ unheard' \in BOOLEAN
    BY <1>12 DEF EndScan, TypeOK, stopVars
  <2>3. /\ place' \in Places /\ stage' \in Stages
        /\ nap' \in 0..Poll /\ sinceLoop' \in 0..LoopBeat /\ scanAge' \in Nat /\ stopAge' \in Nat
        /\ signals' \in 0..MaxSignals /\ crashes' \in 0..MaxCrashes
    BY <1>12 DEF EndScan, TypeOK, Places, Stages, stopVars
  <2> QED
    BY <2>0, <2>1, <2>2, <2>3 DEF TypeOK
<1>13. CASE ChildSteps \/ ChildExits
  <2>1. Engine!EngineTypeOK' /\ (cancel' = cancel \/ cancel' = FALSE)
    BY <1>13, EngineTypes, CancelStep DEF ChildSteps, ChildExits
  <2>2. Banner!BannerTypeOK' /\ Health!HealthTypeOK'
    BY <1>13 DEF ChildSteps, ChildExits, TypeOK, Banner!BannerTypeOK, Health!HealthTypeOK, bannerVars, healthVars
  <2> QED
    BY <1>0, <1>13, <2>1, <2>2 DEF ChildSteps, ChildExits, TypeOK, stopVars
<1>14. CASE ProbeSteps \/ ProbeEnds
  <2>1. Banner!BannerTypeOK' /\ cancel' = cancel
    BY <1>14, BannerTypes DEF ProbeSteps, ProbeEnds
  <2>2. Engine!EngineTypeOK' /\ Health!HealthTypeOK'
    BY <1>14 DEF ProbeSteps, ProbeEnds, TypeOK, Engine!EngineTypeOK, Health!HealthTypeOK, engineVars, healthVars
  <2> QED
    BY <1>0, <1>14, <2>1, <2>2 DEF ProbeSteps, ProbeEnds, TypeOK, stopVars
<1>15. CASE Signal
    BY <1>0, <1>15 DEF Signal, CancelTask, TypeOK, Engine!EngineTypeOK, Banner!BannerTypeOK,
           Health!HealthTypeOK, engineVars, bannerVars, healthVars
<1>16. CASE HealthSteps
  <2>1. Health!HealthTypeOK'
    <3>1. CASE Health!PeriodicBeat
      <4>1. "healthy" \in Health!Operational \union {"stopped"}
        BY DEF Health!Operational
      <4> QED
        BY <3>1, <4>1, WriteTypes DEF Health!PeriodicBeat, Health!TouchExecution, TypeOK,
               Health!HealthTypeOK, Health!StaleTimeout, Health!Off
    <3>2. CASE Health!RivalWrites
      BY <3>2 DEF Health!RivalWrites, Health!Written, TypeOK, Health!HealthTypeOK, Health!Operational
    <3> QED
      BY <1>16, <3>1, <3>2 DEF HealthSteps, Health!HealthStep
  <2> QED
    BY <1>0, <1>16, <2>1 DEF HealthSteps, TypeOK, Engine!EngineTypeOK, Banner!BannerTypeOK,
           engineVars, bannerVars, stopVars
<1>17. CASE Tick
  <2>1. Engine!EngineTypeOK'
    BY <1>17 DEF Tick, Engine!EngineTick, TypeOK, Engine!EngineTypeOK
  <2>2. Banner!BannerTypeOK'
    BY <1>17 DEF Tick, Banner!BannerTick, TypeOK, Banner!BannerTypeOK, bannerVars
  <2>3. Health!HealthTypeOK'
    BY <1>17 DEF Tick, Health!HealthTick, Health!HealthCheck, Health!Older, Health!Sooner,
           TypeOK, Health!HealthTypeOK, Health!StaleTimeout, Health!Off
  <2>4. CallTypeOK'
    BY <1>17, CallAssumption DEF Tick, Quiet, TypeOK, CallTypeOK, MostCalls, LimitOfCall
  <2> QED
    BY <1>17, <2>1, <2>2, <2>3, <2>4 DEF Tick, Health!Sooner, Health!Older, TypeOK
<1>18. CASE UNCHANGED vars
    BY <1>0, <1>18 DEF vars, engineVars, bannerVars, healthVars, stopVars, TypeOK, Engine!EngineTypeOK,
           Banner!BannerTypeOK, Health!HealthTypeOK
<1> QED
    BY <1>1, <1>2, <1>3, <1>4, <1>5, <1>6, <1>7, <1>8, <1>9, <1>10, <1>10a, <1>10b, <1>11,
       <1>12, <1>13, <1>14, <1>15, <1>16, <1>17, <1>18
       DEF Next, Boot, Loop, Scan, CallEnds, CallExpires

\* Every variable keeps its type; the heartbeats missed in a row are no more than the
\* database refused.
THEOREM TypeCorrect == Spec => []TypeOK
<1>1. ASSUME Init PROVE TypeOK
  <2>0. CallTypeOK
    BY <1>1, CallAssumption DEF Init, CallTypeOK, MostCalls, LimitOfCall
  <2>1. Engine!EngineTypeOK /\ Banner!BannerTypeOK /\ Health!HealthTypeOK
    BY <1>1, HealthAssumption, WorkerAssumption
       DEF Init, Engine!EngineInit, Banner!BannerInit, Health!HealthInit,
           Engine!EngineTypeOK, Engine!Calls, Engine!Children, Banner!BannerTypeOK,
           Health!HealthTypeOK, Health!StaleTimeout, Health!Off
  <2>2. cancel \in BOOLEAN /\ shutdown \in BOOLEAN /\ unheard \in BOOLEAN
    BY <1>1 DEF Init
  <2>3. /\ place \in Places /\ stage \in Stages
        /\ nap \in 0..Poll /\ sinceLoop \in 0..LoopBeat /\ scanAge \in Nat /\ stopAge \in Nat
        /\ signals \in 0..MaxSignals /\ crashes \in 0..MaxCrashes
    BY <1>1, WorkerAssumption DEF Init, Places, Stages
  <2> QED
    BY <2>0, <2>1, <2>2, <2>3 DEF TypeOK
<1> QED
    BY <1>1, TypeStep, PTL DEF Spec

----------------------------------------------------------------------------
(* Where the process stands.                                               *)

\* A call never goes back: it ends where it waited, or starts to wait.
LEMMA CallMoves ==
    ASSUME TypeOK, Engine!EngineStep \/ Engine!ChildExits
    PROVE  \/ call' = call
           \/ call \notin Engine!Ended \union {"none"} /\ call' # "none"
    BY DEF Engine!EngineStep, Engine!Spawn, Engine!SpawnFails, Engine!SpawnCancelled,
           Engine!ChildExits, Engine!ChildDies, Engine!Communicated, Engine!TimesOut,
           Engine!TimesOutTooLate, Engine!Cancelled, Engine!EndCancelled, Engine!AskToEnd,
           Engine!Reaped, Engine!Verdict, Engine!GraceEnds, Engine!CancelledInHandler,
           Engine!Ended, Engine!Reaps

LEMMA ProcessMoves ==
    ASSUME TypeOK, ChildSteps \/ ChildExits
    PROVE  /\ cancel' => cancel
           /\ call' = call \/ (call \notin Engine!Ended \union {"none"} /\ call' # "none")
<1>1. Engine!EngineStep \/ Engine!ChildExits
    BY DEF ChildSteps, ChildExits
<1>2. cancel' = cancel \/ cancel' = FALSE
    BY <1>1, CancelStep
<1>3. call' = call \/ (call \notin Engine!Ended \union {"none"} /\ call' # "none")
    BY <1>1, CallMoves
<1> QED
    BY <1>2, <1>3

LEMMA PlaceStep == TypeOK /\ PlaceInvariant /\ [Next]_vars => PlaceInvariant'
<1> SUFFICES ASSUME TypeOK, PlaceInvariant, [Next]_vars PROVE PlaceInvariant'
    OBVIOUS
<1> USE DEF PlaceInvariant
<1>1. CASE Start \/ FirstBeat \/ FindNoRow \/ InsertRow
    BY <1>1 DEF Start, FirstBeat, FindNoRow, InsertRow, engineVars, callVars, stopVars
<1>2. CASE BeatInLoop \/ SkipBeat \/ ClaimOne \/ ClaimNone \/ Wake \/ StopGracefully
    BY <1>2 DEF BeatInLoop, SkipBeat, ClaimOne, ClaimNone, Wake, StopGracefully, GoesOn,
           engineVars, callVars, stopVars
<1>3. CASE Crash \/ InsertConflict \/ Leave
  <2>1. /\ place' = "down" /\ stage' = "none" /\ call' = "none" /\ stopAge' = 0
        /\ ~cancel' /\ ~shutdown' /\ ~unheard' /\ calls' = 0
    BY <1>3 DEF Crash, InsertConflict, Leave, Ends
  <2> QED
    BY <2>1
<1>4. CASE StartScan
    BY <1>4 DEF StartScan, engineVars, stopVars
<1>5. CASE EngineOver \/ BannerOver \/ VersionsOver \/ ZabbixOver
  <2>1. UNCHANGED <<place, cancel, stopVars>> /\ place = "scan"
    BY <1>5 DEF EngineOver, BannerOver, VersionsOver, ZabbixOver
  <2>2. ASSUME NEW s \in {"nmap", "banner_tls", "nuclei", "zabbix"}, Enter(s) PROVE PlaceInvariant'
    BY <2>1, <2>2 DEF Enter, stopVars
  <2>3. ASSUME Finally PROVE PlaceInvariant'
    <3>1. calls = 0 \/ shutdown
      BY <1>5, <2>1 DEF EngineOver, BannerOver, VersionsOver, ZabbixOver, TypeOK, CallTypeOK
    <3>2. stage \in {"versions", "banner_tls", "zabbix"} \/ call \in Engine!Ended
      BY <1>5 DEF EngineOver, BannerOver, VersionsOver, ZabbixOver
    <3> QED
      BY <2>1, <2>3, <3>1, <3>2 DEF Finally, engineVars, callVars, stopVars, TypeOK, CallTypeOK
  <2>4. \A s \in Later(stage) : s \in {"nmap", "banner_tls", "nuclei", "zabbix"}
    BY DEF Later
  <2> QED
    BY <1>5, <2>2, <2>3, <2>4 DEF EngineOver, BannerOver, VersionsOver, ZabbixOver, Advance
<1>5a. CASE ZabbixCancelled
  <2>1. /\ ~cancel' /\ UNCHANGED <<place, call, calls, stopVars>> /\ shutdown
        /\ stage = "zabbix" /\ stage' = "finally" /\ place = "scan"
    BY <1>5a DEF ZabbixCancelled, Finally, engineVars, callVars
  <2> QED
    BY <2>1 DEF stopVars
<1>5b. CASE CallOver
  <2>1. /\ UNCHANGED <<place, stage, cancel, call, stopVars>>
        /\ calls > 0
    BY <1>5b DEF CallOver, engineVars
  <2> QED
    BY <2>1 DEF stopVars
<1>6. CASE BannerCancelled
  <2>1. /\ ~cancel' /\ UNCHANGED <<place, call, calls, stopVars>>
        /\ stage = "banner_tls" /\ stage' = "finally" /\ place = "scan"
    BY <1>6 DEF BannerCancelled, Banner!CancelPass, engineVars, callVars
  <2> QED
    BY <2>1 DEF stopVars
<1>7. CASE EndScan
  <2>1. /\ ~cancel' /\ call' = "none" /\ stage' = "none" /\ place' = "loop"
        /\ UNCHANGED <<shutdown, stopAge, unheard, calls>> /\ stage = "finally"
    BY <1>7 DEF EndScan, callVars, stopVars
  <2> QED
    BY <2>1
<1>8. CASE ChildSteps \/ ChildExits
  <2>1. UNCHANGED <<place, stage, shutdown, stopAge, unheard, calls>>
    BY <1>8 DEF ChildSteps, ChildExits, callVars, stopVars
  <2> QED
    BY <1>8, <2>1, ProcessMoves
<1>9. CASE ProbeSteps \/ ProbeEnds
    BY <1>9, BannerTypes DEF ProbeSteps, ProbeEnds, engineVars, callVars, stopVars
<1>10. CASE Signal
    BY <1>10 DEF Signal, CancelTask, engineVars, callVars
<1>11. CASE HealthSteps
    BY <1>11 DEF HealthSteps, engineVars, callVars, stopVars
<1>12. CASE Tick
    BY <1>12 DEF Tick, Engine!EngineTick
<1>13. CASE UNCHANGED vars
    BY <1>13 DEF vars, engineVars, callVars, stopVars
<1> QED
    BY <1>1, <1>2, <1>3, <1>4, <1>5, <1>5a, <1>5b, <1>6, <1>7, <1>8, <1>9, <1>10, <1>11,
       <1>12, <1>13 DEF Next, Boot, Loop, Scan, CallEnds, CallExpires

LEMMA PlaceAlways == Spec => []PlaceInvariant
<1>1. ASSUME Init PROVE PlaceInvariant
  <2>1. /\ ~cancel /\ ~shutdown /\ ~unheard /\ stopAge = 0
        /\ place = "down" /\ stage = "none" /\ call = "none" /\ calls = 0
    BY <1>1 DEF Init, Engine!EngineInit
  <2> QED
    BY <2>1 DEF PlaceInvariant
<1> QED
    BY <1>1, PlaceStep, TypeCorrect, PTL DEF Spec

----------------------------------------------------------------------------
(* The child of a call.                                                    *)

LEMMA EngineKeepsChild ==
    ASSUME TypeOK, ChildInvariant, Engine!EngineStep \/ Engine!ChildExits, UNCHANGED signals
    PROVE  ChildInvariant'
<1> USE EngineAssumption DEF TypeOK, Engine!EngineTypeOK,
        ChildInvariant, ChildKilledWithCall, ChildOutlives, Engine!Ended, Engine!Alive
<1>1. CASE Engine!Spawn \/ Engine!SpawnFails \/ Engine!SpawnCancelled
    BY <1>1 DEF Engine!Spawn, Engine!SpawnFails, Engine!SpawnCancelled
<1>2. CASE Engine!ChildDies \/ Engine!ChildExits
    BY <1>2 DEF Engine!ChildDies, Engine!ChildExits
<1>3. CASE Engine!Communicated
    BY <1>3 DEF Engine!Communicated
<1>4. CASE Engine!TimesOut
    BY <1>4 DEF Engine!TimesOut, Engine!Expired, Engine!AskToEnd, Engine!Patience
<1>5. CASE Engine!TimesOutTooLate
    BY <1>5 DEF Engine!TimesOutTooLate
<1>6. CASE Engine!Cancelled
    BY <1>6 DEF Engine!Cancelled, Engine!EndCancelled, Engine!AskToEnd, Engine!Patience
<1>7. CASE Engine!Reaped
    BY <1>7 DEF Engine!Reaped, Engine!Verdict, Engine!Reaps
<1>8. CASE Engine!GraceEnds
    BY <1>8 DEF Engine!GraceEnds, Engine!Kill
<1>9. CASE Engine!CancelledInHandler
    BY <1>9 DEF Engine!CancelledInHandler, Engine!Reaps
<1> QED
    BY <1>1, <1>2, <1>3, <1>4, <1>5, <1>6, <1>7, <1>8, <1>9 DEF Engine!EngineStep

\* Everything else leaves the child alone, starts the next call, or ends the process.
LEMMA ChildStep == TypeOK /\ PlaceInvariant /\ ChildInvariant /\ [Next]_vars => ChildInvariant'
<1> SUFFICES ASSUME TypeOK, PlaceInvariant, ChildInvariant, [Next]_vars PROVE ChildInvariant'
    OBVIOUS
<1> USE DEF TypeOK, Engine!EngineTypeOK, ChildInvariant, ChildKilledWithCall, ChildOutlives,
        Engine!Ended, Engine!Alive
<1>1. ASSUME UNCHANGED <<engineVars, cancel, signals>> PROVE ChildInvariant'
    BY <1>1 DEF engineVars
<1>2. CASE Start \/ FirstBeat \/ FindNoRow \/ InsertRow \/ BeatInLoop \/ SkipBeat \/ ClaimOne
           \/ ClaimNone \/ Wake \/ StopGracefully \/ StartScan \/ CallOver \/ HealthSteps
    BY <1>1, <1>2 DEF Start, FirstBeat, FindNoRow, InsertRow, BeatInLoop, SkipBeat, ClaimOne,
           ClaimNone, Wake, StopGracefully, StartScan, CallOver, HealthSteps, stopVars
<1>3. CASE Crash \/ InsertConflict \/ Leave
  <2>1. ~cancel' /\ call' = "none" /\ child' = "none"
    BY <1>3 DEF Crash, InsertConflict, Leave, Ends
  <2> QED
    BY <2>1
<1>5. CASE EngineOver \/ BannerOver \/ VersionsOver \/ ZabbixOver
  <2>1. signals' = signals /\ cancel' = cancel
    BY <1>5 DEF EngineOver, BannerOver, VersionsOver, ZabbixOver, stopVars
  <2>2. ASSUME NEW s, Enter(s) PROVE ChildInvariant'
    BY <2>1, <2>2 DEF Enter
  <2>3. ASSUME Finally PROVE ChildInvariant'
    BY <1>1, <2>1, <2>3 DEF Finally
  <2> QED
    BY <1>5, <2>2, <2>3 DEF EngineOver, BannerOver, VersionsOver, ZabbixOver, Advance
<1>6. CASE BannerCancelled \/ ZabbixCancelled
  <2>1. ~cancel' /\ UNCHANGED <<engineVars, signals>>
    BY <1>6 DEF BannerCancelled, Banner!CancelPass, ZabbixCancelled, Finally, stopVars
  <2> QED
    BY <2>1 DEF engineVars
<1>7. CASE EndScan
  <2>1. ~cancel' /\ call' = "none" /\ UNCHANGED <<child, age, signals>>
    BY <1>7 DEF EndScan, stopVars
  <2>2. call \in {"none", "returned", "failed", "cancelled"}
    BY <1>7 DEF EndScan, PlaceInvariant
  <2> QED
    BY <2>1, <2>2
<1>8. CASE ChildSteps \/ ChildExits
    BY <1>8, EngineKeepsChild DEF ChildSteps, ChildExits, stopVars
<1>9. CASE ProbeSteps \/ ProbeEnds
    BY <1>1, <1>9, BannerTypes DEF ProbeSteps, ProbeEnds, stopVars
<1>10. CASE Signal
    BY <1>10 DEF Signal, CancelTask, engineVars
<1>11. CASE Tick
  <2>1. UNCHANGED <<call, child, deadline, signals>> /\ cancel' = cancel
    BY <1>11 DEF Tick, Engine!EngineTick
  <2>2. age' \in Nat /\ age' >= age
    BY <1>11 DEF Tick, Engine!EngineTick
  <2> QED
    BY <2>1, <2>2, EngineAssumption
<1>12. CASE UNCHANGED vars
    BY <1>1, <1>12 DEF vars, stopVars
<1> QED
    BY <1>2, <1>3, <1>5, <1>6, <1>7, <1>8, <1>9, <1>10, <1>11, <1>12
       DEF Next, Boot, Loop, Scan, CallEnds, CallExpires

\* run_process leaves no child behind, but for a cancellation that comes while it is
\* already ending one: two signals, or one after the time limit.
THEOREM ChildrenAreKilled == Spec => []ChildKilledWithCall
<1>1. Init => ChildInvariant
    BY DEF Init, Engine!EngineInit, ChildInvariant, ChildKilledWithCall, ChildOutlives, Engine!Alive
<1>2. ChildInvariant => ChildKilledWithCall
    BY DEF ChildInvariant
<1> QED
    BY <1>1, <1>2, ChildStep, TypeCorrect, PlaceAlways, PTL DEF Spec

----------------------------------------------------------------------------
(* The end of a worker that is told to stop.                               *)

\* Products of a count, for the provers' sake.
LEMMA Rounded ==
    ASSUME NEW k \in Nat, NEW n \in Nat \ {0}
    PROVE  /\ k * n \in Nat /\ k * n >= k /\ (k + 1) * n = k * n + n
           /\ k # 0 => (k - 1) * n = k * n - n
    OBVIOUS

LEMMA Shorter ==
    ASSUME NEW k \in Nat, NEW m \in Nat, NEW n \in Nat \ {0}, k <= m
    PROVE  k * n <= m * n /\ (k < m => k * n <= m * n - n)
<1>1. m * n = k * n + (m - k) * n
    OBVIOUS
<1>2. (m - k) * n \in Nat /\ (k < m => (m - k) * n >= n)
    OBVIOUS
<1>3. k * n \in Nat /\ m * n \in Nat
    OBVIOUS
<1> QED
    BY <1>1, <1>2, <1>3

\* The calls that are left, and the one that runs, fit in the time they may take.
LEMMA CallTimes ==
    ASSUME CallTypeOK
    PROVE  /\ calls \in Nat /\ waited \in Nat /\ MostCalls \in Nat /\ LimitOfCall \in Nat \ {0}
           /\ calls <= MostCalls /\ waited <= LimitOfCall /\ (calls = 0 => waited = 0)
           /\ calls * LimitOfCall \in Nat /\ MostCalls * LimitOfCall \in Nat
           /\ calls > 0 => calls * LimitOfCall >= LimitOfCall
           /\ calls * LimitOfCall <= MostCalls * LimitOfCall
<1>1. MostCalls \in Nat /\ LimitOfCall \in Nat \ {0}
    BY CallAssumption DEF MostCalls, LimitOfCall
<1>2. /\ calls \in Nat /\ waited \in Nat /\ calls <= MostCalls /\ waited <= LimitOfCall
      /\ calls = 0 => waited = 0
    BY <1>1 DEF CallTypeOK
<1>3. calls * LimitOfCall \in Nat /\ MostCalls * LimitOfCall \in Nat
    BY <1>1, <1>2, Rounded
<1>4. calls > 0 => (calls - 1) * LimitOfCall \in Nat /\ (calls - 1) * LimitOfCall = calls * LimitOfCall - LimitOfCall
  <2>1. calls > 0 => calls - 1 \in Nat
    BY <1>2
  <2> QED
    BY <1>1, <1>2, <2>1, Rounded
<1>5. calls * LimitOfCall <= MostCalls * LimitOfCall
    BY <1>1, <1>2, Shorter
<1> QED
    BY <1>1, <1>2, <1>3, <1>4, <1>5

LEMMA CallsStart == CallTypeOK /\ waited = 0 => CallClock(0)
    BY CallTimes DEF CallClock

LEMMA CallsStarted == CallTypeOK => CallClock(0)
    BY CallTimes DEF CallClock

LEMMA CallsBounded ==
    ASSUME CallTypeOK, NEW t \in Int, CallClock(t)
    PROVE  t <= MostCalls * LimitOfCall
<1> DEFINE m == MostCalls * LimitOfCall
           c == calls * LimitOfCall
<1>1. t + c <= m + waited
    BY DEF CallClock
<1>2. m \in Nat /\ c \in Nat /\ waited \in Nat /\ waited <= c
    BY CallTimes
<1> QED
    BY <1>1, <1>2

LEMMA CallsTick ==
    ASSUME TypeOK, NEW t \in Int, CallClock(t), calls > 0, Tick
    PROVE  CallClock(t + 1)' /\ t + 1 <= MostCalls * LimitOfCall
<1>1. UNCHANGED <<calls, stage>> /\ waited' = waited + 1 /\ waited < LimitOfCall
    BY DEF Tick, Quiet
<1>2. MostCalls' = MostCalls /\ LimitOfCall' = LimitOfCall
    BY <1>1 DEF MostCalls, LimitOfCall
<1>3. /\ calls * LimitOfCall \in Nat /\ MostCalls * LimitOfCall \in Nat /\ waited \in Nat
      /\ calls * LimitOfCall >= LimitOfCall /\ LimitOfCall \in Nat
    BY CallTimes DEF TypeOK
<1>4. t + calls * LimitOfCall <= MostCalls * LimitOfCall + waited
    BY DEF CallClock
<1> QED
    BY <1>1, <1>2, <1>3, <1>4 DEF CallClock

LEMMA CallsGoOn ==
    ASSUME TypeOK, NEW t \in Int, CallClock(t), CallOver
    PROVE  CallClock(t)'
<1>1. UNCHANGED stage /\ waited' = 0 /\ calls' \in {0, calls - 1} /\ calls > 0
    BY DEF CallOver
<1>2. MostCalls' = MostCalls /\ LimitOfCall' = LimitOfCall
    BY <1>1 DEF MostCalls, LimitOfCall
<1>3. /\ calls * LimitOfCall \in Nat /\ MostCalls * LimitOfCall \in Nat /\ waited \in Nat
      /\ waited <= LimitOfCall /\ LimitOfCall \in Nat \ {0} /\ calls \in Nat
    BY CallTimes DEF TypeOK
<1>4. t + calls * LimitOfCall <= MostCalls * LimitOfCall + waited
    BY DEF CallClock
<1>5. PICK rest \in Nat : calls' = rest /\ rest < calls
    BY <1>1, <1>3
<1>6. rest * LimitOfCall <= calls * LimitOfCall - LimitOfCall /\ rest * LimitOfCall \in Nat
    BY <1>3, <1>5, Shorter, Rounded
<1>7. t + rest * LimitOfCall <= MostCalls * LimitOfCall + 0
    BY <1>3, <1>4, <1>6
<1> QED
    BY <1>1, <1>2, <1>5, <1>7 DEF CallClock

\* The clock of calls that nothing moves.
LEMMA CallsWait ==
    ASSUME NEW t, UNCHANGED callVars, stage = "versions" <=> stage' = "versions", CallClock(t)
    PROVE  CallClock(t)'
    BY DEF callVars, CallClock, MostCalls, LimitOfCall

LEMMA CallClockKept ==
    ASSUME NEW t, NEW STATE now, now' = t, CallClock(t)'
    PROVE  CallClock(now)'
    BY DEF CallClock

\* What is not a call keeps no call waiting.
LEMMA NoCallsInStage ==
    ASSUME PlaceInvariant, CallTypeOK, place = "scan", stage \in {"nmap", "nuclei", "banner_tls"}
    PROVE  calls = 0
<1>1. stage \notin {"versions", "zabbix", "finally"} /\ place \notin {"loop", "leaving"}
    OBVIOUS
<1>2. ~(calls > 0)
    BY <1>1 DEF PlaceInvariant
<1> QED
    BY <1>2, CallTimes

\* The engine takes the cancellation, and then one grace at most.
LEMMA EngineGetsOut ==
    ASSUME TypeOK, PlaceInvariant, place = "scan", GettingOut,
           Engine!EngineStep \/ Engine!ChildExits, UNCHANGED <<stage, stopAge>>
    PROVE  GettingOut'
<1> USE EngineAssumption DEF TypeOK, Engine!EngineTypeOK, GettingOut
<1>0. call \notin Engine!Ended \union {"none"} => stage \in {"nmap", "nuclei"}
    BY DEF PlaceInvariant, Stages
<1>1. CASE Engine!Spawn \/ Engine!SpawnFails
    BY <1>1 DEF Engine!Spawn, Engine!SpawnFails
<1>2. CASE Engine!SpawnCancelled
    BY <1>0, <1>2 DEF Engine!SpawnCancelled, Engine!Ended
<1>3. CASE Engine!ChildDies \/ Engine!ChildExits
    BY <1>3 DEF Engine!ChildDies, Engine!ChildExits
<1>4. CASE Engine!Communicated \/ Engine!TimesOutTooLate
    BY <1>4 DEF Engine!Communicated, Engine!TimesOutTooLate
<1>5. CASE Engine!TimesOut
    BY <1>5 DEF Engine!TimesOut
<1>6. CASE Engine!Cancelled
  <2>1. stage \in {"nmap", "nuclei"} /\ call = "communicating" /\ age' = age
    BY <1>0, <1>6 DEF Engine!Cancelled, Engine!Ended
  <2>2. call' = "cancelled" \/ (call' = "cancelling" /\ deadline' = age + Grace)
    BY <1>6 DEF Engine!Cancelled, Engine!EndCancelled, Engine!AskToEnd, Engine!Patience
  <2>3. stopAge = 0
    BY <2>1
  <2> QED
    BY <2>1, <2>2, <2>3
<1>7. CASE Engine!Reaped
    BY <1>7 DEF Engine!Reaped, Engine!Verdict, Engine!Reaps
<1>8. CASE Engine!GraceEnds
    BY <1>8 DEF Engine!GraceEnds
<1>9. CASE Engine!CancelledInHandler
    BY <1>0, <1>9 DEF Engine!CancelledInHandler, Engine!Reaps, Engine!Ended
<1> QED
    BY <1>1, <1>2, <1>3, <1>4, <1>5, <1>6, <1>7, <1>8, <1>9 DEF Engine!EngineStep

\* Time passes for it only while the grace runs.
LEMMA TickGetsOut ==
    ASSUME TypeOK, PlaceInvariant, place = "scan", calls = 0, GettingOut, Tick, shutdown, ~unheard
    PROVE  GettingOut' /\ stopAge' <= Grace
<1> USE DEF TypeOK, Engine!EngineTypeOK
<1>1. /\ stage \in {"nmap", "nuclei"} => call \notin Engine!Ended \union {"spawning"}
      /\ call \in {"none", "communicating", "terminating", "cancelling"}
      /\ call \in Engine!Waits => ~cancel /\ age # deadline
      /\ stage = "banner_tls" => ~cancel
      /\ stage \notin {"finally", "versions", "zabbix"}
    BY DEF Tick, Quiet, Engine!EngineQuiet, Engine!Expired, Banner!BannerQuiet
<1>2. stage \in {"nmap", "nuclei", "banner_tls"}
    BY <1>1 DEF PlaceInvariant, Stages
<1>3. ~cancel
    BY <1>1, <1>2 DEF PlaceInvariant, Engine!Waits
<1>4. stage # "banner_tls" /\ call = "cancelling" /\ age <= deadline /\ stopAge + deadline = age + Grace
    BY <1>1, <1>3 DEF GettingOut
<1>5. UNCHANGED <<call, stage, deadline>> /\ age' = age + 1 /\ stopAge' = stopAge + 1
    BY <1>4 DEF Tick, Engine!EngineTick, Engine!Waits
<1>6. age # deadline
    BY <1>1, <1>4 DEF Engine!Waits
<1> QED
    BY <1>2, <1>4, <1>5, <1>6, EngineAssumption DEF GettingOut

LEMMA StopStep ==
    TypeOK /\ PlaceInvariant /\ StopInvariant /\ [Next]_vars => StopInvariant'
<1> DEFINE Patience == {Grace, 2 * VersionLimit, Hosts * CallLimit}
<1> SUFFICES ASSUME TypeOK, PlaceInvariant, StopInvariant, [Next]_vars, shutdown', ~unheard'
             PROVE  /\ place' \in {"loop", "napping", "scan", "leaving"}
                    /\ \E patience \in Patience : stopAge' <= patience
                    /\ calls' > 0 => CallClock(stopAge)'
                    /\ place' = "scan" => GettingOut'
    BY DEF StopInvariant, StopIsPrompt
<1>0. /\ stopAge \in Nat /\ calls \in Nat /\ waited \in Nat /\ cancel \in BOOLEAN
      /\ CallTypeOK /\ stage \in Stages /\ place \in Places
    BY CallTimes DEF TypeOK
<1>1. ASSUME shutdown, ~unheard
      PROVE  /\ place \in {"loop", "napping", "scan", "leaving"}
             /\ \E patience \in Patience : stopAge <= patience
             /\ calls > 0 => CallClock(stopAge)
             /\ place = "scan" => GettingOut
    BY <1>1 DEF StopInvariant, StopIsPrompt, Up
<1>2. ASSUME UNCHANGED <<stopAge, callVars>>, stage = "versions" <=> stage' = "versions"
      PROVE  CallClock(stopAge) => CallClock(stopAge)'
    BY <1>2 DEF callVars, CallClock, MostCalls, LimitOfCall
<1> HIDE DEF Patience
<1>3. ASSUME UNCHANGED <<place, stage, call, age, deadline, shutdown, unheard, stopAge, callVars>>,
             cancel => cancel'
      PROVE  /\ place' \in {"loop", "napping", "scan", "leaving"}
             /\ \E patience \in Patience : stopAge' <= patience
             /\ calls' > 0 => CallClock(stopAge)'
             /\ place' = "scan" => GettingOut'
  <2>1. GettingOut => GettingOut'
    BY <1>0, <1>3 DEF GettingOut
  <2>2. calls' = calls
    BY <1>3 DEF callVars
  <2> QED
    BY <1>1, <1>2, <1>3, <2>1, <2>2
<1>4. CASE Start \/ FirstBeat \/ FindNoRow \/ InsertRow
    BY <1>4 DEF Start, FirstBeat, FindNoRow, InsertRow, stopVars, PlaceInvariant
<1>5. CASE BeatInLoop \/ SkipBeat
    BY <1>5 DEF BeatInLoop, SkipBeat, GoesOn, stopVars
<1>6. CASE ClaimOne \/ ClaimNone \/ StartScan
    BY <1>1, <1>6 DEF ClaimOne, ClaimNone, StartScan, stopVars
<1>7. CASE Wake \/ StopGracefully \/ EndScan
  <2>1. /\ UNCHANGED <<shutdown, unheard, stopAge, callVars>> /\ place' \in {"loop", "leaving"}
        /\ stage # "versions" /\ stage' # "versions"
    BY <1>7 DEF Wake, StopGracefully, EndScan, stopVars, PlaceInvariant
  <2>2. calls' = calls
    BY <2>1 DEF callVars
  <2> QED
    BY <1>1, <1>2, <2>1, <2>2
<1>8. CASE Crash \/ InsertConflict \/ Leave
  <2>1. ~shutdown'
    BY <1>8 DEF Crash, InsertConflict, Leave, Ends
  <2> QED
    BY <2>1
<1>9. CASE EngineOver \/ BannerOver \/ VersionsOver \/ ZabbixOver
  <2>0. /\ UNCHANGED <<place, shutdown, unheard, stopAge>> /\ cancel' = cancel
        /\ stage \in {"nmap", "nuclei", "banner_tls"} \/ (stage \in {"versions", "zabbix"} /\ calls = 0)
    BY <1>9 DEF EngineOver, BannerOver, VersionsOver, ZabbixOver, stopVars
  <2>1. /\ UNCHANGED <<place, shutdown, unheard, stopAge>> /\ cancel' = cancel
        /\ place = "scan" /\ calls = 0
    <3>1. place = "scan"
      BY <2>0 DEF PlaceInvariant
    <3> QED
      BY <2>0, <3>1, NoCallsInStage DEF TypeOK
  <2>2. GettingOut /\ \E patience \in Patience : stopAge <= patience
    BY <1>1, <2>1
  <2>3. CASE Finally
    BY <2>1, <2>2, <2>3 DEF Finally, GettingOut, callVars
  <2>4. CASE VersionsOver /\ Enter("nmap")
    <3>1. /\ cancel /\ cancel' /\ calls' = 0 /\ stage' = "nmap" /\ call' = "spawning"
      BY <2>1, <2>2, <2>4 DEF VersionsOver, GettingOut, Enter
    <3> QED
      BY <2>1, <2>2, <3>1 DEF GettingOut
  <2>5. CASE ~Finally /\ ~VersionsOver
    <3>1. stage # "versions" /\ cancel /\ stopAge = 0
      BY <1>9, <2>2, <2>5 DEF EngineOver, BannerOver, ZabbixOver, GettingOut
    <3>2. PICK s \in {"banner_tls", "nuclei", "zabbix"} : Enter(s)
      BY <1>9, <2>5, <3>1 DEF EngineOver, BannerOver, ZabbixOver, Advance, Later
    <3>3. CallTypeOK'
      BY <3>2, EnterTypes
    <3>4. calls' > 0 => CallClock(0)'
      BY <3>3, CallsStarted, PTL
    <3>5. calls' > 0 => CallClock(stopAge)'
      BY <2>1, <3>1, <3>4 DEF CallClock
    <3> QED
      BY <2>1, <2>2, <3>1, <3>5 DEF GettingOut
  <2> QED
    BY <1>9, <2>3, <2>4, <2>5 DEF VersionsOver
<1>10. CASE BannerCancelled \/ ZabbixCancelled
  <2>1. /\ UNCHANGED <<place, shutdown, unheard, stopAge, callVars>> /\ stage' = "finally"
        /\ stage # "versions"
    BY <1>10 DEF BannerCancelled, ZabbixCancelled, Finally, stopVars
  <2>2. calls' = calls /\ GettingOut'
    BY <2>1 DEF callVars, GettingOut
  <2> QED
    BY <1>1, <1>2, <2>1, <2>2
<1>11. CASE CallOver
  <2>1. UNCHANGED <<place, stage, call, age, deadline, cancel, shutdown, unheard, stopAge>> /\ calls > 0
    BY <1>11 DEF CallOver, engineVars, stopVars
  <2>2. GettingOut => GettingOut'
    BY <2>1 DEF GettingOut
  <2>3. PICK t \in Nat : t = stopAge
    BY <1>0
  <2>4. CallClock(t) => CallClock(t)'
    BY <1>11, CallsGoOn
  <2>5. CallClock(stopAge)'
    BY <1>1, <2>1, <2>3, <2>4, CallClockKept
  <2> QED
    BY <1>1, <2>1, <2>2, <2>5
<1>12. CASE ChildSteps \/ ChildExits
  <2>1. UNCHANGED <<place, stage, shutdown, unheard, stopAge, callVars>>
    BY <1>12 DEF ChildSteps, ChildExits, stopVars
  <2>2. Engine!EngineStep \/ Engine!ChildExits
    BY <1>12 DEF ChildSteps, ChildExits
  <2>3. calls' = calls
    BY <2>1 DEF callVars
  <2> QED
    BY <1>1, <1>2, <2>1, <2>2, <2>3, EngineGetsOut
<1>13. CASE ProbeSteps \/ ProbeEnds
  <2>1. /\ UNCHANGED <<place, stage, call, age, deadline, shutdown, unheard, stopAge, callVars>>
        /\ cancel' = cancel
    BY <1>13, BannerTypes DEF ProbeSteps, ProbeEnds, engineVars, stopVars
  <2> QED
    BY <1>3, <2>1
<1>14. CASE Signal
  <2>1. UNCHANGED <<place, stage, call, age, deadline, stopAge, callVars>>
    BY <1>14 DEF Signal, engineVars
  <2>2. (place = "scan" => cancel') /\ (cancel => cancel')
    BY <1>14 DEF Signal, CancelTask
  <2>3. unheard' = (unheard \/ (~shutdown /\ place \in {"polling", "claimed"}))
        /\ place \notin {"down", "boot", "inserting"} /\ shutdown'
    BY <1>14 DEF Signal
  <2>4. CASE ~shutdown
    <3>1. stopAge = 0
      BY <2>4 DEF PlaceInvariant
    <3>2. place \in {"loop", "napping", "scan", "leaving"}
      BY <1>0, <2>3, <2>4 DEF Places
    <3>3. CallClock(stopAge)
      BY <1>0, <3>1, CallsStarted DEF CallClock
    <3>4. CallClock(stopAge)'
      BY <1>2, <2>1, <3>3
    <3>5. \E patience \in Patience : stopAge' <= patience
      BY <2>1, <3>1, EngineAssumption DEF Patience
    <3> QED
      BY <2>1, <2>2, <3>1, <3>2, <3>4, <3>5 DEF GettingOut
  <2>5. CASE shutdown
    <3>1. UNCHANGED <<shutdown, unheard>>
      BY <1>0, <2>3, <2>5 DEF TypeOK
    <3> QED
      BY <1>3, <2>1, <2>2, <3>1
  <2> QED
    BY <2>4, <2>5
<1>15. CASE HealthSteps \/ UNCHANGED vars
  <2>1. /\ UNCHANGED <<place, stage, call, age, deadline, shutdown, unheard, stopAge, callVars>>
        /\ cancel' = cancel
    BY <1>15 DEF HealthSteps, vars, engineVars, stopVars
  <2> QED
    BY <1>3, <2>1
<1>16. CASE Tick
  <2>1. UNCHANGED <<place, stage, cancel, shutdown, unheard, calls>> /\ stopAge' = stopAge + 1
    BY <1>16 DEF Tick
  <2>2. /\ place \in {"napping", "scan", "leaving", "down"} /\ (place = "napping" => ~shutdown)
        /\ place = "leaving" \/ stage \in {"versions", "zabbix"} => calls > 0
        /\ stage = "zabbix" => ~cancel
        /\ stage # "finally"
    BY <1>16 DEF Tick, Quiet
  <2>3. CASE calls > 0
    <3>1. PICK t \in Nat : t = stopAge
      BY <1>0
    <3>2. CallClock(t)
      BY <1>1, <2>1, <2>3, <3>1
    <3>3. CallClock(t + 1)' /\ t + 1 <= MostCalls * LimitOfCall
      BY <1>16, <2>3, <3>2, CallsTick
    <3>4. CallClock(stopAge)'
      <4>1. stopAge' = t + 1
        BY <2>1, <3>1
      <4> QED
        BY <3>3, <4>1, CallClockKept
    <3>5. \E patience \in Patience : stopAge' <= patience
      BY <2>1, <3>1, <3>3 DEF MostCalls, LimitOfCall, Patience
    <3>6. place = "scan" => stage \in {"versions", "zabbix"}
      BY <1>0, <2>2, <2>3 DEF PlaceInvariant
    <3>7. place = "scan" => cancel /\ stage = "versions"
      BY <1>1, <2>1, <2>2, <3>6 DEF GettingOut
    <3>8. place = "scan" => GettingOut'
      BY <2>1, <3>7 DEF GettingOut
    <3> QED
      BY <1>1, <2>1, <3>4, <3>5, <3>8
  <2>4. CASE calls = 0
    <3>1. place = "scan" /\ GettingOut
      BY <1>1, <2>1, <2>2, <2>4
    <3>2. GettingOut' /\ stopAge' <= Grace
      BY <1>16, <2>1, <2>4, <3>1, TickGetsOut
    <3> QED
      BY <2>1, <2>4, <3>1, <3>2 DEF Patience
  <2> QED
    BY <1>0, <2>3, <2>4
<1> QED
    BY <1>4, <1>5, <1>6, <1>7, <1>8, <1>9, <1>10, <1>11, <1>12, <1>13, <1>14, <1>15, <1>16
       DEF Next, Boot, Loop, Scan, CallEnds, CallExpires

\* A worker that hears its signal is gone within the grace of one child or within the time of
\* the blocking calls it had begun, whichever it was doing, however many services it probed
\* and whatever the limits: the two are never waited for in turn.
THEOREM StopsPromptly == Spec => []StopIsPrompt
<1>1. ASSUME Init PROVE StopInvariant
  <2>1. ~shutdown
    BY <1>1 DEF Init
  <2> QED
    BY <2>1 DEF StopInvariant
<1>2. StopInvariant => StopIsPrompt
    BY DEF StopInvariant, StopIsPrompt
<1> QED
    BY <1>1, <1>2, StopStep, TypeCorrect, PlaceAlways, PTL DEF Spec

----------------------------------------------------------------------------
(* Heartbeats.                                                             *)

LEMMA CallsAreNumbers ==
    CallTypeOK => calls * LimitOfCall \in Nat /\ MostCalls * LimitOfCall + waited \in Nat
<1> SUFFICES ASSUME CallTypeOK
             PROVE  calls * LimitOfCall \in Nat /\ MostCalls * LimitOfCall + waited \in Nat
    OBVIOUS
<1>1. calls * LimitOfCall \in Nat /\ MostCalls * LimitOfCall \in Nat /\ waited \in Nat
    BY CallTimes
<1> QED
    BY <1>1

LEMMA BeatStep == TypeOK /\ PlaceInvariant /\ BeatInvariant /\ [Next]_vars => BeatInvariant'
<1> SUFFICES ASSUME TypeOK, PlaceInvariant, BeatInvariant, [Next]_vars PROVE BeatInvariant'
    OBVIOUS
<1> USE HealthAssumption, WorkerAssumption
<1>0. /\ beat \in Int /\ touched \in Nat /\ missed \in Nat /\ HbInterval \in Nat
      /\ outages \in Nat /\ beat <= HbInterval
    BY DEF TypeOK, Health!HealthTypeOK, Health!Off, Health!StaleTimeout
<1>t. TypeOK'
    BY TypeStep
<1>b. ASSUME place = "scan", stage \notin {"versions", "finally"}
      PROVE  beat >= 0 /\ touched + beat <= (missed + 1) * HbInterval
    BY <1>b DEF BeatInvariant
<1>1. CASE Start \/ FirstBeat \/ FindNoRow \/ InsertRow \/ BeatInLoop \/ SkipBeat \/ ClaimNone
           \/ Wake \/ StopGracefully
  <2>1. /\ place # "scan" /\ place' \notin {"scan", "claimed"}
        /\ beat' = beat /\ stage' = stage
    BY <1>1 DEF Start, Health!StartChecks, FirstBeat, FindNoRow, InsertRow, BeatInLoop, SkipBeat,
           ClaimNone, Wake, StopGracefully, healthVars
  <2>2. stage = "none"
    BY <2>1 DEF PlaceInvariant
  <2> QED
    BY <2>1, <2>2 DEF BeatInvariant
<1>2. CASE Crash \/ InsertConflict \/ Leave \/ EndScan
  <2>1. place' \in {"down", "loop"} /\ stage' = "none" /\ beat' = Health!Off
    BY <1>2 DEF Crash, InsertConflict, Leave, Ends, EndScan, Health!StopBeats
  <2> QED
    BY <2>1 DEF BeatInvariant
<1>3. CASE ClaimOne
  <2>1. place # "scan" /\ place' = "claimed" /\ touched' = 0 /\ beat' = beat /\ stage' = stage
    BY <1>3 DEF ClaimOne
  <2>2. stage = "none"
    BY <2>1 DEF PlaceInvariant
  <2> QED
    BY <2>1, <2>2 DEF BeatInvariant
<1>4. CASE StartScan
  <2>1. /\ place' = "scan" /\ stage' = "versions" /\ UNCHANGED <<beat, touched>>
        /\ touched = 0 /\ beat = Health!Off
    BY <1>4 DEF StartScan, healthVars, BeatInvariant
  <2>2. CallTypeOK'
    BY <1>t DEF TypeOK
  <2>3. CallClock(0)'
    BY <2>2, CallsStarted, PTL
  <2>4. CallClock(touched)'
    BY <2>1, <2>3, CallClockKept
  <2> QED
    BY <2>1, <2>4 DEF BeatInvariant
<1>5. CASE VersionsOver
  <2>1. missed' = missed /\ place' = place /\ place = "scan" /\ stage = "versions" /\ calls = 0
    BY <1>5 DEF VersionsOver, PlaceInvariant
  <2>2. CASE Enter("nmap") /\ Health!StartBeats
    <3>1. touched' = 0 /\ beat' = HbInterval /\ stage' = "nmap"
      BY <2>2 DEF Enter, Health!StartBeats
    <3>2. HbInterval <= (missed + 1) * HbInterval
      BY <1>0
    <3> QED
      BY <1>0, <2>1, <3>1, <3>2 DEF BeatInvariant
  <2>3. CASE Finally /\ UNCHANGED beat
    <3>1. stage' = "finally" /\ touched' = touched /\ beat' = beat /\ beat = Health!Off
      BY <2>1, <2>3 DEF Finally, BeatInvariant
    <3>2. touched <= MostCalls * LimitOfCall
      BY <1>0, <2>1, CallsBounded DEF BeatInvariant, TypeOK
    <3>3. touched' <= 2 * VersionLimit
      BY <2>1, <3>1, <3>2 DEF MostCalls, LimitOfCall
    <3> QED
      BY <2>1, <3>1, <3>3 DEF BeatInvariant
  <2> QED
    BY <1>5, <2>2, <2>3 DEF VersionsOver
<1>6. CASE EngineOver \/ BannerOver \/ ZabbixOver \/ ZabbixCancelled \/ BannerCancelled
  <2>1. /\ beat' = beat /\ missed' = missed /\ place' = place
        /\ stage \in {"nmap", "nuclei", "banner_tls", "zabbix"}
        /\ touched' = touched \/ touched' = 0
        /\ stage' \in {"banner_tls", "nuclei", "zabbix", "finally"}
    BY <1>6 DEF EngineOver, BannerOver, ZabbixOver, ZabbixCancelled, BannerCancelled, Advance,
           Later, Enter, Finally, healthVars
  <2>2. place = "scan"
    BY <2>1 DEF PlaceInvariant
  <2>3. beat >= 0 /\ touched + beat <= (missed + 1) * HbInterval
    BY <1>b, <2>1, <2>2
  <2>4. beat' >= 0 /\ touched' + beat' <= (missed' + 1) * HbInterval
    BY <1>0, <2>1, <2>3
  <2> QED
    BY <2>1, <2>2, <2>4 DEF BeatInvariant
<1>7. CASE CallOver
  <2>1. UNCHANGED <<place, stage, beat, touched, missed>>
    BY <1>7 DEF CallOver, healthVars
  <2>2. ASSUME stage = "versions" PROVE CallClock(touched)'
    <3>1. PICK t \in Nat : t = touched
      BY <1>0
    <3>2. CallClock(t)'
      BY <1>7, <2>2, <3>1, CallsGoOn DEF BeatInvariant
    <3> QED
      BY <2>1, <3>1, <3>2, CallClockKept
  <2> QED
    BY <2>1, <2>2 DEF BeatInvariant
<1>8. CASE HealthSteps
  <2>0. UNCHANGED <<place, stage, callVars>>
    BY <1>8 DEF HealthSteps
  <2>1. CASE Health!RivalWrites
    <3>1. UNCHANGED <<touched, beat, missed>>
      BY <2>1 DEF Health!RivalWrites
    <3> QED
      BY <2>0, <3>1 DEF BeatInvariant, CallClock, callVars, MostCalls, LimitOfCall
  <2>2. CASE Health!PeriodicBeat
    <3>1. beat = 0 /\ beat' = HbInterval
      BY <2>2 DEF Health!PeriodicBeat
    <3>2. \/ touched' = 0 /\ missed' = 0
          \/ touched' = 0 /\ missed' = missed + 1
          \/ touched' = touched /\ missed' = missed + 1
      BY <2>2 DEF Health!PeriodicBeat, Health!WriteRow, Health!LoseWrite, Health!TouchExecution
    <3>3. (missed + 2) * HbInterval = (missed + 1) * HbInterval + HbInterval
      BY <1>0
    <3>4. (missed + 1) * HbInterval >= 0
      BY <1>0
    <3>5. place = "scan" /\ stage # "versions" /\ touched + beat <= (missed + 1) * HbInterval
      BY <3>1 DEF BeatInvariant, Health!Off
    <3>6. beat' >= 0 /\ touched' + beat' <= (missed' + 1) * HbInterval
      BY <1>0, <3>1, <3>2, <3>3, <3>4, <3>5
    <3> QED
      BY <2>0, <3>5, <3>6 DEF BeatInvariant
  <2> QED
    BY <1>8, <2>1, <2>2 DEF HealthSteps, Health!HealthStep
<1>9. CASE Tick
  <2>1. /\ UNCHANGED <<place, stage>> /\ beat # 0 /\ missed' = missed
        /\ place # "claimed" /\ stage # "finally"
        /\ touched' \in Nat /\ touched' <= touched + 1
        /\ beat' = IF beat > 0 THEN beat - 1 ELSE beat
        /\ stage = "versions" => calls > 0
    BY <1>0, <1>9 DEF Tick, Quiet, Health!HealthQuiet, Health!HealthTick, Health!Sooner, Health!Older
  <2>2. CASE place # "scan"
    <3>1. stage = "none" /\ beat = Health!Off
      BY <2>2 DEF PlaceInvariant, BeatInvariant
    <3> QED
      BY <2>1, <2>2, <3>1 DEF BeatInvariant, Health!Off
  <2>3. CASE place = "scan" /\ stage = "versions"
    <3>1. PICK t \in Nat : t = touched
      BY <1>0
    <3>2. CallClock(t + 1)'
      BY <1>9, <2>1, <2>3, <3>1, CallsTick DEF BeatInvariant
    <3>3. PICK u \in Nat : u = touched' /\ u <= t + 1
      BY <2>1, <3>1
    <3>4. CallTypeOK'
      BY <1>t DEF TypeOK
    <3>5. (calls * LimitOfCall \in Nat /\ MostCalls * LimitOfCall + waited \in Nat)'
      BY <3>4, CallsAreNumbers, PTL
    <3>6. CallClock(u)'
      BY <3>2, <3>3, <3>5 DEF CallClock
    <3>7. CallClock(touched)'
      BY <3>3, <3>6, CallClockKept
    <3>8. beat' = Health!Off
      BY <2>1, <2>3 DEF BeatInvariant, Health!Off
    <3> QED
      BY <2>1, <2>3, <3>7, <3>8 DEF BeatInvariant
  <2>4. CASE place = "scan" /\ stage # "versions"
    <3>1. PICK limit \in Int : limit = (missed + 1) * HbInterval
      BY <1>0
    <3>2. beat >= 0 /\ touched + beat <= limit
      BY <1>b, <2>1, <2>4, <3>1
    <3>3. beat \in Nat \ {0} /\ touched \in Nat
      BY <1>0, <2>1, <3>2
    <3>4. beat' = beat - 1 /\ touched' \in Nat /\ touched' <= touched + 1
      BY <2>1, <3>3
    <3>5. beat' >= 0 /\ touched' + beat' <= limit
      BY <3>1, <3>2, <3>3, <3>4
    <3>6. beat' >= 0 /\ touched' + beat' <= (missed' + 1) * HbInterval
      BY <2>1, <3>1, <3>5
    <3> QED
      BY <2>1, <2>4, <3>6 DEF BeatInvariant
  <2> QED
    BY <2>2, <2>3, <2>4
<1>10. CASE ChildSteps \/ ChildExits \/ ProbeSteps \/ ProbeEnds \/ Signal \/ UNCHANGED vars
  <2>1. UNCHANGED <<place, stage, beat, touched, missed, callVars>>
    BY <1>10 DEF ChildSteps, ChildExits, ProbeSteps, ProbeEnds, Signal, healthVars, vars
  <2> QED
    BY <2>1 DEF BeatInvariant, CallClock, callVars, MostCalls, LimitOfCall
<1> QED
    BY <1>1, <1>2, <1>3, <1>4, <1>5, <1>6, <1>7, <1>8, <1>9, <1>10
       DEF Next, Boot, Loop, Scan, CallEnds, CallExpires

LEMMA BeatInit == Init => BeatInvariant
<1> SUFFICES ASSUME Init PROVE BeatInvariant
    OBVIOUS
<1>1. place = "down" /\ stage = "none" /\ beat = Health!Off
    BY DEF Init, Health!HealthInit
<1> QED
    BY <1>1 DEF BeatInvariant

\* A live scan is taken for stale only after three lost heartbeats in a row: each turn of the
\* task, lost or not, makes up for one interval.  The blocking calls before the first turn
\* must fit in the stale timeout.
THEOREM StaleAfterThree == ASSUME VersionsAreQuick PROVE Spec => []StaleOnlyAfterThree
<1>1. TypeOK /\ BeatInvariant => StaleOnlyAfterThree
  <2> SUFFICES ASSUME TypeOK, BeatInvariant, place = "scan", touched >= 4 * HbInterval, missed < 3
               PROVE  FALSE
    BY HealthAssumption, WorkerAssumption
       DEF StaleOnlyAfterThree, Health!StaleTimeout, TypeOK, Health!HealthTypeOK
  <2>1. /\ touched \in Nat /\ HbInterval \in Nat \ {0} /\ missed \in {0, 1, 2} /\ beat \in Int
        /\ 2 * VersionLimit < 4 * HbInterval /\ VersionLimit \in Nat
    BY HealthAssumption, WorkerAssumption, CallAssumption
       DEF TypeOK, Health!HealthTypeOK, Health!StaleTimeout, Health!Off, VersionsAreQuick
  <2>2. CASE stage = "versions"
    <3>1. touched <= MostCalls * LimitOfCall
      BY <2>1, <2>2, CallsBounded DEF BeatInvariant, TypeOK
    <3> QED
      BY <2>1, <2>2, <3>1 DEF MostCalls, LimitOfCall
  <2>3. CASE stage # "versions"
    <3>1. \/ beat >= 0 /\ touched + beat <= (missed + 1) * HbInterval
          \/ touched <= 2 * VersionLimit
      BY <2>3 DEF BeatInvariant
    <3> QED
      BY <2>1, <3>1
  <2> QED
    BY <2>2, <2>3
<1> QED
    BY <1>1, BeatInit, BeatStep, TypeCorrect, PlaceAlways, PTL DEF Spec

\* One step per action that moves the worker, writes the row or lets time pass.
LEMMA RowStep ==
    TypeOK /\ PlaceInvariant /\ BeatInvariant /\ RowInvariant /\ [Next]_vars => RowInvariant'
<1> SUFFICES ASSUME TypeOK, PlaceInvariant, BeatInvariant, RowInvariant, [Next]_vars,
                    missed' = 0, rivals' = 0, place' \notin {"down", "boot", "inserting"}
             PROVE  /\ row'.status = IF place' = "leaving" THEN "stopped" ELSE "healthy"
                    /\ place' # "leaving" => row'.age <= sinceLoop' \/ sinceLoop' = LoopBeat
                    /\ place' = "polling" => row'.age < LoopBeat
                    /\ place' = "napping" => row'.age + nap' < LoopBeat + Poll
    BY DEF RowInvariant
<1> USE HealthAssumption, WorkerAssumption
<1>0. /\ row.age \in Nat /\ sinceLoop \in Nat /\ nap \in Nat /\ beat \in Int /\ missed \in Nat
      /\ rivals \in Nat /\ sinceLoop <= LoopBeat
    BY DEF TypeOK, Health!HealthTypeOK, Health!Off
<1>1. CASE FirstBeat \/ InsertRow
    BY <1>1 DEF FirstBeat, InsertRow, Health!WriteRow, Health!Written
<1>2. CASE BeatInLoop
  <2>1. Health!WriteRow("healthy") /\ sinceLoop' = 0 /\ place' = "polling"
    BY <1>0, <1>2 DEF BeatInLoop, Health!LoseWrite
  <2> QED
    BY <2>1 DEF Health!WriteRow, Health!Written
<1>3. CASE SkipBeat \/ ClaimOne \/ ClaimNone \/ Wake
    BY <1>0, <1>3 DEF RowInvariant, SkipBeat, ClaimOne, ClaimNone, Wake, healthVars
<1>4. CASE StopGracefully
  <2>1. Health!WriteRow("stopped") /\ place' = "leaving"
    BY <1>0, <1>4 DEF StopGracefully, Health!LoseWrite
  <2> QED
    BY <2>1 DEF Health!WriteRow, Health!Written
<1>5. ASSUME UNCHANGED <<row, missed, rivals, sinceLoop>>, place' = "scan", place = "scan" \/ place = "claimed"
      PROVE  /\ row'.status = IF place' = "leaving" THEN "stopped" ELSE "healthy"
             /\ place' # "leaving" => row'.age <= sinceLoop' \/ sinceLoop' = LoopBeat
             /\ place' = "polling" => row'.age < LoopBeat
             /\ place' = "napping" => row'.age + nap' < LoopBeat + Poll
    BY <1>5 DEF RowInvariant
<1>6. CASE StartScan \/ EngineOver \/ BannerOver \/ VersionsOver \/ ZabbixOver \/ ZabbixCancelled
           \/ BannerCancelled
    BY <1>5, <1>6 DEF StartScan, EngineOver, BannerOver, VersionsOver, ZabbixOver, ZabbixCancelled,
           BannerCancelled, healthVars, PlaceInvariant
<1>7. CASE EndScan
    BY <1>7 DEF RowInvariant, EndScan, PlaceInvariant
<1>8. CASE HealthSteps
  <2>1. CASE Health!PeriodicBeat
    <3>1. Health!WriteRow("healthy") /\ beat = 0
      BY <1>0, <2>1 DEF Health!PeriodicBeat, Health!LoseWrite, TypeOK, Health!HealthTypeOK
    <3>2. place' = "scan"
      BY <1>8, <3>1 DEF HealthSteps, BeatInvariant, Health!Off
    <3>3. row'.status = "healthy" /\ row'.age = 0
      BY <3>1 DEF Health!WriteRow, Health!Written
    <3>4. sinceLoop' = sinceLoop
      BY <1>8 DEF HealthSteps
    <3> QED
      BY <1>0, <3>2, <3>3, <3>4
  <2>2. CASE Health!RivalWrites
    BY <1>0, <2>2 DEF Health!RivalWrites
  <2> QED
    BY <1>8, <2>1, <2>2 DEF HealthSteps, Health!HealthStep
<1>9. CASE Tick
  <2>1. /\ UNCHANGED <<place, missed, rivals>> /\ row'.status = row.status
        /\ row'.age = row.age + 1 \/ row'.age = row.age
        /\ sinceLoop' = IF sinceLoop < LoopBeat THEN sinceLoop + 1 ELSE sinceLoop
        /\ nap' = IF nap > 0 THEN nap - 1 ELSE nap
    BY <1>9 DEF Tick, Health!HealthTick, Health!Older, Health!Sooner, TypeOK, Health!HealthTypeOK
  <2>2. /\ place \in {"napping", "scan", "leaving", "down"}
        /\ place = "napping" => nap > 0
    BY <1>9 DEF Tick, Quiet
  <2>3. place' \notin {"down", "boot", "inserting", "polling"}
    BY <2>1, <2>2
  <2> QED
    BY <1>0, <2>1, <2>2, <2>3 DEF RowInvariant
<1>10. CASE ChildSteps \/ ChildExits \/ ProbeSteps \/ ProbeEnds \/ Signal \/ CallOver
            \/ UNCHANGED vars
    BY <1>10 DEF RowInvariant, ChildSteps, ChildExits, ProbeSteps, ProbeEnds, Signal, CallOver,
           healthVars, vars
<1>11. CASE Start \/ Crash \/ FindNoRow \/ InsertConflict \/ Leave
    BY <1>11 DEF Start, Crash, FindNoRow, InsertConflict, Leave, Ends
<1> QED
    BY <1>1, <1>2, <1>3, <1>4, <1>6, <1>7, <1>8, <1>9, <1>10, <1>11
       DEF Next, Boot, Loop, Scan, CallEnds, CallExpires

\* The health check finds an idle worker that loses no heartbeat, provided its limit covers a
\* beat of the loop and the sleep after it, as the settings of the repository do; and none
\* finds a worker healthy that has told its end.  What a scan of the delivered settings does
\* to the check is Health_busy.
THEOREM LiveWorkerIsHealthy == ASSUME HeartbeatsSuffice PROVE Spec => []LiveIsHealthy
<1>1. Init => RowInvariant
    BY DEF Init, RowInvariant
<1>2. TypeOK /\ RowInvariant => LiveIsHealthy
  <2> SUFFICES ASSUME TypeOK, RowInvariant, missed = 0, rivals = 0
               PROVE  /\ place = "napping" => row.status = "healthy" /\ row.age <= Staleness
                      /\ place = "leaving" => row.status = "stopped"
    BY DEF LiveIsHealthy, Health!Healthy, Health!Operational
  <2>1. row.age \in Nat /\ nap \in Nat
    BY HealthAssumption, WorkerAssumption DEF TypeOK, Health!HealthTypeOK
  <2> QED
    BY <2>1, HealthAssumption, WorkerAssumption DEF HeartbeatsSuffice, RowInvariant
<1> QED
    BY <1>1, <1>2, BeatInit, BeatStep, RowStep, TypeCorrect, PlaceAlways, PTL DEF Spec

----------------------------------------------------------------------------
(* How long a scan lasts.                                                  *)

\* The rounds have room for every probe.
LEMMA Divided ==
    ASSUME NEW n \in Nat, NEW m \in Nat \ {0}
    PROVE  LET q == (n + m - 1) \div m IN q \in Nat /\ q * m >= n /\ (n > 0 => q >= 1)
<1> DEFINE a == n + m - 1
           q == a \div m
           r == a % m
<1>1. a \in Nat /\ q \in Int /\ r \in 0..(m - 1)
    OBVIOUS
<1>2. a = m * q + r
    OBVIOUS
<1>3. m * q >= n
    BY <1>1, <1>2
<1>4. m * q = q * m
    BY <1>1
<1>5. q >= 0
    BY <1>1
<1>6. n > 0 => q >= 1
  <2>1. q = 0 => m * q = 0
    OBVIOUS
  <2> QED
    BY <1>1, <1>3, <1>5, <2>1
<1> QED
    BY <1>1, <1>3, <1>4, <1>5, <1>6

LEMMA RoundsSuffice ==
    /\ IsFiniteSet(Tcp) /\ Cardinality(Tcp) \in Nat
    /\ Rounds \in Nat /\ Rounds * MaxParallelism >= Cardinality(Tcp)
    /\ Tcp # {} => Rounds >= 1
<1>1. IsFiniteSet(Tcp)
    BY BannerAssumption, FS_Subset
<1>2. Cardinality(Tcp) \in Nat /\ (Cardinality(Tcp) = 0 <=> Tcp = {})
    BY <1>1, FS_CardinalityType, FS_EmptySet
<1>3. MaxParallelism \in Nat \ {0}
    BY BannerAssumption
<1> QED
    BY <1>1, <1>2, <1>3, Divided DEF Rounds

\* More probes may be over, or open for the same time, than before.
LEMMA StartedGrows ==
    ASSUME NEW A \in SUBSET Tcp, NEW B \in SUBSET Tcp, A \subseteq B
    PROVE  /\ Cardinality(A) \in Nat /\ Cardinality(B) \in Nat
           /\ Cardinality(A) <= Cardinality(B)
<1>1. IsFiniteSet(B)
    BY RoundsSuffice, FS_Subset
<1>2. IsFiniteSet(A)
    BY RoundsSuffice, FS_Subset
<1> QED
    BY <1>1, <1>2, FS_Subset, FS_CardinalityType

\* A probe gets the semaphore: the last one does before the last round.
LEMMA AcquireKeepsClock ==
    ASSUME TypeOK, NEW t, BannerClock(t), NEW s \in Banner!Services, Banner!Acquire(s)
    PROVE  BannerClock(t)'
<1> USE DEF BannerClock
<1>0. t \in Nat /\ t <= Rounds * ProbeLimit /\ ProbeLimit \in Nat \ {0} /\ MaxParallelism \in Nat \ {0}
    BY RoundsSuffice, BannerAssumption, Rounded
<1>1. /\ s \in Tcp /\ probe[s] = "waiting" /\ open[s] = 0
      /\ probe' = [probe EXCEPT ![s] = "open"] /\ open' = open
      /\ probe \in [Banner!Services -> {"none", "waiting", "open", "over"}]
      /\ open \in [Banner!Services -> Nat]
    BY DEF Banner!Acquire, Banner!Services, TypeOK, Banner!BannerTypeOK
<1>2. \A k : StartedBy(t, k) \in SUBSET Tcp /\ StartedBy(t, k)' \in SUBSET Tcp
    BY DEF StartedBy
<1>3. t <= (Rounds - 1) * ProbeLimit
  <2> SUFFICES ASSUME t > (Rounds - 1) * ProbeLimit PROVE FALSE
    BY <1>0, RoundsSuffice, Rounded
  <2> DEFINE k == Rounds - 1
  <2>1. k \in Nat /\ Rounds = k + 1
    BY <1>1, RoundsSuffice
  <2>2. k \in 0..t
    BY <1>0, <2>1, Rounded
  <2>3. s \in Banner!Waiting
    BY <1>1 DEF Banner!Waiting
  <2>4. Cardinality(StartedBy(t, k)) >= Rounds * MaxParallelism
    BY <2>1, <2>2, <2>3
  <2>5. Cardinality(StartedBy(t, k)) = Cardinality(Tcp)
    BY <1>0, <1>2, <2>1, <2>4, RoundsSuffice, Rounded, StartedGrows
  <2>6. StartedBy(t, k) = Tcp
    BY <1>2, <2>5, RoundsSuffice, FS_Subset
  <2>7. s \notin StartedBy(t, k)
    BY <1>1 DEF StartedBy
  <2> QED
    BY <1>1, <2>6, <2>7
<1>4. Rounds' = Rounds /\ t \in 0..(Rounds * ProbeLimit)
    BY DEF Rounds
<1>5. \A u \in Udp : probe'[u] = "over"
    BY <1>1, BannerAssumption DEF Banner!Services
<1>6. \A u \in Tcp : probe'[u] # "none" /\ (probe'[u] = "waiting" => open'[u] = 0)
    BY <1>1 DEF Banner!Services
<1>7. \A u \in Banner!Probing' : t - open'[u] <= (Rounds - 1) * ProbeLimit
    BY <1>0, <1>1, <1>3 DEF Banner!Probing
<1>8. ASSUME Banner!Waiting' # {}, NEW k \in 0..t, t > k * ProbeLimit
      PROVE  Cardinality(StartedBy(t, k)') >= (k + 1) * MaxParallelism
  <2>1. StartedBy(t, k) \subseteq StartedBy(t, k)'
    BY <1>1 DEF StartedBy, Banner!Services
  <2>2. Cardinality(StartedBy(t, k)) >= (k + 1) * MaxParallelism
    BY <1>1, <1>8 DEF Banner!Waiting
  <2>3. (k + 1) * MaxParallelism \in Nat
    BY <1>0, <1>8
  <2> QED
    BY <1>2, <2>1, <2>2, <2>3, StartedGrows
<1> QED
    BY <1>4, <1>5, <1>6, <1>7, <1>8

\* A probe is over, whoever ended it.
LEMMA OverKeepsClock ==
    ASSUME TypeOK, NEW t, BannerClock(t), NEW s \in Banner!Services, probe[s] = "open",
           Banner!Over(s)
    PROVE  BannerClock(t)'
<1> USE DEF BannerClock
<1>0. t \in Nat /\ ProbeLimit \in Nat \ {0} /\ MaxParallelism \in Nat \ {0}
    BY RoundsSuffice, BannerAssumption, Rounded
<1>1. /\ probe' = [probe EXCEPT ![s] = "over"] /\ open' = [open EXCEPT ![s] = 0]
      /\ probe \in [Banner!Services -> {"none", "waiting", "open", "over"}]
      /\ open \in [Banner!Services -> Nat]
    BY DEF Banner!Over, TypeOK, Banner!BannerTypeOK
<1>2. \A k : StartedBy(t, k) \in SUBSET Tcp /\ StartedBy(t, k)' \in SUBSET Tcp
    BY DEF StartedBy
<1>4. Rounds' = Rounds /\ t \in 0..(Rounds * ProbeLimit)
    BY DEF Rounds
<1>5. \A u \in Udp : probe'[u] = "over"
    BY <1>1 DEF Banner!Services
<1>6. \A u \in Tcp : probe'[u] # "none" /\ (probe'[u] = "waiting" => open'[u] = 0)
    BY <1>1 DEF Banner!Services
<1>7. \A u \in Banner!Probing' : t - open'[u] <= (Rounds - 1) * ProbeLimit
    BY <1>1 DEF Banner!Probing
<1>8. ASSUME Banner!Waiting' # {}, NEW k \in 0..t, t > k * ProbeLimit
      PROVE  Cardinality(StartedBy(t, k)') >= (k + 1) * MaxParallelism
  <2>1. StartedBy(t, k) \subseteq StartedBy(t, k)'
    BY <1>1 DEF StartedBy, Banner!Services
  <2>2. Cardinality(StartedBy(t, k)) >= (k + 1) * MaxParallelism
    BY <1>1, <1>8 DEF Banner!Waiting
  <2>3. (k + 1) * MaxParallelism \in Nat
    BY <1>0, <1>8
  <2> QED
    BY <1>2, <2>1, <2>2, <2>3, StartedGrows
<1> QED
    BY <1>4, <1>5, <1>6, <1>7, <1>8

\* The banners count with the same operator.
LEMMA BannersCount == \A S : Banner!Cardinality(S) = Cardinality(S)
    BY DEF Banner!Cardinality, Cardinality

\* At the end of a round the semaphore is full of probes that started in it, and those of the
\* rounds before are over.
LEMMA TickKeepsClock ==
    ASSUME TypeOK, NEW t, BannerClock(t), Banner!BannerQuiet, Banner!BannerTick
    PROVE  BannerClock(t + 1)'
<1> USE DEF BannerClock
<1>0. t \in Nat /\ ProbeLimit \in Nat \ {0} /\ MaxParallelism \in Nat \ {0}
    BY RoundsSuffice, BannerAssumption, Rounded
<1>1. /\ probe' = probe
      /\ \A u \in Banner!Services : open'[u] = IF u \in Banner!Probing THEN open[u] + 1 ELSE open[u]
      /\ probe \in [Banner!Services -> {"none", "waiting", "open", "over"}]
      /\ open \in [Banner!Services -> Nat]
      /\ Tcp \subseteq Banner!Services
    BY DEF Banner!BannerTick, Banner!Services, TypeOK, Banner!BannerTypeOK
<1>2. /\ ~Banner!PassOver
      /\ Banner!Waiting = {} \/ Cardinality(Banner!Probing) >= MaxParallelism
      /\ \A u \in Banner!Probing : open[u] < ProbeLimit
    BY BannersCount DEF Banner!BannerQuiet
<1>3. Banner!Probing \in SUBSET Tcp
    BY <1>1 DEF Banner!Probing, Banner!Services
<1>4. Banner!Probing # {}
  <2>1. CASE Banner!Waiting = {}
    BY <1>1, <1>2, <2>1 DEF Banner!PassOver, Banner!Waiting, Banner!Probing, Banner!Services
  <2>2. CASE Banner!Waiting # {}
    <3>1. Cardinality(Banner!Probing) # 0
      BY <1>0, <1>2, <2>2
    <3> QED
      BY <3>1, FS_EmptySet
  <2> QED
    BY <2>1, <2>2
<1>5. t + 1 <= Rounds * ProbeLimit
  <2>1. PICK u \in Banner!Probing : TRUE
    BY <1>4
  <2>2. open[u] < ProbeLimit /\ t - open[u] <= (Rounds - 1) * ProbeLimit /\ open[u] \in Nat
    BY <1>1, <1>2, <1>3
  <2>3. Rounds \in Nat \ {0}
    BY <1>3, <1>4, RoundsSuffice
  <2>4. (Rounds - 1) * ProbeLimit = Rounds * ProbeLimit - ProbeLimit /\ Rounds * ProbeLimit \in Nat
    BY <1>0, <2>3, Rounded
  <2> QED
    BY <1>0, <2>2, <2>4
<1>6. \A k : StartedBy(t + 1, k)' = StartedBy(t, k) /\ StartedBy(t, k) \in SUBSET Tcp
  <2> SUFFICES ASSUME NEW k, NEW u \in Tcp, probe[u] = "open"
               PROVE  (t + 1) - open'[u] = t - open[u]
    BY <1>1 DEF StartedBy
  <2> QED
    BY <1>0, <1>1 DEF Banner!Probing
<1>7. \A u \in Tcp : probe'[u] # "none" /\ (probe'[u] = "waiting" => open'[u] = 0)
    BY <1>1 DEF Banner!Probing
<1>8. \A u \in Banner!Probing' : (t + 1) - open'[u] <= (Rounds - 1) * ProbeLimit
  <2> SUFFICES ASSUME NEW u \in Banner!Probing
               PROVE  (t + 1) - open'[u] <= (Rounds - 1) * ProbeLimit
    BY <1>1 DEF Banner!Probing
  <2>1. (t + 1) - open'[u] = t - open[u]
    BY <1>0, <1>1, <1>3
  <2> QED
    BY <2>1
<1>9. ASSUME Banner!Waiting # {}, NEW k \in 0..(t + 1), t + 1 > k * ProbeLimit
      PROVE  Cardinality(StartedBy(t, k)) >= (k + 1) * MaxParallelism
  <2>0. k \in Nat /\ k * ProbeLimit \in Nat /\ k * ProbeLimit >= k
    BY <1>0, Rounded
  <2>1. CASE t > k * ProbeLimit
    BY <1>0, <1>9, <2>0, <2>1
  <2>2. CASE t = k * ProbeLimit
    <3>1. Banner!Probing \subseteq StartedBy(t, k)
      BY <1>0, <1>1, <1>3, <2>2 DEF StartedBy, Banner!Probing
    <3>2. Cardinality(Banner!Probing) >= MaxParallelism
      BY <1>2, <1>9
    <3>3. CASE k = 0
      BY <1>0, <1>3, <1>6, <3>1, <3>2, <3>3, StartedGrows
    <3>4. CASE k # 0
      <4> DEFINE before == StartedBy(t, k - 1)
      <4>1. k - 1 \in 0..t /\ t > (k - 1) * ProbeLimit /\ (k - 1) * ProbeLimit \in Int
        BY <1>0, <2>0, <2>2, <3>4, Rounded
      <4>2. Cardinality(before) >= k * MaxParallelism
        BY <1>9, <2>0, <4>1
      <4>3. (k - 1) * ProbeLimit = t - ProbeLimit
        BY <1>0, <2>0, <2>2, <3>4, Rounded
      <4>4. before \cap Banner!Probing = {}
        BY <1>0, <1>1, <1>2, <1>3, <4>3 DEF StartedBy, Banner!Probing
      <4>5. before \cup Banner!Probing \subseteq StartedBy(t, k)
        BY <1>0, <1>1, <2>2, <3>1, <4>3 DEF StartedBy
      <4>6. IsFiniteSet(before) /\ IsFiniteSet(Banner!Probing)
        BY <1>3, <1>6, RoundsSuffice, FS_Subset
      <4>7. Cardinality(before \cup Banner!Probing) = Cardinality(before) + Cardinality(Banner!Probing)
        <5> HIDE DEF before
        <5>1. Cardinality(before \cap Banner!Probing) = 0
          BY <4>4, FS_EmptySet
        <5>2. Cardinality(before) \in Nat /\ Cardinality(Banner!Probing) \in Nat
          BY <4>6, FS_CardinalityType
        <5>3. Cardinality(before \cup Banner!Probing)
                = Cardinality(before) + Cardinality(Banner!Probing) - Cardinality(before \cap Banner!Probing)
          BY <4>6, FS_Union
        <5> QED
          BY <5>1, <5>2, <5>3
      <4>8. (k + 1) * MaxParallelism = k * MaxParallelism + MaxParallelism /\ k * MaxParallelism \in Nat
        BY <1>0, <2>0, Rounded
      <4>9. /\ Cardinality(before \cup Banner!Probing) <= Cardinality(StartedBy(t, k))
            /\ Cardinality(StartedBy(t, k)) \in Nat
            /\ Cardinality(before) \in Nat /\ Cardinality(Banner!Probing) \in Nat
        <5>1. before \cup Banner!Probing \in SUBSET Tcp /\ StartedBy(t, k) \in SUBSET Tcp
          BY <1>3, <1>6
        <5> QED
          BY <4>5, <4>6, <5>1, StartedGrows, FS_CardinalityType
      <4> QED
        BY <1>0, <3>2, <4>2, <4>7, <4>8, <4>9
    <3> QED
      BY <3>3, <3>4
  <2> QED
    BY <1>0, <1>9, <2>0, <2>1, <2>2
<1>10. Rounds' = Rounds /\ Banner!Waiting' = Banner!Waiting
    BY <1>1 DEF Rounds, Banner!Waiting
<1>11. \A k \in 0..(t + 1) :
          Banner!Waiting' # {} /\ t + 1 > k * ProbeLimit =>
              Cardinality(StartedBy(t + 1, k)') >= (k + 1) * MaxParallelism
    BY <1>6, <1>9, <1>10
<1>12. t + 1 \in 0..(Rounds * ProbeLimit)
    BY <1>0, <1>5, RoundsSuffice, Rounded
<1> QED
    BY <1>1, <1>7, <1>8, <1>10, <1>11, <1>12
\* The step of a call and its child, at one time.
LEMMA EngineKeepsClock ==
    ASSUME TypeOK, ChildInvariant, NEW t, EngineClock(t), Engine!EngineStep \/ Engine!ChildExits
    PROVE  EngineClock(t)'
<1> USE EngineAssumption DEF TypeOK, Engine!EngineTypeOK, ChildInvariant, EngineClock, Engine!Waits
<1>1. CASE Engine!Spawn \/ Engine!SpawnFails \/ Engine!SpawnCancelled
    BY <1>1 DEF Engine!Spawn, Engine!SpawnFails, Engine!SpawnCancelled
<1>2. CASE Engine!ChildDies \/ Engine!ChildExits
    BY <1>2 DEF Engine!ChildDies, Engine!ChildExits
<1>3. CASE Engine!Communicated \/ Engine!TimesOutTooLate
    BY <1>3 DEF Engine!Communicated, Engine!TimesOutTooLate
<1>4. CASE Engine!TimesOut
    BY <1>4 DEF Engine!TimesOut, Engine!Expired, Engine!AskToEnd, Engine!Patience
<1>5. CASE Engine!Cancelled
    BY <1>5 DEF Engine!Cancelled, Engine!EndCancelled, Engine!AskToEnd, Engine!Patience
<1>6. CASE Engine!Reaped
    BY <1>6 DEF Engine!Reaped, Engine!Verdict
<1>7. CASE Engine!GraceEnds
    BY <1>7 DEF Engine!GraceEnds
<1>8. CASE Engine!CancelledInHandler
    BY <1>8 DEF Engine!CancelledInHandler
<1> QED
    BY <1>1, <1>2, <1>3, <1>4, <1>5, <1>6, <1>7, <1>8 DEF Engine!EngineStep

\* Time passes for a call only while its child has time left.
LEMMA TickKeepsEngineClock ==
    ASSUME TypeOK, PlaceInvariant, NEW t, EngineClock(t), stage \in {"nmap", "nuclei"}, Tick
    PROVE  EngineClock(t + 1)'
<1> USE EngineAssumption DEF TypeOK, Engine!EngineTypeOK, Engine!Waits
<1>1. call \in Engine!Waits /\ age # deadline
    BY DEF PlaceInvariant, Tick, Quiet, Engine!EngineQuiet, Engine!Expired
<1>2. call' = call /\ deadline' = deadline /\ age' = age + 1
    BY <1>1 DEF Tick, Engine!EngineTick
<1> QED
    BY <1>1, <1>2 DEF EngineClock

\* A stage starts its clock at nought.
LEMMA StageStarts ==
    ASSUME TypeOK, NEW s \in {"nmap", "banner_tls", "nuclei", "zabbix"}, Enter(s)
    PROVE  /\ s = "banner_tls" => BannerClock(0)'
           /\ s = "zabbix" => CallClock(0)'
           /\ s \in {"nmap", "nuclei"} => EngineClock(0)'
<1>1. CASE s = "banner_tls"
  <2>1. /\ probe' = [u \in Banner!Services |-> IF u \in Tcp THEN "waiting" ELSE "over"]
        /\ open' = [u \in Banner!Services |-> 0]
    BY <1>1 DEF Enter, Banner!StartPass
  <2>2. \A u \in Tcp : probe'[u] = "waiting" /\ open'[u] = 0
    BY <2>1 DEF Banner!Services
  <2>3. \A u \in Udp : probe'[u] = "over"
    BY <2>1, BannerAssumption DEF Banner!Services
  <2>4. Banner!Probing' = {}
    BY <2>1 DEF Banner!Probing
  <2>5. Rounds * ProbeLimit \in Nat /\ Rounds' = Rounds
    BY RoundsSuffice, BannerAssumption, Rounded DEF Rounds
  <2>6. \A k \in 0..0 : ~(0 > k * ProbeLimit)
    BY BannerAssumption
  <2> QED
    BY <1>1, <2>2, <2>3, <2>4, <2>5, <2>6 DEF BannerClock
<1>2. CASE s \in {"nmap", "nuclei"}
    BY <1>2, EngineAssumption DEF Enter, EngineClock, Engine!Waits
<1>3. CASE s = "zabbix"
  <2>1. CallTypeOK'
    BY EnterTypes
  <2>2. CallClock(0)'
    BY <2>1, CallsStarted, PTL
  <2> QED
    BY <1>3, <2>2
<1> QED
    BY <1>1, <1>2, <1>3

\* A clock that nothing moves.
LEMMA ClocksKept ==
    ASSUME NEW t, NEW STATE now, now' = t
    PROVE  /\ EngineClock(t)' => EngineClock(now)'
           /\ BannerClock(t)' => BannerClock(now)'
    BY DEF EngineClock, BannerClock, StartedBy

LEMMA ClocksUnchanged ==
    ASSUME NEW t
    PROVE  /\ UNCHANGED engineVars /\ EngineClock(t) => EngineClock(t)'
           /\ UNCHANGED bannerVars /\ BannerClock(t) => BannerClock(t)'
           /\ UNCHANGED <<callVars, stage>> /\ CallClock(t) => CallClock(t)'
    BY DEF engineVars, bannerVars, callVars, EngineClock, BannerClock, CallClock, StartedBy, Rounds,
           Banner!Probing, Banner!Waiting, MostCalls, LimitOfCall

LEMMA ClockStep ==
    TypeOK /\ PlaceInvariant /\ ChildInvariant /\ ClockInvariant /\ [Next]_vars => ClockInvariant'
<1> DEFINE A == 2 * VersionLimit
           L == TimeLimit + Grace
           B == Rounds * ProbeLimit
           H == Hosts * CallLimit
           Clocks(now) ==
               /\ stage = "versions" => CallClock(now)
               /\ stage = "nmap" => \E spent \in 0..A : EngineClock(now - spent)
               /\ stage = "banner_tls" => \E spent \in 0..(A + L) : BannerClock(now - spent)
               /\ stage = "nuclei" => \E spent \in 0..(A + L + B) : EngineClock(now - spent)
               /\ stage = "zabbix" => \E spent \in 0..(A + 2 * L + B) : CallClock(now - spent)
               /\ now <= A + 2 * L + B + H
<1> SUFFICES ASSUME TypeOK, PlaceInvariant, ChildInvariant, ClockInvariant, [Next]_vars,
                    place' = "scan"
             PROVE  Clocks(scanAge)'
    BY DEF ClockInvariant, ScanIsBounded, Rounds
<1>0. /\ A \in Nat /\ L \in Nat /\ B \in Nat /\ H \in Nat /\ scanAge \in Nat
      /\ stage \in Stages /\ CallTypeOK
      /\ VersionLimit \in Nat /\ CallLimit \in Nat /\ Hosts \in Nat
  <2>1. H \in Nat
    BY CallAssumption, Rounded
  <2> QED
    BY <2>1, EngineAssumption, BannerAssumption, CallAssumption, RoundsSuffice, Rounded DEF TypeOK
<1>1. ASSUME place = "scan" PROVE Clocks(scanAge)
    BY <1>1 DEF ClockInvariant, ScanIsBounded
<1> HIDE DEF A, L, B, H
<1>a. MostCalls * LimitOfCall = IF stage = "versions" THEN A ELSE H
    BY DEF MostCalls, LimitOfCall, A, H
<1>b. ASSUME NEW t, EngineClock(t) PROVE t \in 0..L
    BY <1>b DEF EngineClock, L
<1>c. ASSUME NEW t, BannerClock(t) PROVE t \in 0..B
    BY <1>c DEF BannerClock, B
<1>2. ASSUME stage' = "finally", place = "scan", scanAge' = scanAge PROVE Clocks(scanAge)'
    BY <1>1, <1>2
<1>3. CASE StartScan
  <2>1. stage' = "versions" /\ scanAge' = 0
    BY <1>3 DEF StartScan
  <2>2. CallTypeOK'
    BY TypeStep DEF TypeOK
  <2>3. CallClock(0)'
    BY <2>2, CallsStarted, PTL
  <2> QED
    BY <1>0, <2>1, <2>3, CallClockKept
<1>4. CASE EngineOver \/ BannerOver \/ VersionsOver \/ ZabbixOver
  <2>1. place = "scan" /\ scanAge' = scanAge
    BY <1>4 DEF EngineOver, BannerOver, VersionsOver, ZabbixOver, PlaceInvariant
  <2>2. CASE stage' = "finally"
    BY <1>2, <2>1, <2>2
  <2>3. CASE stage' # "finally"
    <3>1. \/ stage = "versions" /\ Enter("nmap")
          \/ stage = "nmap" /\ \E s \in {"banner_tls", "nuclei", "zabbix"} : Enter(s)
          \/ stage = "banner_tls" /\ \E s \in {"nuclei", "zabbix"} : Enter(s)
          \/ stage = "nuclei" /\ Enter("zabbix")
      BY <1>4, <2>3 DEF EngineOver, BannerOver, VersionsOver, ZabbixOver, Advance, Later, Finally
    <3>2. stage = "versions" => scanAge \in 0..A
      BY <1>0, <1>1, <1>a, <2>1, CallsBounded
    <3>3. stage = "nmap" => scanAge \in 0..(A + L)
      <4> SUFFICES ASSUME stage = "nmap" PROVE scanAge \in 0..(A + L)
        OBVIOUS
      <4>1. PICK spent \in 0..A : EngineClock(scanAge - spent)
        BY <1>1, <2>1
      <4>2. scanAge - spent \in 0..L
        BY <1>b, <4>1
      <4> QED
        BY <1>0, <4>1, <4>2
    <3>4. stage = "banner_tls" => scanAge \in 0..(A + L + B)
      <4> SUFFICES ASSUME stage = "banner_tls" PROVE scanAge \in 0..(A + L + B)
        OBVIOUS
      <4>1. PICK spent \in 0..(A + L) : BannerClock(scanAge - spent)
        BY <1>1, <2>1
      <4>2. scanAge - spent \in 0..B
        BY <1>c, <4>1
      <4> QED
        BY <1>0, <4>1, <4>2
    <3>5. stage = "nuclei" => scanAge \in 0..(A + 2 * L + B)
      <4> SUFFICES ASSUME stage = "nuclei" PROVE scanAge \in 0..(A + 2 * L + B)
        OBVIOUS
      <4>1. PICK spent \in 0..(A + L + B) : EngineClock(scanAge - spent)
        BY <1>1, <2>1
      <4>2. scanAge - spent \in 0..L
        BY <1>b, <4>1
      <4> QED
        BY <1>0, <4>1, <4>2
    <3>6. scanAge' <= A + 2 * L + B + H
      BY <1>1, <2>1
    <3>7. PICK n \in Nat : n = scanAge
      BY <1>0
    <3>8. scanAge' - n = 0
      BY <1>0, <2>1, <3>7
    <3>9. CASE Enter("nmap") /\ stage = "versions"
      <4>1. stage' = "nmap" /\ EngineClock(0)'
        BY <3>9, StageStarts DEF Enter
      <4>2. EngineClock(scanAge - n)'
        BY <3>8, <4>1, ClocksKept
      <4> QED
        BY <3>2, <3>6, <3>7, <3>9, <4>1, <4>2
    <3>10. CASE Enter("banner_tls") /\ stage = "nmap"
      <4>1. stage' = "banner_tls" /\ BannerClock(0)'
        BY <3>10, StageStarts DEF Enter
      <4>2. BannerClock(scanAge - n)'
        BY <3>8, <4>1, ClocksKept
      <4> QED
        BY <3>3, <3>6, <3>7, <3>10, <4>1, <4>2
    <3>11. CASE Enter("nuclei") /\ stage \in {"nmap", "banner_tls"}
      <4>1. stage' = "nuclei" /\ EngineClock(0)'
        BY <3>11, StageStarts DEF Enter
      <4>2. EngineClock(scanAge - n)'
        BY <3>8, <4>1, ClocksKept
      <4>3. n \in 0..(A + L + B)
        BY <1>0, <3>3, <3>4, <3>7, <3>11
      <4> QED
        BY <3>6, <4>1, <4>2, <4>3
    <3>12. CASE Enter("zabbix") /\ stage \in {"nmap", "banner_tls", "nuclei"}
      <4>1. stage' = "zabbix" /\ CallClock(0)'
        BY <3>12, StageStarts DEF Enter
      <4>2. CallClock(scanAge - n)'
        BY <3>8, <4>1, CallClockKept
      <4>3. n \in 0..(A + 2 * L + B)
        BY <1>0, <3>3, <3>4, <3>5, <3>7, <3>12
      <4> QED
        BY <3>6, <4>1, <4>2, <4>3
    <3> QED
      BY <3>1, <3>9, <3>10, <3>11, <3>12
  <2> QED
    BY <2>2, <2>3
<1>5. CASE BannerCancelled \/ ZabbixCancelled
  <2>1. stage' = "finally" /\ place = "scan" /\ scanAge' = scanAge
    BY <1>5 DEF BannerCancelled, ZabbixCancelled, Finally, PlaceInvariant
  <2> QED
    BY <1>2, <2>1
<1>6. CASE Tick
  <2>1. /\ place = "scan" /\ scanAge' = scanAge + 1 /\ stage' = stage /\ stage # "finally"
        /\ stage \in {"versions", "zabbix"} => calls > 0
    BY <1>6 DEF Tick, Quiet
  <2>2. CASE stage = "versions"
    <3>1. PICK t \in Int : t = scanAge
      BY <1>0
    <3>2. CallClock(t + 1)' /\ t + 1 <= A
      BY <1>1, <1>6, <1>a, <2>1, <2>2, <3>1, CallsTick
    <3>3. scanAge' = t + 1
      BY <2>1, <3>1
    <3>4. CallClock(scanAge)'
      BY <3>2, <3>3, CallClockKept
    <3>5. scanAge' <= A + 2 * L + B + H
      BY <1>0, <3>2, <3>3
    <3> QED
      BY <2>1, <2>2, <3>4, <3>5
  <2>3. CASE stage = "nmap"
    <3>1. PICK spent \in 0..A : EngineClock(scanAge - spent)
      BY <1>1, <2>1, <2>3
    <3>2. PICK t : t = scanAge - spent
      OBVIOUS
    <3>3. EngineClock(t + 1)'
      BY <1>6, <2>3, <3>1, <3>2, TickKeepsEngineClock
    <3>4. scanAge' - spent = t + 1
      BY <1>0, <2>1, <3>2
    <3>5. EngineClock(scanAge - spent)' /\ t + 1 <= L
      BY <3>3, <3>4, ClocksKept DEF EngineClock, L
    <3>6. scanAge' <= A + 2 * L + B + H
      BY <1>0, <2>1, <3>1, <3>2, <3>5
    <3> QED
      BY <2>1, <2>3, <3>1, <3>5, <3>6
  <2>4. CASE stage = "banner_tls"
    <3>1. PICK spent \in 0..(A + L) : BannerClock(scanAge - spent)
      BY <1>1, <2>1, <2>4
    <3>2. PICK t : t = scanAge - spent
      OBVIOUS
    <3>3. Banner!BannerQuiet /\ Banner!BannerTick
      BY <1>6, <2>4 DEF Tick, Quiet
    <3>4. BannerClock(t + 1)'
      BY <3>1, <3>2, <3>3, TickKeepsClock
    <3>5. scanAge' - spent = t + 1
      BY <1>0, <2>1, <3>2
    <3>6. BannerClock(scanAge - spent)' /\ t + 1 <= B
      BY <3>4, <3>5, ClocksKept DEF BannerClock, B, Rounds
    <3>7. scanAge' <= A + 2 * L + B + H
      BY <1>0, <2>1, <3>1, <3>2, <3>6
    <3> QED
      BY <2>1, <2>4, <3>1, <3>6, <3>7
  <2>5. CASE stage = "nuclei"
    <3>1. PICK spent \in 0..(A + L + B) : EngineClock(scanAge - spent)
      BY <1>1, <2>1, <2>5
    <3>2. PICK t : t = scanAge - spent
      OBVIOUS
    <3>3. EngineClock(t + 1)'
      BY <1>6, <2>5, <3>1, <3>2, TickKeepsEngineClock
    <3>4. scanAge' - spent = t + 1
      BY <1>0, <2>1, <3>2
    <3>5. EngineClock(scanAge - spent)' /\ t + 1 <= L
      BY <3>3, <3>4, ClocksKept DEF EngineClock, L
    <3>6. scanAge' <= A + 2 * L + B + H
      BY <1>0, <2>1, <3>1, <3>2, <3>5
    <3> QED
      BY <2>1, <2>5, <3>1, <3>5, <3>6
  <2>6. CASE stage = "zabbix"
    <3>1. PICK spent \in 0..(A + 2 * L + B) : CallClock(scanAge - spent)
      BY <1>1, <2>1, <2>6
    <3>2. PICK t \in Int : t = scanAge - spent
      BY <1>0, <3>1
    <3>3. CallClock(t + 1)' /\ t + 1 <= H
      BY <1>6, <1>a, <2>1, <2>6, <3>1, <3>2, CallsTick
    <3>4. scanAge' - spent = t + 1
      BY <1>0, <2>1, <3>1, <3>2
    <3>5. CallClock(scanAge - spent)'
      BY <3>3, <3>4, CallClockKept
    <3>6. scanAge' <= A + 2 * L + B + H
      BY <1>0, <2>1, <3>1, <3>2, <3>3
    <3> QED
      BY <2>1, <2>6, <3>1, <3>5, <3>6
  <2> QED
    BY <1>0, <2>1, <2>2, <2>3, <2>4, <2>5, <2>6 DEF PlaceInvariant, Stages
<1>7. ASSUME UNCHANGED <<place, stage, scanAge>>,
             \A t : EngineClock(t) => EngineClock(t)',
             stage = "banner_tls" => \A t : BannerClock(t) => BannerClock(t)',
             \A t \in Int : CallClock(t) => CallClock(t)'
      PROVE  Clocks(scanAge)'
  <2>1. place = "scan" /\ scanAge' = scanAge /\ stage' = stage
    BY <1>7
  <2>2. PICK now \in Int : now = scanAge /\ now = scanAge'
    BY <1>0, <2>1
  <2>3. ASSUME NEW spent, EngineClock(now - spent) PROVE EngineClock(scanAge - spent)'
    <3>1. EngineClock(now - spent)'
      BY <1>7, <2>3
    <3> QED
      BY <2>2, <3>1, ClocksKept
  <2>4. ASSUME NEW spent, BannerClock(now - spent), stage = "banner_tls"
        PROVE  BannerClock(scanAge - spent)'
    <3>1. BannerClock(now - spent)'
      BY <1>7, <2>4
    <3> QED
      BY <2>2, <3>1, ClocksKept
  <2>5. ASSUME NEW spent \in Int, CallClock(now - spent) PROVE CallClock(scanAge - spent)'
    <3>1. CallClock(now - spent)'
      BY <1>7, <2>2, <2>5
    <3> QED
      BY <2>2, <3>1, CallClockKept
  <2>6. ASSUME CallClock(now) PROVE CallClock(scanAge)'
    <3>1. CallClock(now)'
      BY <1>7, <2>2, <2>6
    <3> QED
      BY <2>2, <3>1, CallClockKept
  <2>7. Clocks(now)
    BY <1>1, <2>1, <2>2
  <2>8. ASSUME stage = "nmap" PROVE \E spent \in 0..A : EngineClock(scanAge - spent)'
    <3>1. PICK spent \in 0..A : EngineClock(now - spent)
      BY <2>7, <2>8
    <3> QED
      BY <2>3, <2>8, <3>1
  <2>9. ASSUME stage = "banner_tls" PROVE \E spent \in 0..(A + L) : BannerClock(scanAge - spent)'
    <3>1. PICK spent \in 0..(A + L) : BannerClock(now - spent)
      BY <2>7, <2>9
    <3> QED
      BY <2>4, <2>9, <3>1
  <2>10. ASSUME stage = "nuclei" PROVE \E spent \in 0..(A + L + B) : EngineClock(scanAge - spent)'
    <3>1. PICK spent \in 0..(A + L + B) : EngineClock(now - spent)
      BY <2>7, <2>10
    <3> QED
      BY <2>3, <2>10, <3>1
  <2>11. ASSUME stage = "zabbix" PROVE \E spent \in 0..(A + 2 * L + B) : CallClock(scanAge - spent)'
    <3>1. PICK spent \in 0..(A + 2 * L + B) : CallClock(now - spent)
      BY <2>7, <2>11
    <3> QED
      BY <2>5, <2>11, <3>1
  <2> QED
    BY <2>1, <2>2, <2>6, <2>7, <2>8, <2>9, <2>10, <2>11
<1>8. CASE ChildSteps \/ ChildExits
  <2>1. UNCHANGED <<place, stage, scanAge, bannerVars, callVars>> /\ (Engine!EngineStep \/ Engine!ChildExits)
    BY <1>8 DEF ChildSteps, ChildExits
  <2>2. \A t : EngineClock(t) => EngineClock(t)'
    BY <2>1, EngineKeepsClock
  <2>3. \A t : (BannerClock(t) => BannerClock(t)') /\ (CallClock(t) => CallClock(t)')
    BY <2>1, ClocksUnchanged
  <2> QED
    BY <1>7, <2>1, <2>2, <2>3
<1>9. CASE ProbeSteps \/ ProbeEnds
  <2>1. UNCHANGED <<place, stage, scanAge, engineVars, callVars>>
    BY <1>9 DEF ProbeSteps, ProbeEnds
  <2>2. PICK s \in Banner!Services :
            Banner!Acquire(s) \/ (probe[s] = "open" /\ Banner!Over(s))
    BY <1>9 DEF ProbeSteps, ProbeEnds, Banner!ProbeExpires, Banner!ProbeEnds
  <2>3. \A t : BannerClock(t) => BannerClock(t)'
    BY <2>2, AcquireKeepsClock, OverKeepsClock
  <2>4. \A t : (EngineClock(t) => EngineClock(t)') /\ (CallClock(t) => CallClock(t)')
    BY <2>1, ClocksUnchanged
  <2> QED
    BY <1>7, <2>1, <2>3, <2>4
<1>10. CASE CallOver
  <2>1. UNCHANGED <<place, stage, scanAge, engineVars, bannerVars>>
    BY <1>10 DEF CallOver
  <2>2. \A t : (EngineClock(t) => EngineClock(t)') /\ (BannerClock(t) => BannerClock(t)')
    BY <2>1, ClocksUnchanged
  <2>3. \A t \in Int : CallClock(t) => CallClock(t)'
    BY <1>10, CallsGoOn
  <2> QED
    BY <1>7, <2>1, <2>2, <2>3
<1>11. CASE Signal \/ HealthSteps \/ UNCHANGED vars
  <2>1. UNCHANGED <<place, stage, scanAge, engineVars, bannerVars, callVars>>
    BY <1>11 DEF Signal, HealthSteps, vars
  <2>2. \A t : /\ EngineClock(t) => EngineClock(t)'
               /\ BannerClock(t) => BannerClock(t)'
               /\ CallClock(t) => CallClock(t)'
    BY <2>1, ClocksUnchanged
  <2> QED
    BY <1>7, <2>1, <2>2
<1>12. CASE Start \/ Crash \/ Boot \/ Loop \/ EndScan
    BY <1>12 DEF Start, Crash, Ends, Boot, FirstBeat, FindNoRow, InsertRow, InsertConflict, Loop,
           BeatInLoop, SkipBeat, ClaimOne, ClaimNone, Wake, StopGracefully, Leave, EndScan
<1> QED
    BY <1>3, <1>4, <1>5, <1>6, <1>8, <1>9, <1>10, <1>11, <1>12
       DEF Next, Scan, CallEnds, CallExpires

\* However many services Nmap found and whatever the worker is told meanwhile, a scan takes no
\* longer than its two blocking questions for a version, its two children with their graces,
\* its rounds of probes and one call to Zabbix for each host.
THEOREM ScansAreBounded == Spec => []ScanIsBounded
<1>1. Init => ClockInvariant
    BY DEF Init, ClockInvariant
<1>2. Init => ChildInvariant
    BY DEF Init, Engine!EngineInit, ChildInvariant, ChildKilledWithCall, ChildOutlives, Engine!Alive
<1>3. ClockInvariant => ScanIsBounded
    BY DEF ClockInvariant, ScanIsBounded
<1> QED
    BY <1>1, <1>2, <1>3, ChildStep, ClockStep, TypeCorrect, PlaceAlways, PTL DEF Spec
=============================================================================
