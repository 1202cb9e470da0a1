# GovSec Scanner: a verification of the program

TLA+ modules of the scanner in `ScannerENtrega/`: the models, what TLC checks of
them on small instances, and what TLAPS proves of them for every instance. The
reference is the code; `PROJECT.json` maps each definition to the lines it stands
for.

## 1. The system

Operators use a Next.js frontend, which forwards to a FastAPI process. That API,
any number of worker processes and a scheduler process share nothing but a
PostgreSQL database (SQLite in tests and in development). Nothing is locked in
memory: every hard question is about what a transaction reads, what it writes, and
what happened in between or half way.

| Component | Source (`backend/govsec_scanner/`) | State it keeps | Operations |
|---|---|---|---|
| Execution lifecycle and queue | `services.py`, `worker.py`, `api.py` 560-640 | `scan_executions`, `engine_runs`; locals of a worker: the claimed row, hosts found, partial errors; `_shutdown`, the active task | queue, cancel, claim, run four engines, heartbeat, fail, finish, recover at boot, stop |
| Scheduler and schedules | `scheduler.py`, `api.py` 440-535 | `scan_schedules`, the executions they cause | poll (lock, check, insert, plan), create, patch, delete |
| Inventory | `services.py` 187-364, `engines/nmap.py` | `discovered_assets`, `discovered_services`, `service_observations`, `service_risk_assessments` | persist what an engine saw, close what it looked for in vain |
| Findings | `services.py` 367-424 | `vulnerability_findings` | insert or refresh by fingerprint |
| Range register | `api.py` 193-422 | `authorized_ranges`, `import_batches` | register, switch, preview, confirm |
| Scope validation | `scope.py` | none | parse, limit, normalise, compare |
| Engine processes | `engines/base.py`, `nmap.py`, `nuclei.py`, `banner.py`, `zabbix.py` | a child process, a semaphore | run with a time limit, end, parse |
| Intelligence | `intelligence/*.py` | none | normalise, look up, rate |
| Service health | `services.py` 840-868, `healthcheck.py` | `service_heartbeats` | write, check |
| Read API | `api.py` GET handlers | none | join and show |
| Frontend | `frontend/app/` | session cookie, polled data | log in, forward, poll |

How they meet. The API and the scheduler insert `queued` rows; workers claim the
oldest one and walk it through Nmap, banners, Nuclei and Zabbix; each engine's
results go to the inventory in commits of their own; the scheduler looks at the
executions of a schedule before it enqueues another; the worker reads the range the
register holds, and validates its text again.

What is hard here:

* **interleavings of transactions**: two workers at one row, a cancel request between
  its SELECT and its UPDATE, overlapping executions of one range, two registrations;
* **stale reads**: SQLAlchemy writes only the columns that differ from what it read,
  by primary key, whatever the row holds by then;
* **crashes and partial failure**: a scan is some ten commits, its failure handler
  two, the recovery one per running engine, Nuclei's findings and its end one each;
* **signals**: a cancellation arrives only where the task awaits, and neither a blocking
  subprocess nor the thread that talks to Zabbix does;
* **liveness**: recovery runs when a worker boots, and only then.

`PROJECT.json` lists the hazards one by one, at their lines.

## 2. The modules

| Module | What it is |
|---|---|
| `ScanExecutions` | executions, workers, cancel requests, faults; one step is one transaction or the local work between two |
| `ScanQueue` | what the queue promises, without transactions; `ScanExecutions!QueuePromise` says it is implemented |
| `ScheduledScans` | schedules, the polls of several schedulers, racing PATCH and DELETE requests |
| `Inventory` | overlapping executions of one range and what they make of assets, services and history |
| `RangeRegistry` | registrations and imports between their reads and their commits |
| `Scope` | what `scope.py` computes, as operators; the register's instance takes its networks from it |
| `MC...` | instances for TLC |
| `EngineProcess` | one await of one child process: time limit, grace, cancellation, kill |
| `BannerProbes` | the probes of the banner stage, their semaphore and their limits |
| `ServiceHealth` | heartbeat rows, the task that renews them, the container's health check |
| `WorkerProcess` | `run_worker` under a clock; composes the three modules above by INSTANCE |
| `ScanResults` | findings, Zabbix flags and counts of overlapping executions |
| `RunsPage` | the frontend's page of the executions: polls, drawer, cancel button |
| `RiskRules` | what `intelligence/` computes, as operators |
| `RuleChecks` | `Scope` and `RiskRules` over every input of a bounded set |
| `...Proofs` | theorems, each beside the component it is about |

### ScanExecutions

`status`, `cancelRequested`, `engineRun` are columns; `fresh` stands for "the last
heartbeat is younger than the stale timeout", so that time is one step,
`HeartbeatLapses`. `pc`, `job`, `sweep` are where a worker stands in `run_worker`,
`execute_scan` and `recover_stale_executions`, with their locals. `lockedBy` is the
`FOR UPDATE` lock of PostgreSQL; with `LocksRows = FALSE` (SQLite) it is never set.
`saved` says that hosts of the execution were committed. `used` counts faults, whose
`Limit` is a bound of the model.

Kept on purpose, because the code does it:

* `CommitCancel` decides on the status that `ReadForCancel` read;
* `Finalize` and `FailExecution` write by primary key, over any status;
* one turn of the recovery's loop is two steps: `FindRunningEngine` reads the running
  engine without a lock (the lock is on the execution), `RecoverEngine` writes it by
  primary key. In between a live worker whose heartbeats lapsed may commit "completed",
  which is then overwritten with "failed" before the worker completes the scan;
* `RecoverEngine` commits, since `_finish_engine` does: the executions visited before
  it are written and the locks of those still to visit are gone;
* the failure handler is a second session in two commits, and may fail as well
  (`HandlerError`);
* `Signal` at "load" may or may not find a task to cancel; a pending cancellation is
  delivered at an await of an engine and swallowed in the `finally`.

The number of an execution is the order of its `queued_at`, which is set at the flush;
the row appears at the commit, so that `CreateExecution` may show rows in any order and
nothing is said of the order of claims. The engines a profile and a schedule enable are
one choice per scan.

### ScheduledScans

A poll is one transaction: `SelectDue` locks (SKIP LOCKED), `VisitSchedule` is one
turn of its loop, `CommitPoll` inserts and plans. A PATCH is a reading and a commit;
its UPDATE waits for the lock and carries only the differing columns. Cron is a
function from an instant to a later one. PostgreSQL only: `config.py` refuses SQLite
in production. `last_run_at` is left out; nothing reads it but the API.

### Inventory

`_persist_hosts` is `ReadInventory` and `PersistHosts`. The read and the commit are
two steps because that is all other executions can see: rows are locked host by host
in address order, so that there is no deadlock and a conflict shows at the commit.
The banner stage calls it again on the same hosts. What Nmap answers is any subset of
what was probed, since probes are lost and ports change; no "true" state of the
network is needed. An asset is its `last_execution_id`, a service its state and its
`last_execution_id`, an observation its state; names, versions, banners and scores
follow the same path as the state and are left out. An assessment is written with
its observation, always, so one function stands for both.

### RangeRegistry

`CheckRange` and `InsertRange` are the two halves of `create_range`; `InsertRefused`
is the UNIQUE constraint. A preview is one step (its table is read once and its row
inserted once); `ReadBatch` and `CommitImport` are the halves of the confirmation.
Expiry is a step of its own, as no column says it. Items that `validate_scope`
refuses never become valid and are left out of `Files`. Ranges are never deleted, and
the overlap checks do not look at `enabled`.

### Scope

A text is a family, an address and a prefix or none; the widths are small. Blank
texts, texts with spaces and texts that `ip_address` cannot read are left out:
they are refused and nothing else happens.

### WorkerProcess, EngineProcess, BannerProbes, ServiceHealth

`ScanExecutions` says what a worker writes; these say how long it takes. The clock
ticks only when neither the event loop nor the kernel has anything to do (`Quiet`),
which is how asyncio behaves when no callback starves another; a tick is as long as
the instance says. `call` is where `run_process` awaits, `child` the process as the
kernel has it; a cancellation is `cancel` until the next await meets it, inside the
handlers as well (`CancelledInHandler`): there the code catches nothing, so that a
child only asked to end stays. A scan begins in `versions`: two blocking `engine_version` calls that keep the event
loop, so that neither its own heartbeat task nor a cancellation runs before Nmap's await.
It ends, where the schedule says so, in `zabbix`: one call per host in a thread.
`ZabbixCancelled` ends the task and leaves the thread to its calls, and `Leave`, where
`asyncio.run` joins it, waits for the last one. `calls` and `waited` are those of either
stage. The timeout of `urlopen` bounds each wait for the socket; `CallLimit` takes it for
the limit of the whole call, so a server that sends a byte every nine seconds is outside
the model. `unheard` remembers a signal that came when no task was there to cancel. `row` and `touched` are the ages of the two heartbeats; ages are
counted no further than what they are compared with. `RivalWrites` is another process
of the same `INSTANCE_ID`, `LoseWrite` a heartbeat the database refuses: both are
bounded. The scheduler writes its row in the same way; it has no scan to wait for.

The engines of a profile are any of those `Later` lists. How long the container waits
before it kills a process that leaves is the container's setting and not here. What a probe says, and
what Nmap and Nuclei print, is not here.

### ScanResults

It starts where `Inventory` ends, at hosts that are committed. `LookUp` is one
`SELECT` of `_persist_findings`: it sees what others have committed and nothing of its
own, since the sessions do not flush by themselves (`database.py` 34). `repeated` are the
observations of an answer that come twice, which is all that is lost by keeping an
answer as a set; `Clash` is `uq_finding_fingerprint`. A fingerprint is template and
address; port and URL are within the template. `Ask` is one call to Zabbix, which may
change its mind between two. The findings and the end of Nuclei are two commits
(`KeepFindings`, `FinishNuclei`); `Raises` is any fault the handler sees, a failing
database among them, at any place after Nmap's hosts are kept, and `Recovered` a worker
that died there. `error` tells a clash of rows from these. The failure handler is one step here
(`Handled`) and so is the recovery; their commits are `ScanExecutions`' subject, and so is
a recovery under a live worker: here heartbeats arrive. `ScopeOf` may overlap: `DisjointScopes` is
what the register promises and `RangeRegistry` questions.

### RunsPage

The API's rows, the two queries of `ScanRuns` and the requests in flight. A GET is
answered with the rows of the moment the API serves it and delivered at any later
one. `Slots` bounds the polls in flight; `cancel()`'s own two refreshes have places of
their own. React's state is what the last render saw: a POST keeps the path of the
render that was clicked. A running execution whose cancellation was accepted may finish all
the same (`Following`), since the worker looks once, after Nmap. The cancel button is
disabled while `cancel()` waits and while the shown execution has been asked to end.

### RiskRules

A product is a name with the catalogue keys that occur in it (`MentionsOf`), since
substrings are all `resolve` asks of it. An address is public or not. Versions and
the texts of the reasons are left out.

## 3. What is checked

Every run ends within three minutes with two TLC workers; the largest visits about
six million states. `Spec` has no fairness, `FairSpec` has.

| Run | Bounds | What it shows |
|---|---|---|
| `Executions_postgres` | 2 workers, 2 executions, Nmap and Nuclei, cancels, 1 crash, 1 database failure, row locks, heartbeats that arrive | `TypeOK`; a settled scan shows no running engine (`OutcomeHasNoRunningEngine`), a completed one no failed engine (`CompletedHasNoFailedEngine`); an outcome is rewritten only by a late cancel, or over a late cancel (`OutcomeRewrittenOnlyByRace`) |
| `Executions_sqlite` | 2 workers, 2 executions, Nmap and maybe Zabbix, cancels, 1 signal, no row locks | `ExclusiveClaim`, and refinement of `ScanQueue` (`QueuePromise`): the guarded UPDATE alone suffices |
| `Executions_stages` | 1 execution of Nmap alone or with Nuclei and Zabbix after it, 2 workers, one fault of each kind, heartbeats that fail under a live worker, fair | `SingleRunningEngine`, `HostsKeptOnFailure`; the end of an engine is rewritten only by a recovery and a live worker that race (`EngineEndRewrittenOnlyByRace`); a queued execution is settled, or orphaned by a crash or a failing database (`QueuedIsSettled`); a stale orphan is settled when a worker boots (`BootRecoversStale`) |
| `Schedules_races` | 2 schedulers, 2 schedules, 2 PATCH requests, 1 failed poll, 4 instants, fair | `NoOverlap`, `OneRunPerSlot`, `EnqueuedOnlyWhenEnabled`, `DueIsServed` |
| `Inventory_overlap` | 3 executions, 1 host, 2 TCP ports and 1 UDP port that is listed and not probed, one partial profile, one execution with two passes | `HistoryBacksInventory`, `TcpClosedOnlyByLook`, `SeenIsShownUnlessOverlapped` |
| `Rules` | every pair of IPv4 texts over 3 bits; every catalogue name and alias, a dozen products, 4 ports, public or not, up to 2 findings | `NormalIsCanonical`, `OverlapsIsSharing`, `RevalidationAccepts`; `NormalisingIsOnce`, `RiskGrows` |
| `Ranges_races` | 2 requests, 2 imports of up to 2 lines, 3 networks, two of them overlapping | `OverlapsOnlyUnseen`, `DisabledStaysDisabled` |
| `Worker_time` | versions of 1 tick, children of 3 and 1 of grace, 3 services and 1 place, 2 hosts with calls of 2 ticks, heartbeats every tick, 3 lost heartbeats, 1 write of a rival, 2 signals, 1 crash | `ChildKilledWithCall`, `ScanIsBounded`, `StopIsPrompt`, `StaleOnlyAfterThree`, `LiveIsHealthy` |
| `Results_overlap` | 3 executions of which any two run (`TwoOverlap`), two of one range of 2 hosts and one of another without common addresses, 1 template, Zabbix for one of them, faults anywhere | `FoundWhereShown`, `AllOrNothing`, `CountCoversAnswer`, `RefusedForCause`, `SynchronizedWasFound` |
| `Page_polls` | 2 executions, 1 poll in flight besides the refreshes of the button, 2 failing requests, fair | `ListSettles`, `DrawerSettles`, `CancelEnds` |

Two configurations beside the runs hold as well, under `FairSpec`. `Worker_ends.cfg`
(`MCWorkerProcess`): every scan ends and a process told to stop stops (`ScanEnds`,
`StopEnds`), although no child needs to exit and no service, binary or Zabbix server needs
to answer; `ScanIsBounded` and `StopIsPrompt` say by when. `Page_overtaken.cfg`
(`MCRunsPage`): `ListSettles` of one execution with two polls in flight, which overtake
each other; in `Page_polls` it is a poll and a refresh that do.

`StopIsPrompt` is a maximum and not a sum: a told worker waits
for the grace of one child, for the versions, or for the thread's calls. The `TypeOK` of
the worker, of the results and of the page is proved, and in no run; so are
`WorstIsMaximum`, a lemma of `RiskGrows`, and `ButtonTellsTruth`.

Why these bounds: every race in the hazard list is between two actors, or between an
actor and one fault, and the theorems of section 4 cover larger instances. Two executions
are needed for order and for the batch of a recovery; three executions in the
inventory because a partial profile must meet two that overlap; two patches because a
stale one needs another to be stale against. One host is enough in the inventory because
the hosts of a pass do not depend on each other, except for conflicts, which one host can
have; the results have two, since Zabbix's flag is of all the hosts at once and an answer
may clash in one of them only, and two executions at a time, of one range or of two, since
a clash is between two. Two
lines are enough for a file that overlaps itself. Three
bits leave networks that contain, touch and miss each other. Two signals are needed
because the second one meets the handler of the first; three lost heartbeats because
that is where an execution turns stale; two services at one place because then one
waits; two hosts because then one call to Zabbix follows another. Two findings are all
that an order can be wrong about, and the properties step
from them to a third. `Inventory_overlap`, `Results_overlap` and `Rules` end when their
executions and inputs are used up, and there deadlock is not an error. Symmetry is
used for workers, requests and the hosts of one range, and never with liveness.

Fairness. `WorkerStep` is weakly fair: an asyncio loop that always returns to its
poll, engines with a time limit, a container that Docker restarts
(`restart: unless-stopped`); so are a cancel request in flight and the passing of
time. `Poll` is weakly fair for the scheduler's loop. In `WorkerProcess` the event loop,
the restart and the clock are, children, services and calls are not: `Worker_ends` shows that
their limits alone suffice. In `RunsPage` a request is answered or fails in the end, since
the proxy gives the API thirty seconds, and `Poll` is strongly fair: a timer that finds
the bound of the model reached comes again. Operators are never fair, no fault is, and no
fair step needs luck: `DueIsServed` holds with a poll that fails.

### Disagreements between the code and what the repository says

Two are runs whose property must fail; the configurations of the others are kept
beside the runs, and `tlc -config <file> <module>` finds each counterexample (where a file
has two properties, take out one to see the other). In
brackets, the property of a passing run that says exactly how far the code goes.

* `Health_busy` (run, `MCWorkerProcess`): the shipped settings, in seconds. A scan renews
  the worker's row every 75 s, the check tolerates 30 s and gives up after five failures
  10 s apart: the container of a scanning worker is declared unhealthy without any fault.
  `LiveIsHealthy` therefore speaks of workers that poll or leave; of these it holds where
  `HeartbeatsSuffice` does, as it does with the shipped settings (5 + 5 against 30 + 1).
* `Inventory_silent` (run, `MCInventory`): the parser reports only hosts with an open port,
  so a host's last service is never closed.
* `Inventory_udp.cfg`: without raw sockets `nmap.py` leaves UDP ports out of the scan, and
  `_persist_hosts` closes their services: it takes the ports of the profile for those that
  were scanned (`services.py` 198; `test_partial_scan_reconciliation.py` 111)
  [`TcpClosedOnlyByLook`: TCP ports are always probed].
* `Inventory_stale.cfg`: a service found by a scan stays closed, since an overlapping scan
  closed it between reading and writing [`SeenIsShownUnlessOverlapped`].
* `Inventory_conflict.cfg`: two executions insert one asset; the loser is called
  `partially_completed` and has kept nothing.
* `Scope_ipv6.cfg` (`MCRuleChecks`): a single IPv6 address is stored without prefix and
  read again as a `/32` (`scope.py` 36, 55); the worker refuses what the API accepted
  [`RevalidationAccepts` for IPv4].
* `Ranges_overlap.cfg` (`MCRangeRegistry`): two requests check, then both insert
  (`api.py` 213, 384; `README.md` 9): overlapping ranges are registered
  [`OverlapsOnlyUnseen`].
* `Executions_orphan.cfg` (`MCScanExecutions`): the scan's session and the handler's
  both fail; the execution stays `running` while the worker lives, and its schedule
  enqueues nothing more [`QueuedIsSettled`, `BootRecoversStale`].
* With heartbeats that fail under a live worker, a completed scan may show a failed engine
  (`services.py` 887 reads, 894 writes): `CompletedHasNoFailedEngine` is of heartbeats that
  arrive [`EngineEndRewrittenOnlyByRace`].
* `Executions_cancelled.cfg`: a cancel request that read `queued` commits after the
  claim; the row says `cancelled`, then `completed` [`OutcomeRewrittenOnlyByRace`].
* `Executions_latecancel.cfg`: `cancellation_requested` is looked at after Nmap only.
* `Schedules_lostplan.cfg` (`MCScheduledScans`): racing PATCH requests leave a schedule
  enabled without a next run [`DueIsServed` speaks of planned ones].
* `Worker_signals.cfg` (`MCWorkerProcess`), `NoChildOutlives`: a second signal in the grace
  of the first, or a signal in the grace of a timeout, leaves a child that was only asked to
  end [`ChildKilledWithCall`]. `NoScanAfterSignal`: a signal between the worker's look at
  `_shutdown` and the creation of the task cancels nothing; the scan runs to its end
  [`StopIsPrompt`].
* `Results_promises.cfg` (`MCScanResults`), `AnswersAreKept`: an observation Nuclei reports
  twice, or that another execution inserts first, makes the whole answer fail, with an error
  that is no engine's; so does a fault before the commit of the findings [`AllOrNothing`,
  `RefusedForCause`]. `PendingWasMissed`: one host Zabbix does not know makes all of them
  `pending` (`services.py` 642), and the page says "Host correspondente não encontrado no
  Zabbix." of each (`scanner-components.tsx` 410) [`SynchronizedWasFound`].
* `Results_shared.cfg`: where two ranges share an address, a finding stays with the
  asset of the range that saw it first [`FoundWhereShown`].
* `Page_drawer.cfg` (`MCRunsPage`): `usePolling` keeps its data when its path changes, so
  the drawer's × and "Fechar" leave it open, and a late answer shows an execution
  that is no longer selected [`DrawerSettles`].

Two more need no run. The score of a service never sees findings: `_persist_hosts` calls
`evaluate_service_risk` without them (`services.py` 272), and `_persist_findings` does not
rate again. And a product is catalogued by substring (`catalog.py` 61): "wordpress"
contains "rdp".

## 4. What is proved

For all values of the constants, under the assumptions the modules name (bounds are
natural numbers, sentinels are not members and no records, Cron goes forward, overlap is reflexive and
symmetric, the ports of the two protocols are told apart, limits and intervals are not
zero where the code's are not).

| Module | Theorem | Argument |
|---|---|---|
| `ScanExecutionsProofs` | `TypeCorrect` | inductive, a step per action |
| | `ClaimIsExclusive` | `ClaimInvariant`. Exclusiveness is not inductive: a second claim must be excluded because the row has left the queue. So: what a worker holds is neither absent nor queued, and no step queues it again; not the cancel, not the recovery, not the handlers |
| | `EngineRunIsSingle` | `EngineInvariant`. Only the holder starts engines, it does so when none runs, and an execution that was never taken has none |
| | `HostsAreKept` | `HostsInvariant`: between Nmap's answer and its commit there is one step, and only the database can fail in it |
| | `CompletedIsClean` | `CleanInvariant`, where `HeartbeatsMayFail` is false. A failed engine makes the scan partial, ends it, or is the one its worker is about to finish; nobody works on a completed row, and the execution of which a recovery has read an engine is held by nobody. With lapsed heartbeats it is false |
| | `OutcomeIsQuiet`, `OutcomeIsRewrittenByRace` | `OutcomeInvariant`, where `HeartbeatsMayFail` is false: a held row is fresh, so what a recovery selects is held by nobody and never will be; each row has one writer at a time, its worker or the recoveries. With lapsed heartbeats both are false |
| | `QueueIsImplemented` | the refinement: the initial states, then one step of `ScanQueue` or a stutter per action, from `ClaimInvariant` and `ReadInvariant` (a cancel request in flight has read a row, a recovery lists only rows that left the queue) |
| `ScheduledScansProofs` | `TypeCorrect` | with the finiteness of the rows, for `Cardinality` |
| | `SchedulesDoNotOverlap`, `SlotsRunOnce` | `PollInvariant`. What a poll is about to insert belongs to a row it holds locked and has visited; the polls hold disjoint rows, so that what was checked still holds at the commit |
| | `OnlyEnabledAreEnqueued` | a locked row stays present and enabled: PATCH and DELETE wait for it |
| `InventoryProofs` | `TypeCorrect` | |
| | `InventoryIsBacked` | `BackingInvariant`. Observations are never changed, rows never disappear, so what a pass read is still there when it writes only the columns that differ |
| | `TcpIsClosedByLook` | the step that closes is a commit whose profile lists the port (`ClosingStep`), and listed TCP ports are probed, with or without raw sockets; of UDP ports it is false (`Inventory_udp`) |
| | `FoundIsShown` | only another commit between the read and the commit hides what was found |
| `RangeRegistryProofs` | `TypeCorrect` | |
| | `ChecksHold` | `CheckedInvariant`. What a request or an import carries overlaps nothing it has read, and the items of an import do not overlap each other |
| | `DisabledIsKept` | an insertion and an import meet no row with their networks |
| `WorkerProcessProofs` | `TypeCorrect` | the three instances step by step, then the worker's actions |
| | `ChildrenAreKilled` | `ChildInvariant`. A call is left with a live child only through a handler, and a handler is entered by a time limit or by the first cancellation: it takes a limit that passed, or two signals |
| | `StopsPromptly` | `StopInvariant`, over `PlaceInvariant`. A told worker is between two polls; or its cancellation is still due and no time has passed, or only that of the versions (`GettingOut`); or the grace of one child is running and as much of it is left as `Grace - stopAge`; or it waits for the thread, whose calls began before the signal or with it (`CallClock`) |
| | `StaleAfterThree` | `BeatInvariant`: the age of the execution's heartbeat and the time to the next turn add up to at most one interval per turn that was lost, and one; before the first turn, it is the age of the version calls, which `VersionsAreQuick` keeps below the stale timeout |
| | `LiveWorkerIsHealthy` | `RowInvariant`, by place: how old the row of a polling worker may be, and that a leaving one says `stopped`. For settings where `HeartbeatsSuffice`, as the shipped ones do |
| | `ScansAreBounded` | `ClockInvariant`: what each stage has behind it when it is entered. Within the banner stage every full round of the semaphore has started `MaxParallelism` more probes as long as one waits (`BannerClock`, by counting `StartedBy`), so the last one starts before the last round; a call is as old as its child, and the deadline stops both (`EngineClock`); the versions and the calls to Zabbix are counted down (`CallClock`) |
| `ScanResultsProofs` | `TypeCorrect` | |
| | `AnswersAreWhole` | `StageInvariant`, `RowInvariant`, `OwnerInvariant`, `WholeInvariant`: rows never disappear, and only an execution that has kept its whole answer owns any; it is about to finish Nuclei, has finished it, or met a fault between the two commits |
| | `SynchronizedIsFound` | the flags are written by who asked for every host |
| | `ShownUnlessShared`, `CountedUnlessShared`, `RefusedUnlessTold` | for any ranges, with `ScopeInvariant`, of the addresses no two ranges share (`Private`): there one fingerprint is of one range. Refusals by a fault are told apart by `error` |
| | `ShownWhereFound`, `CountsAreWhole`, `RefusalsHaveCause` | from these, where `DisjointScopes` holds, so that every address is one |
| `RuleProofs` | `NormalTextIsCanonical` | powers of two grow (subsets of `1..n`, counted), and an aligned interval tells its first address and its size |
| | `OverlapIsSharing`, `StoredIsAccepted` | of every text but a single IPv6 address: the stored text has the first address, the prefix and so the addresses of the typed one (`StoredIsReadAgain`) |
| | `SingleIPv6IsRefused` | and of that one the contrary: the worker never accepts what was stored (`Scope_ipv6`), since no limit admits a `/32` of IPv6 |
| | `NormalisedOnce` | no alias stands for another alias, for any name at all |
| | `WorstIsFound` | the fold has a solution for every length (`FoldsExist`); after each prefix its value is as bad as all findings before and one of them (`WorstOfAll`). Both by induction on the length |
| | `RiskNeverFalls` | every service gets an entry or none (`ResolveFindsAnEntry`), and every summand grows, the worst finding by `WorstOfAll` |
| `RunsPageProofs` | `TypeCorrect` | with `Selected`: nothing is selected before the list is read |
| | `ButtonIsTrue` | requests to end are never taken back, so that no answer and no drawer is ahead of the rows (`NothingAhead`); the flag is up only while `cancel()` waits (`WaitsWhileBusy`) |

Only model-checked: liveness (`QueuedIsSettled`, `BootRecoversStale`, `DueIsServed`, the
three of `RunsPage`, `ScanEnds` and `StopEnds`), which is out of the prover's reach, as is
ENABLED, and `EngineEndRewrittenOnlyByRace`. Every invariant, every other action property
and the refinement that a passing run checks is also a theorem. Induction is on a set of numbers (`NumbersOf` in `RuleProofs`),
from the well-foundedness of `<`, since the library's induction theorems take an operator.
To that end the tables of `RiskRules` are functions defined by cases. `RangeRegistry`
assumes that overlap is reflexive and symmetric: that is what sharing an address is, and
by `OverlapIsSharing` what the code compares, single IPv6 addresses apart.

## 5. What is not modelled

* The frontend's session: a signed cookie that is read and compared; the proxy's checks
  are failures of a request in `RunsPage`. The other pages are forms over the same hook.
* Import files, XML and JSON parsing, command lines, Zabbix's HTTP: data; the models
  start from any result the parsers can give.
* The GET handlers change nothing. Configuration, API key, schemas, migrations, audit
  rows and metrics decide nothing the properties speak of.
* SQLite's file lock is not modelled: it only removes interleavings.
* A range that is disabled while it is scanned is scanned to the end: nothing in the
  repository says what is wanted.

## 6. Plan

1. Done: executions and queue, schedules, inventory, scope, register; the worker under a
   clock with its children, probes and heartbeats; findings, Zabbix and counts; the
   rules of `intelligence/`; the page of the executions.
2. Composition: schedules over the real executions (an orphan blocks its schedule).
3. Proofs: an abstract specification of the schedules (a slot is run once, and not while
   a run of its schedule is live) that `ScheduledScans` implements, as `ScanQueue` is one
   of the executions; `OutcomeIsQuiet` and `OutcomeIsRewrittenByRace` and `CompletedIsClean` of
   the executions whose heartbeats did not lapse, rather than where none does;
   `EngineEndRewrittenOnlyByRace`, which needs no hypothesis on heartbeats.
