------------------------------ MODULE Inventory ------------------------------
(***************************************************************************)
(* The inventory of one range: what the executions of the range, which may *)
(* run at the same time, make of the assets, the services and their        *)
(* history.  _persist_hosts reads the inventory, computes, and commits;    *)
(* its UPDATEs carry only the columns that differ from what it read, and   *)
(* its INSERTs meet unique constraints.                                    *)
(***************************************************************************)
EXTENDS Naturals, FiniteSets

CONSTANTS
    Hosts,              \* the addresses of the range
    TcpKeys, UdpKeys,   \* the (protocol, port) pairs of the two protocols
    Executions,         \* the executions of the range
    NoExecution,        \* "no row": last_execution_id of a host without an asset
    Selected,           \* the ports an execution's profile lists
    Raw,                \* the executions whose worker may open raw sockets
    Detecting           \* the executions whose profile detects services (second pass)

Keys == TcpKeys \union UdpKeys

ASSUME KeysAssumption == TcpKeys \intersect UdpKeys = {}
ASSUME ExecutionsAssumption == NoExecution \notin Executions
ASSUME ProfilesAssumption ==
    Selected \in [Executions -> SUBSET Keys] /\ Raw \subseteq Executions /\ Detecting \subseteq Executions

VARIABLES
    assets,             \* discovered_assets: last_execution_id of a host's row
    services,           \* discovered_services
    observations,       \* service_observations, and the risk assessments beside them
    pc,                 \* where the execution stands
    pass,               \* which _persist_hosts comes next
    seen,               \* the hosts in the execution's memory
    snapshot            \* what _persist_hosts has read

tables == <<assets, services, observations>>
vars == <<tables, pc, pass, seen, snapshot>>

Unseen == "none"
Answers == {"open", "open|filtered"}
States == {"absent", "closed"} \union Answers

Services == [state : States, last : Executions \union {NoExecution}]
NoService == [state |-> "absent", last |-> NoExecution]
Inventories == [assets : [Hosts -> Executions \union {NoExecution}],
                services : [Hosts -> [Keys -> Services]]]
EmptyInventory == [assets |-> [h \in Hosts |-> NoExecution],
                   services |-> [h \in Hosts |-> [k \in Keys |-> NoService]]]
Sightings == [Hosts -> [Keys -> {Unseen} \union Answers]]
NothingSeen == [h \in Hosts |-> [k \in Keys |-> Unseen]]

TypeOK ==
    /\ assets \in [Hosts -> Executions \union {NoExecution}]
    /\ services \in [Hosts -> [Keys -> Services]]
    /\ observations \in [Executions -> Sightings]
    /\ pc \in [Executions -> {"waiting", "read", "write", "ended",
                              "partially_completed"}]
    /\ pass \in [Executions -> {"nmap", "banner_tls"}]
    /\ seen \in [Executions -> Sightings]
    /\ snapshot \in [Executions -> Inventories]

Init ==
    /\ assets = EmptyInventory.assets
    /\ services = EmptyInventory.services
    /\ observations = [e \in Executions |-> NothingSeen]
    /\ pc = [e \in Executions |-> "waiting"]
    /\ pass = [e \in Executions |-> "nmap"]
    /\ seen = [e \in Executions |-> NothingSeen]
    /\ snapshot = [e \in Executions |-> EmptyInventory]

----------------------------------------------------------------------------
(* Nmap.                                                                   *)

\* build_nmap_command: without raw sockets UDP is left out of the scan.
Probed(e) == IF e \in Raw THEN Selected[e] ELSE Selected[e] \intersect TcpKeys

\* --open: TCP ports answer "open", UDP ports may be "open|filtered".
MayAnswer(e, k) ==
    IF k \notin Probed(e) THEN {Unseen}
    ELSE IF k \in TcpKeys THEN {Unseen, "open"} ELSE {Unseen} \union Answers

\* Nmap ends; probes may be lost, ports may open and close between two scans.
NmapReturns(e) ==
    /\ pc[e] = "waiting"
    /\ Probed(e) # {}
    /\ \E answer \in {a \in Sightings : \A h \in Hosts, k \in Keys : a[h][k] \in MayAnswer(e, k)} :
        seen' = [seen EXCEPT ![e] = answer]
    /\ pc' = [pc EXCEPT ![e] = "read"]
    /\ UNCHANGED <<tables, pass, snapshot>>

\* parse_nmap_xml keeps only hosts with a service.
Reported(e) == {h \in Hosts : \E k \in Keys : seen[e][h][k] # Unseen}

----------------------------------------------------------------------------
(* _persist_hosts, after Nmap and again after the banners.                 *)

ReadInventory(e) ==
    /\ pc[e] = "read"
    /\ snapshot' = [snapshot EXCEPT ![e] = [assets |-> assets, services |-> services]]
    /\ pc' = [pc EXCEPT ![e] = "write"]
    /\ UNCHANGED <<tables, pass, seen>>

\* A row the execution did not read and has to insert is there by now.
Conflicts(e) ==
    \E h \in Reported(e) :
        \/ snapshot[e].assets[h] = NoExecution /\ assets[h] # NoExecution
        \/ \E k \in Keys :
            /\ seen[e][h][k] # Unseen
            /\ snapshot[e].services[h][k].state = "absent"
            /\ services[h][k].state # "absent"

\* Variant: the scan's ports are not looked at.
AnyPort(e, k) == TRUE

\* _parse_scanned_ports: every port of the profile.
ScannedPort(e, k) == k \in Selected[e]

\* A column is written if its new value differs from the one that was read.
Column(old, new, current) == IF new # old THEN new ELSE current

\* Variant: a closed service that is seen again stays closed.
NeverReopened(e, h, k) ==
    LET old == snapshot[e].services[h][k].state IN
    IF old # "closed" /\ seen[e][h][k] # Unseen THEN seen[e][h][k]
    ELSE IF old = "open" /\ ScannedPort(e, k) THEN "closed" ELSE old

\* The state _persist_hosts wants for a service of a reported host.
WantedState(e, h, k) ==
    LET old == snapshot[e].services[h][k].state IN
    IF seen[e][h][k] # Unseen THEN seen[e][h][k]
    ELSE IF old = "open" /\ ScannedPort(e, k) THEN "closed" ELSE old

\* Variant: closing a service counts as a sighting of it.
LastOfAllTouched(e, h, k) ==
    IF WantedState(e, h, k) # snapshot[e].services[h][k].state THEN e
    ELSE snapshot[e].services[h][k].last

WantedLast(e, h, k) ==
    IF seen[e][h][k] # Unseen THEN e ELSE snapshot[e].services[h][k].last

Reconciled(e, h) ==
    [k \in Keys |->
        [state |-> Column(snapshot[e].services[h][k].state, WantedState(e, h, k),
                          services[h][k].state),
         last |-> Column(snapshot[e].services[h][k].last, WantedLast(e, h, k),
                         services[h][k].last)]]

\* The observations of a host, one per service and execution.
Observed(e, h) ==
    [k \in Keys |-> IF seen[e][h][k] # Unseen THEN seen[e][h][k] ELSE observations[e][h][k]]

\* After Nmap's pass comes the one of the banners, unless a cancellation was asked for.
TwoPasses(e) == e \in Detecting

\* The locals of the pass are gone.
EndPass(e) ==
    /\ snapshot' = [snapshot EXCEPT ![e] = EmptyInventory]
    /\ \/ /\ pass[e] = "nmap" /\ TwoPasses(e)
          /\ pass' = [pass EXCEPT ![e] = "banner_tls"]
          /\ pc' = [pc EXCEPT ![e] = "read"]
       \/ /\ pc' = [pc EXCEPT ![e] = "ended"]
          /\ UNCHANGED pass

PersistHosts(e) ==
    /\ pc[e] = "write"
    /\ ~Conflicts(e)
    /\ assets' = [h \in Hosts |->
            IF h \in Reported(e) THEN Column(snapshot[e].assets[h], e, assets[h]) ELSE assets[h]]
    /\ services' = [h \in Hosts |->
            IF h \in Reported(e) THEN Reconciled(e, h) ELSE services[h]]
    /\ observations' = [observations EXCEPT ![e] = [h \in Hosts |-> Observed(e, h)]]
    /\ EndPass(e)
    /\ UNCHANGED seen

\* IntegrityError: the pass is rolled back and the handler of execute_scan calls the
\* execution partially completed, since there are hosts in memory.
PersistFails(e) ==
    /\ pc[e] = "write"
    /\ Conflicts(e)
    /\ pc' = [pc EXCEPT ![e] = "partially_completed"]
    /\ snapshot' = [snapshot EXCEPT ![e] = EmptyInventory]
    /\ UNCHANGED <<tables, pass, seen>>

Next ==
    \E e \in Executions :
        NmapReturns(e) \/ ReadInventory(e) \/ PersistHosts(e) \/ PersistFails(e)

Spec == Init /\ [][Next]_vars

----------------------------------------------------------------------------
(* Properties.                                                             *)

\* What the API shows of a service is backed by the history it shows beside it: the
\* execution that saw it last has an observation of it (and a risk assessment, which
\* the API looks up by that execution), some observation says the state it is shown
\* in, and an asset was reported by its last execution.  Overlapping executions and
\* second passes included.
HistoryBacksInventory ==
    /\ \A h \in Hosts, k \in Keys :
        LET s == services[h][k] IN
        /\ s.state # "absent" => s.last \in Executions /\ observations[s.last][h][k] # Unseen
        /\ s.state \in Answers => \E e \in Executions : observations[e][h][k] = s.state
    /\ \A h \in Hosts : assets[h] # NoExecution =>
        \E k \in Keys : observations[assets[h]][h][k] # Unseen

\* Why: observations are never taken back or changed; rows never disappear, so that
\* what a pass has read is still there when it writes; and only rows that are there
\* have a last execution.
Recorded(e) ==
    /\ pc[e] = "waiting" => observations[e] = NothingSeen
    /\ \A h \in Hosts, k \in Keys :
        observations[e][h][k] # Unseen => observations[e][h][k] = seen[e][h][k]
BackingInvariant ==
    /\ \A e \in Executions : Recorded(e)
    /\ \A h \in Hosts, k \in Keys :
        services[h][k].state = "absent" => services[h][k].last = NoExecution
    /\ \A e \in Executions, h \in Hosts, k \in Keys :
        LET old == snapshot[e].services[h][k] IN
        /\ old.state = "absent" => old.last = NoExecution
        /\ old.state # "absent" => services[h][k].state # "absent"
    /\ HistoryBacksInventory

\* The step is the commit of a pass of execution e.
Persisted(e) == pc[e] = "write" /\ pc'[e] \in {"read", "ended"}

\* What this step closes is closed by a scan that probed its port, found its host and did
\* not find the service.
ClosesByLook(keys) ==
    \A h \in Hosts, k \in keys :
        services[h][k].state # "closed" /\ services'[h][k].state = "closed" =>
            \E e \in Executions :
                Persisted(e) /\ h \in Reported(e) /\ k \in Probed(e) /\ seen[e][h][k] = Unseen

\* With or without raw sockets, and whatever ports overlapping scans list, a TCP service is
\* closed only by a look at it.
TcpClosedOnlyByLook == [][ClosesByLook(TcpKeys)]_vars

\* A service of either protocol is closed only by a look at it.
ClosedOnlyByLook == [][ClosesByLook(Keys)]_vars

\* A service a scan has probed and not found is not open once its results are in.
CompleteScanCloses ==
    [][\A e \in Executions : Persisted(e) =>
        \A h \in Hosts : \A k \in Probed(e) :
            seen[e][h][k] = Unseen => services'[h][k].state # "open"]_vars

\* A service a scan has found is shown as found once its results are in, unless another
\* execution has changed it since the pass read it.
SeenIsShownUnlessOverlapped ==
    [][\A e \in Executions : Persisted(e) =>
        \A h \in Hosts, k \in Keys :
            /\ seen[e][h][k] # Unseen
            /\ services[h][k] = snapshot[e].services[h][k]
            => services'[h][k].state = seen[e][h][k]]_vars

\* A service a scan has found is shown as found once its results are in.
SeenIsShown ==
    [][\A e \in Executions : Persisted(e) =>
        \A h \in Hosts, k \in Keys :
            seen[e][h][k] # Unseen => services'[h][k].state = seen[e][h][k]]_vars

\* A partially completed scan has kept the services it found.
PartialKeepsResults ==
    \A e \in Executions : pc[e] = "partially_completed" =>
        \A h \in Hosts, k \in Keys :
            seen[e][h][k] # Unseen => observations[e][h][k] = seen[e][h][k]
=============================================================================
