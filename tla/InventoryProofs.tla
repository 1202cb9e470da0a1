--------------------------- MODULE InventoryProofs ---------------------------
(***************************************************************************)
(* For every set of hosts, ports and executions, whatever the profiles and *)
(* however the executions overlap: the inventory keeps its types, is       *)
(* backed by its history, and closes only what was looked at.              *)
(***************************************************************************)
EXTENDS Inventory, TLAPS

----------------------------------------------------------------------------
(* Every variable keeps its type.                                          *)

\* The empty inventory is one.
LEMMA EmptyType == EmptyInventory \in Inventories
BY DEF EmptyInventory, Inventories, NoService, Services, States

\* What a pass makes of the services of a host.
LEMMA ReconciledType ==
    ASSUME TypeOK, NEW e \in Executions, NEW h \in Hosts
    PROVE  Reconciled(e, h) \in [Keys -> Services]
<1>1. ASSUME NEW k \in Keys
      PROVE  /\ snapshot[e].services[h][k] \in Services
             /\ services[h][k] \in Services
             /\ seen[e][h][k] \in {Unseen} \union Answers
    BY DEF TypeOK, Inventories, Sightings
<1>2. ASSUME NEW k \in Keys
      PROVE  /\ WantedState(e, h, k) \in States
             /\ WantedLast(e, h, k) \in Executions \union {NoExecution}
    BY <1>1, <1>2 DEF WantedState, WantedLast, Services, States, Answers, Unseen
<1> QED
    BY <1>1, <1>2 DEF Reconciled, Column, Services

\* What a pass records of a host.
LEMMA ObservedType ==
    ASSUME TypeOK, NEW e \in Executions, NEW h \in Hosts
    PROVE  Observed(e, h) \in [Keys -> {Unseen} \union Answers]
BY DEF TypeOK, Sightings, Observed

\* TypeOK is inductive, one step per action.
LEMMA TypeStep == TypeOK /\ [Next]_vars => TypeOK'
<1> SUFFICES ASSUME TypeOK, [Next]_vars PROVE TypeOK'
    OBVIOUS
<1>1. ASSUME NEW e \in Executions, NmapReturns(e) PROVE TypeOK'
    BY <1>1 DEF TypeOK, NmapReturns, tables
<1>2. ASSUME NEW e \in Executions, ReadInventory(e) PROVE TypeOK'
  <2>1. [assets |-> assets, services |-> services] \in Inventories
    BY DEF TypeOK, Inventories
  <2> QED
    BY <1>2, <2>1 DEF TypeOK, ReadInventory, tables
<1>3. ASSUME NEW e \in Executions, PersistHosts(e) PROVE TypeOK'
  <2>1. assets' \in [Hosts -> Executions \union {NoExecution}]
    BY <1>3 DEF TypeOK, PersistHosts, Column
  <2>2. services' \in [Hosts -> [Keys -> Services]]
    BY <1>3, ReconciledType DEF TypeOK, PersistHosts
  <2>3. observations' \in [Executions -> Sightings]
    <3>1. [h \in Hosts |-> Observed(e, h)] \in Sightings
        BY ObservedType DEF Sightings
    <3> QED
        BY <1>3, <3>1 DEF TypeOK, PersistHosts
  <2>4. /\ pc' \in [Executions -> {"waiting", "read", "write", "ended", "partially_completed"}]
        /\ pass' \in [Executions -> {"nmap", "banner_tls"}]
        /\ snapshot' \in [Executions -> Inventories]
    BY <1>3, EmptyType DEF TypeOK, PersistHosts, EndPass
  <2> QED
    BY <1>3, <2>1, <2>2, <2>3, <2>4 DEF TypeOK, PersistHosts
<1>4. ASSUME NEW e \in Executions, PersistFails(e) PROVE TypeOK'
    BY <1>4, EmptyType DEF TypeOK, PersistFails, tables
<1>5. ASSUME UNCHANGED vars PROVE TypeOK'
    BY <1>5 DEF TypeOK, vars, tables
<1> QED
    BY <1>1, <1>2, <1>3, <1>4, <1>5 DEF Next

\* Spec keeps the types of every variable.
THEOREM TypeCorrect == Spec => []TypeOK
<1>1. Init => TypeOK
    BY EmptyType DEF Init, TypeOK, Inventories, Sightings, NothingSeen
<1> QED
    BY <1>1, TypeStep, PTL DEF Spec

----------------------------------------------------------------------------
(* The inventory is backed by its history.                                 *)

\* A commit takes back no observation, and records all the pass has in memory.
LEMMA ObservationsGrow ==
    ASSUME TypeOK, BackingInvariant, NEW e \in Executions, PersistHosts(e)
    PROVE  \A h \in Hosts, k \in Keys :
             /\ seen[e][h][k] # Unseen => observations'[e][h][k] = seen[e][h][k]
             /\ observations'[e][h][k] # Unseen => observations'[e][h][k] = seen[e][h][k]
             /\ \A d \in Executions : observations[d][h][k] # Unseen =>
                    observations'[d][h][k] = observations[d][h][k]
<1> SUFFICES ASSUME NEW h \in Hosts, NEW k \in Keys
             PROVE  /\ seen[e][h][k] # Unseen => observations'[e][h][k] = seen[e][h][k]
                    /\ observations'[e][h][k] # Unseen =>
                           observations'[e][h][k] = seen[e][h][k]
                    /\ \A d \in Executions : observations[d][h][k] # Unseen =>
                           observations'[d][h][k] = observations[d][h][k]
    OBVIOUS
<1>1. observations[e][h][k] # Unseen => observations[e][h][k] = seen[e][h][k]
    BY DEF BackingInvariant, Recorded
<1>2. observations'[e][h][k] =
        IF seen[e][h][k] # Unseen THEN seen[e][h][k] ELSE observations[e][h][k]
    BY DEF TypeOK, Sightings, PersistHosts, Observed
<1>3. \A d \in Executions : d # e => observations'[d] = observations[d]
    BY DEF TypeOK, PersistHosts
<1> QED
    BY <1>1, <1>2, <1>3

\* What a pass makes of a service of a reported host: the row does not disappear, its
\* state is the one it had, the one seen, or closed, and its last execution is the one
\* it had or the one of the pass, which then has seen it.
LEMMA ReconciledBacked ==
    ASSUME TypeOK, BackingInvariant, NEW e \in Executions, NEW h \in Hosts, NEW k \in Keys
    PROVE  LET new == Reconciled(e, h)[k] IN
           /\ services[h][k].state # "absent" => new.state # "absent"
           /\ new.state = "absent" => new.last = NoExecution
           /\ new.state \in {services[h][k].state, seen[e][h][k], "closed"}
           /\ new.state \in Answers =>
                 new.state \in {services[h][k].state, seen[e][h][k]}
           /\ new.state # "absent" =>
                 \/ services[h][k].state # "absent" /\ new.last = services[h][k].last
                 \/ new.last = e /\ seen[e][h][k] # Unseen
<1> DEFINE old == snapshot[e].services[h][k]
           now == services[h][k]
           new == Reconciled(e, h)[k]
           wanted == WantedState(e, h, k)
           wantedLast == WantedLast(e, h, k)
<1>1. /\ old \in Services /\ now \in Services
      /\ seen[e][h][k] \in {Unseen} \union Answers
    BY DEF TypeOK, Inventories, Sightings
<1>2. /\ new.state = IF wanted # old.state THEN wanted ELSE now.state
      /\ new.last = IF wantedLast # old.last THEN wantedLast ELSE now.last
    BY DEF Reconciled, Column
<1>3. wanted = IF seen[e][h][k] # Unseen THEN seen[e][h][k]
               ELSE IF old.state = "open" /\ ScannedPort(e, k) THEN "closed" ELSE old.state
    BY DEF WantedState
<1>4. wantedLast = IF seen[e][h][k] # Unseen THEN e ELSE old.last
    BY DEF WantedLast
<1>5. /\ now.state = "absent" => now.last = NoExecution
      /\ old.state = "absent" => old.last = NoExecution
      /\ old.state # "absent" => now.state # "absent"
    BY DEF BackingInvariant
<1>6. e # NoExecution
    BY ExecutionsAssumption
<1> HIDE DEF old, now, new, wanted, wantedLast
<1>7. /\ now.state # "absent" => new.state # "absent"
      /\ new.state = "absent" => new.last = NoExecution
      /\ new.state \in {now.state, seen[e][h][k], "closed"}
      /\ new.state \in Answers => new.state \in {now.state, seen[e][h][k]}
    BY <1>1, <1>2, <1>3, <1>4, <1>5 DEF Services, States, Answers, Unseen
<1>8. new.state # "absent" =>
        \/ now.state # "absent" /\ new.last = now.last
        \/ new.last = e /\ seen[e][h][k] # Unseen
    BY <1>1, <1>2, <1>3, <1>4, <1>5, <1>6 DEF Services, States, Answers, Unseen
<1> QED
    BY <1>7, <1>8 DEF new, now

\* A step that leaves the tables alone and keeps what is recorded and what is read.
LEMMA BackingStill ==
    ASSUME BackingInvariant, UNCHANGED tables,
           \A e \in Executions : Recorded(e)',
           \A e \in Executions : snapshot'[e] \in
               {snapshot[e], EmptyInventory, [assets |-> assets, services |-> services]}
    PROVE  BackingInvariant'
<1>1. ASSUME NEW e \in Executions, NEW h \in Hosts, NEW k \in Keys
      PROVE  LET old == snapshot'[e].services[h][k] IN
             /\ old.state = "absent" => old.last = NoExecution
             /\ old.state # "absent" => services[h][k].state # "absent"
  <2>1. CASE snapshot'[e] = snapshot[e]
    BY <2>1 DEF BackingInvariant
  <2>2. CASE snapshot'[e] = EmptyInventory
    BY <2>2 DEF EmptyInventory, NoService
  <2>3. CASE snapshot'[e] = [assets |-> assets, services |-> services]
    BY <2>3 DEF BackingInvariant
  <2> QED
    BY <2>1, <2>2, <2>3
<1>2. HistoryBacksInventory'
    BY DEF BackingInvariant, HistoryBacksInventory, tables
<1> QED
    BY <1>1, <1>2 DEF BackingInvariant, tables

\* BackingInvariant is inductive, one step per action.
LEMMA BackingStep == TypeOK /\ BackingInvariant /\ [Next]_vars => BackingInvariant'
<1> SUFFICES ASSUME TypeOK, BackingInvariant, [Next]_vars PROVE BackingInvariant'
    OBVIOUS
<1>1. ASSUME NEW e \in Executions, NmapReturns(e) PROVE BackingInvariant'
  <2>1. ASSUME NEW d \in Executions PROVE Recorded(d)'
    <3>1. CASE d = e
        BY <1>1, <3>1 DEF TypeOK, BackingInvariant, Recorded, NmapReturns, NothingSeen, tables
    <3>2. CASE d # e
        BY <1>1, <3>2 DEF TypeOK, BackingInvariant, Recorded, NmapReturns, tables
    <3> QED
        BY <3>1, <3>2
  <2> QED
    BY <1>1, <2>1, BackingStill DEF NmapReturns
<1>2. ASSUME NEW e \in Executions, ReadInventory(e) PROVE BackingInvariant'
  <2>1. \A d \in Executions : Recorded(d)'
    BY <1>2 DEF TypeOK, BackingInvariant, Recorded, ReadInventory, tables
  <2>2. \A d \in Executions : snapshot'[d] \in
            {snapshot[d], EmptyInventory, [assets |-> assets, services |-> services]}
    BY <1>2 DEF TypeOK, ReadInventory
  <2> QED
    BY <1>2, <2>1, <2>2, BackingStill DEF ReadInventory
<1>3. ASSUME NEW e \in Executions, PersistFails(e) PROVE BackingInvariant'
  <2>1. \A d \in Executions : Recorded(d)'
    BY <1>3 DEF TypeOK, BackingInvariant, Recorded, PersistFails, tables
  <2>2. \A d \in Executions : snapshot'[d] \in
            {snapshot[d], EmptyInventory, [assets |-> assets, services |-> services]}
    BY <1>3 DEF TypeOK, PersistFails
  <2> QED
    BY <1>3, <2>1, <2>2, BackingStill DEF PersistFails
<1>4. ASSUME NEW e \in Executions, PersistHosts(e) PROVE BackingInvariant'
  <2>1. ASSUME NEW d \in Executions PROVE Recorded(d)'
    <3>1. seen' = seen /\ (pc'[d] = "waiting" => pc[d] = "waiting" /\ d # e)
        BY <1>4 DEF TypeOK, PersistHosts, EndPass
    <3>2. CASE d = e
        BY <1>4, <3>1, <3>2, ObservationsGrow DEF Recorded
    <3>3. CASE d # e
        BY <1>4, <3>1, <3>3 DEF TypeOK, BackingInvariant, Recorded, PersistHosts
    <3> QED
        BY <3>2, <3>3
  <2>2. ASSUME NEW h \in Hosts, NEW k \in Keys
        PROVE  services'[h][k] \in {services[h][k], Reconciled(e, h)[k]}
    BY <1>4 DEF PersistHosts
  <2>3. ASSUME NEW h \in Hosts, NEW k \in Keys
        PROVE  /\ services'[h][k].state = "absent" => services'[h][k].last = NoExecution
               /\ services[h][k].state # "absent" => services'[h][k].state # "absent"
    BY <2>2, <2>3, ReconciledBacked DEF BackingInvariant
  <2>4. ASSUME NEW d \in Executions, NEW h \in Hosts, NEW k \in Keys
        PROVE  LET old == snapshot'[d].services[h][k] IN
               /\ old.state = "absent" => old.last = NoExecution
               /\ old.state # "absent" => services'[h][k].state # "absent"
    <3>1. snapshot'[d] \in {snapshot[d], EmptyInventory}
        BY <1>4 DEF TypeOK, PersistHosts, EndPass
    <3>2. CASE snapshot'[d] = snapshot[d]
        BY <2>3, <3>2 DEF BackingInvariant
    <3>3. CASE snapshot'[d] = EmptyInventory
        BY <3>3 DEF EmptyInventory, NoService
    <3> QED
        BY <3>1, <3>2, <3>3
  <2>5. ASSUME NEW h \in Hosts, NEW k \in Keys, services'[h][k].state # "absent"
        PROVE  /\ services'[h][k].last \in Executions
               /\ observations'[services'[h][k].last][h][k] # Unseen
    <3>1. CASE /\ services[h][k].state # "absent"
               /\ services'[h][k].last = services[h][k].last
      <4>1. /\ services[h][k].last \in Executions
            /\ observations[services[h][k].last][h][k] # Unseen
        BY <3>1 DEF BackingInvariant, HistoryBacksInventory
      <4> QED
        BY <1>4, <3>1, <4>1, ObservationsGrow
    <3>2. CASE services'[h][k].last = e /\ seen[e][h][k] # Unseen
        BY <1>4, <3>2, ObservationsGrow
    <3> QED
        BY <2>2, <2>5, <3>1, <3>2, ReconciledBacked
  <2>6. ASSUME NEW h \in Hosts, NEW k \in Keys, services'[h][k].state \in Answers
        PROVE  \E d \in Executions : observations'[d][h][k] = services'[h][k].state
    <3>1. CASE services'[h][k].state = services[h][k].state
      <4>1. PICK d \in Executions : observations[d][h][k] = services[h][k].state
        BY <2>6, <3>1 DEF BackingInvariant, HistoryBacksInventory
      <4>2. observations[d][h][k] # Unseen
        BY <2>6, <3>1, <4>1 DEF Answers, Unseen
      <4> QED
        BY <1>4, <3>1, <4>1, <4>2, ObservationsGrow
    <3>2. CASE services'[h][k].state = seen[e][h][k]
      <4>1. seen[e][h][k] # Unseen
        BY <2>6, <3>2 DEF Answers, Unseen
      <4> QED
        BY <1>4, <3>2, <4>1, ObservationsGrow
    <3> QED
        BY <2>2, <2>6, <3>1, <3>2, ReconciledBacked
  <2>7. ASSUME NEW h \in Hosts, assets'[h] # NoExecution
        PROVE  \E k \in Keys : observations'[assets'[h]][h][k] # Unseen
    <3>1. CASE assets'[h] = assets[h]
      <4>1. assets[h] \in Executions
        BY <2>7, <3>1 DEF TypeOK
      <4>2. PICK k \in Keys : observations[assets[h]][h][k] # Unseen
        BY <2>7, <3>1 DEF BackingInvariant, HistoryBacksInventory
      <4> QED
        BY <1>4, <3>1, <4>1, <4>2, ObservationsGrow
    <3>2. CASE h \in Reported(e) /\ assets'[h] = e
      <4>1. PICK k \in Keys : seen[e][h][k] # Unseen
        BY <3>2 DEF Reported
      <4> QED
        BY <1>4, <3>2, <4>1, ObservationsGrow
    <3> QED
        BY <1>4, <3>1, <3>2 DEF PersistHosts, Column
  <2>8. HistoryBacksInventory'
    BY <2>5, <2>6, <2>7 DEF HistoryBacksInventory
  <2> QED
    BY <2>1, <2>3, <2>4, <2>8 DEF BackingInvariant
<1>5. ASSUME UNCHANGED vars PROVE BackingInvariant'
    BY <1>5 DEF BackingInvariant, Recorded, HistoryBacksInventory, vars, tables
<1> QED
    BY <1>1, <1>2, <1>3, <1>4, <1>5 DEF Next

\* HistoryBacksInventory, for any number of overlapping executions: what is shown of a
\* service is backed by the observations shown beside it.
THEOREM InventoryIsBacked == Spec => []HistoryBacksInventory
<1>1. Init => BackingInvariant
    BY DEF Init, BackingInvariant, Recorded, HistoryBacksInventory, EmptyInventory,
           NoService, NothingSeen, Answers
<1>2. BackingInvariant => HistoryBacksInventory
    BY DEF BackingInvariant
<1> QED
    BY <1>1, <1>2, TypeCorrect, BackingStep, PTL DEF Spec

----------------------------------------------------------------------------
(* A service is closed only where the scan has looked.                     *)

\* The step h, k is closed in is the commit of a pass that reported h, without k.
ClosedBy(e, h, k) == Persisted(e) /\ h \in Reported(e) /\ seen[e][h][k] = Unseen

\* Whatever the overlaps, the profile of that pass lists the port.
LEMMA ClosingStep ==
    ASSUME TypeOK, [Next]_vars, NEW h \in Hosts, NEW k \in Keys,
           services[h][k].state # "closed", services'[h][k].state = "closed"
    PROVE  \E e \in Executions : ClosedBy(e, h, k) /\ k \in Selected[e]
<1>1. services' # services
    OBVIOUS
<1>2. PICK e \in Executions : PersistHosts(e)
    BY <1>1 DEF Next, NmapReturns, ReadInventory, PersistFails, tables, vars
<1>3. h \in Reported(e) /\ services'[h][k] = Reconciled(e, h)[k]
    BY <1>2 DEF PersistHosts
<1>4. WantedState(e, h, k) = "closed" /\ snapshot[e].services[h][k].state # "closed"
    BY <1>3 DEF Reconciled, Column
<1>5. seen[e][h][k] \in {Unseen} \union Answers
    BY DEF TypeOK, Sightings
<1>6. seen[e][h][k] = Unseen /\ k \in Selected[e]
    BY <1>4, <1>5 DEF WantedState, ScannedPort, Answers
<1>7. Persisted(e)
    BY <1>2 DEF TypeOK, PersistHosts, EndPass, Persisted
<1> QED
    BY <1>3, <1>6, <1>7 DEF ClosedBy

\* With or without raw sockets, for any profiles: a TCP service is closed only by a scan that
\* probed its port, found its host and did not find the service.
THEOREM TcpIsClosedByLook == Spec => TcpClosedOnlyByLook
<1>1. TypeOK /\ [Next]_vars => [ClosesByLook(TcpKeys)]_vars
    BY ClosingStep DEF ClosedBy, Probed, Keys, ClosesByLook
<1> QED
    BY <1>1, TypeCorrect, PTL DEF Spec, TcpClosedOnlyByLook

\* SeenIsShownUnlessOverlapped, for any overlapping executions: only the commit of
\* another execution between its read and its commit can hide what a scan has found.
THEOREM FoundIsShown == Spec => SeenIsShownUnlessOverlapped
<1> DEFINE Shown == \A e \in Executions : Persisted(e) =>
        \A h \in Hosts, k \in Keys :
            /\ seen[e][h][k] # Unseen
            /\ services[h][k] = snapshot[e].services[h][k]
            => services'[h][k].state = seen[e][h][k]
<1>1. TypeOK /\ [Next]_vars => [Shown]_vars
  <2> SUFFICES ASSUME TypeOK, Next,
                      NEW e \in Executions, Persisted(e),
                      NEW h \in Hosts, NEW k \in Keys,
                      seen[e][h][k] # Unseen,
                      services[h][k] = snapshot[e].services[h][k]
               PROVE  services'[h][k].state = seen[e][h][k]
    OBVIOUS
  <2>1. PICK d \in Executions :
            NmapReturns(d) \/ ReadInventory(d) \/ PersistHosts(d) \/ PersistFails(d)
    BY DEF Next
  <2>2. d = e
    BY <2>1 DEF TypeOK, Persisted, NmapReturns, ReadInventory, PersistHosts, PersistFails, EndPass
  <2>3. PersistHosts(e)
    BY <2>1, <2>2 DEF TypeOK, Persisted, NmapReturns, ReadInventory, PersistFails
  <2>4. h \in Reported(e)
    BY DEF Reported
  <2>5. services'[h][k] = Reconciled(e, h)[k]
    BY <2>3, <2>4 DEF PersistHosts
  <2>6. WantedState(e, h, k) = seen[e][h][k]
    BY DEF WantedState
  <2> QED
    BY <2>5, <2>6 DEF Reconciled, Column
<1>2. [][Shown]_vars => SeenIsShownUnlessOverlapped
    BY DEF SeenIsShownUnlessOverlapped
<1> QED
    BY <1>1, <1>2, TypeCorrect, PTL DEF Spec
=============================================================================
