----------------------------- MODULE ScanResults -----------------------------
(***************************************************************************)
(* What execute_scan does with its results once Nmap's hosts are in the    *)
(* inventory: Nuclei's findings (_persist_findings), the reconciliation    *)
(* with Zabbix and the counts.  Executions run at the same time, of one    *)
(* range or of several; findings are told apart by a fingerprint that does *)
(* not name the range.  Nuclei, Zabbix and the failures of the database    *)
(* and of the worker are the environment; heartbeats arrive, so only an    *)
(* execution whose worker is gone is recovered.                            *)
(***************************************************************************)
EXTENDS Naturals, FiniteSets

CONSTANTS
    Ranges, Hosts, Templates,
    Executions,
    ScopeOf,       \* the addresses of a range
    RangeOf,       \* range_id of an execution
    MayUse,        \* what its profile and its schedule may ask for
    None           \* NULL

ASSUME ScopesAssumption ==
    /\ ScopeOf \in [Ranges -> SUBSET Hosts]
    /\ RangeOf \in [Executions -> Ranges]
    /\ MayUse \in [Executions -> SUBSET {"nuclei", "zabbix"}]
ASSUME NoneAssumption == None \notin Executions /\ None \notin Ranges \X Hosts

\* What a range registers no other range may register: see RangeRegistry.
DisjointScopes == \A r, s \in Ranges : r # s => ScopeOf[r] \intersect ScopeOf[s] = {}

VARIABLES
    findings,   \* vulnerability_findings by fingerprint
    assets,     \* the rows of discovered_assets
    flag,       \* zabbix_status of an asset
    at,         \* where the execution stands
    hosts,      \* the hosts Nmap reported to it
    answer,     \* Nuclei's answer, as far as its addresses have an asset
    repeated,   \* observations Nuclei reported more than once
    todo,       \* observations _persist_findings has still to look up
    missing,    \* observations whose lookup found no row
    nuclei,     \* engine_runs.status of Nuclei
    error,      \* error_summary where it ended it: a clash of rows, or any other fault
    asked,      \* hosts reconcile has still to ask Zabbix about
    linked,     \* hosts Zabbix knew
    partial,    \* partial_errors is not empty
    count       \* vulnerabilities_discovered

tables == <<findings, assets, flag, nuclei, error, count>>
answers == <<hosts, answer, repeated>>
vars == <<tables, at, answers, todo, missing, asked, linked, partial>>

Assets == Ranges \X Hosts
Observations == Templates \X Hosts
HostOf(o) == o[2]

\* Variant: a fingerprint without the address.
TemplateOnly(o) == o[1]

\* template, address, port and URL, the last two within Templates.
Fingerprint(o) == o
Fingerprints == {Fingerprint(o) : o \in Observations}

NoFinding == [asset |-> None, by |-> None]
Findings == [asset : Assets, by : Executions] \union {NoFinding}
Flags == [status : {"not_configured", "synchronized", "pending"}, by : Executions \union {None}]

Outcomes == {"completed", "partially_completed", "failed"}
Places == {"nmap", "nuclei", "looking", "kept", "zabbix", "asking", "counting"} \union Outcomes

AssetOf(e, h) == <<RangeOf[e], h>>
InRange(r) == {p \in Fingerprints : \E h \in Hosts : findings[p].asset = <<r, h>>}

TypeOK ==
    /\ findings \in [Fingerprints -> Findings]
    /\ assets \subseteq Assets
    /\ flag \in [Assets -> Flags]
    /\ at \in [Executions -> Places]
    /\ hosts \in [Executions -> SUBSET Hosts]
    /\ answer \in [Executions -> SUBSET Observations]
    /\ repeated \in [Executions -> SUBSET Observations]
    /\ todo \in [Executions -> SUBSET Observations]
    /\ missing \in [Executions -> SUBSET Observations]
    /\ nuclei \in [Executions -> {"none", "running", "completed", "failed"}]
    /\ error \in [Executions -> {"none", "clash", "fault"}]
    /\ asked \in [Executions -> SUBSET Hosts]
    /\ linked \in [Executions -> SUBSET Hosts]
    /\ partial \in [Executions -> BOOLEAN]
    /\ count \in [Executions -> SUBSET Fingerprints]

Init ==
    /\ findings = [p \in Fingerprints |-> NoFinding]
    /\ assets = {}
    /\ flag = [a \in Assets |-> [status |-> "not_configured", by |-> None]]
    /\ at = [e \in Executions |-> "nmap"]
    /\ hosts = [e \in Executions |-> {}]
    /\ answer = [e \in Executions |-> {}]
    /\ repeated = [e \in Executions |-> {}]
    /\ todo = [e \in Executions |-> {}]
    /\ missing = [e \in Executions |-> {}]
    /\ nuclei = [e \in Executions |-> "none"]
    /\ error = [e \in Executions |-> "none"]
    /\ asked = [e \in Executions |-> {}]
    /\ linked = [e \in Executions |-> {}]
    /\ partial = [e \in Executions |-> FALSE]
    /\ count = [e \in Executions |-> {}]

Go(e, place) == at' = [at EXCEPT ![e] = place]

\* An execution ends before its time, and with it the engine that runs.
Ended(e, outcome, why) ==
    /\ Go(e, outcome)
    /\ error' = [error EXCEPT ![e] = why]
    /\ nuclei' = [nuclei EXCEPT ![e] = IF @ = "running" THEN "failed" ELSE @]
    /\ todo' = [todo EXCEPT ![e] = {}]
    /\ missing' = [missing EXCEPT ![e] = {}]
    /\ asked' = [asked EXCEPT ![e] = {}]

\* The handler of execute_scan: the hosts in memory decide.
Handled(e, why) == Ended(e, IF hosts[e] # {} THEN "partially_completed" ELSE "failed", why)

----------------------------------------------------------------------------
(* Nuclei.                                                                 *)

\* _persist_hosts has committed; the profile wants Nuclei or does not.
HostsKept(e) ==
    /\ at[e] = "nmap"
    /\ \E H \in SUBSET ScopeOf[RangeOf[e]] :
        /\ hosts' = [hosts EXCEPT ![e] = H]
        /\ assets' = assets \union {AssetOf(e, h) : h \in H}
    /\ \/ /\ "nuclei" \in MayUse[e]
          /\ Go(e, "nuclei") /\ nuclei' = [nuclei EXCEPT ![e] = "running"]
       \/ Go(e, "zabbix") /\ UNCHANGED nuclei
    /\ UNCHANGED <<findings, flag, error, count, answer, repeated, todo, missing,
                   asked, linked, partial>>

\* parse_nuclei_jsonl refuses an answer with an address outside the scope, and an
\* observation whose address has no asset in the range is skipped.
Placed(e) ==
    {o \in Observations : HostOf(o) \in ScopeOf[RangeOf[e]] /\ AssetOf(e, HostOf(o)) \in assets}

\* The scan returns; it may report hosts that Nmap did not, and an observation twice.
\* Without hosts there is nothing to scan.
NucleiAnswers(e) ==
    /\ at[e] = "nuclei"
    /\ \E A \in SUBSET (IF hosts[e] = {} THEN {} ELSE Placed(e)) : \E D \in SUBSET A :
        /\ answer' = [answer EXCEPT ![e] = A]
        /\ repeated' = [repeated EXCEPT ![e] = D]
        /\ todo' = [todo EXCEPT ![e] = A]
    /\ Go(e, "looking")
    /\ UNCHANGED <<tables, hosts, missing, asked, linked, partial>>

\* EngineUnavailable or EngineExecutionError: a partial error.
NucleiFails(e) ==
    /\ at[e] = "nuclei"
    /\ Go(e, "zabbix")
    /\ nuclei' = [nuclei EXCEPT ![e] = "failed"]
    /\ partial' = [partial EXCEPT ![e] = TRUE]
    /\ UNCHANGED <<findings, assets, flag, error, count, answers, todo, missing,
                   asked, linked>>

NoRow(o) == findings[Fingerprint(o)] = NoFinding

\* A lookup of _persist_findings sees what others have committed and, as the session
\* does not flush by itself, nothing of its own.
LookUp(e, o) ==
    /\ at[e] = "looking"
    /\ o \in todo[e]
    /\ todo' = [todo EXCEPT ![e] = @ \ {o}]
    /\ missing' = [missing EXCEPT ![e] = IF NoRow(o) THEN @ \union {o} ELSE @]
    /\ UNCHANGED <<tables, at, answers, asked, linked, partial>>

\* uq_finding_fingerprint: a row is inserted twice, by this answer or by another execution.
Clash(e) == \E o \in missing[e] : o \in repeated[e] \/ ~NoRow(o)

\* A new row gets the asset of the execution's range, a row that is there keeps its own.
Confirmed(e, o) ==
    [asset |-> IF o \in missing[e] THEN AssetOf(e, HostOf(o)) ELSE findings[Fingerprint(o)].asset,
     by |-> e]

\* Variant: new rows are not added to the session.
OnlyRenewed(e) ==
    [p \in Fingerprints |->
        IF \E o \in answer[e] \ missing[e] : Fingerprint(o) = p
        THEN [findings[p] EXCEPT !.by = e] ELSE findings[p]]

WithAnswer(e) ==
    [p \in Fingerprints |->
        IF \E o \in answer[e] : Fingerprint(o) = p
        THEN Confirmed(e, CHOOSE o \in answer[e] : Fingerprint(o) = p)
        ELSE findings[p]]

\* The commit of _persist_findings.
KeepFindings(e) ==
    /\ at[e] = "looking"
    /\ todo[e] = {}
    /\ ~Clash(e)
    /\ findings' = WithAnswer(e)
    /\ Go(e, "kept")
    /\ missing' = [missing EXCEPT ![e] = {}]
    /\ UNCHANGED <<assets, flag, nuclei, error, count, answers, todo, asked, linked, partial>>

\* The commit of _finish_engine, after it.
FinishNuclei(e) ==
    /\ at[e] = "kept"
    /\ nuclei' = [nuclei EXCEPT ![e] = "completed"]
    /\ Go(e, "zabbix")
    /\ UNCHANGED <<findings, assets, flag, error, count, answers, todo, missing,
                   asked, linked, partial>>

\* Variant: the rows that do not clash are committed one by one.
RestKept(e) == findings' = OnlyRenewed(e)

\* The commit is rolled back as a whole.
NothingKept(e) == UNCHANGED findings

\* IntegrityError is no engine error: the execution ends here.
LoseFindings(e) ==
    /\ at[e] = "looking"
    /\ todo[e] = {}
    /\ Clash(e)
    /\ NothingKept(e)
    /\ Handled(e, "clash")
    /\ UNCHANGED <<assets, flag, count, answers, linked, partial>>

----------------------------------------------------------------------------
(* Zabbix.                                                                 *)

\* The schedule asks for it or not.
StartZabbix(e) ==
    /\ at[e] = "zabbix"
    /\ \/ /\ "zabbix" \in MayUse[e]
          /\ Go(e, "asking") /\ asked' = [asked EXCEPT ![e] = hosts[e]]
       \/ Go(e, "counting") /\ UNCHANGED asked
    /\ UNCHANGED <<tables, answers, todo, missing, linked, partial>>

\* One hostinterface.get per host: Zabbix knows it or not, and may know more or less
\* the next time.
Ask(e, h) ==
    /\ at[e] = "asking"
    /\ h \in asked[e]
    /\ asked' = [asked EXCEPT ![e] = @ \ {h}]
    /\ linked' \in {linked, [linked EXCEPT ![e] = @ \union {h}]}
    /\ UNCHANGED <<tables, at, answers, todo, missing, partial>>

ZabbixFails(e) ==
    /\ at[e] = "asking"
    /\ Go(e, "counting")
    /\ partial' = [partial EXCEPT ![e] = TRUE]
    /\ asked' = [asked EXCEPT ![e] = {}]
    /\ UNCHANGED <<tables, answers, todo, missing, linked>>

\* Variant: one host that is linked makes them all synchronized.
AnyLinked(e, h) == linked[e] # {}

\* result.pending = 0, whatever the host.
Synchronized(e, h) == hosts[e] \subseteq linked[e]

WriteFlags(e) ==
    /\ at[e] = "asking"
    /\ asked[e] = {}
    /\ flag' = [a \in Assets |->
            IF \E h \in hosts[e] : a = AssetOf(e, h)
            THEN [status |-> IF Synchronized(e, a[2]) THEN "synchronized" ELSE "pending", by |-> e]
            ELSE flag[a]]
    /\ Go(e, "counting")
    /\ UNCHANGED <<findings, assets, nuclei, error, count, answers, todo, missing,
                   asked, linked, partial>>

----------------------------------------------------------------------------
(* The end.                                                                *)

Outcome(e) == IF partial[e] THEN "partially_completed" ELSE "completed"

\* The counts are of the range, whoever found what.
Finish(e) ==
    /\ at[e] = "counting"
    /\ count' = [count EXCEPT ![e] = InRange(RangeOf[e])]
    /\ Go(e, Outcome(e))
    /\ UNCHANGED <<findings, assets, flag, nuclei, error, answers, todo, missing,
                   asked, linked, partial>>

\* An exception nobody expects, of an engine, of Zabbix or of the database: whatever was
\* not committed is rolled back.
Raises(e) ==
    /\ at[e] \notin {"nmap"} \union Outcomes
    /\ Handled(e, "fault")
    /\ UNCHANGED <<findings, assets, flag, count, answers, linked, partial>>

\* A signal cancels the task where it awaits.
Interrupted(e) ==
    /\ at[e] \in {"nuclei", "asking"}
    /\ Ended(e, "failed", "fault")
    /\ UNCHANGED <<findings, assets, flag, count, answers, linked, partial>>

\* The worker has died here, or the handler's own session failed, and
\* recover_stale_executions has settled the execution.
Recovered(e) ==
    /\ at[e] \notin {"nmap"} \union Outcomes
    /\ Ended(e, "failed", "fault")
    /\ UNCHANGED <<findings, assets, flag, count, answers, linked, partial>>

Next ==
    \E e \in Executions :
        \/ HostsKept(e) \/ NucleiAnswers(e) \/ NucleiFails(e)
        \/ \E o \in Observations : LookUp(e, o)
        \/ KeepFindings(e) \/ FinishNuclei(e) \/ LoseFindings(e)
        \/ StartZabbix(e) \/ \E h \in Hosts : Ask(e, h)
        \/ ZabbixFails(e) \/ WriteFlags(e)
        \/ Finish(e) \/ Raises(e) \/ Interrupted(e) \/ Recovered(e)

Spec == Init /\ [][Next]_vars

----------------------------------------------------------------------------
(* Properties.                                                             *)

\* A finding is shown at the asset, of the range, where the execution that confirmed it
\* last saw it, although its fingerprint names no range and its asset is written once:
\* for ranges without common addresses.
FoundWhereShown ==
    \A o \in Observations :
        LET f == findings[Fingerprint(o)] IN
        f # NoFinding => f.asset = AssetOf(f.by, HostOf(o))

\* An answer is kept whole or not at all, wherever the database or the worker fails: where
\* one row names an execution, and where its Nuclei completed, a row is there for everything
\* it was told.  A row that names an execution whose Nuclei failed is left by a fault, between
\* the commit of the findings and the one of the engine.
AllOrNothing ==
    \A e \in Executions :
        LET named == \E p \in Fingerprints : findings[p].by = e IN
        /\ named \/ nuclei[e] = "completed" => \A o \in answer[e] : ~NoRow(o)
        /\ named /\ nuclei[e] = "failed" => error[e] = "fault"

\* The count a completed execution leaves covers what it was told itself.
CountCoversAnswer ==
    \A e \in Executions : at[e] = "completed" => {Fingerprint(o) : o \in answer[e]} \subseteq count[e]

\* Without a fault of the database or of the worker, an answer is refused only for what
\* Nuclei said twice or for what an execution of the same range was told too.
RefusedForCause ==
    \A e \in Executions :
        nuclei[e] = "failed" /\ answer[e] # {} =>
            \/ error[e] = "fault"
            \/ repeated[e] # {}
            \/ \E d \in Executions \ {e} : RangeOf[d] = RangeOf[e] /\ answer[d] \intersect answer[e] # {}

\* A host shown as synchronized was found in Zabbix by the execution that says so.
SynchronizedWasFound ==
    \A a \in Assets : flag[a].status = "synchronized" => a[2] \in linked[flag[a].by]

\* A host shown as pending was not found in Zabbix.
PendingWasMissed ==
    \A a \in Assets : flag[a].status = "pending" => a[2] \notin linked[flag[a].by]

\* What Nuclei reports of a scan's hosts is kept.
AnswersAreKept == \A e \in Executions : at[e] \in Outcomes => \A o \in answer[e] : ~NoRow(o)

----------------------------------------------------------------------------
(* What the proofs need besides: see ScanResultsProofs.                    *)

\* The engine run agrees with the place, and only an answer that was kept goes on.
StageInvariant ==
    \A e \in Executions :
        /\ at[e] = "nmap" => nuclei[e] = "none"
        /\ at[e] \in {"nuclei", "looking", "kept"} <=> nuclei[e] = "running"
        /\ at[e] \in {"nmap", "nuclei"} => answer[e] = {}
        /\ at[e] \in {"zabbix", "asking", "counting", "completed"}
                => answer[e] = {} \/ nuclei[e] = "completed"
        /\ todo[e] \union missing[e] \subseteq answer[e]
        /\ error[e] # "none" => at[e] \in Outcomes

\* What a lookup found, or a commit has kept, stays.
RowInvariant ==
    \A e \in Executions : \A o \in answer[e] :
        (IF at[e] = "looking" THEN o \notin todo[e] \union missing[e]
                              ELSE at[e] = "kept" \/ nuclei[e] = "completed")
            => ~NoRow(o)

\* An execution that has kept its answer ends its engine, or a fault comes first.
MayHaveKept(e) ==
    \/ at[e] = "kept" \/ nuclei[e] = "completed"
    \/ nuclei[e] = "failed" /\ error[e] = "fault"

\* Rows are written by executions that were told of them and kept their answer.
OwnerInvariant ==
    \A o \in Observations : ~NoRow(o) =>
        LET e == findings[Fingerprint(o)].by IN o \in answer[e] /\ MayHaveKept(e)

\* ... and kept all of it.
WholeInvariant ==
    \A p, o \in Observations :
        ~NoRow(p) /\ o \in answer[findings[Fingerprint(p)].by] => ~NoRow(o)

\* Answers are in scope, and so are the rows.
ScopeInvariant ==
    /\ \A e \in Executions : \A o \in answer[e] : HostOf(o) \in ScopeOf[RangeOf[e]]
    /\ \A o \in Observations : ~NoRow(o) =>
            HostOf(o) \in ScopeOf[RangeOf[findings[Fingerprint(o)].by]]
=============================================================================
