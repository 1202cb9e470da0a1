-------------------------- MODULE ScanResultsProofs --------------------------
(***************************************************************************)
(* For any ranges, hosts, templates and executions: answers are kept whole *)
(* or not at all, what is shown as synchronized was found, and, for ranges *)
(* without common addresses, findings are shown where they were found and  *)
(* counted.                                                                *)
(***************************************************************************)
EXTENDS ScanResults, TLAPS

RowsOK == TypeOK /\ StageInvariant /\ RowInvariant

\* A fingerprint is the observation itself, as far as it is modelled.
LEMMA FingerprintIsObservation == Fingerprints = Observations
    BY DEF Fingerprints, Fingerprint

\* No row is the row of an execution.
LEMMA NoRowHasNoOwner ==
    /\ NoFinding.by \notin Executions
    /\ \A a, e : e \in Executions => [asset |-> a, by |-> e] # NoFinding
    BY NoneAssumption DEF NoFinding

\* What KeepFindings writes, row by row.
LEMMA KeptRows ==
    ASSUME RowsOK, NEW e \in Executions, KeepFindings(e), NEW o \in Observations
    PROVE  /\ o \notin answer[e] => findings'[o] = findings[o]
           /\ o \in answer[e] =>
                /\ findings'[o] = Confirmed(e, o)
                /\ findings'[o] # NoFinding
                /\ o \notin missing[e] => ~NoRow(o)
                /\ findings'[o] \in Findings
<1> USE DEF RowsOK, TypeOK
<1>1. findings' = WithAnswer(e) /\ at[e] = "looking" /\ todo[e] = {}
    BY DEF KeepFindings
<1>2. findings'[o] = IF \E p \in answer[e] : p = o
                     THEN Confirmed(e, CHOOSE p \in answer[e] : p = o) ELSE findings[o]
    BY <1>1, FingerprintIsObservation DEF WithAnswer, Fingerprint
<1>3. ASSUME o \in answer[e]
      PROVE  findings'[o] = Confirmed(e, o)
  <2>1. (CHOOSE p \in answer[e] : p = o) = o
    BY <1>3
  <2> QED
    BY <1>2, <1>3, <2>1
<1>4. ASSUME o \in answer[e], o \notin missing[e] PROVE ~NoRow(o)
    BY <1>1, <1>4 DEF RowInvariant
<1>5. ASSUME o \in answer[e] PROVE Confirmed(e, o) \in Findings /\ Confirmed(e, o) # NoFinding
  <2>1. AssetOf(e, HostOf(o)) \in Assets
    BY ScopesAssumption DEF AssetOf, HostOf, Assets, Observations
  <2>2. o \notin missing[e] => findings[o].asset \in Assets
    BY <1>4, <1>5, FingerprintIsObservation DEF NoRow, Fingerprint, Findings
  <2> QED
    BY <2>1, <2>2, NoRowHasNoOwner DEF Confirmed, Findings, Fingerprint
<1> QED
    BY <1>2, <1>3, <1>4, <1>5

\* Rows are never deleted.
LEMMA RowsStay ==
    ASSUME RowsOK, NEW e \in Executions, KeepFindings(e), NEW o \in Observations, ~NoRow(o)
    PROVE  ~NoRow(o)'
    BY KeptRows DEF NoRow, Fingerprint

\* TypeOK, which needs RowInvariant where a lookup has found a row.
LEMMA TypeStep == RowsOK /\ [Next]_vars => TypeOK'
<1> SUFFICES ASSUME RowsOK, [Next]_vars PROVE TypeOK'
    OBVIOUS
<1> USE DEF RowsOK, TypeOK, Go
<1>1. ASSUME NEW e \in Executions, HostsKept(e) PROVE TypeOK'
  <2>1. PICK H \in SUBSET ScopeOf[RangeOf[e]] :
            /\ hosts' = [hosts EXCEPT ![e] = H]
            /\ assets' = assets \union {AssetOf(e, h) : h \in H}
    BY <1>1 DEF HostsKept
  <2>2. H \subseteq Hosts /\ RangeOf[e] \in Ranges
    BY ScopesAssumption
  <2>3. {AssetOf(e, h) : h \in H} \subseteq Assets
    BY ONLY <2>2 DEF AssetOf, Assets
  <2>4. /\ at' \in [Executions -> Places]
        /\ nuclei' \in [Executions -> {"none", "running", "completed", "failed"}]
    BY <1>1 DEF HostsKept, Places
  <2> QED
    BY <1>1, <2>1, <2>2, <2>3, <2>4 DEF HostsKept
<1>2. ASSUME NEW e \in Executions, NucleiAnswers(e) PROVE TypeOK'
  <2>1. PICK A \in SUBSET (IF hosts[e] = {} THEN {} ELSE Placed(e)) : \E D \in SUBSET A :
            /\ answer' = [answer EXCEPT ![e] = A]
            /\ repeated' = [repeated EXCEPT ![e] = D]
            /\ todo' = [todo EXCEPT ![e] = A]
    BY <1>2 DEF NucleiAnswers
  <2>2. A \subseteq Observations
    BY <2>1 DEF Placed
  <2> QED
    BY <1>2, <2>1, <2>2 DEF NucleiAnswers, Places, tables
<1>3. ASSUME NEW e \in Executions, NucleiFails(e) PROVE TypeOK'
    BY <1>3 DEF NucleiFails, Places, answers
<1>4. ASSUME NEW e \in Executions, NEW o \in Observations, LookUp(e, o) PROVE TypeOK'
    BY <1>4 DEF LookUp, tables, answers
<1>5. ASSUME NEW e \in Executions, KeepFindings(e) PROVE TypeOK'
  <2>1. \A o \in Observations : findings'[o] \in Findings
    BY <1>5, KeptRows, FingerprintIsObservation
  <2>2. findings' \in [Fingerprints -> Findings]
    BY <1>5, <2>1, FingerprintIsObservation DEF KeepFindings, WithAnswer
  <2> QED
    BY <1>5, <2>2 DEF KeepFindings, Places, answers
<1>6. ASSUME NEW e \in Executions, LoseFindings(e) PROVE TypeOK'
    BY <1>6 DEF LoseFindings, NothingKept, Handled, Ended, Places, Outcomes, answers
<1>7. ASSUME NEW e \in Executions, StartZabbix(e) PROVE TypeOK'
    BY <1>7 DEF StartZabbix, Places, tables, answers
<1>8. ASSUME NEW e \in Executions, NEW h \in Hosts, Ask(e, h) PROVE TypeOK'
    BY <1>8 DEF Ask, tables, answers
<1>9. ASSUME NEW e \in Executions, ZabbixFails(e) PROVE TypeOK'
    BY <1>9 DEF ZabbixFails, Places, tables, answers
<1>10. ASSUME NEW e \in Executions, WriteFlags(e) PROVE TypeOK'
  <2>1. flag' \in [Assets -> Flags]
    BY <1>10 DEF WriteFlags, Flags
  <2> QED
    BY <1>10, <2>1 DEF WriteFlags, Places, answers
<1>11. ASSUME NEW e \in Executions, Finish(e) PROVE TypeOK'
    BY <1>11 DEF Finish, InRange, Outcome, Places, Outcomes, answers
<1>12. ASSUME NEW e \in Executions, Raises(e) \/ Interrupted(e) \/ Recovered(e) PROVE TypeOK'
    BY <1>12 DEF Raises, Interrupted, Recovered, Handled, Ended, Places, Outcomes, answers
<1>13. ASSUME NEW e \in Executions, FinishNuclei(e) PROVE TypeOK'
    BY <1>13 DEF FinishNuclei, Places, answers
<1>14. ASSUME UNCHANGED vars PROVE TypeOK'
    BY <1>14 DEF vars, tables, answers
<1> QED
    BY <1>1, <1>2, <1>3, <1>4, <1>5, <1>6, <1>7, <1>8, <1>9, <1>10, <1>11, <1>12, <1>13,
       <1>14 DEF Next

\* What the steps other than KeepFindings leave alone.
LEMMA RowsUntouched ==
    ASSUME RowsOK, [Next]_vars, \A e \in Executions : ~KeepFindings(e)
    PROVE  findings' = findings
    BY DEF Next, vars, tables, HostsKept, NucleiAnswers, NucleiFails, LookUp, LoseFindings,
           NothingKept, FinishNuclei, StartZabbix, Ask, ZabbixFails, WriteFlags, Finish, Raises,
           Interrupted, Recovered

\* A row that changes is written by an execution that was told of it.
LEMMA WrittenRow ==
    ASSUME RowsOK, [Next]_vars, NEW o \in Observations, findings'[o] # findings[o]
    PROVE  \E e \in Executions :
               /\ KeepFindings(e)
               /\ o \in answer[e]
               /\ findings'[o] = Confirmed(e, o)
               /\ findings'[o].by = e
<1>1. PICK e \in Executions : KeepFindings(e)
    BY RowsUntouched
<1>2. o \in answer[e] /\ findings'[o] = Confirmed(e, o)
    BY <1>1, KeptRows
<1>3. Confirmed(e, o).by = e
    BY DEF Confirmed
<1> QED
    BY <1>1, <1>2, <1>3

\* The place and the engine run of each execution, one step per action that moves it.
LEMMA StageStep == RowsOK /\ [Next]_vars => StageInvariant'
<1> SUFFICES ASSUME RowsOK, [Next]_vars PROVE StageInvariant'
    OBVIOUS
<1> USE DEF RowsOK, TypeOK, StageInvariant, Go, Outcomes
<1>1. ASSUME NEW e \in Executions, HostsKept(e) PROVE StageInvariant'
    BY <1>1 DEF HostsKept
<1>2. ASSUME NEW e \in Executions, NucleiAnswers(e) PROVE StageInvariant'
    BY <1>2 DEF NucleiAnswers, tables
<1>3. ASSUME NEW e \in Executions, NucleiFails(e) PROVE StageInvariant'
    BY <1>3 DEF NucleiFails, answers
<1>4. ASSUME NEW e \in Executions, NEW o \in Observations, LookUp(e, o) PROVE StageInvariant'
    BY <1>4 DEF LookUp, tables, answers
<1>5. ASSUME NEW e \in Executions, KeepFindings(e) PROVE StageInvariant'
    BY <1>5 DEF KeepFindings, answers
<1>6. ASSUME NEW e \in Executions, LoseFindings(e) PROVE StageInvariant'
    BY <1>6 DEF LoseFindings, Handled, Ended, Outcomes, answers
<1>7. ASSUME NEW e \in Executions, StartZabbix(e) PROVE StageInvariant'
    BY <1>7 DEF StartZabbix, tables, answers
<1>8. ASSUME NEW e \in Executions, NEW h \in Hosts, Ask(e, h) PROVE StageInvariant'
    BY <1>8 DEF Ask, tables, answers
<1>9. ASSUME NEW e \in Executions, ZabbixFails(e) PROVE StageInvariant'
    BY <1>9 DEF ZabbixFails, tables, answers
<1>10. ASSUME NEW e \in Executions, WriteFlags(e) PROVE StageInvariant'
    BY <1>10 DEF WriteFlags, answers
<1>11. ASSUME NEW e \in Executions, Finish(e) PROVE StageInvariant'
    BY <1>11 DEF Finish, Outcome, Outcomes, answers
<1>12. ASSUME NEW e \in Executions, Raises(e) \/ Interrupted(e) \/ Recovered(e)
       PROVE  StageInvariant'
    BY <1>12 DEF Raises, Interrupted, Recovered, Handled, Ended, Outcomes, answers
<1>13. ASSUME NEW e \in Executions, FinishNuclei(e) PROVE StageInvariant'
    BY <1>13 DEF FinishNuclei, answers
<1>14. ASSUME UNCHANGED vars PROVE StageInvariant'
    BY <1>14 DEF vars, tables, answers
<1> QED
    BY <1>1, <1>2, <1>3, <1>4, <1>5, <1>6, <1>7, <1>8, <1>9, <1>10, <1>11, <1>12, <1>13,
       <1>14 DEF Next

\* What is looked up, missing and kept; rows only come (RowsStay).
LEMMA RowStep == RowsOK /\ [Next]_vars => RowInvariant'
<1> SUFFICES ASSUME RowsOK, [Next]_vars PROVE RowInvariant'
    OBVIOUS
<1> USE DEF RowsOK, TypeOK, Go
<1>1. ASSUME NEW e \in Executions, HostsKept(e) PROVE RowInvariant'
    BY <1>1 DEF HostsKept, RowInvariant, StageInvariant, NoRow, Fingerprint
<1>2. ASSUME NEW e \in Executions, NucleiAnswers(e) PROVE RowInvariant'
    BY <1>2 DEF NucleiAnswers, tables, RowInvariant, NoRow, Fingerprint
<1>3. ASSUME NEW e \in Executions, NucleiFails(e) PROVE RowInvariant'
    BY <1>3 DEF NucleiFails, answers, RowInvariant, NoRow, Fingerprint
<1>4. ASSUME NEW e \in Executions, NEW o \in Observations, LookUp(e, o) PROVE RowInvariant'
    BY <1>4 DEF LookUp, tables, answers, RowInvariant, NoRow, Fingerprint
<1>5. ASSUME NEW e \in Executions, KeepFindings(e) PROVE RowInvariant'
  <2> SUFFICES ASSUME NEW d \in Executions, NEW o \in answer[d],
                      IF at'[d] = "looking" THEN o \notin todo[d] \union missing'[d]
                                            ELSE at'[d] = "kept" \/ nuclei[d] = "completed"
               PROVE  ~NoRow(o)'
    BY <1>5 DEF KeepFindings, answers, RowInvariant
  <2>1. o \in Observations
    OBVIOUS
  <2>2. CASE d = e
    BY <1>5, <2>1, <2>2, KeptRows DEF NoRow, Fingerprint
  <2>3. CASE d # e
    <3>1. at'[d] = at[d] /\ missing'[d] = missing[d]
      BY <1>5, <2>3 DEF KeepFindings
    <3>2. ~NoRow(o)
      BY <3>1 DEF RowInvariant
    <3> QED
      BY <1>5, <2>1, <3>2, RowsStay
  <2> QED
    BY <2>2, <2>3
<1>6. ASSUME NEW e \in Executions, LoseFindings(e) PROVE RowInvariant'
    BY <1>6 DEF LoseFindings, NothingKept, Handled, Ended, answers, RowInvariant, StageInvariant,
                NoRow, Fingerprint
<1>7. ASSUME NEW e \in Executions, StartZabbix(e) PROVE RowInvariant'
    BY <1>7 DEF StartZabbix, tables, answers, RowInvariant, NoRow, Fingerprint
<1>8. ASSUME NEW e \in Executions, NEW h \in Hosts, Ask(e, h) PROVE RowInvariant'
    BY <1>8 DEF Ask, tables, answers, RowInvariant, NoRow, Fingerprint
<1>9. ASSUME NEW e \in Executions, ZabbixFails(e) PROVE RowInvariant'
    BY <1>9 DEF ZabbixFails, tables, answers, RowInvariant, NoRow, Fingerprint
<1>10. ASSUME NEW e \in Executions, WriteFlags(e) PROVE RowInvariant'
    BY <1>10 DEF WriteFlags, answers, RowInvariant, NoRow, Fingerprint
<1>11. ASSUME NEW e \in Executions, Finish(e) PROVE RowInvariant'
    BY <1>11 DEF Finish, Outcome, answers, RowInvariant, NoRow, Fingerprint
<1>12. ASSUME NEW e \in Executions, Raises(e) \/ Interrupted(e) \/ Recovered(e) PROVE RowInvariant'
    BY <1>12 DEF Raises, Interrupted, Recovered, Handled, Ended, answers, RowInvariant,
                 StageInvariant, NoRow, Fingerprint, Outcomes
<1>13. ASSUME NEW e \in Executions, FinishNuclei(e) PROVE RowInvariant'
    BY <1>13 DEF FinishNuclei, answers, RowInvariant, NoRow, Fingerprint
<1>14. ASSUME UNCHANGED vars PROVE RowInvariant'
    BY <1>14 DEF vars, tables, answers, RowInvariant, NoRow, Fingerprint
<1> QED
    BY <1>1, <1>2, <1>3, <1>4, <1>5, <1>6, <1>7, <1>8, <1>9, <1>10, <1>11, <1>12, <1>13,
       <1>14 DEF Next

LEMMA RowsInit == Init => RowsOK
<1> SUFFICES ASSUME Init PROVE RowsOK
    OBVIOUS
<1>1. TypeOK
    BY DEF Init, TypeOK, Findings, Flags, Places
<1>2. StageInvariant /\ RowInvariant
    BY DEF Init, StageInvariant, RowInvariant
<1> QED
    BY <1>1, <1>2 DEF RowsOK

LEMMA RowsAlways == Spec => []RowsOK
<1>1. RowsOK /\ [Next]_vars => RowsOK'
    BY TypeStep, StageStep, RowStep DEF RowsOK
<1> QED
    BY <1>1, RowsInit, PTL DEF Spec

\* Every variable keeps its type; a row that a commit renews must be there for that.
THEOREM TypeCorrect == Spec => []TypeOK
    BY RowsAlways, PTL DEF RowsOK

----------------------------------------------------------------------------
\* What an execution has kept stays kept, and its answer too.
LEMMA KeeperStays ==
    ASSUME RowsOK, [Next]_vars, NEW e \in Executions, MayHaveKept(e)
    PROVE  MayHaveKept(e)' /\ answer'[e] = answer[e]
<1> USE DEF RowsOK, TypeOK
<1>1. at[e] \notin {"nmap", "nuclei", "looking"}
    BY DEF StageInvariant, MayHaveKept
<1>2. answer'[e] = answer[e]
    BY <1>1 DEF Next, vars, answers, HostsKept, NucleiAnswers, NucleiFails, LookUp,
           KeepFindings, FinishNuclei, LoseFindings, StartZabbix, Ask, ZabbixFails, WriteFlags,
           Finish, Raises, Interrupted, Recovered
<1>3. CASE at[e] = "kept"
  <2>1. nuclei[e] = "running"
    BY <1>3 DEF StageInvariant
  <2>2. \/ at'[e] = "kept"
        \/ nuclei'[e] = "completed"
        \/ nuclei'[e] = "failed" /\ error'[e] = "fault"
    BY <1>3, <2>1 DEF Next, vars, tables, HostsKept, NucleiAnswers, NucleiFails, LookUp,
           KeepFindings, FinishNuclei, LoseFindings, Handled, Ended, StartZabbix, Ask, ZabbixFails,
           WriteFlags, Finish, Raises, Interrupted, Recovered, Go, Outcomes
  <2> QED
    BY <1>2, <2>2 DEF MayHaveKept
<1>4. CASE nuclei[e] = "completed"
  <2>1. nuclei'[e] = "completed"
    BY <1>1, <1>4 DEF Next, vars, tables, HostsKept, NucleiAnswers, NucleiFails, LookUp,
           KeepFindings, FinishNuclei, LoseFindings, Handled, Ended, StartZabbix, Ask, ZabbixFails,
           WriteFlags, Finish, Raises, Interrupted, Recovered
  <2> QED
    BY <1>2, <2>1 DEF MayHaveKept
<1>5. CASE nuclei[e] = "failed" /\ error[e] = "fault"
  <2>1. at[e] \in Outcomes
    BY <1>5 DEF StageInvariant
  <2>2. nuclei'[e] = nuclei[e] /\ error'[e] = error[e]
    BY <2>1 DEF Next, vars, tables, HostsKept, NucleiAnswers, NucleiFails, LookUp,
           KeepFindings, FinishNuclei, LoseFindings, Handled, Ended, StartZabbix, Ask, ZabbixFails,
           WriteFlags, Finish, Raises, Interrupted, Recovered, Outcomes
  <2> QED
    BY <1>2, <1>5, <2>2 DEF MayHaveKept
<1> QED
    BY <1>3, <1>4, <1>5 DEF MayHaveKept

\* Only the commit of the findings writes an owner.
LEMMA OwnerStep == RowsOK /\ OwnerInvariant /\ [Next]_vars => OwnerInvariant'
<1> SUFFICES ASSUME RowsOK, OwnerInvariant, [Next]_vars PROVE OwnerInvariant'
    OBVIOUS
<1> USE DEF RowsOK, TypeOK
<1> SUFFICES ASSUME NEW o \in Observations, findings'[o] # NoFinding
             PROVE  o \in answer'[findings'[o].by] /\ MayHaveKept(findings[o].by)'
    BY DEF OwnerInvariant, NoRow, Fingerprint
<1>1. CASE findings'[o] = findings[o]
  <2>1. findings[o].by \in Executions
    BY <1>1, FingerprintIsObservation DEF Findings
  <2>2. o \in answer[findings[o].by] /\ MayHaveKept(findings[o].by)
    BY <1>1 DEF OwnerInvariant, NoRow, Fingerprint
  <2>3. PICK d \in Executions : d = findings[o].by
    BY <2>1
  <2>4. MayHaveKept(d)' /\ answer'[d] = answer[d]
    BY <2>2, <2>3, KeeperStays
  <2> QED
    BY <1>1, <2>2, <2>3, <2>4 DEF MayHaveKept
<1>2. CASE findings'[o] # findings[o]
  <2>1. PICK e \in Executions : KeepFindings(e) /\ o \in answer[e] /\ findings'[o].by = e
    BY <1>2, WrittenRow
  <2> QED
    BY <2>1 DEF KeepFindings, answers, MayHaveKept, Go
<1> QED
    BY <1>1, <1>2

LEMMA OwnerAlways == Spec => []OwnerInvariant
<1>1. Init => OwnerInvariant
    BY DEF Init, OwnerInvariant, NoRow, Fingerprint, Fingerprints
<1> QED
    BY <1>1, OwnerStep, RowsAlways, PTL DEF Spec

\* One row that names an execution brings the others of its answer; none is deleted.
LEMMA WholeStep ==
    RowsOK /\ OwnerInvariant /\ WholeInvariant /\ [Next]_vars => WholeInvariant'
<1> SUFFICES ASSUME RowsOK, OwnerInvariant, WholeInvariant, [Next]_vars,
                    NEW p \in Observations, NEW o \in Observations,
                    findings'[p] # NoFinding, o \in answer'[findings'[p].by]
             PROVE  findings'[o] # NoFinding
    BY DEF WholeInvariant, NoRow, Fingerprint
<1> USE DEF RowsOK, TypeOK
<1>1. CASE findings'[p] = findings[p]
  <2>1. PICK d \in Executions : d = findings[p].by
    BY <1>1, FingerprintIsObservation DEF Findings
  <2>2. MayHaveKept(d)
    BY <1>1, <2>1 DEF OwnerInvariant, NoRow, Fingerprint
  <2>3. o \in answer[d]
    BY <1>1, <2>1, <2>2, KeeperStays
  <2>4. ~NoRow(o)
    BY <1>1, <2>1, <2>3 DEF WholeInvariant, NoRow, Fingerprint
  <2>5. CASE \E e \in Executions : KeepFindings(e)
    BY <2>4, <2>5, RowsStay DEF NoRow, Fingerprint
  <2>6. CASE \A e \in Executions : ~KeepFindings(e)
    BY <2>4, <2>6, RowsUntouched DEF NoRow, Fingerprint
  <2> QED
    BY <2>5, <2>6
<1>2. CASE findings'[p] # findings[p]
  <2>1. PICK e \in Executions : KeepFindings(e) /\ findings'[p].by = e
    BY <1>2, WrittenRow
  <2>2. o \in answer[e]
    BY <2>1 DEF KeepFindings, answers
  <2> QED
    BY <2>1, <2>2, KeptRows
<1> QED
    BY <1>1, <1>2

LEMMA WholeAlways == Spec => []WholeInvariant
<1>1. Init => WholeInvariant
    BY DEF Init, WholeInvariant, NoRow, Fingerprint, Fingerprints
<1> QED
    BY <1>1, WholeStep, RowsAlways, OwnerAlways, PTL DEF Spec

\* Kept whole or not at all, whatever fails and whoever dies between the two commits.
THEOREM AnswersAreWhole == Spec => []AllOrNothing
<1>1. RowsOK /\ OwnerInvariant /\ WholeInvariant => AllOrNothing
  <2> SUFFICES ASSUME RowsOK, OwnerInvariant, WholeInvariant, NEW e \in Executions
               PROVE  /\ nuclei[e] = "completed" => \A o \in answer[e] : ~NoRow(o)
                      /\ \A p \in Fingerprints : findings[p].by = e =>
                            /\ \A o \in answer[e] : ~NoRow(o)
                            /\ nuclei[e] = "failed" => error[e] = "fault"
    BY DEF AllOrNothing
  <2> USE DEF RowsOK, TypeOK
  <2>1. ASSUME nuclei[e] = "completed", NEW o \in answer[e] PROVE ~NoRow(o)
    BY <2>1 DEF RowInvariant, StageInvariant
  <2>2. ASSUME NEW p \in Fingerprints, findings[p].by = e
        PROVE  /\ \A o \in answer[e] : ~NoRow(o)
               /\ nuclei[e] = "failed" => error[e] = "fault"
    <3>1. p \in Observations /\ ~NoRow(p)
      BY <2>2, FingerprintIsObservation, NoRowHasNoOwner DEF NoRow, Fingerprint
    <3>2. MayHaveKept(e)
      BY <2>2, <3>1 DEF OwnerInvariant, Fingerprint
    <3>3. nuclei[e] = "failed" => error[e] = "fault"
      BY <3>2 DEF MayHaveKept, StageInvariant
    <3>4. ASSUME NEW o \in answer[e] PROVE ~NoRow(o)
      BY <2>2, <3>1 DEF WholeInvariant, Fingerprint
    <3> QED
      BY <3>3, <3>4
  <2> QED
    BY <2>1, <2>2
<1> QED
    BY <1>1, RowsAlways, OwnerAlways, WholeAlways, PTL

----------------------------------------------------------------------------
(* Scopes.                                                                 *)

\* Nuclei's answers are checked against the range, and rows are made of answers.
LEMMA ScopeStep == RowsOK /\ ScopeInvariant /\ [Next]_vars => ScopeInvariant'
<1> SUFFICES ASSUME RowsOK, ScopeInvariant, [Next]_vars PROVE ScopeInvariant'
    OBVIOUS
<1> USE DEF RowsOK, TypeOK
<1>1. \A e \in Executions : \A o \in answer'[e] : HostOf(o) \in ScopeOf[RangeOf[e]]
  <2>1. CASE \E e \in Executions : NucleiAnswers(e)
    BY <2>1 DEF ScopeInvariant, NucleiAnswers, Placed
  <2>2. CASE \A e \in Executions : ~NucleiAnswers(e)
    <3>1. answer' = answer
      BY <2>2 DEF Next, vars, answers, HostsKept, NucleiFails, LookUp, KeepFindings, FinishNuclei,
               LoseFindings, StartZabbix, Ask, ZabbixFails, WriteFlags, Finish, Raises, Interrupted,
               Recovered
    <3> QED
      BY <3>1 DEF ScopeInvariant
  <2> QED
    BY <2>1, <2>2
<1>2. ASSUME NEW o \in Observations, findings'[o] # NoFinding
      PROVE  HostOf(o) \in ScopeOf[RangeOf[findings'[o].by]]
  <2>1. CASE findings'[o] = findings[o]
    BY <1>2, <2>1 DEF ScopeInvariant, NoRow, Fingerprint
  <2>2. CASE findings'[o] # findings[o]
    <3>1. PICK e \in Executions : o \in answer[e] /\ findings'[o].by = e
      BY <2>2, WrittenRow
    <3> QED
      BY <3>1 DEF ScopeInvariant
  <2> QED
    BY <2>1, <2>2
<1> QED
    BY <1>1, <1>2 DEF ScopeInvariant, NoRow, Fingerprint

LEMMA ScopeAlways == Spec => []ScopeInvariant
<1>1. Init => ScopeInvariant
    BY DEF Init, ScopeInvariant, NoRow, Fingerprint, Fingerprints
<1> QED
    BY <1>1, ScopeStep, RowsAlways, PTL DEF Spec

\* An address no two ranges share.  The register does not promise it of any address, so the
\* properties are first proved of these, whatever else the ranges share.
Private(h) == \A r, s \in Ranges : h \in ScopeOf[r] \intersect ScopeOf[s] => r = s

LEMMA DisjointIsPrivate == ASSUME DisjointScopes, NEW h PROVE Private(h)
BY DEF DisjointScopes, Private

\* Two executions with a private address are of one range.
LEMMA PrivateAddress ==
    ASSUME NEW d \in Executions, NEW e \in Executions,
           NEW h \in ScopeOf[RangeOf[d]], h \in ScopeOf[RangeOf[e]], Private(h)
    PROVE  RangeOf[d] = RangeOf[e]
<1>1. RangeOf[d] \in Ranges /\ RangeOf[e] \in Ranges
    BY ScopesAssumption
<1> QED
    BY <1>1 DEF Private

\* FoundWhereShown, of private addresses.
PrivateFound ==
    \A o \in Observations : Private(HostOf(o)) =>
        LET f == findings[Fingerprint(o)] IN
        f # NoFinding => f.asset = AssetOf(f.by, HostOf(o))

LEMMA FoundStep ==
    ASSUME RowsOK, ScopeInvariant, PrivateFound, [Next]_vars
    PROVE  PrivateFound'
<1> USE DEF RowsOK, TypeOK
<1> SUFFICES ASSUME NEW o \in Observations, Private(HostOf(o)), findings'[o] # NoFinding
             PROVE  findings'[o].asset = AssetOf(findings'[o].by, HostOf(o))
    BY DEF PrivateFound, Fingerprint
<1>1. CASE findings'[o] = findings[o]
    BY <1>1 DEF PrivateFound, Fingerprint
<1>2. CASE findings'[o] # findings[o]
  <2>1. PICK e \in Executions : KeepFindings(e) /\ o \in answer[e] /\ findings'[o] = Confirmed(e, o)
    BY <1>2, WrittenRow
  <2>2. o \in answer[e] /\ findings'[o] = Confirmed(e, o)
    BY <2>1
  <2>3. CASE o \in missing[e]
    BY <2>2, <2>3 DEF Confirmed
  <2>4. CASE o \notin missing[e]
    <3> DEFINE d == findings[o].by
    <3>1. findings[o] # NoFinding /\ d \in Executions
      BY <2>1, <2>2, <2>4, KeptRows, FingerprintIsObservation DEF NoRow, Fingerprint, Findings
    <3>2. HostOf(o) \in ScopeOf[RangeOf[d]] /\ HostOf(o) \in ScopeOf[RangeOf[e]]
      BY <2>2, <3>1 DEF ScopeInvariant, NoRow, Fingerprint
    <3>3. AssetOf(d, HostOf(o)) = AssetOf(e, HostOf(o))
      BY <3>1, <3>2, PrivateAddress DEF AssetOf
    <3>4. findings[o].asset = AssetOf(d, HostOf(o))
      BY <3>1 DEF PrivateFound, Fingerprint
    <3> QED
      BY <2>2, <2>4, <3>3, <3>4 DEF Confirmed, Fingerprint
  <2> QED
    BY <2>3, <2>4
<1> QED
    BY <1>1, <1>2

\* For any ranges: at an address no two of them share, a finding is shown where the execution
\* that confirmed it last has found it, although its fingerprint names no range.
THEOREM ShownUnlessShared == Spec => []PrivateFound
<1>1. Init => PrivateFound
    BY DEF Init, PrivateFound, Fingerprint, Fingerprints
<1>2. RowsOK /\ ScopeInvariant /\ PrivateFound /\ [Next]_vars => PrivateFound'
    BY FoundStep
<1> QED
    BY <1>1, <1>2, RowsAlways, ScopeAlways, PTL DEF Spec

\* Without common addresses that is so of every finding: what Results_shared violates
\* without the hypothesis.
THEOREM ShownWhereFound == DisjointScopes /\ Spec => []FoundWhereShown
<1> SUFFICES ASSUME DisjointScopes PROVE Spec => []FoundWhereShown
    OBVIOUS
<1>1. PrivateFound => FoundWhereShown
    BY DisjointIsPrivate DEF PrivateFound, FoundWhereShown
<1> QED
    BY <1>1, ShownUnlessShared, PTL

\* CountCoversAnswer, of private addresses.
PrivateCounted ==
    \A e \in Executions : at[e] = "completed" =>
        \A o \in answer[e] : Private(HostOf(o)) => Fingerprint(o) \in count[e]

\* What a completed execution was told is in its range, and so in its count.
LEMMA CountStep ==
    ASSUME RowsOK, ScopeInvariant, PrivateFound, PrivateCounted, [Next]_vars
    PROVE  PrivateCounted'
<1> USE DEF RowsOK, TypeOK, Fingerprint
<1> SUFFICES ASSUME NEW e \in Executions, at'[e] = "completed", NEW o \in answer'[e],
                    Private(HostOf(o))
             PROVE  o \in count'[e]
    BY DEF PrivateCounted
<1>1. CASE Finish(e)
  <2>1. answer' = answer /\ count'[e] = InRange(RangeOf[e])
    BY <1>1 DEF Finish, answers
  <2>2. nuclei[e] = "completed" /\ at[e] = "counting"
    BY <1>1, <2>1 DEF Finish, StageInvariant
  <2>3. o \in Observations /\ findings[o] # NoFinding
    BY <2>1, <2>2 DEF RowInvariant, NoRow
  <2> DEFINE d == findings[o].by
  <2>4. d \in Executions /\ HostOf(o) \in Hosts
    BY <2>3, FingerprintIsObservation DEF Findings, Observations, HostOf
  <2>5. HostOf(o) \in ScopeOf[RangeOf[d]] /\ HostOf(o) \in ScopeOf[RangeOf[e]]
    BY <2>1, <2>3 DEF ScopeInvariant, NoRow
  <2>6. RangeOf[d] = RangeOf[e]
    BY <2>4, <2>5, PrivateAddress
  <2>7. findings[o].asset = <<RangeOf[e], HostOf(o)>>
    BY <2>3, <2>6 DEF PrivateFound, AssetOf
  <2> QED
    BY <2>1, <2>3, <2>4, <2>7, FingerprintIsObservation DEF InRange
<1>2. CASE ~Finish(e)
  <2>1. at[e] = "completed" /\ answer'[e] = answer[e] /\ count'[e] = count[e]
    BY <1>2 DEF Next, vars, tables, answers, Go, HostsKept, NucleiAnswers, NucleiFails, LookUp,
           KeepFindings, FinishNuclei, LoseFindings, Handled, Ended, StartZabbix, Ask, ZabbixFails,
           WriteFlags, Finish, Raises, Interrupted, Recovered, Outcome, Outcomes
  <2> QED
    BY <2>1 DEF PrivateCounted
<1> QED
    BY <1>1, <1>2

\* For any ranges: the count of a completed execution covers what it was told itself of
\* the addresses that its range has alone.
THEOREM CountedUnlessShared == Spec => []PrivateCounted
<1>1. Init => PrivateCounted
    BY DEF Init, PrivateCounted
<1>2. RowsOK /\ ScopeInvariant /\ PrivateFound /\ PrivateCounted /\ [Next]_vars => PrivateCounted'
    BY CountStep
<1> QED
    BY <1>1, <1>2, ShownUnlessShared, RowsAlways, ScopeAlways, PTL DEF Spec

\* ... and all it was told, without common addresses.
THEOREM CountsAreWhole == DisjointScopes /\ Spec => []CountCoversAnswer
<1> SUFFICES ASSUME DisjointScopes PROVE Spec => []CountCoversAnswer
    OBVIOUS
<1>1. PrivateCounted => CountCoversAnswer
    BY DisjointIsPrivate DEF PrivateCounted, CountCoversAnswer
<1> QED
    BY <1>1, CountedUnlessShared, PTL

----------------------------------------------------------------------------
(* Zabbix.                                                                 *)

LEMMA FlagStep ==
    ASSUME RowsOK, SynchronizedWasFound, [Next]_vars,
           \A a \in Assets : flag[a].status = "synchronized" => flag[a].by \in Executions
    PROVE  /\ SynchronizedWasFound'
           /\ \A a \in Assets : flag'[a].status = "synchronized" => flag'[a].by \in Executions
<1> USE DEF RowsOK, TypeOK
<1>1. CASE \E e \in Executions : WriteFlags(e)
  <2>1. PICK e \in Executions : WriteFlags(e)
    BY <1>1
  <2> SUFFICES ASSUME NEW a \in Assets, flag'[a].status = "synchronized"
               PROVE  a[2] \in linked'[flag'[a].by] /\ flag'[a].by \in Executions
    BY DEF SynchronizedWasFound
  <2>2. linked' = linked
    BY <2>1 DEF WriteFlags
  <2>3. CASE \E h \in hosts[e] : a = AssetOf(e, h)
    BY <2>1, <2>2, <2>3 DEF WriteFlags, AssetOf, Synchronized
  <2>4. CASE ~\E h \in hosts[e] : a = AssetOf(e, h)
    <3>1. flag'[a] = flag[a]
      BY <2>1, <2>4 DEF WriteFlags
    <3> QED
      BY <2>2, <3>1 DEF SynchronizedWasFound
  <2> QED
    BY <2>3, <2>4
<1>2. CASE \A e \in Executions : ~WriteFlags(e)
  <2>1. flag' = flag
    BY <1>2 DEF Next, vars, tables, HostsKept, NucleiAnswers, NucleiFails, LookUp, KeepFindings,
           FinishNuclei, LoseFindings, Handled, StartZabbix, Ask, ZabbixFails, Finish, Raises,
           Interrupted, Recovered
  <2>2. \A e \in Executions : linked[e] \subseteq linked'[e]
    BY <1>2 DEF Next, vars, HostsKept, NucleiAnswers, NucleiFails, LookUp, KeepFindings,
           FinishNuclei, LoseFindings, StartZabbix, Ask, ZabbixFails, Finish, Raises, Interrupted,
           Recovered
  <2> QED
    BY <2>1, <2>2 DEF SynchronizedWasFound
<1> QED
    BY <1>1, <1>2

\* A flag says synchronized only for a host its writer found in Zabbix: what Zabbix
\* said of a host is not taken back, and the writer names itself.
THEOREM SynchronizedIsFound == Spec => []SynchronizedWasFound
<1> DEFINE Writers == \A a \in Assets : flag[a].status = "synchronized" => flag[a].by \in Executions
<1>1. Init => SynchronizedWasFound /\ Writers
    BY DEF Init, SynchronizedWasFound
<1>2. RowsOK /\ SynchronizedWasFound /\ Writers /\ [Next]_vars => (SynchronizedWasFound /\ Writers)'
    BY FlagStep
<1> QED
    BY <1>1, <1>2, RowsAlways, PTL DEF Spec

----------------------------------------------------------------------------
(* Refusals.                                                               *)

\* RefusedForCause, for any ranges: what both were told is of an address the ranges share,
\* or they are one.
RefusedForTold ==
    \A e \in Executions :
        nuclei[e] = "failed" /\ answer[e] # {} =>
            \/ error[e] = "fault"
            \/ repeated[e] # {}
            \/ \E d \in Executions \ {e} : \E o \in answer[d] \intersect answer[e] :
                  Private(HostOf(o)) => RangeOf[d] = RangeOf[e]

\* Without a fault an engine run fails with an answer in hand only by LoseFindings: then the
\* row that was missing at the lookup is another execution's, whose answer stays what it is.
LEMMA RefusedStep ==
    ASSUME RowsOK, OwnerInvariant, ScopeInvariant, RefusedForTold, [Next]_vars
    PROVE  RefusedForTold'
<1> USE DEF RowsOK, TypeOK
<1> DEFINE Told(d, e) == \E o \in answer[d] \intersect answer[e] :
                             Private(HostOf(o)) => RangeOf[d] = RangeOf[e]
<1> SUFFICES ASSUME NEW e \in Executions, nuclei'[e] = "failed", answer'[e] # {},
                    error'[e] # "fault"
             PROVE  repeated'[e] # {} \/ \E d \in Executions \ {e} : Told(d, e)'
    BY DEF RefusedForTold, Private
<1>1. /\ answer'[e] = answer[e] /\ repeated'[e] = repeated[e]
      /\ nuclei[e] = "failed" => error[e] # "fault"
      /\ nuclei[e] # "failed" => LoseFindings(e)
    BY DEF Next, vars, tables, answers, Go, HostsKept, NucleiAnswers, NucleiFails, LookUp,
           KeepFindings, FinishNuclei, LoseFindings, Handled, Ended, StartZabbix, Ask, ZabbixFails,
           WriteFlags, Finish, Raises, Interrupted, Recovered, StageInvariant, Outcomes
<1>2. ASSUME NEW d \in Executions, answer[d] # {} PROVE answer'[d] = answer[d]
    BY <1>2 DEF Next, vars, answers, HostsKept, NucleiAnswers, NucleiFails, LookUp,
           KeepFindings, FinishNuclei, LoseFindings, StartZabbix, Ask, ZabbixFails, WriteFlags,
           Finish, Raises, Interrupted, Recovered, StageInvariant
<1>3. repeated[e] # {} \/ \E d \in Executions \ {e} : Told(d, e)
  <2>1. CASE nuclei[e] = "failed"
    BY <1>1, <2>1 DEF RefusedForTold
  <2>2. CASE nuclei[e] # "failed"
    <3>1. LoseFindings(e)
      BY <1>1, <2>2
    <3>2. PICK o \in missing[e] : o \in repeated[e] \/ ~NoRow(o)
      BY <3>1 DEF LoseFindings, Clash
    <3>3. CASE ~NoRow(o)
      <4> DEFINE d == findings[o].by
      <4>1. o \in Observations /\ o \in answer[e]
        BY DEF StageInvariant
      <4>2. d \in Executions /\ MayHaveKept(d) /\ o \in answer[d]
        BY <3>3, <4>1, FingerprintIsObservation DEF OwnerInvariant, NoRow, Fingerprint, Findings
      <4>3. ~MayHaveKept(e)
        BY <3>1 DEF LoseFindings, StageInvariant, MayHaveKept
      <4>4. Private(HostOf(o)) => RangeOf[d] = RangeOf[e]
        BY <4>1, <4>2, PrivateAddress DEF ScopeInvariant
      <4>5. d # e
        BY <4>2, <4>3
      <4> QED
        BY <4>1, <4>2, <4>4, <4>5
    <3> QED
      BY <3>2, <3>3
  <2> QED
    BY <2>1, <2>2
<1> QED
    BY <1>1, <1>2, <1>3

\* For any ranges: without a fault of the database or of the worker, an answer is refused
\* only for what was said twice or told to another execution too; of another range, only at
\* an address the ranges share.
THEOREM RefusedUnlessTold == Spec => []RefusedForTold
<1>1. Init => RefusedForTold
    BY DEF Init, RefusedForTold
<1>2. RowsOK /\ OwnerInvariant /\ ScopeInvariant /\ RefusedForTold /\ [Next]_vars
          => RefusedForTold'
    BY RefusedStep
<1> QED
    BY <1>1, <1>2, RowsAlways, OwnerAlways, ScopeAlways, PTL DEF Spec

\* With disjoint scopes no other range's rows get in its way.
THEOREM RefusalsHaveCause == DisjointScopes /\ Spec => []RefusedForCause
<1> SUFFICES ASSUME DisjointScopes PROVE Spec => []RefusedForCause
    OBVIOUS
<1>1. RefusedForTold => RefusedForCause
    BY DisjointIsPrivate DEF RefusedForTold, RefusedForCause
<1> QED
    BY <1>1, RefusedUnlessTold, PTL
=============================================================================
