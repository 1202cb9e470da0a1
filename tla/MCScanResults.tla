---------------------------- MODULE MCScanResults ----------------------------
(* Instances of ScanResults for TLC.                                       *)
EXTENDS ScanResults, TLC

CONSTANTS r1, r2, h1, h2, h3, t1, e1, e2, e3

TwoRanges == {r1, r2}
ThreeHosts == {h1, h2, h3}
OneTemplate == {t1}
OfTwoRanges == {e1, e2, e3}

\* Two executions of the first range, one of the second.
RangesOf == [e \in Executions |-> IF e = e3 THEN r2 ELSE r1]
Disjoint == [r \in Ranges |-> IF r = r1 THEN {h1, h2} ELSE {h3}]
\* Only the first one's schedule asks for Zabbix.
Asks == [e \in Executions |-> IF e = e1 THEN {"nuclei", "zabbix"} ELSE {"nuclei"}]
\* Bound: any two of them run, of one range or of both; the third one has not begun.
TwoOverlap == Cardinality({e \in Executions : at[e] # "nmap"}) <= 2

HostSymmetry == Permutations({h1, h2})

\* Two ranges with a common address.
Shared == [r \in Ranges |-> IF r = r1 THEN {h1, h2} ELSE {h2, h3}]
=============================================================================
