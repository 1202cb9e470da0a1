------------------------------ MODULE MCRunsPage ------------------------------
(* Instances of RunsPage for TLC.                                          *)
EXTENDS RunsPage, TLC

CONSTANTS a, b, s1, s2

TwoExecutions == {a, b}
\* One execution waits; the other one, if there is one, is over.
Waiting == {[e \in Executions |-> IF e = a THEN "queued" ELSE "finished"]}
OneExecution == {a}
\* The one execution runs already.
Running == {[e \in Executions |-> "running"]}
OneSlot == {s1}
TwoSlots == {s1, s2}
=============================================================================
