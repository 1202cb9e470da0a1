------------------------------ MODULE ScanQueue ------------------------------
(***************************************************************************)
(* What the queue of executions promises, whatever fails in between: an    *)
(* execution that was queued is handed to at most one worker, once, and    *)
(* leaves the queue for good; a settled execution is never run again.      *)
(* ScanExecutions implements it.                                           *)
(***************************************************************************)
EXTENDS Naturals

CONSTANTS
    MaxExecutions,      \* bound: executions ever queued
    Workers             \* the worker processes

Executions == 1..MaxExecutions

VARIABLES
    phase,              \* where each execution stands
    holders             \* the workers that run it

vars == <<phase, holders>>

Init ==
    /\ phase = [e \in Executions |-> "new"]
    /\ holders = [e \in Executions |-> {}]

Submit(e) ==
    /\ phase[e] = "new"
    /\ phase' = [phase EXCEPT ![e] = "waiting"]
    /\ UNCHANGED holders

\* The operator withdraws an execution nobody took.
Withdraw(e) ==
    /\ phase[e] = "waiting"
    /\ phase' = [phase EXCEPT ![e] = "settled"]
    /\ UNCHANGED holders

Take(w, e) ==
    /\ phase[e] = "waiting"
    /\ phase' = [phase EXCEPT ![e] = "taken"]
    /\ holders' = [holders EXCEPT ![e] = {w}]

\* Taken executions are settled, by their holder or by somebody else.
Settle(E) ==
    /\ E # {}
    /\ \A e \in E : phase[e] = "taken"
    /\ phase' = [e \in Executions |-> IF e \in E THEN "settled" ELSE phase[e]]
    /\ UNCHANGED holders

\* A worker lets go of what it holds: done, failed or dead.
Leave(w, e) ==
    /\ w \in holders[e]
    /\ holders' = [holders EXCEPT ![e] = @ \ {w}]
    /\ phase' = phase \/ (phase[e] = "taken" /\ phase' = [phase EXCEPT ![e] = "settled"])

Next ==
    \/ \E e \in Executions : Submit(e) \/ Withdraw(e)
    \/ \E w \in Workers, e \in Executions : Take(w, e) \/ Leave(w, e)
    \/ \E E \in SUBSET Executions : Settle(E)

Spec == Init /\ [][Next]_vars
=============================================================================
