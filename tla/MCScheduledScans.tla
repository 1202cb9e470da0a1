-------------------------- MODULE MCScheduledScans --------------------------
(* Instances of ScheduledScans for TLC.                                    *)
EXTENDS ScheduledScans, TLC

CONSTANTS s1, s2, p1, p2, r1, r2

OneSchedule == {s1}
TwoSchedules == {s1, s2}
OneScheduler == {p1}
TwoSchedulers == {p1, p2}
OneRequest == {r1}
TwoRequests == {r1, r2}

\* Every second hour.
EveryTwo == [t \in Times |-> 2 * (t \div 2 + 1)]
=============================================================================
