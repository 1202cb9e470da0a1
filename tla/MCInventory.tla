----------------------------- MODULE MCInventory -----------------------------
(***************************************************************************)
(* Small instances of Inventory: profiles that differ in their ports.      *)
(***************************************************************************)
EXTENDS Inventory, TLC

CONSTANTS h1, h2, t22, t80, u161, e1, e2, e3

OneHost == {h1}
TwoHosts == {h1, h2}
OneTcp == {t22}
TwoTcp == {t22, t80}
NoUdp == {}
OneUdp == {u161}
TwoExecutions == {e1, e2}
ThreeExecutions == {e1, e2, e3}
OnlyFirst == {e1}
FirstTwo == {e1, e2}
Nobody == {}

\* The first two profiles list every port, the third one TCP 80 and the UDP ports.
FullProfiles == [e \in Executions |-> Keys]
PartialProfile == [e \in Executions |-> IF e = e3 THEN {t80} \union UdpKeys ELSE Keys]
=============================================================================
