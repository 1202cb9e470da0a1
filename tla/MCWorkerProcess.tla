-------------------------- MODULE MCWorkerProcess --------------------------
(* Instances of WorkerProcess for TLC.                                     *)
EXTENDS WorkerProcess, TLC

CONSTANTS ssh, web, snmp

OneTcp == {ssh}
TwoTcp == {ssh, web}
OneUdp == {snmp}
NoUdp == {}
=============================================================================
