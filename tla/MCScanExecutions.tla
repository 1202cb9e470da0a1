-------------------------- MODULE MCScanExecutions --------------------------
(* Instances of ScanExecutions for TLC.                                    *)
EXTENDS ScanExecutions, TLC

CONSTANTS w1, w2

TwoWorkers == {w1, w2}
OneWorker == {w1}
WorkerSymmetry == Permutations({w1, w2})

NmapOnly == {{}}
NmapMaybeZabbix == {{}, {"zabbix"}}
NucleiOnly == {{"nuclei"}}
NmapOrThree == {{}, {"nuclei", "zabbix"}}

Faultless == [crash |-> 0, signal |-> 0, database |-> 0]
OneSignal == [crash |-> 0, signal |-> 1, database |-> 0]
CrashAndDatabase == [crash |-> 1, signal |-> 0, database |-> 1]
OneOfEach == [crash |-> 1, signal |-> 1, database |-> 1]
DatabaseOutage == [crash |-> 0, signal |-> 0, database |-> 2]
=============================================================================
