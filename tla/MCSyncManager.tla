--------------------------- MODULE MCSyncManager ---------------------------
(* Small instances of SyncManager for TLC.                                 *)
EXTENDS SyncManager

TwoDataRuns == [r \in Run |-> "data"]
InfoAndData(infos) == [r \in Run |-> IF r = infos THEN "infos" ELSE "data"]

CONSTANTS manual, timer
MixedKinds == InfoAndData(manual)

Tight == [queue |-> 1, connections |-> 2]     \* as many connections as runs
Roomy == [queue |-> 4, connections |-> 3]     \* both runs' batches, and one connection more
TightAndRoomy == {Tight, Roomy}
OnlyRoomyPool == {[Tight EXCEPT !.connections = 3]}
=============================================================================
