--------------------------- MODULE MCWorkloadQueue ---------------------------
(* Small instances of the workload queue for TLC.                          *)
EXTENDS WorkloadQueue

TwoRequests == {1, 2}
=============================================================================
