----------------------------- MODULE MCWorkQueue -----------------------------
(* Two clients, a few points in time and one period for WorkQueueThreads. *)
EXTENDS WorkQueueThreads, TLC
MCPeriods == {RUN_ONCE, 1}
MCSymmetry == Permutations(Clients)
=============================================================================
