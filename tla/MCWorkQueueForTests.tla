------------------------- MODULE MCWorkQueueForTests -------------------------
(* One client next to the thread that forwards the time. *)
EXTENDS WorkQueueForTests
MCPeriods == {RUN_ONCE, 1}
=============================================================================
