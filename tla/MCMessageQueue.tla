--------------------------- MODULE MCMessageQueue ---------------------------
(* Small sets of objects, threads and messages for MessageQueueThreads. *)
EXTENDS MessageQueueThreads
MCQids == {0, 1}
MCSymmetry == Permutations(Objects) \cup Permutations(Threads)
=============================================================================
