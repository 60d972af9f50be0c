------------------------- MODULE MCMessageQueuePool -------------------------
(* Small sets of clients and queues for MessageQueuePool. *)
EXTENDS MessageQueuePool
MCListeners == Clients \cup {worker}
MCSymmetry == Permutations(Clients) \cup Permutations(Objects \ {control})
=============================================================================
