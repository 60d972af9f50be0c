------------------------- MODULE MCMessageQueuePoll -------------------------
(* Two or three queues and one or two pollers for MessageQueuePollThreads. *)
EXTENDS MessageQueuePollThreads
CONSTANTS a, b, c
MCQidOf == [o \in Objects |-> CASE o = a -> 0 [] o = b -> 1 [] OTHER -> 2]
Both == {<<a, b>>}
AllWaits == {WAIT_INFINITELY, no_wait, wait_for(1), wait_until(2)}
Infinite == {WAIT_INFINITELY}
=============================================================================
