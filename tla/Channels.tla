------------------------------ MODULE Channels ------------------------------
(***************************************************************************)
(* What message queues promise, whatever objects hold them: under each ID  *)
(* there is one channel, which is opened once, delivers the messages that  *)
(* are sent to it in their order, each once, and is closed for good, with  *)
(* the messages that are left in it.                                       *)
(***************************************************************************)
EXTENDS Sequences

CONSTANTS
  Qids,     \* the IDs of the channels
  Messages  \* the messages, each with the ID of its channel in the field qid

VARIABLES
  state,   \* is each channel "unused", "open" or "closed"?
  channel  \* the messages in each channel

Init ==
  /\ state = [q \in Qids |-> "unused"]
  /\ channel = [q \in Qids |-> <<>>]

Open(q) ==
  /\ state[q] = "unused" /\ state' = [state EXCEPT ![q] = "open"]
  /\ UNCHANGED channel

Send(m) ==
  /\ state[m.qid] = "open"
  /\ channel' = [channel EXCEPT ![m.qid] = Append(@, m)]
  /\ UNCHANGED state

Receive(q) ==
  /\ channel[q] # <<>>
  /\ channel' = [channel EXCEPT ![q] = Tail(@)]
  /\ UNCHANGED state

Close(q) ==
  /\ state[q] = "open" /\ state' = [state EXCEPT ![q] = "closed"]
  /\ channel' = [channel EXCEPT ![q] = <<>>]

Next ==
  \/ \E q \in Qids : Open(q) \/ Receive(q) \/ Close(q)
  \/ \E m \in Messages : Send(m)

Spec == Init /\ [][Next]_<<state, channel>>
=============================================================================
