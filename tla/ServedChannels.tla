--------------------------- MODULE ServedChannels ---------------------------
(***************************************************************************)
(* What a pool of message queues promises: channels whose messages are     *)
(* given to handlers, one message at a time, and a channel that is closed  *)
(* only when its handler does not run, so that its owner may then destroy  *)
(* what the handler uses.                                                  *)
(***************************************************************************)
EXTENDS Sequences

CONSTANTS
  Qids,     \* the IDs of the channels
  Messages  \* the messages, each with the ID of its channel in the field qid

VARIABLES
  state,    \* is each channel "unused", "open" or "closed"?
  channel,  \* the messages in each channel
  serving   \* the message in a handler, or none

Channel == INSTANCE Channels

Init == Channel!Init /\ serving = {}

Open(q) == Channel!Open(q) /\ UNCHANGED serving
Send(m) == Channel!Send(m) /\ UNCHANGED serving

\* A handler is called when no other handler runs.
Serve(q) ==
  /\ serving = {} /\ state[q] = "open"
  /\ Channel!Receive(q)
  /\ serving' = {Head(channel[q])}

Return == serving # {} /\ serving' = {} /\ UNCHANGED <<state, channel>>

Close(q) ==
  /\ \A m \in serving : m.qid # q
  /\ Channel!Close(q) /\ UNCHANGED serving

Next ==
  \/ \E q \in Qids : Open(q) \/ Serve(q) \/ Close(q)
  \/ \E m \in Messages : Send(m)
  \/ Return

Spec == Init /\ [][Next]_<<state, channel, serving>>
=============================================================================
