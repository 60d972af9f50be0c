--------------------------- MODULE ReportedFlags ----------------------------
(***************************************************************************)
(* What a listener of message queues promises, without the sorted vector:  *)
(* it remembers, for each queue ID, which flags have been reported.        *)
(***************************************************************************)
EXTENDS Naturals

CONSTANT Qids

VARIABLES
  told,     \* what the listener is notified of: pairs of a queue ID and a flag
  reported  \* the flags that it reports for each queue ID

flagvars == <<told, reported>>

Init == told = {} /\ reported = [q \in Qids |-> {}]

\* One notification adds its flag to those of its queue, and changes nothing else.
Report(q, flag) ==
  /\ told' = told \cup {<<q, flag>>}
  /\ reported' = [reported EXCEPT ![q] = @ \cup {flag}]

Next == \E q \in Qids, flag \in {"data", "detached", "closed"} : Report(q, flag)

Spec == Init /\ [][Next]_flagvars
=============================================================================
