---------------------------- MODULE PollListener ----------------------------
(***************************************************************************)
(* One message_queue_poll_listener (src/mqmx/message_queue_poll.h) that    *)
(* queues notify from any thread, in any order, and its refinement of the  *)
(* abstract listener: a map from queue IDs to the flags reported so far.   *)
(***************************************************************************)
EXTENDS NotificationList

CONSTANTS
  Qids,     \* the queue IDs that occur, undefined_qid among them
  Pointers  \* the message_queue pointers that occur, nullptr among them

ASSUME QidsAssumption == Qids \subseteq Nat

VARIABLES
  list,  \* _notifications
  told   \* history: the IDs and flags that the listener was notified of

vars == <<list, told>>

Init == list = <<>> /\ told = {}

\* message_queue_poll_listener::notify, called with the listener unlocked.
notify(q, mq, flag) ==
  /\ list' = notified(list, q, mq, flag)
  /\ told' = told \cup {<<q, flag>>}

Next == \E q \in Qids, mq \in Pointers, flag \in notification_flag : notify(q, mq, flag)

Spec == Init /\ [][Next]_vars
-----------------------------------------------------------------------------
\* The list holds notification records of these queues.
TypeOK ==
  /\ list \in Seq(notification_rec_type(Qids, Pointers))
  /\ told \subseteq Qids \X notification_flag

\* The records are in strictly ascending order of queue ID whatever the order
\* of the notifications, so that std::upper_bound may be used on the list, a
\* queue has one record, and the control queue of a pool (ID 0) is in front.
ListAscending == Ascending(list)

\* A record keeps its queue ID and pointer and never loses a flag: what has
\* been reported to a listener stays reported until it is destroyed.
RecordsKept ==
  [][\A i \in 1 .. Len(list) : \E j \in 1 .. Len(list') :
        /\ list'[j].qid = list[i].qid
        /\ list'[j].mq = list[i].mq
        /\ list[i].flags \subseteq list'[j].flags]_vars

\* The list is, for every queue ID, the set of flags reported for it: notify
\* implements the abstract listener.
Reported == INSTANCE ReportedFlags WITH reported <- [q \in Qids |-> flags_of(list, q)]
ImplementsReportedFlags == Reported!Spec
=============================================================================
