-------------------------- MODULE NotificationList --------------------------
(***************************************************************************)
(* The vector of notification records that a message_queue_poll_listener   *)
(* keeps (src/mqmx/message_queue_poll.h, .cpp), as operators on sequences: *)
(* the records, std::upper_bound over them and the update that notify      *)
(* makes under the listener's mutex.                                       *)
(***************************************************************************)
EXTENDS Naturals, SequencesExt

\* message_queue::notification_flag; a word of flags is the set of its bits.
notification_flag == {"data", "detached", "closed"}

\* message_queue_poll_listener::notification_rec_type: the records of the queue
\* IDs Q and the pointers P. The word of flags of a record is never zero.
notification_rec_type(Q, P) == [qid : Q, mq : P, flags : (SUBSET notification_flag) \ {{}}]

\* Fault: the flag is not put into the new record.
notification_rec_without_flag(q, mq, flag) == [qid |-> q, mq |-> mq, flags |-> {}]

notification_rec(q, mq, flag) == [qid |-> q, mq |-> mq, flags |-> {flag}]

\* Fault: records are pushed back.
end_of_list(list, q) == Len(list) + 1

\* std::upper_bound with notification_rec_type::operator <, which compares
\* queue IDs only: the position of the first record with a greater ID.
upper_bound(list, q) ==
  CHOOSE i \in 1 .. Len(list) + 1 :
    /\ \A j \in 1 .. i - 1 : list[j].qid <= q
    /\ i <= Len(list) => q < list[i].qid

\* Fault: the record before the position is not compared with the queue ID.
has_any_record(list, i, q) == i > 1

\* Does the record before position i belong to queue q already?
has_record(list, i, q) == i > 1 /\ list[i - 1].qid = q

\* Fault: the new flag replaces the flags of the record.
notified_latest(list, q, mq, flag) ==
  LET i == upper_bound(list, q)
  IN  IF has_record(list, i, q)
      THEN [list EXCEPT ![i - 1].flags = {flag}]
      ELSE InsertAt(list, i, notification_rec(q, mq, flag))

\* What message_queue_poll_listener::notify leaves in _notifications.
notified(list, q, mq, flag) ==
  LET i == upper_bound(list, q)
  IN  IF has_record(list, i, q)
      THEN [list EXCEPT ![i - 1].flags = @ \cup {flag}]
      ELSE InsertAt(list, i, notification_rec(q, mq, flag))

\* "Stores all notifications as a list (vector) in ascending order of
\* message queue ID": strictly ascending, so one record for each queue.
Ascending(list) == \A i, j \in 1 .. Len(list) : i < j => list[i].qid < list[j].qid

\* The flags recorded for queue q, {} if it has no record.
flags_of(list, q) ==
  UNION {list[i].flags : i \in {j \in 1 .. Len(list) : list[j].qid = q}}
=============================================================================
