---------------------------- MODULE MessageQueue ----------------------------
(***************************************************************************)
(* The class message_queue (src/mqmx/message_queue.h, .cpp) and the        *)
(* message_queue_poll_listener objects that queues notify: the state of    *)
(* every object and one operator for every method.  A method holds the     *)
(* queue's _mutex from its first access to its last, and takes the         *)
(* listener's _mutex inside it, so each is one step.                       *)
(***************************************************************************)
EXTENDS NotificationList

CONSTANTS
  Objects,        \* addresses of message_queue objects
  Listeners,      \* addresses of message_queue_poll_listener objects
  undefined_qid,  \* message::undefined_qid, the greatest queue_id_type
  nullptr

VARIABLES
  alive,          \* the objects between construction and destruction
  id,             \* _id of each object
  queue,          \* _queue of each object
  listener,       \* _listener of each object
  notifications,  \* _notifications of each listener
  asleep          \* listeners whose thread is blocked in _condition

mqvars == <<alive, id, queue, listener, notifications, asleep>>

message(q, m) == [qid |-> q, mid |-> m]

\* message_queue_poll_listener::notify on listener l, as a function of all
\* the lists; nullptr is the check of _listener that comes before each call.
notify(lists, l, q, mq, flag) ==
  IF l = nullptr THEN lists ELSE [lists EXCEPT ![l] = notified(@, q, mq, flag)]

\* The listener l is told about object o, and its thread is woken up by
\* _condition.notify_one.
tell(l, o, mq, flag) ==
  /\ notifications' = notify(notifications, l, id[o], mq, flag)
  /\ asleep' = asleep \ {l}

\* The types of the members, for the queue IDs Q (undefined_qid is one of
\* them) and the messages M. A dead object's address holds default values.
MQTypeOK(Q, M) ==
  /\ alive \subseteq Objects
  /\ id \in [Objects -> Q]
  /\ queue \in [Objects -> Seq(M)]
  /\ listener \in [Objects -> Listeners \cup {nullptr}]
  /\ notifications \in [Listeners -> Seq(notification_rec_type(Q, Objects \cup {nullptr}))]
  /\ asleep \subseteq Listeners

\* The list of every listener is in strictly ascending order of queue ID.
MQListsAscending == \A l \in Listeners : Ascending(notifications[l])

MQInit ==
  /\ alive = {}
  /\ id = [o \in Objects |-> undefined_qid]
  /\ queue = [o \in Objects |-> <<>>]
  /\ listener = [o \in Objects |-> nullptr]
  /\ notifications = [l \in Listeners |-> <<>>]
  /\ asleep = {}
-----------------------------------------------------------------------------
\* message_queue (ID)
construct(o, q) ==
  /\ o \notin alive
  /\ alive' = alive \cup {o}
  /\ id' = [id EXCEPT ![o] = q]
  /\ UNCHANGED <<queue, listener, notifications, asleep>>

\* std::swap (_id, o._id) by an object n whose ID is undefined.
copy_id(n, o) == [id EXCEPT ![n] = id[o]]  \* fault: the ID is not given up
move_id(n, o) == [id EXCEPT ![n] = id[o], ![o] = undefined_qid]

\* _queue.clear () and std::swap (_queue, o._queue).
clear_queues(n, o) == [queue EXCEPT ![n] = <<>>, ![o] = <<>>]  \* fault: no swap
move_queue(n, o) == [queue EXCEPT ![n] = queue[o], ![o] = <<>>]

\* Both objects are left without a listener.
move_listener(n, o) ==  \* fault: the listener is moved like the other members
  [listener EXCEPT ![n] = listener[o], ![o] = nullptr]
drop_listeners(n, o) == [listener EXCEPT ![n] = nullptr, ![o] = nullptr]

\* The listeners of the destination, if it has one, and of the source are told
\* under the ID that each of them knows.
tell_source(n, o) ==  \* fault: the listener of the destination is not told
  notify(notifications, listener[o], id[o], o, "detached")
tell_both(n, o) ==
  notify(notify(notifications, listener[n], id[n], n, "detached"),
         listener[o], id[o], o, "detached")

\* What the move constructor and the move assignment have in common.
move(n, o) ==
  /\ id' = move_id(n, o)
  /\ queue' = move_queue(n, o)
  /\ listener' = drop_listeners(n, o)
  /\ notifications' = tell_both(n, o)
  /\ asleep' = asleep \ {listener[n], listener[o]}

\* message_queue (message_queue && o) at address n, where no listener is.
move_construct(n, o) ==
  /\ n \notin alive /\ o \in alive
  /\ alive' = alive \cup {n}
  /\ move(n, o)

\* operator = (message_queue && o) of d. std::lock takes both mutexes at once.
move_assign(d, o) ==
  /\ d \in alive /\ o \in alive /\ d # o
  /\ move(d, o)
  /\ UNCHANGED alive

\* ~message_queue (), which takes no lock.
destroy(o) ==
  /\ o \in alive
  /\ alive' = alive \ {o}
  /\ id' = [id EXCEPT ![o] = undefined_qid]
  /\ queue' = [queue EXCEPT ![o] = <<>>]
  /\ listener' = [listener EXCEPT ![o] = nullptr]
  /\ tell(listener[o], o, nullptr, "closed")

\* push returns Success, and not NotSupported.
accepts_any(o, m) == id[o] # undefined_qid  \* fault: the ID is not compared
accepts(o, m) == id[o] # undefined_qid /\ id[o] = m.qid

\* Does a push of one more message onto the queue s tell the listener?
first_message(s) == s = <<>>

push_front(s, m) == <<m>> \o s  \* fault: messages are put in front
push_back(s, m) == Append(s, m)

push(o, m) ==
  \/ /\ accepts(o, m)
     /\ queue' = [queue EXCEPT ![o] = push_back(@, m)]
     /\ IF first_message(queue[o])
        THEN tell(listener[o], o, o, "data")
        ELSE UNCHANGED <<notifications, asleep>>
     /\ UNCHANGED <<alive, id, listener>>
  \/ ~accepts(o, m) /\ UNCHANGED mqvars

\* pop returns a message, and not a null pointer.
has_message(o) == id[o] # undefined_qid /\ queue[o] # <<>>

\* The message that pop returns is Head(queue[o]).
pop(o) ==
  /\ queue' = IF has_message(o) THEN [queue EXCEPT ![o] = Tail(@)] ELSE queue
  /\ UNCHANGED <<alive, id, listener, notifications, asleep>>

\* Are there messages to report to a new listener?
never_reports(o) == FALSE  \* fault: the messages that are waiting are not reported
always_reports(o) == TRUE  \* fault: data is reported although no message is waiting
reports(o) == queue[o] # <<>>

\* set_listener returns Success and reports the messages that are waiting, or
\* returns AlreadyExist and changes nothing.
set_listener(o, l) ==
  \/ /\ listener[o] = nullptr
     /\ listener' = [listener EXCEPT ![o] = l]
     /\ IF reports(o) THEN tell(l, o, o, "data") ELSE UNCHANGED <<notifications, asleep>>
     /\ UNCHANGED <<alive, id, queue>>
  \/ listener[o] # nullptr /\ UNCHANGED mqvars

clear_listener(o) ==
  /\ listener' = [listener EXCEPT ![o] = nullptr]
  /\ UNCHANGED <<alive, id, queue, notifications, asleep>>
=============================================================================
