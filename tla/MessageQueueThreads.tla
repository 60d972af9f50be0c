------------------------ MODULE MessageQueueThreads -------------------------
(***************************************************************************)
(* Message queues used by several threads at once: they construct, move    *)
(* and destroy the objects, push, pop and set listeners in any order.      *)
(* enqueue is two steps: new_message reads _id without the lock, push      *)
(* takes it, and the object may be moved in between.                       *)
(***************************************************************************)
EXTENDS MessageQueue, FiniteSets

CONSTANTS
  Qids,         \* the queue IDs that may be given to a new queue, once each
  Threads,      \* the threads that enqueue
  MaxMessages   \* bound: how many messages are created

ASSUME QidsAssumption ==
  Qids \subseteq Nat /\ undefined_qid \in Nat /\ undefined_qid \notin Qids
ASSUME NullptrAssumption == nullptr \notin Listeners
ASSUME MaxMessagesAssumption == MaxMessages \in Nat

VARIABLES
  used,      \* the IDs that have been given to a queue
  held,      \* what each thread is about to push: at most one call of enqueue
  created,   \* how many messages have been created, the latest one's number
  accepted,  \* history: the messages that push accepted for each ID
  taken      \* history: the messages of each ID that pop returned

history == <<accepted, taken>>
vars == <<mqvars, used, held, created, history>>

Init ==
  /\ MQInit
  /\ used = {}
  /\ held = [t \in Threads |-> {}]
  /\ created = 0
  /\ accepted = [q \in Qids |-> <<>>]
  /\ taken = [q \in Qids |-> <<>>]

Construct(o, q) ==
  /\ q \notin used
  /\ construct(o, q)
  /\ used' = used \cup {q}
  /\ UNCHANGED <<held, created, history>>

MoveConstruct(n, o) == move_construct(n, o) /\ UNCHANGED <<used, held, created, history>>
MoveAssign(d, o) == move_assign(d, o) /\ UNCHANGED <<used, held, created, history>>

\* No thread may be inside a call on an object that is destroyed.
Destroy(o) ==
  /\ \A t \in Threads : \A c \in held[t] : c.object # o
  /\ destroy(o)
  /\ UNCHANGED <<used, held, created, history>>

\* new_message, with the ID that get_qid reads without the lock.
NewMessage(t, o) ==
  /\ o \in alive /\ held[t] = {} /\ created < MaxMessages
  /\ created' = created + 1
  /\ held' = [held EXCEPT ![t] = {[object |-> o, msg |-> message(id[o], created + 1)]}]
  /\ UNCHANGED <<mqvars, used, history>>

Push(t) ==
  \E c \in held[t] :
    /\ push(c.object, c.msg)
    /\ held' = [held EXCEPT ![t] = {}]
    /\ accepted' = IF accepts(c.object, c.msg)
                   THEN [accepted EXCEPT ![c.msg.qid] = Append(@, c.msg)] ELSE accepted
    /\ UNCHANGED <<used, created, taken>>

Pop(o) ==
  /\ o \in alive
  /\ pop(o)
  /\ taken' = IF has_message(o)
              THEN [taken EXCEPT ![Head(queue[o]).qid] = Append(@, Head(queue[o]))] ELSE taken
  /\ UNCHANGED <<used, held, created, accepted>>

SetListener(o, l) ==
  o \in alive /\ set_listener(o, l) /\ UNCHANGED <<used, held, created, history>>
ClearListener(o) ==
  o \in alive /\ clear_listener(o) /\ UNCHANGED <<used, held, created, history>>

Next ==
  \/ \E o \in Objects, q \in Qids : Construct(o, q)
  \/ \E o, p \in Objects : MoveConstruct(o, p) \/ MoveAssign(o, p)
  \/ \E o \in Objects : Destroy(o) \/ Pop(o) \/ ClearListener(o)
  \/ \E t \in Threads, o \in Objects : NewMessage(t, o)
  \/ \E t \in Threads : Push(t)
  \/ \E o \in Objects, l \in Listeners : SetListener(o, l)

Spec == Init /\ [][Next]_vars
-----------------------------------------------------------------------------
AnyQid == Qids \cup {undefined_qid}
Messages == [qid : AnyQid, mid : Nat]

\* The queues hold messages, the lists of the listeners are lists of records.
TypeOK ==
  /\ MQTypeOK(AnyQid, Messages)
  /\ used \subseteq Qids
  /\ held \in [Threads -> SUBSET [object : Objects, msg : Messages]]
  /\ created \in Nat
  /\ accepted \in [Qids -> Seq(Messages)]
  /\ taken \in [Qids -> Seq(Messages)]

\* An ID belongs to one object at most, however often it is moved: two queues
\* never accept messages for the same ID.
UniqueQid ==
  \A o, p \in Objects : o # p /\ id[o] # undefined_qid => id[o] # id[p]

\* A queue holds messages of its own ID only. In particular a queue that was
\* moved out of is empty, and no message is out of the reach of pop.
OwnMessages ==
  \A o \in Objects : \A i \in 1 .. Len(queue[o]) :
    id[o] # undefined_qid /\ queue[o][i].qid = id[o]

\* No message of a queue is lost, duplicated or reordered while some object
\* has its ID: what was popped and what is queued is what push accepted, in
\* that order, across any number of moves.
NothingLost ==
  \A o \in Objects : id[o] # undefined_qid =>
    accepted[id[o]] = taken[id[o]] \o queue[o]

\* What was popped is an initial part of what push accepted, even when the
\* queue was destroyed or assigned over with messages in it.
TakenInOrder == \A q \in Qids : IsPrefix(taken[q], accepted[q])

\* A listener of a queue that holds messages has been told that it has data,
\* although only the push onto an empty queue is reported.
DataReported ==
  \A o \in Objects : listener[o] # nullptr /\ queue[o] # <<>> =>
    "data" \in flags_of(notifications[listener[o]], id[o])

\* A queue with a listener is never moved or destroyed without the listener
\* being told, under the ID that it knows the queue by, and let go.
DepartureReported ==
  [][\A o \in Objects :
       listener[o] # nullptr /\ (o \notin alive' \/ id'[o] # id[o]) =>
         /\ listener'[o] = nullptr
         /\ flags_of(notifications'[listener[o]], id[o]) \cap {"detached", "closed"} # {}]_vars

\* The objects, between which queues and IDs are moved, implement channels: the
\* one of an ID is the queue of the object that has it, which is one at most.
state_of(ids, given) == [q \in Qids |->
  IF \E o \in Objects : ids[o] = q THEN "open" ELSE IF q \in given THEN "closed" ELSE "unused"]
channel_of(ids, queues) == [q \in Qids |->
  IF \E o \in Objects : ids[o] = q THEN queues[CHOOSE o \in Objects : ids[o] = q] ELSE <<>>]
C == INSTANCE Channels WITH
  Messages <- [qid : Qids, mid : 1 .. MaxMessages],
  state <- state_of(id, used), channel <- channel_of(id, queue)
ImplementsChannels == C!Spec
=============================================================================
