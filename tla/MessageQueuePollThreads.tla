---------------------- MODULE MessageQueuePollThreads -----------------------
(***************************************************************************)
(* Threads that poll message queues while other threads push to the queues *)
(* and move them.  The thread that polled pops every queue that its result *)
(* reports to have data, and polls again.                                  *)
(***************************************************************************)
EXTENDS MessageQueuePoll

CONSTANTS
  Ranges,       \* the ranges of queues that may be polled
  Waits,        \* the wait_time_provider objects that are used
  QidOf,        \* the ID that each object has at first
  MaxMoves,     \* bound: how many times queues are moved
  MaxMessages,  \* bound: how many messages are created
  MaxTime       \* bound: when the last poll with a time limit begins

ASSUME ObjectsAssumption ==
  /\ nullptr \notin Listeners
  /\ QidOf \in [Objects -> Nat] /\ undefined_qid \in Nat
  /\ \A o \in Objects : QidOf[o] # undefined_qid
\* The constructors of wait_time_provider take a duration or a time point.
ASSUME CallsAssumption ==
  /\ Ranges \subseteq Seq(Objects)
  /\ Waits \subseteq [rel_time : Int, abs_time : Int, wait_infinitely : BOOLEAN]
  /\ \A w \in Waits : w.rel_time = 0 \/ w.abs_time = EMPTY_TIME_POINT
ASSUME BoundsAssumption == MaxMoves \in Nat /\ MaxMessages \in Nat

VARIABLES
  todo,         \* the records of a result that its poller has yet to handle
  created,      \* how many messages have been pushed
  moves,        \* how many times queues were moved
  began         \* history: when each call of poll began

counters == <<created, moves>>
vars == <<mqvars, pollvars, todo, counters, began>>

Init ==
  /\ alive = Objects
  /\ id = QidOf
  /\ queue = [o \in Objects |-> <<>>]
  /\ listener = [o \in Objects |-> nullptr]
  /\ notifications = [l \in Listeners |-> <<>>]
  /\ asleep = {}
  /\ PollInit
  /\ todo = [l \in Listeners |-> <<>>]
  /\ created = 0 /\ moves = 0
  /\ began = [l \in Listeners |-> 0]

PollBegin(l) ==
  /\ todo[l] = <<>>
  /\ \E r \in Ranges, w \in Waits :
       /\ w \in {no_wait, WAIT_INFINITELY} \/ clock < MaxTime
       /\ poll_begin(l, r, w)
  /\ began' = [began EXCEPT ![l] = clock]
  /\ UNCHANGED <<todo, counters>>

PollStep(l) ==
  /\ poll_step(l)
  /\ todo' = IF phase'[l] = "out" THEN [todo EXCEPT ![l] = result[l]] ELSE todo
  /\ began' = IF phase'[l] = "out" THEN [began EXCEPT ![l] = 0] ELSE began
  /\ UNCHANGED counters

Timeout(l) == poll_timeout(l) /\ UNCHANGED <<todo, counters, began>>
SpuriousWakeup(l) == poll_spurious_wakeup(l) /\ UNCHANGED <<todo, counters, began>>

\* The clock runs on, as long as polls may begin or a thread waits for it.
Tick ==
  /\ clock < MaxTime \/ \E l \in Listeners : clock < until[l]
  /\ clock' = clock + 1
  /\ UNCHANGED <<mqvars, callvars, todo, counters, began>>

\* The poller pops the queue of the next record until it is empty, the way
\* message_queue_pool::handle_notifications does; one message at a time.
Consume(l) ==
  /\ todo[l] # <<>>
  /\ LET rec == Head(todo[l])
         done == rec.flags # {"data"} \/ ~has_message(rec.mq)
     IN  /\ IF done THEN UNCHANGED mqvars ELSE pop(rec.mq)
         /\ todo' = IF done THEN [todo EXCEPT ![l] = Tail(@)] ELSE todo
  /\ UNCHANGED <<pollvars, counters, began>>

\* enqueue by some thread, for an object that no other thread moves meanwhile.
Push(o) ==
  /\ created < MaxMessages /\ id[o] # undefined_qid
  /\ push(o, message(id[o], created + 1))
  /\ created' = created + 1
  /\ UNCHANGED <<pollvars, todo, moves, began>>

\* Queues are only moved into objects that exist already.
Move(d, o) ==
  /\ moves < MaxMoves /\ moves' = moves + 1
  /\ move_assign(d, o)
  /\ UNCHANGED <<pollvars, todo, created, began>>

Next ==
  \/ \E l \in Listeners :
       PollBegin(l) \/ PollStep(l) \/ Timeout(l) \/ SpuriousWakeup(l) \/ Consume(l)
  \/ Tick
  \/ \E o \in Objects : Push(o) \/ \E d \in Objects : Move(d, o)

\* A thread that polls keeps running, handles what it got and polls again;
\* time passes, and wait_until gives up when its time has come.
Fairness ==
  /\ WF_vars(Tick)
  /\ \A l \in Listeners :
       WF_vars(PollBegin(l)) /\ WF_vars(PollStep(l)) /\ WF_vars(Timeout(l)) /\ WF_vars(Consume(l))

Spec == Init /\ [][Next]_vars /\ Fairness
-----------------------------------------------------------------------------
Qids == {QidOf[o] : o \in Objects} \cup {undefined_qid}

TypeOK ==
  /\ MQTypeOK(Qids, [qid : Qids, mid : 1 .. MaxMessages])
  /\ PollTypeOK
  /\ created \in 0 .. MaxMessages /\ moves \in 0 .. MaxMoves

\* No wakeup is lost: while the thread of a poll is blocked, nothing has been
\* reported to its listener and no queue of its range has a message to pop.
BlockedOnlyWhenQuiet ==
  \A l \in asleep :
    /\ notifications[l] = <<>>
    /\ \A i \in 1 .. Len(range[l]) : ~has_message(range[l][i])

\* No queue refers to the listener of a call that has returned, nor does the
\* queue of a poll's range that was moved: the listener lived on the stack.
NoDanglingListener ==
  \A o \in Objects : listener[o] # nullptr =>
    /\ phase[listener[o]] \in {"set", "wait", "clear"}
    /\ \E i \in 1 .. Len(range[listener[o]]) : range[listener[o]][i] = o

\* A record with the data flag only is about a queue that has a message: the
\* worker of a pool relies on it to make progress. (While no queue is moved.)
ReportedQueueHasData ==
  moves = 0 => \A l \in Listeners : todo[l] # <<>> \/ phase[l] \in {"clear", "end"} =>
    LET list == IF phase[l] = "out" THEN Tail(todo[l]) ELSE result[l]
    IN  \A i \in 1 .. Len(list) : list[i].flags = {"data"} /\ has_message(list[i].mq)

\* Every message that is pushed to a queue that is polled for ever is popped.
AllConsumed ==
  \A o \in Objects : (\A r \in Ranges : o \in Range(r)) => (queue[o] # <<>> ~> queue[o] = <<>>)

\* A poll returns nothing only after the time it was told to wait, counted from
\* the call, or until the time point it was given; never if it waits infinitely.
NothingOnlyAfterTime ==
  [][\A l \in Listeners : phase[l] = "wait" /\ phase'[l] # "wait" /\ result'[l] = <<>> =>
       /\ ~wtp[l].wait_infinitely
       /\ began[l] + wtp[l].rel_time <= clock /\ wtp[l].abs_time <= clock]_vars

\* A poll that does not wait infinitely returns, whether or not anything is
\* notified, and however often its thread is woken up for no reason.
TimedPollReturns ==
  \A l \in Listeners : phase[l] # "out" /\ ~wtp[l].wait_infinitely ~> phase[l] = "out"

\* "Sets a given listener for each message queue from the range": a poll that
\* waits has its listener in every queue of its range.
EachQueueSet ==
  \A l \in Listeners : phase[l] = "wait" =>
    \A i \in 1 .. Len(range[l]) : listener[range[l][i]] = l
=============================================================================
