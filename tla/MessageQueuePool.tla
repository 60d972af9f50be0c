-------------------------- MODULE MessageQueuePool --------------------------
(***************************************************************************)
(* The class message_queue_pool (src/mqmx/message_queue_pool.h, .cpp): the *)
(* worker thread that polls the queues of the pool and calls their         *)
(* handlers, and client threads that allocate queues, push to them,        *)
(* release them, ask whether the poll is idle and destroy the pool.        *)
(* A poll is identified by the thread that makes it.                       *)
(***************************************************************************)
EXTENDS MessageQueuePoll, FiniteSets

CONSTANTS
  Clients,         \* the threads that use the pool
  worker,          \* the thread of the pool
  control,         \* the address of _mq_control
  capacity,        \* the argument of the constructor
  SerializeAlloc,  \* is allocate_queue called by one thread at a time?
  AllowMove,       \* do clients move their queues' content out of the pool?
  MaxAllocations,  \* bound: calls of allocate_queue
  MaxIdleCalls,    \* bound: calls of is_poll_idle
  MaxMessages      \* bound: messages that clients push

ASSUME PoolAssumption ==
  /\ Listeners = Clients \cup {worker} /\ worker \notin Clients
  /\ IsFiniteSet(Clients)
  /\ control \in Objects /\ nullptr \notin Objects \cup Listeners
  /\ capacity \in Nat \ {0} /\ undefined_qid \in Nat /\ undefined_qid > capacity

VARIABLES
  handler,     \* _handler: the owner of the function in each slot, or nullptr
  mqs,         \* _mqs
  sem_pause,   \* _sem_pause
  sem_resume,  \* _sem_resume
  sem,         \* the semaphore on the stack of each client's call
  wpc,         \* what the worker does: see the actions
  wi,          \* the next record of its list
  current,     \* the message in the handler, or none
  cpc,         \* what each client does: see the actions
  mine,        \* the queue that each client owns, or nullptr
  slot,        \* the local qid of each call of allocate_queue
  allocations, \* how many calls of allocate_queue were made
  idle_calls,  \* how many calls of is_poll_idle were made
  sent,        \* history: the messages pushed to the queue of each slot
  handled,     \* history: the messages given to the handler of each slot
  before       \* history: the messages queued when is_poll_idle was called

workervars == <<wpc, wi, current>>
counters == <<allocations, idle_calls>>
clientvars == <<cpc, mine, slot, counters>>
semaphores == <<sem_pause, sem_resume, sem>>
history == <<sent, handled, before>>
vars == <<mqvars, pollvars, handler, mqs, semaphores, workervars, clientvars, history>>

Slots == 0 .. capacity
CONTROL_MESSAGE_QUEUE_ID == 0

\* The messages of the control queue: the client waits on its semaphore.
TERMINATE == [type |-> "terminate"]
POLL_PAUSE == [type |-> "pause"]
add_queue_message(c, o) == [type |-> "add", mq |-> o, client |-> c]
remove_queue_message(c, o) == [type |-> "remove", mq |-> o, client |-> c]
data_message(n) == [type |-> "data", number |-> n]

\* _mq_control.enqueue, which succeeds: the control queue is never moved.
enqueue_control(m) == push(control, message(CONTROL_MESSAGE_QUEUE_ID, m))

\* The queued messages of the pool's queues other than the control queue.
queued == UNION {{queue[mqs[i]][j].mid : j \in 1 .. Len(queue[mqs[i]])} : i \in 2 .. Len(mqs)}

\* message_queue_pool (capacity): the worker is started.
Init ==
  /\ alive = {control}
  /\ id = [o \in Objects |-> IF o = control THEN CONTROL_MESSAGE_QUEUE_ID ELSE undefined_qid]
  /\ queue = [o \in Objects |-> <<>>]
  /\ listener = [o \in Objects |-> nullptr]
  /\ notifications = [l \in Listeners |-> <<>>]
  /\ asleep = {}
  /\ PollInit
  /\ handler = [q \in Slots |-> IF q = CONTROL_MESSAGE_QUEUE_ID THEN worker ELSE nullptr]
  /\ mqs = <<control>>
  /\ sem_pause = 0 /\ sem_resume = 0 /\ sem = [c \in Clients |-> 0]
  /\ wpc = "poll" /\ wi = 1 /\ current = {}
  /\ cpc = [c \in Clients |-> "out"]
  /\ mine = [c \in Clients |-> nullptr]
  /\ slot = [c \in Clients |-> 0]
  /\ allocations = 0 /\ idle_calls = 0
  /\ sent = [q \in Slots |-> <<>>] /\ handled = [q \in Slots |-> <<>>]
  /\ before = [c \in Clients |-> {}]
-----------------------------------------------------------------------------
(* The worker: thread_loop. *)

\* Is the record only about data, so that its pointer may be used?
usable(rec) == rec.flags \cap {"closed", "detached"} = {}

PollBegin ==
  /\ wpc = "poll" /\ phase[worker] = "out"
  /\ poll_begin(worker, mqs, WAIT_INFINITELY)
  /\ UNCHANGED <<handler, mqs, semaphores, workervars, clientvars, history>>

\* The last step of the poll looks at the front of the list.
PollStep ==
  /\ wpc = "poll"
  /\ poll_step(worker)
  /\ IF phase'[worker] = "out"
     THEN /\ wpc' = IF Head(result[worker]).qid = id[control] THEN "control" ELSE "records"
          /\ wi' = 1
     ELSE UNCHANGED <<wpc, wi>>
  /\ UNCHANGED <<handler, mqs, semaphores, current, clientvars, history>>

SpuriousWakeup ==
  /\ poll_spurious_wakeup(worker)
  /\ UNCHANGED <<handler, mqs, semaphores, workervars, clientvars, history>>

\* Where ADD puts a queue: before the first queue with an ID not less.
insert_position(o) ==
  CHOOSE i \in 2 .. Len(mqs) + 1 :
    /\ \A j \in 2 .. i - 1 : id[mqs[j]] < id[o]
    /\ i <= Len(mqs) => ~(id[mqs[i]] < id[o])

\* The semaphore of the client's call is posted.
answer_twice(c) == sem' = [sem EXCEPT ![c] = @ + 2]  \* fault: once more
answer(c) == sem' = [sem EXCEPT ![c] = @ + 1]

\* REMOVE returns RestartNeeded: the worker polls again.
go_on == "control"  \* fault: it goes on with the records that it has
poll_again == "poll"

\* control_queue_handler, given one message; it is called until it does not
\* return Success or the queue is empty.
handle_control(m) ==
  \/ m.type = "terminate" /\ wpc' = "halted" /\ UNCHANGED <<mqs, sem>>
  \/ m.type = "pause" /\ wpc' = "pause" /\ UNCHANGED <<mqs, sem>>
  \/ /\ m.type = "add"
     /\ mqs' = InsertAt(mqs, insert_position(m.mq), m.mq)
     /\ answer(m.client)
     /\ UNCHANGED wpc
  \/ /\ m.type = "remove"
     /\ mqs' = RemoveFirst(mqs, m.mq)
     /\ answer(m.client)
     /\ wpc' = poll_again

\* handle_notifications of the control queue's record, one message a step.
HandleControl ==
  /\ wpc = "control"
  /\ IF usable(Head(result[worker])) /\ has_message(control)
     THEN handle_control(Head(queue[control]).mid) /\ pop(control) /\ UNCHANGED wi
     ELSE wpc' = "records" /\ wi' = 2 /\ UNCHANGED <<mqvars, mqs, sem>>
  /\ UNCHANGED <<pollvars, handler, sem_pause, sem_resume, current, clientvars, history>>

\* _sem_pause.wait (), _sem_resume.wait () and _sem_resume.post ().
no_pause == UNCHANGED sem_pause    \* fault: there is no such call
no_resume == UNCHANGED sem_resume  \* fault: there is no such call
wait_pause == sem_pause > 0 /\ sem_pause' = sem_pause - 1
wait_resume == sem_resume > 0 /\ sem_resume' = sem_resume - 1
post_resume == sem_resume' = sem_resume + 1

\* The worker has posted the pause, and waits.
poll_on == "poll"  \* fault: it does not wait
stay_paused == "resume"

PostPause ==
  /\ wpc = "pause" /\ wpc' = stay_paused
  /\ sem_pause' = sem_pause + 1
  /\ UNCHANGED <<mqvars, pollvars, handler, mqs, sem_resume, sem, wi, current, clientvars, history>>

WaitResume ==
  /\ wpc = "resume" /\ wpc' = "poll"
  /\ wait_resume
  /\ UNCHANGED <<mqvars, pollvars, handler, mqs, sem_pause, sem, wi, current, clientvars, history>>

\* handle_notifications of one of the other records: the queue is drained
\* into its handler. A record that is not usable is skipped.
HandleRecord ==
  /\ wpc = "records" /\ current = {}
  /\ \/ /\ wi > Len(result[worker])
        /\ wpc' = "poll" /\ UNCHANGED <<mqvars, wi, current, handled>>
     \/ /\ wi <= Len(result[worker])
        /\ LET rec == result[worker][wi]
           IN  IF usable(rec) /\ has_message(rec.mq)
               THEN /\ current' = {Head(queue[rec.mq])}
                    /\ handled' = [handled EXCEPT ![rec.qid] = Append(@, Head(queue[rec.mq]).mid)]
                    /\ pop(rec.mq)
                    /\ UNCHANGED wi
               ELSE wi' = wi + 1 /\ UNCHANGED <<mqvars, current, handled>>
        /\ UNCHANGED wpc
  /\ UNCHANGED <<pollvars, handler, mqs, semaphores, clientvars, sent, before>>

\* The handler returns Success and the queue is drained further, or it returns
\* another status or throws, and the messages that are left wait for a poll.
HandlerReturns ==
  /\ wpc = "records" /\ current # {} /\ current' = {}
  /\ wi' \in {wi, wi + 1}
  /\ UNCHANGED <<mqvars, pollvars, handler, mqs, semaphores, wpc, clientvars, history>>

Worker ==
  \/ PollBegin \/ PollStep \/ HandleControl \/ PostPause \/ WaitResume
  \/ HandleRecord \/ HandlerReturns
-----------------------------------------------------------------------------
(* The clients. *)

first_slot == 1  \* fault: slots in use are not skipped

\* The first free slot, or the end of the vector.
free_slot ==
  CHOOSE q \in 1 .. capacity + 1 :
    /\ \A p \in 1 .. q - 1 : handler[p] # nullptr
    /\ q <= capacity => handler[q] = nullptr

\* allocate_queue: the scan of _handler, which nothing protects.
AllocateScan(c) ==
  /\ cpc[c] = "out" /\ mine[c] = nullptr /\ allocations < MaxAllocations
  /\ SerializeAlloc => \A d \in Clients : cpc[d] \notin {"allocate", "add"}
  /\ allocations' = allocations + 1
  /\ slot' = [slot EXCEPT ![c] = free_slot]
  /\ cpc' = [cpc EXCEPT ![c] = "allocate"]
  /\ UNCHANGED <<mqvars, pollvars, handler, mqs, semaphores, workervars, mine, idle_calls, history>>

\* The queue is constructed, at any free address, and the handler stored.
AllocateStore(c, o) ==
  /\ cpc[c] = "allocate" /\ slot[c] \in Slots
  /\ construct(o, slot[c])
  /\ mine' = [mine EXCEPT ![c] = o]
  /\ handler' = [handler EXCEPT ![slot[c]] = c]
  /\ cpc' = [cpc EXCEPT ![c] = "add"]
  /\ UNCHANGED <<pollvars, mqs, semaphores, workervars, slot, counters, history>>

AllocateAdd(c) ==
  /\ cpc[c] = "add"
  /\ enqueue_control(add_queue_message(c, mine[c]))
  /\ cpc' = [cpc EXCEPT ![c] = "wait_add"]
  /\ UNCHANGED <<pollvars, handler, mqs, semaphores, workervars, mine, slot, counters, history>>

\* sem.wait () of allocate_queue, which returns the queue, or of remove_queue.
WaitAnswer(c) ==
  /\ cpc[c] \in {"wait_add", "wait_remove"}
  /\ sem[c] > 0 /\ sem' = [sem EXCEPT ![c] = @ - 1]
  /\ cpc' = [cpc EXCEPT ![c] = IF @ = "wait_add" THEN "out" ELSE "delete"]
  /\ UNCHANGED <<mqvars, pollvars, handler, mqs, sem_pause, sem_resume, workervars, mine, slot, counters, history>>

was_sent(n) == \E q \in Slots : data_message(n) \in Range(sent[q])

\* The client enqueues a message for its queue, the next one in number.
Enqueue(c) ==
  /\ cpc[c] = "out" /\ mine[c] # nullptr
  /\ LET o == mine[c]
     IN  /\ id[o] # undefined_qid
         /\ \E n \in 1 .. MaxMessages :
              /\ ~was_sent(n) /\ \A k \in 1 .. n - 1 : was_sent(k)
              /\ push(o, message(id[o], data_message(n)))
              /\ sent' = [sent EXCEPT ![id[o]] = Append(@, data_message(n))]
  /\ UNCHANGED <<pollvars, handler, mqs, semaphores, workervars, clientvars, handled, before>>

\* The client moves its queue's content into a queue outside of the pool.
MoveOut(c, d) ==
  /\ AllowMove /\ cpc[c] = "out" /\ mine[c] # nullptr
  /\ d # control
  /\ move_construct(d, mine[c])
  /\ UNCHANGED <<pollvars, handler, mqs, semaphores, workervars, clientvars, history>>

delete_at_once == "delete"  \* fault: remove_queue does not wait for the worker
wait_for_answer == "wait_remove"

\* mq_deleter calls remove_queue, which finds the queue by its ID, or not. A
\* client does not release a queue that it has moved out of (see the README).
Release(c) ==
  /\ cpc[c] = "out" /\ mine[c] # nullptr
  /\ AllowMove => id[mine[c]] # undefined_qid
  /\ LET o == mine[c]
     IN  IF id[o] \in Slots /\ handler[id[o]] # nullptr
         THEN /\ enqueue_control(remove_queue_message(c, o))
              /\ cpc' = [cpc EXCEPT ![c] = wait_for_answer]
         ELSE cpc' = [cpc EXCEPT ![c] = "delete"] /\ UNCHANGED mqvars
  /\ UNCHANGED <<pollvars, handler, mqs, semaphores, workervars, mine, slot, counters, history>>

\* mq_deleter deletes the queue. The handler stays in its slot.
Delete(c) ==
  /\ cpc[c] = "delete"
  /\ destroy(mine[c])
  /\ mine' = [mine EXCEPT ![c] = nullptr]
  /\ cpc' = [cpc EXCEPT ![c] = "out"]
  /\ UNCHANGED <<pollvars, handler, mqs, semaphores, workervars, slot, counters, history>>

\* is_poll_idle.
IdlePause(c) ==
  /\ cpc[c] = "out" /\ idle_calls < MaxIdleCalls
  /\ idle_calls' = idle_calls + 1
  /\ enqueue_control(POLL_PAUSE)
  /\ before' = [before EXCEPT ![c] = queued]
  /\ cpc' = [cpc EXCEPT ![c] = "wait_pause"]
  /\ UNCHANGED <<pollvars, handler, mqs, semaphores, workervars, mine, slot, allocations, sent, handled>>

IdleWaitPause(c) ==
  /\ cpc[c] = "wait_pause"
  /\ wait_pause
  /\ poll_begin(c, mqs, no_wait)
  /\ cpc' = [cpc EXCEPT ![c] = "polling"]
  /\ UNCHANGED <<handler, mqs, sem_resume, sem, workervars, mine, slot, counters, history>>

IdlePoll(c) ==
  /\ cpc[c] = "polling"
  /\ poll_step(c)
  /\ cpc' = IF phase'[c] = "out" THEN [cpc EXCEPT ![c] = "post_resume"] ELSE cpc
  /\ UNCHANGED <<handler, mqs, semaphores, workervars, mine, slot, counters, history>>

\* is_poll_idle returns whether result[c] is empty.
IdleResume(c) ==
  /\ cpc[c] = "post_resume"
  /\ post_resume
  /\ before' = [before EXCEPT ![c] = {}]
  /\ cpc' = [cpc EXCEPT ![c] = "out"]
  /\ UNCHANGED <<mqvars, pollvars, handler, mqs, sem_pause, sem, workervars, mine, slot, counters,
                 sent, handled>>

\* ~message_queue_pool, called when all the clients are done with the pool.
Terminate(c) ==
  /\ \A d \in Clients : cpc[d] = "out" /\ mine[d] = nullptr
  /\ enqueue_control(TERMINATE)
  /\ cpc' = [d \in Clients |-> IF d = c THEN "join" ELSE "gone"]
  /\ UNCHANGED <<pollvars, handler, mqs, semaphores, workervars, mine, slot, counters, history>>

Join(c) ==
  /\ cpc[c] = "join" /\ wpc = "halted"
  /\ cpc' = [cpc EXCEPT ![c] = "gone"]
  /\ UNCHANGED <<mqvars, pollvars, handler, mqs, semaphores, workervars, mine, slot, counters, history>>

\* A call that a client has made runs on; making a call is a choice.
Call(c) ==
  \/ \E o \in Objects : AllocateStore(c, o)
  \/ AllocateAdd(c) \/ WaitAnswer(c) \/ Delete(c)
  \/ IdleWaitPause(c) \/ IdlePoll(c) \/ IdleResume(c) \/ Join(c)

Choice(c) ==
  \/ AllocateScan(c) \/ Enqueue(c) \/ Release(c) \/ IdlePause(c) \/ Terminate(c)
  \/ \E o \in Objects : MoveOut(c, o)

Next == Worker \/ SpuriousWakeup \/ \E c \in Clients : Call(c) \/ Choice(c)

\* Every thread that can run does.
Fairness == WF_vars(Worker) /\ \A c \in Clients : WF_vars(Call(c))

Spec == Init /\ [][Next]_vars /\ Fairness
-----------------------------------------------------------------------------
Qids == Slots \cup {undefined_qid}
ControlMessages ==
  {TERMINATE, POLL_PAUSE}
    \cup {add_queue_message(c, o) : c \in Clients, o \in Objects}
    \cup {remove_queue_message(c, o) : c \in Clients, o \in Objects}
DataMessages == {data_message(n) : n \in 1 .. MaxMessages}

TypeOK ==
  /\ MQTypeOK(Qids, [qid : Slots, mid : ControlMessages \cup DataMessages])
  /\ PollTypeOK
  /\ handler \in [Slots -> Listeners \cup {nullptr}]
  /\ mqs \in Seq(Objects)
  /\ sem_pause \in Nat /\ sem_resume \in Nat /\ sem \in [Clients -> 0 .. 1]
  /\ wpc \in {"poll", "control", "pause", "resume", "records", "halted"}
  /\ wi \in Nat
  /\ mine \in [Clients -> Objects \cup {nullptr}]

\* A pause is a token that the worker gives away by _sem_pause and takes back
\* by _sem_resume, whatever number of clients ask for it at the same time.
PausedBy == {c \in Clients : cpc[c] \in {"polling", "post_resume"}}
PauseToken ==
  sem_pause + sem_resume + Cardinality(PausedBy) = IF wpc = "resume" THEN 1 ELSE 0

\* The worker and the clients in is_poll_idle never poll at the same time: a
\* queue has one listener only, and the one that comes second would not be set.
PollExclusive ==
  \A l, k \in Listeners : phase[l] # "out" /\ phase[k] # "out" => l = k

\* _mqs does not change while a poll has iterators into it.
RangesStable == \A l \in Listeners : phase[l] # "out" => range[l] = mqs

\* The worker and is_poll_idle touch live objects only: those of _mqs, those of
\* the range of a poll, and those of the records still to be handled.
NoUseAfterFree ==
  /\ \A i \in 1 .. Len(mqs) : mqs[i] \in alive
  /\ RangesStable
  /\ wpc \in {"control", "records"} =>
       \A i \in wi .. Len(result[worker]) :
         usable(result[worker][i]) => result[worker][i].mq \in alive

\* A queue that is deleted has no listener, so that its destructor, which does
\* not lock, runs alone.
DeletedUnheard == \A c \in Clients : cpc[c] = "delete" => listener[mine[c]] = nullptr

\* assert of control_queue_handler: a queue is added before one of a greater
\* ID, so that no two queues of the pool have the same ID.
AddedInOrder ==
  wpc = "control" /\ has_message(control) /\ Head(queue[control]).mid.type = "add" =>
    LET o == Head(queue[control]).mid.mq
        i == insert_position(o)
    IN  i <= Len(mqs) => id[o] < id[mqs[i]]

\* assert of allocate_queue: a slot was found.
SlotFound == \A c \in Clients : cpc[c] = "allocate" => slot[c] \in Slots

\* The function that is called is the one that the owner of the queue gave to
\* allocate_queue, in the slot of the message's queue.
OwnHandler ==
  \A m \in current : \A c \in Clients :
    mine[c] # nullptr /\ id[mine[c]] = m.qid => handler[m.qid] = c

\* When is_poll_idle returns true, the messages that were queued when it was
\* called have been handled, and no handler runs.
IdleIsIdle ==
  [][\A c \in Clients : cpc[c] = "post_resume" /\ cpc'[c] = "out" /\ result[c] = <<>> =>
       current = {} /\ before[c] \cap queued = {}]_vars

\* The pool implements channels that are served: the channel of a slot is the
\* queue with its ID, wherever its content is moved, open until it is deleted.
state_of(ids, functions) == [q \in 1 .. capacity |->
  IF \E o \in Objects : ids[o] = q THEN "open"
  ELSE IF functions[q] # nullptr THEN "closed" ELSE "unused"]
channel_of(ids, queues) == [q \in 1 .. capacity |->
  IF \E o \in Objects : ids[o] = q THEN queues[CHOOSE o \in Objects : ids[o] = q] ELSE <<>>]
S == INSTANCE ServedChannels WITH
  Qids <- 1 .. capacity,
  Messages <- [qid : 1 .. capacity, mid : DataMessages],
  state <- state_of(id, handler), channel <- channel_of(id, queue), serving <- current
ImplementsServedChannels == S!Spec

\* Calls of allocate_queue, remove_queue, is_poll_idle and the destructor
\* return. (The calls of the bounds are made, and then no more.)
CallsReturn == \A c \in Clients : cpc[c] # "out" ~> cpc[c] \in {"out", "gone"}

\* A message that is pushed to a queue of the pool is handled, unless the
\* queue is released first, even when the handlers fail.
AllHandled ==
  \A q \in Slots : Len(handled[q]) < Len(sent[q]) ~>
    Len(handled[q]) = Len(sent[q]) \/ \A c \in Clients : mine[c] = nullptr \/ slot[c] # q
=============================================================================
