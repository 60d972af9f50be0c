--------------------------- MODULE WorkQueueForTests ---------------------------
(***************************************************************************)
(* The class work_queue_for_tests (src/mqmx/testing/work_queue_for_tests.h,*)
(* .cpp): a work_queue whose clock is a variable, moved by forward_time,   *)
(* which may wait until the works that are due have run.  It does so by a  *)
(* work of its own, the forwarding work, that is scheduled for the new     *)
(* time and put off as long as others are due.  After any other work the   *)
(* worker calls a function of the user with the mutex unlocked.            *)
(* The variable now of WorkQueueThreads is _current_time_point.            *)
(***************************************************************************)
EXTENDS WorkQueueThreads

CONSTANT MaxForwards  \* bound: calls of forward_time

VARIABLES
  fpc,        \* what the thread that calls forward_time and the destructor does
  target,     \* the time point that it forwards to
  completed,  \* _time_forwarding_completed
  forwards    \* how many calls of forward_time were made

forwardvars == <<fpc, target, completed, forwards>>
testvars == <<vars, forwardvars>>

FORWARDING_CLIENT == 0  \* _time_forwarding_client_id, the first client ID
is_forwarding(rec) == rec.fields.client_id = FORWARDING_CLIENT

\* The constructor takes a client ID and starts the worker.
TestInit ==
  /\ container = <<>> /\ change_flag = FALSE /\ stopped = FALSE
  /\ next_work_id = INVALID_ID /\ next_client_id = FORWARDING_CLIENT /\ posted = 0
  /\ wpc = "some_work" /\ asleep = FALSE /\ deadline = EMPTY_TIME_POINT /\ item = {}
  /\ now = 1
  /\ cpc = [c \in Clients |-> "out"]
  /\ stime = [c \in Clients |-> EMPTY_TIME_POINT]
  /\ owner = [c \in Clients |-> INVALID_ID]
  /\ calls = [schedule |-> 0, update |-> 0, start |-> 1]
  /\ fpc = "out" /\ target = EMPTY_TIME_POINT /\ completed = 0 /\ forwards = 0
-----------------------------------------------------------------------------
(* The worker, with the overridden wait_for_time_point and execute_work. *)

\* std::push_heap moves a record up only past later ones: the one in front
\* stays there unless the new one is earlier.
pushed(records, new) ==
  {s \in heaps(ToSet(records) \cup new) :
     records # <<>> /\ (\A r \in new : records[1].fields.time_point <= r.fields.time_point)
       => s[1] = records[1]}

\* wait_for_time_point returns true at once for the record in front.
is_due(records) ==
  records # <<>> /\ records[1].fields.work /\ records[1].fields.time_point <= now

\* From the beginning of the loop: a work that is due is taken out and called,
\* whether the container has been changed or not.
continue_with(records, flag) ==
  \/ /\ is_due(records)
     /\ item' = {records[1]}
     /\ container' \in heaps(ToSet(Tail(records)))
     /\ wpc' = "run" /\ asleep' = FALSE /\ change_flag' = flag /\ UNCHANGED deadline
  \/ ~is_due(records) /\ restart(records, flag) /\ item' = {}

WakeUp ==
  /\ ~asleep
  /\ \/ wpc = "some_work" /\ continue_with(container, change_flag)
     \/ wpc = "time_point" /\ change_flag /\ continue_with(container, FALSE)
     \/ /\ wpc = "time_point" /\ ~change_flag /\ asleep' = TRUE
        /\ UNCHANGED <<container, change_flag, wpc, deadline, item>>
  /\ UNCHANGED <<stopped, ids, posted, now, clientvars, forwardvars>>

works_overdue ==  \* fault: works that are due just now are not waited for
  ~is_container_empty /\ container[1].fields.time_point \in 1 .. now - 1

\* Are there works that must run before the forwarding is completed?
works_due ==
  /\ ~is_container_empty
  /\ container[1].fields.time_point # EMPTY_TIME_POINT
  /\ container[1].fields.time_point <= now

\* The container with the forwarding work rec, put off to the current time.
forget(rec) == {container}  \* fault: it is not executed again
put_off(rec) == pushed(container, {[rec EXCEPT !.fields.time_point = now]})

\* The forwarding work is put off, or completes.
execute_forwarding(rec) ==
  \/ /\ works_due
     /\ \E records \in put_off(rec) : continue_with(records, change_flag)
     /\ UNCHANGED completed
  \/ /\ ~works_due
     /\ completed' = completed + 1
     /\ continue_with(container, change_flag)

\* Any other work returns: _sync_function is called, unlocked, and the worker
\* has the record that is to be executed again, if it is, for itself.
execute_other(rec) ==
  /\ \E t \in rescheduled_time_points(rec) :
       item' = IF t = EMPTY_TIME_POINT THEN {} ELSE {[rec EXCEPT !.fields.time_point = t]}
  /\ wpc' = "sync"
  /\ UNCHANGED <<container, change_flag, asleep, deadline, completed>>

Execute ==
  /\ wpc = "run"
  /\ \E rec \in item : IF is_forwarding(rec) THEN execute_forwarding(rec) ELSE execute_other(rec)
  /\ UNCHANGED <<stopped, ids, posted, now, clientvars, fpc, target, forwards>>

SyncReturns ==
  /\ wpc = "sync"
  /\ \E records \in pushed(container, item) : continue_with(records, change_flag)
  /\ UNCHANGED <<stopped, ids, posted, now, clientvars, forwardvars>>

TestWorker == WakeUp \/ Execute \/ SyncReturns
-----------------------------------------------------------------------------
(* The thread that forwards the time. *)

nearest == IF is_container_empty THEN EMPTY_TIME_POINT ELSE container[1].fields.time_point

\* forward_time with a time point or a duration, or without: then the target is
\* the time of the earliest work, if there is one, read under a lock of its own.
ForwardBegin ==
  /\ fpc = "out" /\ forwards < MaxForwards /\ forwards' = forwards + 1
  /\ \/ target' \in Times
     \/ unlocked /\ target' = IF nearest = EMPTY_TIME_POINT THEN now ELSE nearest
  /\ fpc' = "forward"
  /\ UNCHANGED <<vars, completed>>

\* The current time is set: the call is to wait for completion, or it tells the
\* worker and returns.
ForwardSet ==
  /\ fpc = "forward" /\ unlocked
  /\ now' = target
  /\ \/ fpc' = "post" /\ UNCHANGED <<change_flag, asleep>>
     \/ fpc' = "out" /\ signal_container_change
  /\ UNCHANGED <<container, stopped, ids, posted, wpc, deadline, item, clientvars,
                 target, completed, forwards>>

\* wait_for_time_forwarding_completion schedules the forwarding work.
ForwardPost ==
  /\ fpc = "post" /\ fpc' = "wait"
  /\ schedule_work(FORWARDING_CLIENT, target, RUN_ONCE)
  /\ UNCHANGED <<now, clientvars, target, completed, forwards>>

ForwardWait ==
  /\ fpc = "wait" /\ fpc' = "out"
  /\ completed > 0 /\ completed' = completed - 1
  /\ UNCHANGED <<vars, target, forwards>>

\* ~work_queue_for_tests, when no other thread is inside a call, or makes one.
Destroy ==
  /\ fpc = "out" /\ fpc' = "join"
  /\ \A c \in Clients : cpc[c] = "out"
  /\ signal_worker_to_stop
  /\ UNCHANGED <<now, clientvars, target, completed, forwards>>

DestroyJoin ==
  /\ fpc = "join" /\ fpc' = "gone"
  /\ join_worker
  /\ UNCHANGED <<now, clientvars, target, completed, forwards>>

Forwarding == ForwardSet \/ ForwardPost \/ ForwardWait \/ DestroyJoin

\* The other threads change works of their own only; the clock is read with the
\* mutex locked.
TestClient(c) ==
  /\ fpc \notin {"join", "gone"}
  /\ \/ GetClientId(c)
     \/ unlocked /\ ScheduleBegin(c)
     \/ SchedulePost(c) \/ CancelClientWorks(c)
     \/ /\ UpdateWork(c) \/ CancelWork(c)
        /\ \A r \in ToSet(container) : r \in ToSet(container') \/ r.fields.client_id = owner[c]
  /\ UNCHANGED forwardvars

TestSpurious == SpuriousWakeup /\ UNCHANGED forwardvars

TestNext ==
  \/ TestWorker \/ TestSpurious
  \/ ForwardBegin \/ Forwarding \/ Destroy
  \/ \E c \in Clients : TestClient(c)

TestSpec == TestInit /\ [][TestNext]_testvars /\ WF_testvars(TestWorker) /\ WF_testvars(Forwarding)
-----------------------------------------------------------------------------
\* A call of forward_time that waits is answered once: there is one forwarding
\* work under way for it, or one post of the semaphore, never none or both.
ForwardToken ==
  completed + Cardinality({r \in ToSet(container) \cup item : is_forwarding(r)}) =
    IF fpc = "wait" THEN 1 ELSE 0

\* The worker does not sleep while a work is due, unless the thread that has
\* set the time is about to schedule the forwarding work, which wakes it.
NoDueWorkAsleep ==
  wpc = "time_point" /\ asleep /\ fpc # "post" =>
    \A r \in ToSet(container) : now < r.fields.time_point

\* When the forwarding is completed all the works that are scheduled up to the
\* current time have run, periodic works as often as they are due.
CompletedWhenDone ==
  [][completed' > completed => \A r \in ToSet(container') \cup item' : now < r.fields.time_point]_testvars

\* forward_time and the destructor return, although the forwarding work may have
\* to wait for periodic works and for works that others schedule meanwhile.
ForwardReturns == fpc # "out" ~> fpc \in {"out", "gone"}

\* "Cancel all work items, which belongs to specified owner": when the call has
\* succeeded, none is left that will be executed.
AllCancelled ==
  [][\A c \in Clients : CancelClientWorks(c) =>
       \A r \in ToSet(container') \cup item' : r.fields.client_id # owner[c]]_testvars
=============================================================================
