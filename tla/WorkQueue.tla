------------------------------- MODULE WorkQueue -------------------------------
(***************************************************************************)
(* The operations of the class work_queue (src/mqmx/work_queue.h, .cpp).   *)
(* Each of them holds _mutex from its first to its last access, and so     *)
(* does the worker, which gives it up only while it waits: one call of a   *)
(* client is one step, and so is what the worker does between two waits,   *)
(* except that a work runs for some time, with the mutex held.             *)
(***************************************************************************)
EXTENDS Integers, SequencesExt, FiniteSets

CONSTANTS
  IdModulus  \* the number of values of work_id_type and client_id_type

ASSUME IdModulusAssumption == IdModulus \in Nat /\ IdModulus > 1

VARIABLES
  container,      \* _wq_item_container, a heap of records
  change_flag,    \* _container_change_flag
  stopped,        \* _worker_stopped_flag
  next_work_id,   \* _next_work_id
  next_client_id, \* _next_client_id
  posted,         \* history: how many records were posted
  wpc,            \* what the worker thread does: see the actions
  asleep,         \* is it blocked in _container_change_condition?
  deadline,       \* the argument of wait_for_time_point
  item            \* the record it executes, or none

ids == <<next_work_id, next_client_id>>
loopvars == <<wpc, asleep, deadline, item>>
wqvars == <<container, change_flag, stopped, ids, posted, loopvars>>

INVALID_ID == IdModulus - 1
EMPTY_TIME_POINT == 0
RUN_ONCE == 0

\* ++id, skipping the invalid ID; the counters begin with the invalid ID.
next_id_any(n) == (n + 1) % IdModulus               \* fault: it is not skipped
next_id_once(n) == IF n = INVALID_ID THEN 0 ELSE n  \* fault: incremented once only
next_id(n) == IF (n + 1) % IdModulus = INVALID_ID THEN 0 ELSE (n + 1) % IdModulus

\* wq_item: a record of posting number "call" that holds a work, or none.
wq_item(has_work, t, client, p) ==
  [work |-> has_work, time_point |-> t, client_id |-> client, period |-> p]
record(fields, wid, call) == [fields |-> fields, id |-> wid, call |-> call]

\* std::make_heap, push_heap and pop_heap of <algorithm> with record_compare
\* leave any sequence that is a heap of the same records.
is_heap(s) == \A i \in 2 .. Len(s) : s[i \div 2].fields.time_point <= s[i].fields.time_point
heaps(records) == {s \in SetToSeqs(records) : is_heap(s)}

is_container_empty == container = <<>>

no_change_flag == FALSE  \* fault: the flag is not looked at
get_container_change_flag == change_flag

\* signal_container_change: notify_one, which the worker alone can be waiting for.
set_change_flag == change_flag' = TRUE /\ UNCHANGED asleep  \* fault: no notify_one
signal_container_change == change_flag' = TRUE /\ asleep' = FALSE

make_heap_and_notify_worker(records) ==
  /\ container' \in heaps(records)
  /\ signal_container_change

WQInit ==
  /\ container = <<>> /\ change_flag = FALSE /\ stopped = TRUE
  /\ next_work_id = INVALID_ID /\ next_client_id = INVALID_ID /\ posted = 0
  /\ wpc = "none" /\ asleep = FALSE /\ deadline = EMPTY_TIME_POINT /\ item = {}
-----------------------------------------------------------------------------
(* The calls of the clients, made while no work runs. *)

unlocked == wpc # "run"

\* post_work, onto the records that are in the container.
post_work(records, fields) ==
  /\ next_work_id' = next_id(next_work_id)
  /\ posted' = posted + 1
  /\ make_heap_and_notify_worker(records \cup {record(fields, next_work_id', posted')})

\* schedule_work, once the start time is known.
schedule_work(client, t, p) ==
  /\ unlocked /\ ~stopped
  /\ post_work(ToSet(container), wq_item(TRUE, t, client, p))
  /\ UNCHANGED <<stopped, next_client_id, wpc, deadline, item>>

\* The records with this ID: the code takes the first that is in the vector.
found(wid) == {r \in ToSet(container) : r.id = wid}

\* update_work: the record keeps nothing but its ID.
update_work(wid, client, t, p) ==
  /\ unlocked /\ ~stopped
  /\ \E r \in found(wid) :
       make_heap_and_notify_worker(
         (ToSet(container) \ {r}) \cup {record(wq_item(TRUE, t, client, p), wid, r.call)})
  /\ UNCHANGED <<stopped, ids, posted, wpc, deadline, item>>

cancel_work(wid) ==
  /\ unlocked /\ ~stopped
  /\ \E r \in found(wid) : make_heap_and_notify_worker(ToSet(container) \ {r})
  /\ UNCHANGED <<stopped, ids, posted, wpc, deadline, item>>

cancel_client_works(client) ==
  /\ unlocked /\ ~stopped
  /\ LET works == {r \in ToSet(container) : r.fields.client_id = client}
     IN  works # {} /\ make_heap_and_notify_worker(ToSet(container) \ works)
  /\ UNCHANGED <<stopped, ids, posted, wpc, deadline, item>>

get_client_id ==
  /\ unlocked
  /\ next_client_id' = next_id(next_client_id)
  /\ UNCHANGED <<container, change_flag, stopped, next_work_id, posted, loopvars>>

\* signal_worker_to_stop: a record without a work replaces all the records.
signal_worker_to_stop ==
  /\ unlocked /\ ~stopped
  /\ post_work({}, wq_item(FALSE, EMPTY_TIME_POINT, INVALID_ID, RUN_ONCE))
  /\ stopped' = TRUE
  /\ UNCHANGED <<next_client_id, wpc, deadline, item>>

\* kill_worker joins the thread.
join_worker ==
  /\ wpc = "exited" /\ wpc' = "none"
  /\ UNCHANGED <<container, change_flag, stopped, ids, posted, asleep, deadline, item>>

\* start_worker: called before or after, never during, a call of kill_worker,
\* which would destroy a thread that is not joined.
start_worker ==
  /\ wpc = "none" /\ stopped
  /\ stopped' = FALSE /\ wpc' = "some_work" /\ asleep' = FALSE
  /\ UNCHANGED <<container, change_flag, ids, posted, deadline, item>>
-----------------------------------------------------------------------------
(* The worker. *)

\* The records that the worker leaves behind when it exits.
leave(records) == records  \* fault: the record that stopped it
clear(records) == <<>>

\* From the beginning of the loop with these records: the thread exits or ends
\* up in wait_for_some_work, or in wait_for_time_point, which returns at once
\* if the flag is set: then the flag is reset and the same happens once more.
restart(records, flag) ==
  \/ /\ records = <<>>
     /\ wpc' = "some_work" /\ asleep' = TRUE
     /\ container' = records /\ change_flag' = flag /\ UNCHANGED deadline
  \/ /\ records # <<>> /\ ~records[1].fields.work
     /\ wpc' = "exited" /\ asleep' = FALSE
     /\ container' = clear(records) /\ change_flag' = flag /\ UNCHANGED deadline
  \/ /\ records # <<>> /\ records[1].fields.work
     /\ wpc' = "time_point" /\ asleep' = TRUE
     /\ deadline' = records[1].fields.time_point
     /\ container' = records /\ change_flag' = FALSE

\* wait_for_some_work wakes up, or the thread begins.
wait_for_some_work ==
  /\ wpc = "some_work" /\ ~asleep
  /\ restart(container, change_flag)
  /\ UNCHANGED <<stopped, ids, posted, item>>

\* wait_for_time_point sees that the container has been changed.
wait_interrupted(now) ==
  /\ wpc = "time_point" /\ (~asleep \/ deadline <= now)
  /\ get_container_change_flag
  /\ restart(container, FALSE)
  /\ UNCHANGED <<stopped, ids, posted, item>>

\* It times out, and the work in front is taken out and called.
wait_expired(now) ==
  /\ wpc = "time_point" /\ deadline <= now
  /\ ~get_container_change_flag
  /\ ~is_container_empty
  /\ item' = {container[1]}
  /\ container' \in heaps(ToSet(Tail(container)))
  /\ wpc' = "run" /\ asleep' = FALSE
  /\ UNCHANGED <<change_flag, stopped, ids, posted, deadline>>

\* It wakes up for no reason, and waits again.
wait_continues(now) ==
  /\ wpc = "time_point" /\ ~asleep /\ now < deadline
  /\ ~get_container_change_flag
  /\ asleep' = TRUE
  /\ UNCHANGED <<container, change_flag, stopped, ids, posted, wpc, deadline, item>>

spurious_wakeup ==
  /\ wpc \in {"some_work", "time_point"} /\ asleep
  /\ asleep' = FALSE
  /\ UNCHANGED <<container, change_flag, stopped, ids, posted, wpc, deadline, item>>

\* execute_work returns when to execute the record next, if at all: the work
\* has returned true or not, or has thrown an exception.
rescheduled_time_points(rec) ==
  {EMPTY_TIME_POINT}
    \cup IF rec.fields.period > 0 THEN {rec.fields.time_point + rec.fields.period} ELSE {}

\* The work returns, and the worker goes on to its next wait.
work_returns ==
  /\ wpc = "run"
  /\ \E rec \in item : \E t \in rescheduled_time_points(rec) :
       LET again == IF t = EMPTY_TIME_POINT THEN {} ELSE {[rec EXCEPT !.fields.time_point = t]}
       IN  \E records \in heaps(ToSet(container) \cup again) : restart(records, change_flag)
  /\ item' = {}
  /\ UNCHANGED <<stopped, ids, posted>>

worker_step(now) ==
  \/ wait_for_some_work \/ wait_interrupted(now) \/ wait_expired(now)
  \/ wait_continues(now) \/ work_returns
=============================================================================
