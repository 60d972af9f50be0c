# A TLA+ model of mqmx

mqmx is a small C++11 library: message queues whose changes are reported to a
listener, a function `poll` that waits for several queues at once, a pool of
queues with a thread that calls handlers, and a queue of works that run at
given times. Nearly all of its difficulty is in the interleavings of threads,
so this project models the library's state, every operation that changes it,
and the threads that call the operations.

The modules are in TLA+; TLC checks small instances and TLAPS proves the
theorems listed below. `PROJECT.json` says which definition models which lines.

## 1. The system

| component | source | state | operations |
|---|---|---|---|
| message | `message.h` | queue ID, message ID; immutable | constructor |
| message_queue_poll_listener | `message_queue_poll.h/.cpp` | sorted vector of (queue ID, pointer, flags), mutex, condition | `notify`, `wait_for_notifications` |
| message_queue | `message_queue.h/.cpp` | ID, sequence of messages, pointer to a listener, mutex | construct, move construct, move assign, destroy, `enqueue` (`new_message` + `push`), `pop`, `set_listener`, `clear_listener` |
| poll | `message_queue_poll.h` | a listener on the stack, the range of queues | one function: set the listener in each queue, wait, clear it in each queue |
| message_queue_pool | `message_queue_pool.h/.cpp` | control queue, vector of queues, vector of handlers, two semaphores, a thread | `allocate_queue`, release of a queue (`mq_deleter`, `remove_queue`), `is_poll_idle`, destructor; the thread's loop |
| work_queue | `work_queue.h/.cpp` | heap of records, change flag, stopped flag, two ID counters, mutex, condition, a thread | `schedule_work`, `update_work`, `cancel_work`, `cancel_client_works`, `get_client_id`, `start_worker`, `kill_worker`; the thread's loop |
| work_queue_for_tests | `testing/work_queue_for_tests.*` | a clock of its own, a forwarding flag, a semaphore, a client ID | `forward_time`, with or without waiting for completion; overrides of `wait_for_time_point` and `execute_work` for the worker |
| wait_time_provider | `wait_time_provider.*` | a duration, a time point, a flag; immutable | four constructors, `get_time_point` |
| types, build files, tests | `types.h`, ... | none | |

How they interact. A message queue calls `notify` of its listener with its own
mutex held; `notify` takes the listener's mutex and wakes the thread that
waits for the listener. `poll` sets and clears the listener of queues that
other threads push to, move and destroy meanwhile. The pool's worker polls the
pool's vector of queues; clients talk to the worker by messages to the control
queue (the first of the vector) and wait on a semaphore on their own stack for
the answer, and `is_poll_idle` borrows the vector while the worker is paused by
a pair of semaphores. The work queue is independent of the others: a monitor
with one mutex that the worker gives up only while it waits, not when a work
runs. `work_queue_for_tests` derives from it, replaces the clock, and gives the
mutex up once more, when it calls a function of the user after a work.

What is hard, and what must be right:

* **message_queue**: moves in any direction race with pushes and pops, and
  `enqueue` reads the ID before it locks. No message may be lost, duplicated,
  reordered or stranded (`NothingLost`), no two objects may have one ID
  (`UniqueQid`), and whatever the objects do, each ID must be one channel that is
  opened and closed once (`ImplementsChannels`). Only the first push onto an empty
  queue is reported, so a listener must have been told at any time that data
  waits (`DataReported`), and of every move and destruction (`DepartureReported`).
* **listener**: notifications come from any thread in any order; the vector
  must be sorted for `std::upper_bound`, have one record for each queue and lose
  no flag (`ListAscending`, `RecordsKept`, `ImplementsReportedFlags`).
* **poll**: wakeups must not be missed between setting the listeners and
  waiting (`BlockedOnlyWhenQuiet`); the listener dies when `poll` returns and no
  queue may keep a pointer to it (`NoDanglingListener`); what is reported must
  lead to every message being consumed (`ReportedQueueHasData`, `AllConsumed`); a
  wait with a time limit must last as long as it was told, even if its thread is
  woken up for no reason (`NothingOnlyAfterTime`), and no longer
  (`TimedPollReturns`).
* **pool**: queues are deleted by clients while the worker holds copies of
  their addresses (`NoUseAfterFree`, `DeletedUnheard`); at most one thread polls
  (`PauseToken`, `PollExclusive`); messages go once, in order, to their own
  handler even if handlers fail (`OwnHandler`, `AllHandled`, `ImplementsServedChannels`);
  "idle" is true when it is said (`IdleIsIdle`); a queue is not closed while its
  handler runs; nobody waits forever (`CallsReturn`).
* **work_queue**: the heap changes while the worker waits for a time it took
  from the heap (`WakesInTime`); works run one at a time, never early, the
  earliest first, and never after they were cancelled (`ImplementsSchedule`); a
  work that is due does run (`DueWorksRun`); the worker can be stopped in
  any state and leaves nothing behind (`KillReturns`, `StoppedIsEmpty`); IDs
  wrap around (`WorkIdsUnique`, `ClientIdsUnique`).
* **work_queue_for_tests**: `forward_time` sets the clock and, to wait until all
  works up to the new time have run, schedules a work of its own that puts
  itself off while others are due. Completion must be signalled once for each
  call (`ForwardToken`), not before the works have run (`CompletedWhenDone`) and
  in the end (`ForwardReturns`), and the worker must not sleep through a change
  of the clock (`NoDueWorkAsleep`). A periodic work is in no container while the
  user's function runs, with the mutex free (`AllCancelled`).

`PROJECT.json` lists each hazard at its line with the properties that watch it.

## 2. The modules

```
NotificationList ── PollListener ──(refines)── ReportedFlags
   │
MessageQueue ──── MessageQueueThreads ──(refines)── Channels
   │                                                   │
   │   WaitTime                                        │
   │      │                                            │
MessageQueuePoll ── MessageQueuePollThreads            │
   │                                                   │
MessageQueuePool ──────────────(refines)────── ServedChannels

WorkQueue ── WorkQueueThreads ──(refines)── WorkSchedule
                    │
             WorkQueueForTests
```

* **NotificationList**: the vector of records as operators on sequences:
  `upper_bound` (what `std::upper_bound` returns on a sorted vector) and
  `notified` (what `notify` makes of the vector). A word of flags is the set of
  its bits.
* **PollListener**: one listener that is notified in any order; **ReportedFlags**
  is what it promises: a map from queue IDs to sets of flags.
* **MessageQueue**: the state of every queue object, indexed by address
  (`Objects`), and one operator for each method. A method holds `_mutex` from its
  first to its last access, and `notify` is called inside, so each method is one
  step; `move_assign` takes both mutexes at once by `std::lock`. The IDs,
  listeners and listener lists of dead objects hold default values.
* **MessageQueueThreads**: threads that use queues in any way. `enqueue` is two
  steps, `NewMessage` and `Push`, because `new_message` reads `_id` unlocked.
  `accepted` and `taken` are histories.
* **Channels**: what the queues promise, without objects: a channel for each ID,
  open from the construction of a queue with that ID to the destruction of the
  object that holds its content at last. A move of a queue is a stutter.
* **WaitTime**: the class `wait_time_provider`; an object is a record of its three
  fields, `get_time_point` an operator of it and the current time. Time points
  are numbers, and 0 is `time_point_type ()`, which stands for none.
* **MessageQueuePoll**: a call of `poll` step by step: one step for each queue
  whose listener is set or cleared, one each for falling asleep, returning and
  giving up. A call is identified by its listener. `clock` is what the steady
  clock shows, `wtp` the argument of the call, and `until` the local `abs_time` of
  `wait_for_notifications`, which is computed when the wait begins and kept when
  the thread wakes up for no reason.
* **MessageQueuePollThreads**: pollers that drain what a poll reports, with
  other threads that push and move, and the clock.
* **MessageQueuePool**: the worker and the clients. The program counters `wpc`
  and `cpc` name the points where a thread can be overtaken: every lock, every
  semaphore, every handler call. A semaphore is a number. **ServedChannels** is
  what the pool promises: `Channels` with one handler call at a time and no
  channel that is closed under its handler. The control queue is no channel of it.
* **WorkQueue**: the operations of a work queue and its worker. Since the mutex
  is held from one wait to the next, the worker's steps run from one wait to the
  next (`restart`); a running work is a state of its own (`wpc = "run"`) in
  which nobody else gets the mutex. The heap is any sequence with the heap
  property: what the `<algorithm>` functions promise, not how they work.
* **WorkQueueThreads**: the clock, the clients, `start_worker` and
  `kill_worker`; **WorkSchedule** is the abstract specification: a set of works, no
  heap, no flag, no stop record.
* **WorkQueueForTests**: the state and the calls of `WorkQueueThreads` with
  another clock and another worker. Its variable `now` is `_current_time_point`. The
  worker does not wait for the clock but for a change of the container, takes
  out what is due at once, and is in `wpc = "sync"` while the user's function
  runs: then the mutex is free, and `item` is a record in no container.
  `_time_forwarding_flag`, set by the forwarding work and read when it returns,
  is `is_forwarding` of the record. A client's calls are those of
  `WorkQueueThreads`, its reading of the clock needs the mutex.
* **MC...** give the constants small values. **...Proofs** hold the theorems.
  Operators with a comment that begins with `fault:` are wrong versions of the
  definition that follows, with which the list of mutants in `PROJECT.json` shows
  that a property can fail.

Left out of the models: allocation failure (so `catch (...)` of `notify`, `push`
and of the drain loop matter only where a handler throws), the payload of
messages, the resolution and range of clocks, and the read-only accessors
(`is_idle`, `get_nearest_time_point`, `get_qid`).

## 3. What is checked

| run | what it asks | bounds |
|---|---|---|
| `listener` | is the vector sorted, complete and a refinement of the map? | 3 queue IDs, 2 pointers; unbounded notifications |
| `queue_threads` | do threads that do anything with queues lose, reorder or strand a message, or leave a listener uninformed; do the queues implement `Channels`? | 2 addresses, 2 IDs, 2 threads, 1 listener, 2 messages |
| `poll_threads` | does a poller miss a wakeup, leave its listener behind when queues move under it, return too early or too late, or fail to consume a message? | 3 queues, a range of 2, 3 messages, 1 move, unbounded polls of all four kinds of wait, those with a time limit begun at time 1 |
| `pool_safety` | can the pool touch a deleted queue, poll twice at once, misdeliver, be "idle" too soon, or close a queue under its handler? | 2 clients, capacity 2, 4 addresses, 2 allocations, 2 idle calls, 2 messages, moves out of the pool |
| `pool_liveness` | do calls return, are messages handled in the end? | 2 clients, 1 allocation, 2 idle calls, 2 messages |
| `work_safety` | does the work queue implement the schedule, and does the worker wait for the right time? | 2 clients, time 1..2, 3 works, 1 update, 2 starts, 2 valid IDs |
| `work_liveness` | do works that are due run, does `kill_worker` return? | 2 clients, time 1..3, 2 works, 2 updates, 1 start |
| `work_forwarding` | does `forward_time` return, once, when and only when the works that are due have run? | 1 client, time 1..3, 2 works, 1 update, 2 calls of `forward_time`, 8 IDs |

Why the bounds are enough. Two threads and two queues are what a race of two
methods needs; the third queue of `poll_threads` is outside the range, so that
content can be moved into the range and out of it. Messages are bounded because the
number created is part of the state; two show an order, and three let a
queue become empty and filled again within a poll. Polls with a time limit begin
at time 1 and wait for one tick or until time 2, so that messages may come before,
at and after their end, and polls without one go on for ever. In the pool, two clients with
two idle calls give two pauses in the control queue at once, two allocations
give a queue that is removed while another has records to handle, and the two
spare addresses let a client reuse an address or move out of the pool. In the
work queue three works and the stop record are the least with which a heap has
a choice of order, and with two valid IDs the counter wraps around within the
run. In `work_forwarding` two works let a periodic and another one be due when the
forwarding work is executed, and a second call of `forward_time` would meet a
semaphore that was posted too often. Bounds that are constants of a module:
`MaxMessages`, `MaxMoves`, `MaxAllocations`, `MaxIdleCalls`, `MaxTime` (of polls: when
the last one with a time limit begins; the clock goes on until it has ended),
`MaxPosts`, `MaxUpdates`, `MaxStarts`, `MaxForwards`.

Deadlock is not checked (`CHECK_DEADLOCK FALSE`) except for `listener`: with
bounded calls every model stops when the calls are used up, as the program
does when nobody calls it. That no call is stuck is what `CallsReturn`,
`KillReturns`, `AllConsumed` and `BlockedOnlyWhenQuiet` say.

Fairness is weak fairness only: a thread that can run on does (`Worker`, the
steps of calls that have been made), time passes (`Tick`) and `wait_until` gives up
when its time has come (`Timeout`), a poller polls again and handles what it got,
a call of `forward_time` goes on (`TestWorker`, `Forwarding`). Mutexes and condition variables guarantee no more, and
the models need no more, since the number of competing calls is bounded. Making
a call and a spurious wakeup are choices and not fair. `AllHandled`
and `DueWorksRun` therefore hold for finitely many calls: a producer that is
always faster than the handler, or updates that never cease, do starve a queue
or a work in the code, and no property claims otherwise.

Preconditions that the models take from the code and its use:

* `allocate_queue` is called by one thread at a time (`SerializeAlloc`): it scans
  and writes `_handler` without a lock. With concurrent calls two queues get the
  same ID and `AddedInOrder` fails.
* A client does not release a pool queue whose content it has moved out: the
  empty queue has no ID, `remove_queue` does not find it, and it is deleted
  while the worker still has it.
* Outside of a pool, a queue is not destroyed while it is in the range of a poll,
  nor while a thread is inside a call on it.
* Handlers do not call their pool and works do not call their queue: any such
  call waits for the thread that makes it.
* One thread calls `forward_time` and the destructor of `work_queue_for_tests`, as
  the tests do: calls at the same time would share the clock and the semaphore.
  The times are not the empty time point, and clients change works of their own
  only, not the forwarding work.
* The reference clock of a wait is `steady_clock::now`, the default, and a
  duration added to the current time does not overflow. A time point that is
  the epoch itself means no time point, as in the code.
* `start_worker`, which is protected, is not called during `kill_worker`.

### Disagreements

Four runs end in a violation, on purpose:

* `pool_slots`, `SlotFound`: the slot of a released queue is never cleared, so
  `allocate_queue` finds none after `capacity` allocations; the assertion of
  `message_queue_pool.cpp` says that it finds one. TLC: allocate, release,
  allocate on a pool of capacity 1.
* `poll_overlap`, `EachQueueSet`: a poll over a queue that has a listener
  already waits without having set its own; the comment of
  `set_listener_for_each_queue` says that it sets the listener for each queue.
* `work_reschedule`, `NextFromNow`: a periodic work that is late is due one period
  after it was due; the comment of `execute_work` speaks of one period after the
  current time.
* `work_sync_cancel`, `AllCancelled`: while `work_queue_for_tests` calls the user's
  function with the mutex unlocked, the periodic record it has just executed is
  in no container. `cancel_client_works` by another thread does not find it,
  returns `Success` and the record is scheduled again; the comment of
  `cancel_client_works` says that it cancels all works of the owner. TLC: two works of
  one client, of which the periodic one is being executed.

## 4. What is proved

The theorems hold for every value of the constants: any finite or infinite sets
of objects, IDs, threads and listeners, any number of messages, works and
clients, except where a hypothesis is named here. In each module the inductive
invariant is a conjunction of named parts, with a lemma for each part or each
operation, and the theorems follow from it.

**The list of a listener** (`PollListenerProofs`, `NotificationListProofs`).

* **ListStaysAscending**, **ListStaysTyped**: the list is a list of records in strictly
  ascending order of queue ID. The two are inductive together; the work is in the
  lemmas `UpperBound` (the position exists because the records up to `q` are a
  prefix as long as their number, and it separates the IDs), `RecordInserted` and
  `NotifiedAscending`.
* **NoRecordIsLost**: `RecordsKept`: a record keeps its queue, its pointer and its flags.
* **ListImplementsReportedFlags**: the list implements `ReportedFlags`. One
  notification changes the flags of one queue ID (`NotifiedFlags`, which needs the
  list ascending: otherwise a second record of the queue could be made, and the
  order be lost).

**Queues and threads that use them** (`MessageQueueThreadsProofs`; `MessageQueueProofs` has
the lemmas about single methods).

* **MessagesKept**, **OneQueuePerQid**, **QueueTypes**: `OwnMessages`, `NothingLost` and
  `TakenInOrder`, `UniqueQid`, `TypeOK` (no run checks `OwnMessages` and `TakenInOrder` by
  themselves: `ImplementsChannels` fails whenever they do). The inductive invariant
  `IInv` adds `FreshQids` (an ID that no queue has been given has no history, and no
  dead object has an ID), without which a construction could give a queue an ID
  with a past.
* **QueuesImplementChannels**: the queue objects implement `Channels`. The channel of
  an ID is the content of its sole owner, the object that has the ID, so that a
  move changes objects and no channel. The invariant adds `Numbered` to `IInv`:
  a message under way has the number of one that was created, so that a
  push sends a message of the abstract specification.
* **DataIsReported**, **DeparturesAreReported**: a listener has been told of data
  that waits, and no queue is moved or destroyed without its listener being told
  and let go. The inductive invariant adds to `IInv` that dead objects have
  no listener (`DeadUnheard`); each method is shown to report what it has to.

**poll** (`MessageQueuePollProofs`).

* **PollTypes**, **NoListenerDangles**: `TypeOK` and `NoDanglingListener`, for any number of
  calls over any ranges. `ListenersHeld` says which queues may refer to a call's
  listener: those of its range up to `pos` while it sets, all while it waits, those
  from `pos` on while it clears. A move takes the listener away from the source
  and leaves that of the destination, so that it stays true.
* **NoWakeupIsLost**, **OnePollerIsWoken**: `BlockedOnlyWhenQuiet`. The invariant
  `QuietUntilTold` says that a call which has heard nothing is the listener of
  all queues it has set, and these are empty. That needs the queues to itself: the first
  theorem has the hypothesis that polls at the same time share no queue
  (`PollsApart`, in all states), the second that there is one poller, which the run has.
  Without either the statement is false, as the run `poll_overlap` shows.
* **NoPollGivesUpEarly**: `NothingOnlyAfterTime`, for any number of polls. `Deadline` relates
  `until` to the argument and the beginning of the call in each phase.
* **ReportsAreTrue**: `ReportedQueueHasData` with one poller, which alone takes
  messages. The property is about behaviours in which no queue has been moved; `DataInv`
  follows a notification from the listener to the result and to `todo`, and says that the
  list is ascending, so that handling one record empties no queue of another.

**The pool** (`MessageQueuePoolProofs`), for any finite set of clients and any capacity.

* **PauseIsAToken**, **PollsExclude**: `PauseToken`, `PollExclusive` and `RangesStable`.
  The pause is one token: `_sem_pause`, `_sem_resume` and the clients inside
  `is_poll_idle` hold together as many as the worker has given away. `IInv` adds
  that whoever polls is in the part of its code that polls (`PollersPolling`).
  `TokenHolders` derives from it that two polls exclude each other.
* **PoolTypesHold**, **NothingFreedIsUsed**, **NobodyHearsTheDeleted**: `TypeOK`, `NoUseAfterFree` and
  `DeletedUnheard`. They need all of the invariant `QInv`, since each part
  supports the next. `Owners`: a client owns its queue alone. `Requests`: a client
  that waits has exactly one message in the control queue or its answer, and the
  message names its queue; so an answer is for the right call, and none comes twice.
  `Members`: `_mqs` has the control queue in front and otherwise, once each, queues
  of clients that have not begun to delete them (`InPool`); "once" is why erasing one
  position is enough. `Ids` and `OwnMessages`: the control queue has ID 0 and alone
  holds control messages. `ListenersHeld` as for poll: with `RangesStable` a queue
  out of `_mqs` has no listener. `ReportsInv`: records that the worker may use name members of
  `_mqs`, because reports of moved and destroyed queues are not `usable`, and because one
  round of the worker changes `_mqs` only after its last use of the
  records (`poll_again`).
* **QueuesAreAddedInOrder**, **HandlersAreOwn**: `AddedInOrder` and `OwnHandler`, if one thread
  at a time calls `allocate_queue` (`SerializeAlloc`, a hypothesis of the theorems, see
  section 3). `Serial` adds to `QInv` that IDs are unique, that the slot found by a
  call stays free until it is written, and that the handler in the slot of a
  queue is its owner's.
* **PoolServesChannels**: the pool implements `ServedChannels`, under the same hypothesis. The
  channel of a slot is the content of the only object with the ID of the slot (`Serial`), so a
  move changes objects and no channel, and a queue that is allocated in a slot that
  was used before opens its channel again, empty. That a channel is not closed while its handler
  runs needs two invariants more: a handler runs only while the worker goes through its
  records (`Busy`), and the owner of the queue that it serves still has it in the pool
  (`Serving`): a release waits for the worker's answer, which comes when no handler runs.
* **IdleIsTrue**: `IdleIsIdle`, without the hypothesis. `IdleInv` adds to `QInv` and `Busy` that a call
  which has heard nothing is the listener of every queue it has set, and these
  are empty (`QuietUntilTold`, as for poll, except that the token makes the queues the call's own);
  that when it returns an empty list none of the messages it asks about is queued, and
  none comes back before the worker is resumed (`FoundNothing`); and, for the last, that a
  message in a queue or in the question has been pushed before (`SentFirst`), so that a
  later push is of another one.

**The work queue** (`WorkQueueProofs`).

* **WorkerWakesInTime**, **KilledIsEmpty**, **QueueTypes**: `WakesInTime`,
  `StoppedIsEmpty` and `TypeOK`. That the front of a heap is the
  earliest record (`HeapFront`) follows without induction: among the positions
  that are earlier than the front, the least one has a parent that is earlier still.
  The invariant `WInv` says of an open queue that it holds works only and its worker
  is in the loop, of a stopped one that it holds the record that stops the worker
  and that the flag will make the worker look at it, or that the worker has taken
  it; without the flag the worker could time out and execute a record without a work.
* **WorksHaveOwnIds**: `WorkIdsUnique`. `OrderInv` numbers the calls of `schedule_work`
  and says how often the counter was advanced between two of them (`Ago`), the value 0
  skipped; so two works have the same ID only when the counter has gone round
  between them.
* **ClientsHaveOwnIds**: `ClientIdsUnique`, if there are at most `IdModulus - 1` clients, as many
  as there are valid IDs. With one more the property is false: the counter wraps around.
* **QueueImplementsSchedule**: the heap, the flag, the condition and the stop record
  implement `WorkSchedule`. `SInv` adds to `WInv` and `OrderInv` that a stop record
  comes alone, that works have an owner, that the worker waits for the first work
  unless it has been told to look again, and that calls under way have valid arguments
  (`EntryInv`). `Counted` relates the numbers of calls to the records, because the
  schedule's tags are bounded by `MaxPosts` and `MaxStarts`.

**work_queue_for_tests** (`WorkQueueForTestsProofs`). All three theorems have the hypothesis that
the set of clients is finite and has at most `IdModulus - 2` members: one ID more is
the forwarding work's own. After a wrap-around a client would get that ID and its
works would be taken for forwarding works, in the code as in the model
(`TestClientIds` is the invariant that excludes it).

* **ForwardingIsAToken**: `ForwardToken`: a call that waits has one forwarding work in the
  container or in the worker's hands, or one post of the semaphore (`TokenInv`).
* **NothingDueSleeps**: `NoDueWorkAsleep`: while the worker sleeps, or is about to without having
  been told to look again, nothing in the container is due (`SleepsTillDue`).
* **NothingDueIsLeft**: `CompletedWhenDone`: the executed work was the earliest one (`RunsFirst`),
  so that when the forwarding work does not put itself off, nothing else is due.

Assumptions on the constants, which TLC evaluates in the runs: queue IDs are natural
numbers and `undefined_qid` is none of those given to queues, `nullptr` is no object
and no listener, the worker is no client, the set of the pool's clients is finite
and the capacity is not 0; the ranges of polls are sequences of queues, and a wait
has a duration or a time point but not both, as its constructors make it; periods are
natural numbers, `RUN_ONCE` among them, there are at least two IDs, the clock has a
time to begin with; bounds on messages, moves, posts and starts are natural numbers, of any size.
A bound matters in two proofs only, since the abstract specifications have it too:
`MaxMessages` in `QueuesImplementChannels`, and `MaxPosts`, `MaxStarts` and `MaxTime` in
`QueueImplementsSchedule`.

Only model-checked: the liveness properties, since fairness and ENABLED are beyond TLAPS
(`AllConsumed`, `TimedPollReturns`, `CallsReturn`, `AllHandled`, `DueWorksRun`, `KillReturns`,
`ForwardReturns`). Every other property that a passing run checks is stated by a theorem.

## 5. Not modelled, and what is left

Not modelled:

* `types.h` (status codes: an operation's outcomes are its disjuncts), the build
  files, and the unit tests, which were read as documentation.
* Allocation failure. `notify` and `push` swallow exceptions of a container's
  growth; the notification or message is then lost, as the code accepts.
* `start_worker` during `kill_worker`, calls of `forward_time` at the same time, and
  handlers or works that call their own pool or queue: the code's callers must
  not do so, and what happens then is a thread destroyed while joinable, a shared
  semaphore, or a thread that waits for itself.

Proofs that are left: none of the safety properties that the runs check. `BlockedOnlyWhenQuiet` and
`ReportedQueueHasData` are proved for polls that share no queue and for one poller, as the
code has to be used; `WorkQueueForTests` extends `WorkQueue`, so both queues
store and order works by the same definitions, and no refinement between them is stated.

Heaps are any sequence with the heap property; that `std::push_heap` and the like
establish it is taken from their specification.
