--------------------------- MODULE WorkQueueThreads ---------------------------
(***************************************************************************)
(* A work_queue with its worker, the clock that wait_for_time_point waits  *)
(* for, and client threads that schedule, update and cancel works, stop    *)
(* the worker and, as a derived class may, start it again.                 *)
(***************************************************************************)
EXTENDS WorkQueue

CONSTANTS
  Clients,   \* the threads that use the queue
  Periods,   \* the periods that occur, RUN_ONCE among them
  MaxTime,   \* bound: the time at which the clock stops
  MaxPosts,  \* bound: calls of schedule_work
  MaxUpdates,\* bound: calls of update_work
  MaxStarts  \* bound: calls of start_worker

ASSUME PeriodsAssumption == RUN_ONCE \in Periods /\ Periods \subseteq Nat
ASSUME MaxTimeAssumption == MaxTime \in Nat \ {0}
ASSUME BoundsAssumption == MaxPosts \in Nat /\ MaxStarts \in Nat

VARIABLES
  now,     \* the time
  cpc,     \* what each client does: see the actions
  stime,   \* the start time of each call of schedule_work
  owner,   \* the client ID of each client
  calls    \* how many calls of schedule_work, update_work and start_worker were made

clientvars == <<cpc, stime, owner, calls>>
vars == <<wqvars, now, clientvars>>

Times == 1 .. MaxTime

Init ==
  /\ WQInit
  /\ now = 1
  /\ cpc = [c \in Clients |-> "out"]
  /\ stime = [c \in Clients |-> EMPTY_TIME_POINT]
  /\ owner = [c \in Clients |-> INVALID_ID]
  /\ calls = [schedule |-> 0, update |-> 0, start |-> 0]

\* The clock runs on at any time.
Tick ==
  /\ now < MaxTime /\ now' = now + 1
  /\ UNCHANGED <<wqvars, clientvars>>

\* The constructor starts the worker, and so may a derived class.
StartWorker ==
  /\ calls.start < MaxStarts /\ calls' = [calls EXCEPT !.start = @ + 1]
  /\ \A c \in Clients : cpc[c] # "join"
  /\ start_worker
  /\ UNCHANGED <<now, cpc, stime, owner>>

GetClientId(c) ==
  /\ cpc[c] = "out" /\ owner[c] = INVALID_ID
  /\ get_client_id
  /\ owner' = [owner EXCEPT ![c] = next_client_id']
  /\ UNCHANGED <<now, cpc, stime, calls>>

\* schedule_work: an empty start time becomes the current time, which is read
\* before the mutex is locked.
ScheduleBegin(c) ==
  /\ cpc[c] = "out" /\ owner[c] # INVALID_ID
  /\ calls.schedule < MaxPosts /\ calls' = [calls EXCEPT !.schedule = @ + 1]
  /\ \E t \in Times \cup {EMPTY_TIME_POINT} :
       stime' = [stime EXCEPT ![c] = IF t = EMPTY_TIME_POINT THEN now ELSE t]
  /\ cpc' = [cpc EXCEPT ![c] = "schedule"]
  /\ UNCHANGED <<wqvars, now, owner>>

\* With the mutex locked: the record is posted, or not if the worker is stopped.
SchedulePost(c) ==
  /\ cpc[c] = "schedule"
  /\ \/ \E p \in Periods : schedule_work(owner[c], stime[c], p)
     \/ unlocked /\ stopped /\ UNCHANGED wqvars
  /\ cpc' = [cpc EXCEPT ![c] = "out"]
  /\ stime' = [stime EXCEPT ![c] = EMPTY_TIME_POINT]
  /\ UNCHANGED <<now, owner, calls>>

\* update_work does not replace an empty start time.
UpdateWork(c) ==
  /\ cpc[c] = "out" /\ owner[c] # INVALID_ID
  /\ calls.update < MaxUpdates /\ calls' = [calls EXCEPT !.update = @ + 1]
  /\ \E wid \in 0 .. IdModulus - 2, t \in Times \cup {EMPTY_TIME_POINT}, p \in Periods :
       update_work(wid, owner[c], t, p)
  /\ UNCHANGED <<now, cpc, stime, owner>>

CancelWork(c) ==
  /\ cpc[c] = "out"
  /\ \E wid \in 0 .. IdModulus - 2 : cancel_work(wid)
  /\ UNCHANGED <<now, clientvars>>

CancelClientWorks(c) ==
  /\ cpc[c] = "out"
  /\ cancel_client_works(owner[c])
  /\ UNCHANGED <<now, clientvars>>

\* kill_worker; a call that finds the worker stopped changes nothing.
KillWorker(c) ==
  /\ cpc[c] = "out"
  /\ signal_worker_to_stop
  /\ cpc' = [cpc EXCEPT ![c] = "join"]
  /\ UNCHANGED <<now, stime, owner, calls>>

Join(c) ==
  /\ cpc[c] = "join"
  /\ join_worker
  /\ cpc' = [cpc EXCEPT ![c] = "out"]
  /\ UNCHANGED <<now, stime, owner, calls>>

Worker == worker_step(now) /\ UNCHANGED <<now, clientvars>>

SpuriousWakeup == spurious_wakeup /\ UNCHANGED <<now, clientvars>>

Client(c) ==
  \/ GetClientId(c) \/ ScheduleBegin(c) \/ SchedulePost(c)
  \/ UpdateWork(c) \/ CancelWork(c) \/ CancelClientWorks(c) \/ KillWorker(c) \/ Join(c)

Next == Tick \/ StartWorker \/ Worker \/ SpuriousWakeup \/ \E c \in Clients : Client(c)

\* Time passes, works return, and a thread that can run on does.
Fairness ==
  /\ WF_vars(Tick) /\ WF_vars(Worker)
  /\ \A c \in Clients : WF_vars(SchedulePost(c)) /\ WF_vars(Join(c))

Spec == Init /\ [][Next]_vars /\ Fairness
-----------------------------------------------------------------------------
Fields ==
  [work : BOOLEAN, time_point : Nat, client_id : 0 .. IdModulus - 1, period : Periods]
Records == [fields : Fields, id : 0 .. IdModulus - 2, call : Nat]

TypeOK ==
  /\ container \in Seq(Records) /\ item \subseteq Records /\ Cardinality(item) <= 1
  /\ change_flag \in BOOLEAN /\ stopped \in BOOLEAN /\ asleep \in BOOLEAN
  /\ next_work_id \in 0 .. IdModulus - 1 /\ next_client_id \in 0 .. IdModulus - 1
  /\ wpc \in {"none", "some_work", "time_point", "run", "exited"}
  /\ deadline \in Nat
  /\ now \in Times /\ stime \in [Clients -> Nat] /\ owner \in [Clients -> 0 .. IdModulus - 1]
  /\ cpc \in [Clients -> {"out", "schedule", "join"}]

\* The worker never sleeps past a work: unless the change flag is set, and then
\* it has been woken, it waits for the earliest of the works, and it waits for
\* some work only when there is none.
WakesInTime ==
  /\ wpc = "some_work" /\ asleep => is_container_empty
  /\ wpc = "time_point" /\ change_flag => ~asleep
  /\ wpc = "time_point" /\ ~change_flag =>
       /\ ~is_container_empty
       /\ \A i \in 1 .. Len(container) : deadline <= container[i].fields.time_point

\* Two works of the queue have different IDs unless so many works were
\* scheduled between them that the counter has wrapped around.
WorkIdsUnique ==
  \A r, s \in ToSet(container) \cup item :
    r.call < s.call /\ s.call - r.call < IdModulus - 1 => r.id # s.id

\* Clients have IDs of their own, so that none can cancel the works of another.
ClientIdsUnique ==
  \A c, d \in Clients : owner[c] = owner[d] => c = d \/ owner[c] = INVALID_ID

\* Once kill_worker has returned there is no worker, no work and nothing that
\* stops the next worker at once.
StoppedIsEmpty ==
  stopped /\ (\A c \in Clients : cpc[c] # "join") =>
    wpc = "none" /\ is_container_empty /\ item = {}

\* The queue implements the abstract schedule.
entry(r) ==
  [time |-> r.fields.time_point, owner |-> r.fields.client_id,
   period |-> r.fields.period, call |-> r.call]
Schedule == INSTANCE WorkSchedule WITH
  Times <- 0 .. MaxTime, Owners <- 0 .. IdModulus - 2, Calls <- 1 .. MaxPosts + MaxStarts,
  works <- {entry(r) : r \in {s \in ToSet(container) : s.fields.work}},
  running <- {entry(r) : r \in item},
  open <- ~stopped,
  clock <- now
ImplementsSchedule == Schedule!Spec

\* "Usually next time point is calculated as current-time-point + repeat-period"
\* (work_queue.h, execute_work), whenever a work is to be executed once again.
NextFromNow ==
  [][\A r \in item : item' = {} =>
       \A s \in ToSet(container') :
         s.call = r.call => s.fields.time_point = now + r.fields.period]_vars

\* A work that is due runs, or is cancelled, stopped or put off by an update:
\* periodic works that are late cannot keep it waiting forever.
due(n) == \E r \in ToSet(container) : r.call = n /\ r.fields.work /\ r.fields.time_point <= now
DueWorksRun == \A n \in 1 .. MaxPosts + MaxStarts : due(n) ~> ~due(n)

\* kill_worker returns, whatever the worker does when it is called.
KillReturns == \A c \in Clients : cpc[c] = "join" ~> cpc[c] = "out"
=============================================================================
