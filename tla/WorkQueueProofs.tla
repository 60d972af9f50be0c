--------------------------- MODULE WorkQueueProofs ---------------------------
(***************************************************************************)
(* The worker of a work queue never sleeps past a work and leaves nothing  *)
(* behind when it is stopped, works and clients have IDs of their own, and *)
(* the heap, the flag and the condition variable implement the schedule of *)
(* works, for any number of clients and works, any periods and any times.  *)
(***************************************************************************)
EXTENDS WorkQueueThreads, TLAPS, SequenceTheorems, FiniteSetTheorems

\* The records of a container are a finite set.
LEMMA RecordsOf ==
  ASSUME NEW R, NEW s \in Seq(R)
  PROVE  /\ IsFiniteSet(ToSet(s)) /\ ToSet(s) \subseteq R
         /\ \A x : x \in ToSet(s) <=> \E i \in 1 .. Len(s) : x = s[i]
<1>1. Len(s) \in Nat /\ s \in [1 .. Len(s) -> R] /\ DOMAIN s = 1 .. Len(s)
  BY LenProperties
<1>2. ToSet(s) = {s[i] : i \in 1 .. Len(s)}
  BY <1>1 DEF ToSet
<1>3. s \in Surjection(1 .. Len(s), ToSet(s))
  <2>1. s \in [1 .. Len(s) -> ToSet(s)]
    BY <1>1, <1>2
  <2>2. \A x \in ToSet(s) : \E i \in 1 .. Len(s) : s[i] = x
    BY <1>2
  <2> QED
    BY <2>1, <2>2 DEF Surjection
<1>4. IsFiniteSet(ToSet(s))
  BY <1>1, <1>3, FS_Surjection, FS_Interval
<1> QED
  BY <1>1, <1>2, <1>4

\* What push_heap, pop_heap and make_heap leave: a heap of the records.
LEMMA HeapOf ==
  ASSUME NEW R, NEW S \in SUBSET R, IsFiniteSet(S), NEW s \in heaps(S)
  PROVE  /\ s \in Seq(R) /\ is_heap(s) /\ Len(s) = Cardinality(S)
         /\ \A i \in 1 .. Len(s) : s[i] \in S
<1>1. Cardinality(S) \in Nat
  BY FS_CardinalityType
<1>2. s \in [1 .. Cardinality(S) -> S] /\ is_heap(s)
  BY DEF heaps, SetToSeqs
<1>3. s \in Seq(S) /\ Len(s) = Cardinality(S)
  BY <1>1, <1>2
<1> QED
  BY <1>2, <1>3

\* The record in front is one of the earliest: from a record that is earlier
\* than it, the way up to the front would never end.
LEMMA HeapFront ==
  ASSUME NEW R, NEW s \in Seq(R), \A r \in R : r.fields.time_point \in Nat, is_heap(s),
         NEW i \in 1 .. Len(s)
  PROVE  s[1].fields.time_point <= s[i].fields.time_point
<1> DEFINE t(j) == s[j].fields.time_point
           n == Len(s)
           Earlier == {j \in 1 .. n : t(j) < t(1)}
           T == {1 .. j : j \in Earlier}
<1>1. n \in Nat /\ \A j \in 1 .. n : t(j) \in Nat
  BY LenProperties
<1>2. SUFFICES ASSUME Earlier # {} PROVE FALSE
  BY <1>1
<1>3. IsWellFoundedOn(StrictSubsetOrdering(1 .. n), FiniteSubsetsOf(1 .. n))
  BY FS_StrictSubsetOrderingWellFounded
<1>4. T \subseteq FiniteSubsetsOf(1 .. n) /\ T # {}
  <2>1. \A j \in Earlier : 1 .. j \subseteq 1 .. n /\ IsFiniteSet(1 .. j)
    BY <1>1, FS_Interval
  <2> QED
    BY <1>2, <2>1 DEF FiniteSubsetsOf
<1>5. PICK x \in T : \A y \in T : <<y, x>> \notin StrictSubsetOrdering(1 .. n)
  BY <1>3, <1>4, WFMin
<1>6. PICK j \in Earlier : x = 1 .. j
  BY <1>5
<1>7. j \in 2 .. n
  BY <1>1, <1>6
<1>8. j \div 2 \in 1 .. n /\ j \div 2 < j
  BY <1>1, <1>7
<1>9. t(j \div 2) <= t(j)
  BY <1>7 DEF is_heap
<1>10. j \div 2 \in Earlier
  BY <1>1, <1>6, <1>7, <1>8, <1>9
<1>11. 1 .. (j \div 2) \in T
  BY <1>10
<1>12. <<1 .. (j \div 2), 1 .. j>> \in StrictSubsetOrdering(1 .. n)
  <2>1. 1 .. (j \div 2) \subseteq 1 .. j /\ 1 .. j \subseteq 1 .. n
    BY <1>1, <1>7, <1>8
  <2>2. j \in 1 .. j /\ j \notin 1 .. (j \div 2)
    BY <1>7, <1>8
  <2> QED
    BY <2>1, <2>2 DEF StrictSubsetOrdering
<1> QED
  BY <1>5, <1>6, <1>11, <1>12

-----------------------------------------------------------------------------
\* A queue that is open holds nothing but works, and its worker is in the loop.
OpenHoldsWorks ==
  ~stopped => /\ \A i \in 1 .. Len(container) : container[i].fields.work
              /\ wpc \in {"some_work", "time_point", "run"}

\* A queue that is stopped holds nothing but the record that stops the worker,
\* which the flag will make it look at, until the worker has taken that.
StoppedHoldsStop ==
  stopped => /\ wpc # "run"
             /\ \/ /\ wpc \in {"some_work", "time_point"} /\ change_flag
                   /\ container # <<>> /\ ~container[1].fields.work
                \/ wpc \in {"none", "exited"} /\ container = <<>>

NoWorkerAfterJoin == stopped /\ (\A c \in Clients : cpc[c] # "join") => wpc = "none"

ItemRuns == item # {} => wpc = "run" /\ \A r \in item : r.fields.work

WInv ==
  /\ TypeOK /\ posted \in Nat /\ is_heap(container)
  /\ WakesInTime /\ OpenHoldsWorks /\ StoppedHoldsStop /\ NoWorkerAfterJoin /\ ItemRuns

\* What a client's change leaves in the container.
LEMMA Changed ==
  ASSUME NEW S \in SUBSET Records, IsFiniteSet(S), make_heap_and_notify_worker(S)
  PROVE  /\ container' \in Seq(Records) /\ is_heap(container') /\ Len(container') = Cardinality(S)
         /\ \A i \in 1 .. Len(container') : container'[i] \in S
         /\ change_flag' = TRUE /\ asleep' = FALSE
<1>1. container' \in heaps(S) /\ change_flag' = TRUE /\ asleep' = FALSE
  BY DEF make_heap_and_notify_worker, signal_container_change
<1>2. /\ container' \in Seq(Records) /\ is_heap(container') /\ Len(container') = Cardinality(S)
      /\ \A i \in 1 .. Len(container') : container'[i] \in S
  BY <1>1, HeapOf
<1> QED
  BY <1>1, <1>2

LEMMA NextId ==
  ASSUME NEW n \in 0 .. IdModulus - 1
  PROVE  next_id(n) \in 0 .. IdModulus - 2
<1>1. (n + 1) % IdModulus \in 0 .. IdModulus - 1
  BY IdModulusAssumption
<1> QED
  BY <1>1, IdModulusAssumption DEF next_id, INVALID_ID

\* The worker's way to its next wait: it waits for the earliest work, for some
\* work if there is none, or it has exited if it was stopped.
LEMMA Restarted ==
  ASSUME NEW records \in Seq(Records), is_heap(records), NEW flag \in BOOLEAN,
         deadline \in Nat, restart(records, flag)
  PROVE  /\ container' \in Seq(Records) /\ is_heap(container') /\ change_flag' \in BOOLEAN
         /\ deadline' \in Nat /\ asleep' \in BOOLEAN
         /\ wpc' \in {"some_work", "time_point", "exited"} /\ WakesInTime'
         /\ (\A i \in 1 .. Len(records) : records[i].fields.work) =>
              container' = records /\ wpc' \in {"some_work", "time_point"}
         /\ records # <<>> /\ ~records[1].fields.work => container' = <<>> /\ wpc' = "exited"
<1>1. records = <<>> \/ 1 \in 1 .. Len(records)
  BY EmptySeq, LenProperties
<1>2. \A r \in Records : r.fields.time_point \in Nat
  BY DEF Records, Fields
<1>3. CASE records = <<>>
  BY <1>3 DEF restart, WakesInTime, is_container_empty
<1>4. CASE records # <<>> /\ ~records[1].fields.work
  <2>1. wpc' = "exited" /\ container' = <<>> /\ change_flag' = flag /\ deadline' = deadline
        /\ asleep' = FALSE
    BY <1>4 DEF restart, clear
  <2>2. is_heap(<<>>)
    BY DEF is_heap
  <2>3. container' \in Seq(Records) /\ is_heap(container')
    BY <2>1, <2>2, EmptySeq
  <2>4. ~ \A i \in 1 .. Len(records) : records[i].fields.work
    BY <1>1, <1>4
  <2> QED
    BY <1>4, <2>1, <2>3, <2>4 DEF WakesInTime
<1>5. CASE records # <<>> /\ records[1].fields.work
  <2>1. /\ wpc' = "time_point" /\ asleep' = TRUE /\ deadline' = records[1].fields.time_point
        /\ container' = records /\ change_flag' = FALSE
    BY <1>5 DEF restart
  <2>2. \A i \in 1 .. Len(records) : records[1].fields.time_point <= records[i].fields.time_point
    BY <1>2, HeapFront
  <2>3. records[1] \in Records
    BY <1>1, <1>5, ElementOfSeq
  <2> QED
    BY <1>2, <1>5, <2>1, <2>2, <2>3 DEF WakesInTime, is_container_empty
<1> QED
  BY <1>3, <1>4, <1>5
-----------------------------------------------------------------------------
\* What the invariant says of the queue alone.
QueueInv ==
  /\ container \in Seq(Records) /\ is_heap(container)
  /\ item \subseteq Records /\ Cardinality(item) <= 1
  /\ change_flag \in BOOLEAN /\ stopped \in BOOLEAN /\ asleep \in BOOLEAN /\ deadline \in Nat
  /\ wpc \in {"none", "some_work", "time_point", "run", "exited"}
  /\ WakesInTime /\ OpenHoldsWorks /\ StoppedHoldsStop /\ ItemRuns

\* What it says of the counters, the clock and the clients.
ClientInv ==
  /\ next_work_id \in 0 .. IdModulus - 1 /\ next_client_id \in 0 .. IdModulus - 1
  /\ posted \in Nat
  /\ now \in Times /\ stime \in [Clients -> Nat] /\ owner \in [Clients -> 0 .. IdModulus - 1]
  /\ cpc \in [Clients -> {"out", "schedule", "join"}]

LEMMA InvParts == WInv <=> QueueInv /\ ClientInv /\ NoWorkerAfterJoin
  BY DEF WInv, TypeOK, QueueInv, ClientInv

LEMMA SameQueue ==
  ASSUME QueueInv, UNCHANGED <<container, change_flag, stopped, wpc, asleep, deadline, item>>
  PROVE  QueueInv'
  BY DEF QueueInv, is_heap, WakesInTime, OpenHoldsWorks, StoppedHoldsStop, ItemRuns,
         is_container_empty

LEMMA InTheContainer ==
  ASSUME QueueInv
  PROVE  /\ IsFiniteSet(ToSet(container)) /\ ToSet(container) \subseteq Records
         /\ ~stopped => \A r \in ToSet(container) : r.fields.work
  BY RecordsOf DEF QueueInv, OpenHoldsWorks

\* A call of a client that leaves nothing but works in an open queue.
LEMMA Edited ==
  ASSUME QueueInv, ~stopped, unlocked, NEW S \in SUBSET Records, IsFiniteSet(S),
         \A r \in S : r.fields.work, make_heap_and_notify_worker(S),
         UNCHANGED <<stopped, wpc, deadline, item>>
  PROVE  QueueInv'
<1>1. /\ container' \in Seq(Records) /\ is_heap(container')
      /\ \A i \in 1 .. Len(container') : container'[i] \in S
      /\ change_flag' = TRUE /\ asleep' = FALSE
  BY Changed
<1>2. WakesInTime'
  BY <1>1 DEF WakesInTime
<1>3. OpenHoldsWorks' /\ StoppedHoldsStop'
  BY <1>1 DEF QueueInv, OpenHoldsWorks, StoppedHoldsStop, unlocked
<1>4. ItemRuns'
  BY DEF QueueInv, ItemRuns
<1> QED
  BY <1>1, <1>2, <1>3, <1>4 DEF QueueInv

\* A new record, and the counters it moves on.
LEMMA NewRecord ==
  ASSUME ClientInv, NEW fields \in Fields,
         next_work_id' = next_id(next_work_id), posted' = posted + 1
  PROVE  /\ record(fields, next_work_id', posted') \in Records
         /\ next_work_id' \in 0 .. IdModulus - 1 /\ posted' \in Nat
<1>1. next_work_id' \in 0 .. IdModulus - 2 /\ posted' \in Nat
  BY NextId DEF ClientInv
<1>2. record(fields, next_work_id', posted') \in Records
  BY <1>1 DEF record, Records
<1> QED
  BY <1>1, <1>2, IdModulusAssumption
-----------------------------------------------------------------------------
LEMMA SchedulePosts ==
  ASSUME QueueInv, ClientInv, NEW client \in 0 .. IdModulus - 1, NEW t \in Nat,
         NEW p \in Periods, schedule_work(client, t, p)
  PROVE  QueueInv' /\ next_work_id' \in 0 .. IdModulus - 1 /\ posted' \in Nat
<1> DEFINE f == wq_item(TRUE, t, client, p)
           r == record(f, next_work_id', posted')
           S == ToSet(container) \cup {r}
<1>1. f \in Fields /\ f.work
  BY DEF wq_item, Fields
<1>2. /\ next_work_id' = next_id(next_work_id) /\ posted' = posted + 1
      /\ make_heap_and_notify_worker(S)
      /\ unlocked /\ ~stopped /\ UNCHANGED <<stopped, wpc, deadline, item>>
  BY DEF schedule_work, post_work
<1> HIDE DEF f
<1>3. r \in Records /\ next_work_id' \in 0 .. IdModulus - 1 /\ posted' \in Nat
  BY <1>1, <1>2, NewRecord
<1>4. IsFiniteSet(S) /\ S \subseteq Records
  BY <1>3, InTheContainer, FS_AddElement
<1>5. r.fields.work
  BY <1>1 DEF record
<1>6. \A x \in S : x.fields.work
  BY <1>2, <1>5, InTheContainer
<1> HIDE DEF S
<1>7. QueueInv'
  BY <1>2, <1>4, <1>6, Edited
<1> QED
  BY <1>3, <1>7

LEMMA UpdateEdits ==
  ASSUME QueueInv, ClientInv, NEW wid, NEW client \in 0 .. IdModulus - 1, NEW t \in Nat,
         NEW p \in Periods, wid \in 0 .. IdModulus - 2, update_work(wid, client, t, p)
  PROVE  QueueInv'
<1>1. PICK r \in found(wid) :
        make_heap_and_notify_worker(
          (ToSet(container) \ {r}) \cup {record(wq_item(TRUE, t, client, p), wid, r.call)})
  BY DEF update_work
<1> DEFINE f == wq_item(TRUE, t, client, p)
           u == record(f, wid, r.call)
           S == (ToSet(container) \ {r}) \cup {u}
<1>2. f \in Fields /\ f.work
  BY DEF wq_item, Fields
<1> HIDE DEF f
<1>3. r \in Records
  BY InTheContainer DEF found
<1>4. u \in Records /\ u.fields.work
  BY <1>2, <1>3 DEF record, Records
<1> HIDE DEF u
<1>5. IsFiniteSet(S) /\ S \subseteq Records
  BY <1>4, InTheContainer, FS_AddElement, FS_RemoveElement
<1>6. unlocked /\ ~stopped /\ UNCHANGED <<stopped, wpc, deadline, item>>
  BY DEF update_work
<1>7. \A x \in S : x.fields.work
  BY <1>4, <1>6, InTheContainer
<1>8. make_heap_and_notify_worker(S)
  BY <1>1 DEF u, f
<1> HIDE DEF S
<1> QED
  BY <1>5, <1>6, <1>7, <1>8, Edited

\* cancel_work and cancel_client_works take records out.
LEMMA CancelEdits ==
  ASSUME QueueInv, NEW C, make_heap_and_notify_worker(ToSet(container) \ C), unlocked, ~stopped,
         UNCHANGED <<stopped, wpc, deadline, item>>
  PROVE  QueueInv'
<1> DEFINE S == ToSet(container) \ C
<1>1. IsFiniteSet(S) /\ S \subseteq Records /\ \A x \in S : x.fields.work
  BY InTheContainer, FS_Difference
<1> QED
  BY <1>1, Edited

\* The record that stops the worker is then the only one.
LEMMA StopIsPosted ==
  ASSUME QueueInv, ClientInv, signal_worker_to_stop
  PROVE  QueueInv' /\ next_work_id' \in 0 .. IdModulus - 1 /\ posted' \in Nat /\ stopped'
<1> DEFINE f == wq_item(FALSE, EMPTY_TIME_POINT, INVALID_ID, RUN_ONCE)
           r == record(f, next_work_id', posted')
<1>1. f \in Fields /\ ~f.work
  BY PeriodsAssumption, IdModulusAssumption
  DEF wq_item, Fields, EMPTY_TIME_POINT, INVALID_ID
<1>2. /\ next_work_id' = next_id(next_work_id) /\ posted' = posted + 1
      /\ make_heap_and_notify_worker({} \cup {r})
      /\ unlocked /\ ~stopped /\ stopped' = TRUE /\ UNCHANGED <<wpc, deadline, item>>
  BY DEF signal_worker_to_stop, post_work
<1> HIDE DEF f
<1>3. r \in Records /\ next_work_id' \in 0 .. IdModulus - 1 /\ posted' \in Nat
  BY <1>1, <1>2, NewRecord
<1>4. ~r.fields.work
  BY <1>1 DEF record
<1> HIDE DEF r
<1>5. make_heap_and_notify_worker({r}) /\ IsFiniteSet({r}) /\ Cardinality({r}) = 1
  <2>1. {} \cup {r} = {r}
    OBVIOUS
  <2> QED
    BY <1>2, <2>1, FS_Singleton
<1>6. /\ container' \in Seq(Records) /\ is_heap(container') /\ Len(container') = 1
      /\ \A i \in 1 .. Len(container') : container'[i] \in {r}
      /\ change_flag' = TRUE /\ asleep' = FALSE
  BY <1>3, <1>5, Changed
<1>7. container' # <<>> /\ ~container'[1].fields.work
  <2>1. container'[1] = r
    BY <1>6
  <2> QED
    BY <1>4, <1>6, <2>1, EmptySeq
<1>8. WakesInTime'
  BY <1>6 DEF WakesInTime
<1>9. OpenHoldsWorks' /\ StoppedHoldsStop' /\ ItemRuns'
  BY <1>2, <1>6, <1>7
  DEF QueueInv, OpenHoldsWorks, StoppedHoldsStop, ItemRuns, unlocked
<1> QED
  BY <1>2, <1>3, <1>6, <1>8, <1>9 DEF QueueInv

\* The worker begins a wait, or exits, with records it has left a heap.
LEMMA WorkerRestarts ==
  ASSUME QueueInv, NEW records \in Seq(Records), is_heap(records), NEW flag \in BOOLEAN,
         restart(records, flag), item' = {}, UNCHANGED stopped,
         ~stopped => \A i \in 1 .. Len(records) : records[i].fields.work,
         stopped => records # <<>> /\ ~records[1].fields.work
  PROVE  QueueInv'
<1>1. /\ container' \in Seq(Records) /\ is_heap(container') /\ change_flag' \in BOOLEAN
      /\ deadline' \in Nat /\ asleep' \in BOOLEAN
      /\ wpc' \in {"some_work", "time_point", "exited"} /\ WakesInTime'
      /\ (\A i \in 1 .. Len(records) : records[i].fields.work) =>
           container' = records /\ wpc' \in {"some_work", "time_point"}
      /\ records # <<>> /\ ~records[1].fields.work => container' = <<>> /\ wpc' = "exited"
  BY Restarted DEF QueueInv
<1>2. OpenHoldsWorks' /\ StoppedHoldsStop'
  BY <1>1 DEF OpenHoldsWorks, StoppedHoldsStop
<1>3. ItemRuns' /\ item' \subseteq Records /\ Cardinality(item') <= 1
  BY FS_EmptySet DEF ItemRuns
<1> QED
  BY <1>1, <1>2, <1>3 DEF QueueInv

\* It takes the first work out, and does so of an open queue only.
LEMMA WorkIsTaken ==
  ASSUME QueueInv, NEW t, wait_expired(t)
  PROVE  QueueInv'
<1>1. /\ wpc = "time_point" /\ ~change_flag /\ container # <<>> /\ item' = {container[1]}
      /\ container' \in heaps(ToSet(Tail(container))) /\ wpc' = "run" /\ asleep' = FALSE
      /\ UNCHANGED <<change_flag, stopped, deadline>>
  BY DEF wait_expired, get_container_change_flag, is_container_empty
<1>2. ~stopped
  BY <1>1 DEF QueueInv, StoppedHoldsStop
<1>3. Len(container) \in Nat \ {0} /\ container[1] \in Records
  BY <1>1, EmptySeq, ElementOfSeq DEF QueueInv
<1>4. /\ Tail(container) \in Seq(Records) /\ Len(Tail(container)) = Len(container) - 1
      /\ \A i \in 1 .. Len(Tail(container)) : Tail(container)[i] = container[i + 1]
  BY <1>1, HeadTailProperties DEF QueueInv
<1>5. container[1].fields.work /\ \A r \in ToSet(Tail(container)) : r.fields.work
  <2>1. \A i \in 1 .. Len(container) : container[i].fields.work
    BY <1>2 DEF QueueInv, OpenHoldsWorks
  <2>2. \A i \in 1 .. Len(Tail(container)) : Tail(container)[i].fields.work
    BY <1>3, <1>4, <2>1
  <2> DEFINE rest == Tail(container)
  <2> HIDE DEF rest
  <2>3. \A r \in ToSet(rest) : \E i \in 1 .. Len(rest) : r = rest[i]
    <3>1. rest \in Seq(Records)
      BY <1>4 DEF rest
    <3> QED
      BY <3>1, RecordsOf
  <2>4. container[1].fields.work
    BY <1>3, <2>1
  <2> QED
    BY <2>2, <2>3, <2>4 DEF rest
<1>6. IsFiniteSet(ToSet(Tail(container))) /\ ToSet(Tail(container)) \subseteq Records
  BY <1>4, RecordsOf
<1>7. /\ container' \in Seq(Records) /\ is_heap(container')
      /\ \A i \in 1 .. Len(container') : container'[i] \in ToSet(Tail(container))
  BY <1>1, <1>6, HeapOf
<1>8. item' \subseteq Records /\ Cardinality(item') <= 1
  <2>1. Cardinality(item') = 1
    BY <1>1, FS_Singleton
  <2> QED
    BY <1>1, <1>3, <2>1
<1>9. WakesInTime' /\ OpenHoldsWorks' /\ StoppedHoldsStop' /\ ItemRuns'
  BY <1>1, <1>2, <1>5, <1>7 DEF WakesInTime, OpenHoldsWorks, StoppedHoldsStop, ItemRuns
<1> QED
  BY <1>1, <1>7, <1>8, <1>9 DEF QueueInv

\* The work has returned, and its record may be back in the container.
LEMMA WorkHasReturned ==
  ASSUME QueueInv, work_returns
  PROVE  QueueInv'
<1>0. PICK rec \in item : \E t \in rescheduled_time_points(rec) :
        LET again == IF t = EMPTY_TIME_POINT THEN {} ELSE {[rec EXCEPT !.fields.time_point = t]}
        IN  \E records \in heaps(ToSet(container) \cup again) : restart(records, change_flag)
  BY DEF work_returns
<1>1. PICK t \in rescheduled_time_points(rec) :
        LET again == IF t = EMPTY_TIME_POINT THEN {} ELSE {[rec EXCEPT !.fields.time_point = t]}
        IN  \E records \in heaps(ToSet(container) \cup again) : restart(records, change_flag)
  BY <1>0
<1>2. rec \in Records /\ rec.fields.work /\ wpc = "run" /\ ~stopped
  BY DEF QueueInv, ItemRuns, work_returns, StoppedHoldsStop
<1>3. t \in Nat
  <2>1. rec.fields.time_point \in Nat /\ rec.fields.period \in Nat
    BY <1>2, PeriodsAssumption DEF Records, Fields
  <2>2. t = EMPTY_TIME_POINT \/ t = rec.fields.time_point + rec.fields.period
    BY DEF rescheduled_time_points
  <2> QED
    BY <2>1, <2>2 DEF EMPTY_TIME_POINT
<1> DEFINE r == [rec EXCEPT !.fields.time_point = t]
           again == IF t = EMPTY_TIME_POINT THEN {} ELSE {r}
           S == ToSet(container) \cup again
<1>4. r \in Records /\ r.fields.work
  BY <1>2, <1>3 DEF Records, Fields
<1>5. PICK records \in heaps(S) : restart(records, change_flag)
  BY <1>1
<1> HIDE DEF r
<1>6. again \subseteq Records /\ IsFiniteSet(again) /\ \A x \in again : x.fields.work
  BY <1>4, FS_EmptySet, FS_Singleton
<1> HIDE DEF again
<1>7. IsFiniteSet(S) /\ S \subseteq Records /\ \A x \in S : x.fields.work
  BY <1>2, <1>6, InTheContainer, FS_Union
<1> HIDE DEF S
<1>8. /\ records \in Seq(Records) /\ is_heap(records)
      /\ \A i \in 1 .. Len(records) : records[i] \in S
  BY <1>7, HeapOf
<1>9. item' = {} /\ UNCHANGED stopped /\ change_flag \in BOOLEAN
  BY DEF work_returns, QueueInv
<1> QED
  BY <1>2, <1>5, <1>7, <1>8, <1>9, WorkerRestarts

LEMMA WorkerKeepsInv ==
  ASSUME QueueInv, NEW t, worker_step(t)
  PROVE  QueueInv'
<1>1. wpc \in {"some_work", "time_point"} => item = {}
  BY DEF QueueInv, ItemRuns
<1>2. /\ container \in Seq(Records) /\ is_heap(container) /\ change_flag \in BOOLEAN
      /\ ~stopped => \A i \in 1 .. Len(container) : container[i].fields.work
      /\ stopped /\ wpc \in {"some_work", "time_point"} =>
           container # <<>> /\ ~container[1].fields.work
  BY DEF QueueInv, OpenHoldsWorks, StoppedHoldsStop
<1>3. CASE wait_for_some_work
  <2>1. wpc = "some_work" /\ restart(container, change_flag) /\ UNCHANGED <<stopped, item>>
    BY <1>3 DEF wait_for_some_work
  <2> QED
    BY <1>1, <1>2, <2>1, WorkerRestarts
<1>4. CASE wait_interrupted(t)
  <2>1. wpc = "time_point" /\ restart(container, FALSE) /\ UNCHANGED <<stopped, item>>
    BY <1>4 DEF wait_interrupted
  <2> QED
    BY <1>1, <1>2, <2>1, WorkerRestarts
<1>5. CASE wait_expired(t)
  BY <1>5, WorkIsTaken
<1>6. CASE wait_continues(t)
  BY <1>6
  DEF wait_continues, get_container_change_flag, QueueInv, is_heap, WakesInTime,
      OpenHoldsWorks, StoppedHoldsStop, ItemRuns, is_container_empty
<1>7. CASE work_returns
  BY <1>7, WorkHasReturned
<1> QED
  BY <1>3, <1>4, <1>5, <1>6, <1>7 DEF worker_step
-----------------------------------------------------------------------------
LEMMA WInvInit == Init => WInv
<1> SUFFICES ASSUME Init PROVE WInv
  OBVIOUS
<1>1. QueueInv
  <2>1. container = <<>> /\ item = {} /\ stopped = TRUE /\ change_flag = FALSE
        /\ wpc = "none" /\ asleep = FALSE /\ deadline \in Nat
    BY DEF Init, WQInit, EMPTY_TIME_POINT
  <2>2. container \in Seq(Records) /\ Len(container) = 0
    BY <2>1, EmptySeq
  <2>3. is_heap(container)
    BY <2>2 DEF is_heap
  <2>4. item \subseteq Records /\ Cardinality(item) <= 1
    BY <2>1, FS_EmptySet
  <2> QED
    BY <2>1, <2>2, <2>3, <2>4
    DEF QueueInv, WakesInTime, OpenHoldsWorks, StoppedHoldsStop, ItemRuns
<1>2. ClientInv
  BY IdModulusAssumption, MaxTimeAssumption
  DEF Init, WQInit, ClientInv, Times, EMPTY_TIME_POINT, INVALID_ID
<1>3. NoWorkerAfterJoin
  BY DEF Init, WQInit, NoWorkerAfterJoin
<1> QED
  BY <1>1, <1>2, <1>3, InvParts

\* The client's side of what a step of one client keeps.
LEMMA ClientKeepsInv ==
  ASSUME QueueInv, ClientInv, NoWorkerAfterJoin, NEW c \in Clients, Client(c)
  PROVE  QueueInv' /\ ClientInv' /\ NoWorkerAfterJoin'
<1>1. CASE GetClientId(c)
  <2>1. next_client_id' \in 0 .. IdModulus - 1
    BY <1>1, NextId, IdModulusAssumption DEF GetClientId, get_client_id, ClientInv
  <2>2. /\ UNCHANGED <<container, change_flag, stopped, wpc, asleep, deadline, item>>
        /\ UNCHANGED <<next_work_id, posted, now, cpc, stime>>
        /\ owner' = [owner EXCEPT ![c] = next_client_id']
    BY <1>1 DEF GetClientId, get_client_id, loopvars
  <2>3. ClientInv'
    BY <2>1, <2>2 DEF ClientInv
  <2> QED
    BY <2>2, <2>3, SameQueue DEF NoWorkerAfterJoin
<1>2. CASE ScheduleBegin(c)
  <2>1. /\ UNCHANGED <<container, change_flag, stopped, wpc, asleep, deadline, item>>
        /\ UNCHANGED <<next_work_id, next_client_id, posted, now, owner>>
        /\ cpc' = [cpc EXCEPT ![c] = "schedule"] /\ cpc[c] = "out"
    BY <1>2 DEF ScheduleBegin, wqvars, ids, loopvars
  <2>2. PICK t \in Times \cup {EMPTY_TIME_POINT} :
          stime' = [stime EXCEPT ![c] = IF t = EMPTY_TIME_POINT THEN now ELSE t]
    BY <1>2 DEF ScheduleBegin
  <2>3. ClientInv'
    BY <2>1, <2>2, MaxTimeAssumption DEF ClientInv, Times, EMPTY_TIME_POINT
  <2> QED
    BY <2>1, <2>3, SameQueue DEF NoWorkerAfterJoin, ClientInv
<1>3. CASE SchedulePost(c)
  <2>1. /\ UNCHANGED <<now, owner>> /\ cpc' = [cpc EXCEPT ![c] = "out"] /\ cpc[c] = "schedule"
        /\ stime' = [stime EXCEPT ![c] = EMPTY_TIME_POINT]
    BY <1>3 DEF SchedulePost
  <2>2. QueueInv' /\ next_work_id' \in 0 .. IdModulus - 1 /\ posted' \in Nat
        /\ next_client_id' = next_client_id /\ stopped' = stopped /\ wpc' = wpc
    <3>1. CASE \E p \in Periods : schedule_work(owner[c], stime[c], p)
      <4>1. PICK p \in Periods : schedule_work(owner[c], stime[c], p)
        BY <3>1
      <4>2. owner[c] \in 0 .. IdModulus - 1 /\ stime[c] \in Nat
        BY DEF ClientInv
      <4>3. QueueInv' /\ next_work_id' \in 0 .. IdModulus - 1 /\ posted' \in Nat
        BY <4>1, <4>2, SchedulePosts
      <4> QED
        BY <4>1, <4>3 DEF schedule_work
    <3>2. CASE unlocked /\ stopped /\ UNCHANGED wqvars
      BY <3>2, SameQueue DEF wqvars, ids, loopvars, ClientInv
    <3> QED
      BY <1>3, <3>1, <3>2 DEF SchedulePost
  <2>3. ClientInv'
    BY <2>1, <2>2 DEF ClientInv, EMPTY_TIME_POINT
  <2> QED
    BY <2>1, <2>2, <2>3 DEF NoWorkerAfterJoin, ClientInv
<1>4. CASE UpdateWork(c)
  <2>1. PICK wid \in 0 .. IdModulus - 2, t \in Times \cup {EMPTY_TIME_POINT}, p \in Periods :
          update_work(wid, owner[c], t, p)
    BY <1>4 DEF UpdateWork
  <2>2. owner[c] \in 0 .. IdModulus - 1 /\ t \in Nat
    BY <2>1, MaxTimeAssumption DEF ClientInv, Times, EMPTY_TIME_POINT
  <2>3. QueueInv'
    BY <2>1, <2>2, UpdateEdits
  <2>4. UNCHANGED <<stopped, wpc, next_work_id, next_client_id, posted, now, cpc, stime, owner>>
    BY <1>4, <2>1 DEF UpdateWork, update_work, ids
  <2> QED
    BY <2>3, <2>4 DEF ClientInv, NoWorkerAfterJoin
<1>5. CASE CancelWork(c)
  <2>1. PICK wid \in 0 .. IdModulus - 2 : cancel_work(wid)
    BY <1>5 DEF CancelWork
  <2>2. QueueInv'
    BY <2>1, CancelEdits DEF cancel_work
  <2>3. UNCHANGED <<stopped, wpc, next_work_id, next_client_id, posted, now, cpc, stime, owner>>
    BY <1>5, <2>1 DEF CancelWork, cancel_work, ids, clientvars
  <2> QED
    BY <2>2, <2>3 DEF ClientInv, NoWorkerAfterJoin
<1>6. CASE CancelClientWorks(c)
  <2>1. QueueInv'
    BY <1>6, CancelEdits DEF CancelClientWorks, cancel_client_works
  <2>2. UNCHANGED <<stopped, wpc, next_work_id, next_client_id, posted, now, cpc, stime, owner>>
    BY <1>6 DEF CancelClientWorks, cancel_client_works, ids, clientvars
  <2> QED
    BY <2>1, <2>2 DEF ClientInv, NoWorkerAfterJoin
<1>7. CASE KillWorker(c)
  <2>1. /\ signal_worker_to_stop /\ cpc' = [cpc EXCEPT ![c] = "join"]
        /\ UNCHANGED <<now, stime, owner>>
    BY <1>7 DEF KillWorker
  <2>2. QueueInv' /\ next_work_id' \in 0 .. IdModulus - 1 /\ posted' \in Nat
    BY <2>1, StopIsPosted
  <2>3. next_client_id' = next_client_id
    BY <2>1 DEF signal_worker_to_stop
  <2>4. cpc'[c] = "join"
    BY <2>1 DEF ClientInv
  <2> QED
    BY <2>1, <2>2, <2>3, <2>4 DEF ClientInv, NoWorkerAfterJoin
<1>8. CASE Join(c)
  <2>1. /\ wpc = "exited" /\ wpc' = "none"
        /\ UNCHANGED <<container, change_flag, stopped, asleep, deadline, item>>
        /\ UNCHANGED <<next_work_id, next_client_id, posted, now, stime, owner>>
        /\ cpc' = [cpc EXCEPT ![c] = "out"]
    BY <1>8 DEF Join, join_worker, ids
  <2>2. QueueInv'
    BY <2>1
    DEF QueueInv, is_heap, WakesInTime, OpenHoldsWorks, StoppedHoldsStop, ItemRuns
  <2> QED
    BY <2>1, <2>2 DEF ClientInv, NoWorkerAfterJoin
<1> QED
  BY <1>1, <1>2, <1>3, <1>4, <1>5, <1>6, <1>7, <1>8 DEF Client

LEMMA WInvStep == WInv /\ [Next]_vars => WInv'
<1> SUFFICES ASSUME QueueInv, ClientInv, NoWorkerAfterJoin, [Next]_vars
             PROVE  QueueInv' /\ ClientInv' /\ NoWorkerAfterJoin'
  <2>1. QueueInv' /\ ClientInv' /\ NoWorkerAfterJoin' => WInv'
    BY DEF WInv, TypeOK, QueueInv, ClientInv
  <2> QED
    BY <2>1, InvParts
<1>1. CASE Tick
  <2>1. /\ UNCHANGED <<container, change_flag, stopped, wpc, asleep, deadline, item>>
        /\ UNCHANGED <<next_work_id, next_client_id, posted, cpc, stime, owner>>
        /\ now < MaxTime /\ now' = now + 1
    BY <1>1 DEF Tick, wqvars, ids, loopvars, clientvars
  <2>2. ClientInv'
    BY <2>1, MaxTimeAssumption DEF ClientInv, Times
  <2> QED
    BY <2>1, <2>2, SameQueue DEF NoWorkerAfterJoin
<1>2. CASE StartWorker
  <2>1. /\ wpc = "none" /\ stopped /\ stopped' = FALSE /\ wpc' = "some_work" /\ asleep' = FALSE
        /\ UNCHANGED <<container, change_flag, deadline, item>>
        /\ UNCHANGED <<next_work_id, next_client_id, posted, now, cpc, stime, owner>>
    BY <1>2 DEF StartWorker, start_worker, ids
  <2>2. container = <<>> /\ Len(container) = 0
    BY <2>1, EmptySeq DEF QueueInv, StoppedHoldsStop
  <2>3. OpenHoldsWorks' /\ StoppedHoldsStop' /\ WakesInTime' /\ ItemRuns'
    BY <2>1, <2>2 DEF QueueInv, OpenHoldsWorks, StoppedHoldsStop, WakesInTime, ItemRuns
  <2>4. QueueInv'
    BY <2>1, <2>3 DEF QueueInv, is_heap
  <2> QED
    BY <2>1, <2>4 DEF ClientInv, NoWorkerAfterJoin
<1>3. CASE Worker
  <2>1. QueueInv'
    BY <1>3, WorkerKeepsInv DEF Worker
  <2>2. UNCHANGED <<stopped, next_work_id, next_client_id, posted, now, cpc, stime, owner>>
        /\ wpc \notin {"none", "exited"}
    BY <1>3
    DEF Worker, worker_step, wait_for_some_work, wait_interrupted, wait_expired,
        wait_continues, work_returns, ids, clientvars
  <2>3. stopped => \E c \in Clients : cpc[c] = "join"
    BY <2>2 DEF NoWorkerAfterJoin
  <2> QED
    BY <2>1, <2>2, <2>3 DEF ClientInv, NoWorkerAfterJoin
<1>4. CASE SpuriousWakeup
  <2>1. /\ asleep' = FALSE
        /\ UNCHANGED <<container, change_flag, stopped, wpc, deadline, item>>
        /\ UNCHANGED <<next_work_id, next_client_id, posted, now, cpc, stime, owner>>
    BY <1>4 DEF SpuriousWakeup, spurious_wakeup, ids, clientvars
  <2>2. QueueInv'
    BY <2>1
    DEF QueueInv, is_heap, WakesInTime, OpenHoldsWorks, StoppedHoldsStop, ItemRuns,
        is_container_empty
  <2> QED
    BY <2>1, <2>2 DEF ClientInv, NoWorkerAfterJoin
<1>5. CASE \E c \in Clients : Client(c)
  BY <1>5, ClientKeepsInv
<1>6. CASE UNCHANGED vars
  BY <1>6, SameQueue
  DEF vars, wqvars, ids, loopvars, clientvars, ClientInv, NoWorkerAfterJoin
<1> QED
  BY <1>1, <1>2, <1>3, <1>4, <1>5, <1>6 DEF Next

\* The worker waits for the earliest work, or has been woken to look again.
THEOREM WorkerWakesInTime == Spec => []WakesInTime
<1>1. WInv => WakesInTime
  BY DEF WInv
<1> QED
  BY WInvInit, WInvStep, <1>1, PTL DEF Spec

\* kill_worker leaves no worker, no work and no record that would stop the next.
THEOREM KilledIsEmpty == Spec => []StoppedIsEmpty
<1>1. WInv => StoppedIsEmpty
  BY EmptySeq
  DEF WInv, StoppedIsEmpty, StoppedHoldsStop, NoWorkerAfterJoin, ItemRuns, is_container_empty
<1> QED
  BY WInvInit, WInvStep, <1>1, PTL DEF Spec

\* The variables have their types: the records are well formed, and an ID that
\* is given out is never the invalid one.
THEOREM QueueTypes == Spec => []TypeOK
<1>1. WInv => TypeOK
  BY DEF WInv
<1> QED
  BY WInvInit, WInvStep, <1>1, PTL DEF Spec
-----------------------------------------------------------------------------
(* The IDs of records and of clients, and the schedule that the queue implements. *)

NoDuplicates(s) == \A i, j \in 1 .. Len(s) : i # j => s[i] # s[j]

\* A heap of a set of records has each of them once.
LEMMA HeapSet ==
  ASSUME NEW S, IsFiniteSet(S), NEW s \in heaps(S)
  PROVE  ToSet(s) = S /\ NoDuplicates(s) /\ is_heap(s) /\ s \in Seq(S)
<1> DEFINE n == Cardinality(S)
<1>1. n \in Nat /\ IsFiniteSet(1 .. n) /\ Cardinality(1 .. n) = n
  <2>1. n \in Nat
    BY FS_CardinalityType
  <2>2. /\ IsFiniteSet(1 .. n)
        /\ Cardinality(1 .. n) = IF 1 > n THEN 0 ELSE n - 1 + 1
    BY <2>1, FS_Interval
  <2> QED
    BY <2>1, <2>2
<1>2. s \in [1 .. n -> S] /\ is_heap(s) /\ \A i, j \in 1 .. n : i # j => s[i] # s[j]
  BY DEF heaps, SetToSeqs
<1> HIDE DEF n
<1>3. s \in Seq(S) /\ Len(s) = n
  BY <1>1, <1>2
<1>4. s \in Injection(1 .. n, S)
  BY <1>2 DEF Injection, IsInjective
<1>5. s \in Surjection(1 .. n, S)
  BY <1>1, <1>4, FS_Injection DEF n
<1>6. ToSet(s) = S
  <2>1. \A x : x \in ToSet(s) <=> \E i \in 1 .. n : x = s[i]
    BY <1>3, RecordsOf
  <2>2. \A x \in S : \E i \in 1 .. n : s[i] = x
    BY <1>5 DEF Surjection
  <2>3. \A i \in 1 .. n : s[i] \in S
    BY <1>2
  <2> HIDE DEF n
  <2> QED
    BY <2>1, <2>2, <2>3
<1> QED
  BY <1>2, <1>3, <1>6 DEF NoDuplicates
-----------------------------------------------------------------------------
\* j is the ID that follows i by d calls of the counter, unless it has wrapped around.
Ago(i, d, j) == d < IdModulus - 1 => j = i + d \/ j = i + d - (IdModulus - 1)

\* What the records S of the container and the record in the worker's hands have
\* to do with each other and with the counters of records and IDs.
InOrder(S, it, p, n) ==
  /\ p = 0 \/ n # INVALID_ID
  /\ \A r, s \in S : r.call = s.call => r = s
  /\ \A r \in it, s \in S : r.call # s.call
  /\ \A r \in S \cup it : r.call \in 1 .. p /\ Ago(r.id, p - r.call, n)
  /\ \A r, s \in S \cup it : r.call < s.call => Ago(r.id, s.call - r.call, s.id)

OrderInv == NoDuplicates(container) /\ InOrder(ToSet(container), item, posted, next_work_id)

\* Records with the tags of others, each call once.
LEMMA SameTags ==
  ASSUME NEW S, NEW it, NEW p, NEW n, InOrder(S, it, p, n), NEW T, NEW jt,
         \A r \in T \cup jt : \E s \in S \cup it : r.id = s.id /\ r.call = s.call,
         \A r, s \in T : r.call = s.call => r = s,
         \A r \in jt, s \in T : r.call # s.call
  PROVE  InOrder(T, jt, p, n)
<1>1. \A r \in T \cup jt : r.call \in 1 .. p /\ Ago(r.id, p - r.call, n)
  BY DEF InOrder
<1>2. \A r, s \in T \cup jt : r.call < s.call => Ago(r.id, s.call - r.call, s.id)
  BY DEF InOrder
<1> QED
  BY <1>1, <1>2 DEF InOrder

LEMMA FewerRecords ==
  ASSUME NEW S, NEW it, NEW p, NEW n, InOrder(S, it, p, n), NEW T, NEW jt,
         T \subseteq S, jt \subseteq it
  PROVE  InOrder(T, jt, p, n)
  BY DEF InOrder

\* The counter of IDs goes on by one, or from the last ID to the first.
LEMMA NextAgo ==
  ASSUME NEW i \in 0 .. IdModulus - 2, NEW d \in Nat, NEW n \in 0 .. IdModulus - 2, Ago(i, d, n)
  PROVE  Ago(i, d + 1, next_id(n))
<1>1. IdModulus \in Nat /\ IdModulus > 1
  BY IdModulusAssumption
<1>2. (n + 1) % IdModulus = n + 1
  BY <1>1
<1> QED
  BY <1>1, <1>2 DEF Ago, next_id, INVALID_ID

LEMMA OneMoreRecord ==
  ASSUME NEW S \in SUBSET Records, NEW it \in SUBSET Records, NEW p \in Nat,
         NEW n \in 0 .. IdModulus - 1, InOrder(S, it, p, n), NEW f
  PROVE  InOrder(S \cup {record(f, next_id(n), p + 1)}, it, p + 1, next_id(n))
<1> DEFINE m == next_id(n)
           u == record(f, m, p + 1)
<1>1. u.id = m /\ u.call = p + 1 /\ m \in 0 .. IdModulus - 2
  BY NextId DEF record
<1>2. \A r \in S \cup it : r.call \in 1 .. p /\ r.id \in 0 .. IdModulus - 2
  BY DEF InOrder, Records
<1>3. \A r \in S \cup it : Ago(r.id, p + 1 - r.call, m)
  <2> SUFFICES ASSUME NEW r \in S \cup it PROVE Ago(r.id, p + 1 - r.call, m)
    OBVIOUS
  <2>1. /\ r.id \in 0 .. IdModulus - 2 /\ p - r.call \in Nat /\ Ago(r.id, p - r.call, n)
        /\ n \in 0 .. IdModulus - 2
    BY <1>2, IdModulusAssumption DEF InOrder, INVALID_ID
  <2>2. Ago(r.id, (p - r.call) + 1, m)
    BY <2>1, NextAgo
  <2>3. (p - r.call) + 1 = p + 1 - r.call
    BY <1>2
  <2> QED
    BY <2>2, <2>3
<1>4. Ago(m, p + 1 - (p + 1), m)
  BY <1>1, IdModulusAssumption DEF Ago
<1> HIDE DEF u, m
<1>5. \A r \in (S \cup {u}) \cup it : r.call \in 1 .. p + 1 /\ Ago(r.id, p + 1 - r.call, m)
  BY <1>1, <1>2, <1>3, <1>4
<1>6. \A r, s \in (S \cup {u}) \cup it : r.call < s.call => Ago(r.id, s.call - r.call, s.id)
  <2> SUFFICES ASSUME NEW r \in (S \cup {u}) \cup it, NEW s \in (S \cup {u}) \cup it, r.call < s.call
               PROVE  Ago(r.id, s.call - r.call, s.id)
    OBVIOUS
  <2>1. r \in S \cup it
    BY <1>1, <1>2
  <2> QED
    BY <2>1, <1>1, <1>3 DEF InOrder
<1>7. (\A r, s \in S \cup {u} : r.call = s.call => r = s) /\ (\A r \in it, s \in S \cup {u} : r.call # s.call)
  <2>1. \A r \in S \cup it : r.call # u.call
    BY <1>1, <1>2
  <2> QED
    BY <2>1 DEF InOrder
<1>8. m # INVALID_ID
  BY <1>1, IdModulusAssumption DEF INVALID_ID
<1> QED
  BY <1>5, <1>6, <1>7, <1>8 DEF InOrder, u, m
-----------------------------------------------------------------------------
(* What each step makes of the records. *)

LEMMA Rewritten ==
  ASSUME NEW S, IsFiniteSet(S), make_heap_and_notify_worker(S)
  PROVE  ToSet(container') = S /\ NoDuplicates(container')
  BY HeapSet DEF make_heap_and_notify_worker

LEMMA Posted ==
  ASSUME QueueInv, NEW S, IsFiniteSet(S), NEW f, post_work(S, f)
  PROVE  /\ posted' = posted + 1 /\ next_work_id' = next_id(next_work_id)
         /\ ToSet(container') = S \cup {record(f, next_id(next_work_id), posted + 1)}
         /\ NoDuplicates(container')
<1> DEFINE u == record(f, next_id(next_work_id), posted + 1)
<1>1. /\ posted' = posted + 1 /\ next_work_id' = next_id(next_work_id)
      /\ make_heap_and_notify_worker(S \cup {u})
  BY DEF post_work
<1> HIDE DEF u
<1>2. IsFiniteSet(S \cup {u})
  BY FS_AddElement
<1> QED
  BY <1>1, <1>2, Rewritten DEF u

\* A record is replaced by one with the same ID and call.
Replaced(wid, f) ==
  /\ NoDuplicates(container')
  /\ \E r \in ToSet(container) :
       /\ r.id = wid
       /\ ToSet(container') = (ToSet(container) \ {r}) \cup {record(f, wid, r.call)}

LEMMA Updated ==
  ASSUME QueueInv, NEW wid, NEW client, NEW t, NEW p, update_work(wid, client, t, p)
  PROVE  Replaced(wid, wq_item(TRUE, t, client, p))
<1>1. PICK f : f = wq_item(TRUE, t, client, p)
  OBVIOUS
<1>2. PICK r \in found(wid) :
        make_heap_and_notify_worker((ToSet(container) \ {r}) \cup {record(f, wid, r.call)})
  BY <1>1 DEF update_work
<1>3. IsFiniteSet((ToSet(container) \ {r}) \cup {record(f, wid, r.call)})
  BY InTheContainer, FS_AddElement, FS_RemoveElement
<1>4. r \in ToSet(container) /\ r.id = wid
  BY DEF found
<1>5. Replaced(wid, f)
  BY <1>2, <1>3, <1>4, Rewritten DEF Replaced
<1> QED
  BY <1>1, <1>5

LEMMA Cancelled ==
  ASSUME QueueInv, NEW C, make_heap_and_notify_worker(ToSet(container) \ C)
  PROVE  ToSet(container') = ToSet(container) \ C /\ NoDuplicates(container')
<1>1. IsFiniteSet(ToSet(container) \ C)
  BY InTheContainer, FS_Difference
<1> QED
  BY <1>1, Rewritten

\* The record in front is taken out.
LEMMA FrontTaken ==
  ASSUME NEW R, NEW s \in Seq(R), s # <<>>, NoDuplicates(s)
  PROVE  /\ s[1] \in ToSet(s) /\ Tail(s) \in Seq(R)
         /\ ToSet(Tail(s)) = ToSet(s) \ {s[1]}
<1> DEFINE rest == Tail(s)
<1>1. Len(s) \in Nat \ {0}
  BY EmptySeq
<1>2. rest \in Seq(R) /\ Len(rest) = Len(s) - 1 /\ \A i \in 1 .. Len(rest) : rest[i] = s[i + 1]
  BY <1>1, HeadTailProperties
<1>3. \A x : x \in ToSet(s) <=> \E i \in 1 .. Len(s) : x = s[i]
  BY RecordsOf
<1> HIDE DEF rest
<1>4. \A x : x \in ToSet(rest) <=> \E i \in 1 .. Len(rest) : x = rest[i]
  BY <1>2, RecordsOf
<1>5. ASSUME NEW i \in 1 .. Len(rest)
      PROVE  i + 1 \in 1 .. Len(s) /\ rest[i] = s[i + 1] /\ s[i + 1] # s[1]
  BY <1>1, <1>2 DEF NoDuplicates
<1>6. ASSUME NEW j \in 1 .. Len(s), j # 1
      PROVE  j - 1 \in 1 .. Len(rest) /\ rest[j - 1] = s[j]
  BY <1>1, <1>2, <1>6
<1>7. ASSUME NEW x \in ToSet(rest) PROVE x \in ToSet(s) /\ x # s[1]
  BY <1>3, <1>4, <1>5
<1>8. ASSUME NEW x \in ToSet(s), x # s[1] PROVE x \in ToSet(rest)
  <2>1. PICK j \in 1 .. Len(s) : x = s[j]
    BY <1>3
  <2> QED
    BY <2>1, <1>4, <1>6, <1>8
<1>9. s[1] \in ToSet(s)
  BY <1>1, <1>3
<1>10. ToSet(rest) = ToSet(s) \ {s[1]}
  BY <1>7, <1>8
<1> QED
  BY <1>2, <1>9, <1>10 DEF rest

LEMMA TakenOut ==
  ASSUME QueueInv, NoDuplicates(container), NEW t, wait_expired(t)
  PROVE  /\ container[1] \in ToSet(container) /\ item' = {container[1]}
         /\ ToSet(container') = ToSet(container) \ {container[1]} /\ NoDuplicates(container')
<1>1. /\ container # <<>> /\ item' = {container[1]}
      /\ container' \in heaps(ToSet(Tail(container)))
  BY DEF wait_expired, is_container_empty
<1>2. container \in Seq(Records)
  BY DEF QueueInv
<1>3. /\ container[1] \in ToSet(container) /\ Tail(container) \in Seq(Records)
      /\ ToSet(Tail(container)) = ToSet(container) \ {container[1]}
  BY <1>1, <1>2, FrontTaken
<1>4. IsFiniteSet(ToSet(Tail(container)))
  BY <1>3, RecordsOf
<1> QED
  BY <1>1, <1>3, <1>4, HeapSet

\* The thread goes on to its next wait, with the container as it is, or exits.
LEMMA WentOn ==
  ASSUME QueueInv, NEW flag \in BOOLEAN, wpc \in {"some_work", "time_point"},
         restart(container, flag)
  PROVE  /\ ~stopped => container' = container
         /\ stopped => container' = <<>>
<1>1. container \in Seq(Records) /\ is_heap(container) /\ deadline \in Nat
  BY DEF QueueInv
<1>2. CASE stopped
  BY <1>1, <1>2, Restarted DEF QueueInv, StoppedHoldsStop
<1>3. CASE ~stopped
  BY <1>1, <1>3, Restarted DEF QueueInv, OpenHoldsWorks
<1> QED
  BY <1>2, <1>3

\* A work that returned, and is put back one period later or not.
Later(r) == [r EXCEPT !.fields.time_point = @ + r.fields.period]

LEMMA Returned ==
  ASSUME QueueInv, work_returns
  PROVE  \E r \in item :
           /\ r.fields.work /\ r \in Records /\ ~stopped /\ item' = {} /\ NoDuplicates(container')
           /\ \/ ToSet(container') = ToSet(container)
              \/ r.fields.period > 0 /\ ToSet(container') = ToSet(container) \cup {Later(r)}
<1>0. PICK r \in item : \E t \in rescheduled_time_points(r) :
        LET again == IF t = EMPTY_TIME_POINT THEN {} ELSE {[r EXCEPT !.fields.time_point = t]}
        IN  \E records \in heaps(ToSet(container) \cup again) : restart(records, change_flag)
  BY DEF work_returns
<1>1. PICK t \in rescheduled_time_points(r) :
        LET again == IF t = EMPTY_TIME_POINT THEN {} ELSE {[r EXCEPT !.fields.time_point = t]}
        IN  \E records \in heaps(ToSet(container) \cup again) : restart(records, change_flag)
  BY <1>0
<1>2. r \in Records /\ r.fields.work /\ wpc = "run" /\ ~stopped /\ item' = {}
  BY DEF QueueInv, ItemRuns, work_returns, StoppedHoldsStop
<1>3. r.fields.time_point \in Nat /\ r.fields.period \in Nat
  BY <1>2, PeriodsAssumption DEF Records, Fields
<1>4. PICK again : /\ again = {} \/ (again = {Later(r)} /\ r.fields.period > 0)
                   /\ \E records \in heaps(ToSet(container) \cup again) : restart(records, change_flag)
  <2>1. CASE t = EMPTY_TIME_POINT
    BY <1>1, <2>1
  <2>2. CASE t # EMPTY_TIME_POINT
    <3>1. t = r.fields.time_point + r.fields.period /\ r.fields.period > 0
      BY <2>2 DEF rescheduled_time_points
    <3>2. [r EXCEPT !.fields.time_point = t] = Later(r)
      BY <3>1 DEF Later
    <3> QED
      BY <1>1, <2>2, <3>1, <3>2
  <2> QED
    BY <2>1, <2>2
<1>5. PICK records \in heaps(ToSet(container) \cup again) : restart(records, change_flag)
  BY <1>4
<1>6. Later(r) \in Records /\ Later(r).fields.work
  BY <1>2, <1>3 DEF Later, Records, Fields
<1>7. IsFiniteSet(again) /\ \A x \in again : x \in Records /\ x.fields.work
  BY <1>4, <1>6, FS_EmptySet, FS_Singleton
<1>8. PICK S : S = ToSet(container) \cup again
  OBVIOUS
<1>9. IsFiniteSet(S) /\ \A x \in S : x \in Records /\ x.fields.work
  BY <1>2, <1>7, <1>8, InTheContainer, FS_Union
<1>10. ToSet(records) = S /\ NoDuplicates(records) /\ is_heap(records) /\ records \in Seq(S)
  BY <1>5, <1>8, <1>9, HeapSet
<1>11. records \in Seq(Records) /\ \A i \in 1 .. Len(records) : records[i].fields.work
  <2>1. \A i \in 1 .. Len(records) : records[i] \in S
    BY <1>10
  <2>2. S \subseteq Records
    BY <1>9
  <2> QED
    BY <1>9, <1>10, <2>1, <2>2
<1>12. container' = records
  BY <1>5, <1>10, <1>11, Restarted DEF QueueInv
<1> QED
  BY <1>2, <1>4, <1>8, <1>10, <1>12
-----------------------------------------------------------------------------
\* The types that the operators on records and counters need.
LEMMA RecordTypes ==
  ASSUME QueueInv, ClientInv
  PROVE  /\ ToSet(container) \in SUBSET Records /\ item \in SUBSET Records
         /\ posted \in Nat /\ next_work_id \in 0 .. IdModulus - 1
         /\ IsFiniteSet(ToSet(container))
  BY InTheContainer DEF QueueInv, ClientInv

LEMMA PostKeepsOrder ==
  ASSUME QueueInv, ClientInv, OrderInv, UNCHANGED item, NEW S \in SUBSET ToSet(container), NEW f,
         post_work(S, f)
  PROVE  OrderInv'
<1>1. /\ posted \in Nat /\ next_work_id \in 0 .. IdModulus - 1 /\ item \in SUBSET Records
      /\ S \in SUBSET Records /\ IsFiniteSet(S)
  BY RecordTypes, FS_Subset
<1>2. InOrder(S, item, posted, next_work_id)
  BY FewerRecords DEF OrderInv
<1>3. InOrder(S \cup {record(f, next_id(next_work_id), posted + 1)}, item, posted + 1,
              next_id(next_work_id))
  BY <1>1, <1>2, OneMoreRecord
<1> QED
  BY <1>1, <1>3, Posted DEF OrderInv

LEMMA OrderKept == QueueInv /\ ClientInv /\ OrderInv /\ [Next]_vars => OrderInv'
<1> SUFFICES ASSUME QueueInv, ClientInv, OrderInv, [Next]_vars PROVE OrderInv'
  OBVIOUS
<1> DEFINE R == ToSet(container)
<1>0. NoDuplicates(container) /\ InOrder(R, item, posted, next_work_id)
  BY DEF OrderInv
<1>1. ASSUME UNCHANGED <<container, item, posted, next_work_id>> PROVE OrderInv'
  BY <1>0, <1>1 DEF OrderInv
\* Some of the records are left.
<1>2. ASSUME NoDuplicates(container'), ToSet(container') \subseteq R, item' \subseteq item,
             UNCHANGED <<posted, next_work_id>>
      PROVE  OrderInv'
  BY <1>0, <1>2, FewerRecords DEF OrderInv
<1>3. ASSUME NEW c \in Clients, Client(c) PROVE OrderInv'
  <2>1. CASE GetClientId(c) \/ ScheduleBegin(c) \/ Join(c)
    BY <2>1, <1>1 DEF GetClientId, get_client_id, ScheduleBegin, Join, join_worker, wqvars, ids,
                      loopvars
  <2>2. CASE SchedulePost(c)
    <3>1. CASE UNCHANGED wqvars
      BY <3>1, <1>1 DEF wqvars, ids, loopvars
    <3>2. ASSUME NEW p \in Periods, schedule_work(owner[c], stime[c], p) PROVE OrderInv'
      <4>1. post_work(R, wq_item(TRUE, stime[c], owner[c], p)) /\ UNCHANGED item
        BY <3>2 DEF schedule_work
      <4> QED
        BY <4>1, PostKeepsOrder
    <3> QED
      BY <2>2, <3>1, <3>2 DEF SchedulePost
  <2>3. CASE UpdateWork(c)
    <3>1. PICK wid, client, t, p : update_work(wid, client, t, p)
      BY <2>3 DEF UpdateWork
    <3>2. PICK f : Replaced(wid, f)
      BY <3>1, Updated
    <3>3. PICK r \in R :
            r.id = wid /\ ToSet(container') = (R \ {r}) \cup {record(f, wid, r.call)}
      BY <3>2 DEF Replaced
    <3>4. PICK u : u.id = r.id /\ u.call = r.call /\ ToSet(container') = (R \ {r}) \cup {u}
      BY <3>3 DEF record
    <3>5. UNCHANGED <<item, posted, next_work_id>> /\ NoDuplicates(container')
      BY <3>1, <3>2 DEF update_work, ids, Replaced
    <3>6. \A x \in ToSet(container') \cup item : \E s \in R \cup item : x.id = s.id /\ x.call = s.call
      BY <3>4
    <3>7. /\ \A x, y \in ToSet(container') : x.call = y.call => x = y
          /\ \A x \in item, y \in ToSet(container') : x.call # y.call
      BY <3>4, <1>0 DEF InOrder
    <3>8. InOrder(ToSet(container'), item, posted, next_work_id)
      BY <3>6, <3>7, <1>0, SameTags
    <3> QED
      BY <3>5, <3>8 DEF OrderInv
  <2>4. CASE CancelWork(c) \/ CancelClientWorks(c)
    <3>1. /\ UNCHANGED <<item, posted, next_work_id>>
          /\ \E C : make_heap_and_notify_worker(R \ C)
      BY <2>4 DEF CancelWork, cancel_work, CancelClientWorks, cancel_client_works, ids
    <3> QED
      BY <3>1, <1>2, Cancelled
  <2>5. CASE KillWorker(c)
    <3>1. UNCHANGED item /\ \E f : post_work({}, f)
      BY <2>5 DEF KillWorker, signal_worker_to_stop
    <3> QED
      BY <3>1, PostKeepsOrder
  <2> QED
    BY <1>3, <2>1, <2>2, <2>3, <2>4, <2>5 DEF Client
<1>4. ASSUME Worker PROVE OrderInv'
  <2>1. CASE wait_for_some_work \/ wait_interrupted(now)
    <3>1. /\ UNCHANGED <<item, posted, next_work_id>> /\ wpc \in {"some_work", "time_point"}
          /\ \E flag \in BOOLEAN : restart(container, flag)
      BY <2>1 DEF wait_for_some_work, wait_interrupted, ids, QueueInv
    <3>2. container' = container \/ container' = <<>>
      BY <3>1, WentOn DEF QueueInv
    <3>3. ToSet(<<>>) = {} /\ NoDuplicates(<<>>)
      BY DEF ToSet, NoDuplicates
    <3>4. NoDuplicates(container') /\ ToSet(container') \subseteq R
      BY <3>2, <3>3, <1>0
    <3> QED
      BY <3>1, <3>4, <1>2
  <2>2. CASE wait_expired(now)
    <3>1. PICK r : r = container[1]
      OBVIOUS
    <3>2. /\ r \in R /\ item' = {r} /\ ToSet(container') = R \ {r} /\ NoDuplicates(container')
          /\ UNCHANGED <<posted, next_work_id>>
      BY <2>2, <3>1, <1>0, TakenOut DEF wait_expired, ids
    <3>3. /\ \A x \in ToSet(container') \cup item' : \E s \in R \cup item : x.id = s.id /\ x.call = s.call
          /\ \A x, y \in ToSet(container') : x.call = y.call => x = y
          /\ \A x \in item', y \in ToSet(container') : x.call # y.call
      BY <3>2, <1>0 DEF InOrder
    <3>4. InOrder(ToSet(container'), item', posted, next_work_id)
      BY <3>3, <1>0, SameTags
    <3> QED
      BY <3>2, <3>4 DEF OrderInv
  <2>3. CASE wait_continues(now)
    BY <2>3, <1>1 DEF wait_continues, ids
  <2>4. CASE work_returns
    <3>1. PICK r \in item :
            /\ item' = {} /\ NoDuplicates(container')
            /\ \/ ToSet(container') = R
               \/ ToSet(container') = R \cup {Later(r)}
      BY <2>4, Returned
    <3>2. Later(r).id = r.id /\ Later(r).call = r.call
      <4>1. r \in Records
        BY DEF QueueInv
      <4> QED
        BY <4>1 DEF Later, Records
    <3>3. UNCHANGED <<posted, next_work_id>>
      BY <2>4 DEF work_returns, ids
    <3>4. CASE ToSet(container') = R
      BY <3>1, <3>3, <3>4, <1>2
    <3>5. CASE ToSet(container') = R \cup {Later(r)}
      <4>1. PICK u : u = Later(r)
        OBVIOUS
      <4>2. /\ \A x \in ToSet(container') \cup {} : \E s \in R \cup item : x.id = s.id /\ x.call = s.call
            /\ \A x, y \in ToSet(container') : x.call = y.call => x = y
            /\ \A x \in {}, y \in ToSet(container') : x.call # y.call
        BY <4>1, <3>2, <3>5, <1>0 DEF InOrder
      <4>3. InOrder(ToSet(container'), {}, posted, next_work_id)
        BY <4>2, <1>0, SameTags
      <4> QED
        BY <4>3, <3>1, <3>3 DEF OrderInv
    <3> QED
      BY <3>1, <3>4, <3>5
  <2> QED
    BY <1>4, <2>1, <2>2, <2>3, <2>4 DEF Worker, worker_step
<1>5. CASE Tick \/ StartWorker \/ SpuriousWakeup \/ UNCHANGED vars
  <2>1. UNCHANGED <<container, item, posted, next_work_id>>
    BY <1>5 DEF Tick, StartWorker, start_worker, SpuriousWakeup, spurious_wakeup, vars, wqvars, ids, loopvars
  <2> QED
    BY <2>1, <1>1
<1> QED
  BY <1>3, <1>4, <1>5 DEF Next

LEMMA OrderInvariant == Spec => [](WInv /\ OrderInv)
<1>1. Init => OrderInv
  <2>1. ToSet(<<>>) = {}
    BY DEF ToSet
  <2> QED
    BY <2>1 DEF Init, WQInit, OrderInv, InOrder, NoDuplicates
<1>2. WInv /\ OrderInv /\ [Next]_vars => OrderInv'
  BY InvParts, OrderKept
<1> QED
  BY <1>1, <1>2, WInvInit, WInvStep, PTL DEF Spec

\* The IDs of two works differ, even while one of them runs, unless the counter has
\* given all the other IDs to works that were posted between them.
THEOREM WorksHaveOwnIds == Spec => []WorkIdsUnique
<1>1. WInv /\ OrderInv => WorkIdsUnique
  <2> SUFFICES ASSUME WInv, OrderInv, NEW r \in ToSet(container) \cup item,
                      NEW s \in ToSet(container) \cup item,
                      r.call < s.call, s.call - r.call < IdModulus - 1
               PROVE  r.id # s.id
    BY DEF WorkIdsUnique
  <2>1. r \in Records /\ s \in Records
    BY InvParts, RecordTypes
  <2>2. s.id = r.id + (s.call - r.call) \/ s.id = r.id + (s.call - r.call) - (IdModulus - 1)
    BY DEF OrderInv, InOrder, Ago
  <2> QED
    BY <2>1, <2>2, IdModulusAssumption DEF Records
<1> QED
  BY <1>1, OrderInvariant, PTL
-----------------------------------------------------------------------------
\* The clients that have an ID: they got the IDs from 0 on, one after the other.
Given == {c \in Clients : owner[c] # INVALID_ID}

ClientIds ==
  /\ next_client_id = IF Given = {} THEN INVALID_ID ELSE Cardinality(Given) - 1
  /\ \A c \in Given : owner[c] <= next_client_id
  /\ ClientIdsUnique

LEMMA ClientIdsKept ==
  ASSUME IsFiniteSet(Clients), Cardinality(Clients) <= IdModulus - 1,
         ClientInv, ClientIds, [Next]_vars
  PROVE  ClientIds'
<1>0. /\ next_client_id \in 0 .. IdModulus - 1 /\ owner \in [Clients -> 0 .. IdModulus - 1]
      /\ Given \subseteq Clients /\ IsFiniteSet(Given) /\ Cardinality(Given) \in Nat
  <2>1. Given \subseteq Clients
    BY DEF Given
  <2> QED
    BY <2>1, FS_Subset, FS_CardinalityType DEF ClientInv
<1>1. ASSUME UNCHANGED <<owner, next_client_id>> PROVE ClientIds'
  BY <1>1 DEF ClientIds, Given, ClientIdsUnique
<1>2. ASSUME NEW c \in Clients, GetClientId(c) PROVE ClientIds'
  <2> DEFINE n == Cardinality(Given)
  <2>1. /\ owner[c] = INVALID_ID /\ next_client_id' = next_id(next_client_id)
        /\ owner' = [owner EXCEPT ![c] = next_client_id']
    BY <1>2 DEF GetClientId, get_client_id
  <2>2. c \notin Given
    BY <2>1 DEF Given
  <2>3. n < IdModulus - 1
    <3>1. IsFiniteSet(Given \cup {c}) /\ Cardinality(Given \cup {c}) = n + 1
      BY <2>2, <1>0, FS_AddElement
    <3>2. Cardinality(Given \cup {c}) <= Cardinality(Clients) /\ Cardinality(Clients) \in Nat
      BY <1>0, FS_Subset, FS_CardinalityType
    <3> QED
      BY <3>1, <3>2, <1>0, IdModulusAssumption
  <2>4. next_client_id' = n
    <3>1. CASE Given = {}
      <4>1. n = 0 /\ next_client_id = IdModulus - 1
        BY <3>1, FS_EmptySet DEF ClientIds, INVALID_ID
      <4>2. (next_client_id + 1) % IdModulus = 0
        BY <4>1, IdModulusAssumption
      <4> QED
        BY <2>1, <4>1, <4>2, IdModulusAssumption DEF next_id
    <3>2. CASE Given # {}
      <4>1. next_client_id = n - 1
        BY <3>2 DEF ClientIds
      <4>2. (next_client_id + 1) % IdModulus = n
        BY <4>1, <2>3, <1>0, IdModulusAssumption
      <4> QED
        BY <2>1, <2>3, <4>2, <1>0 DEF next_id, INVALID_ID
    <3> QED
      BY <3>1, <3>2
  <2>5. n # INVALID_ID
    BY <2>3, <1>0, IdModulusAssumption DEF INVALID_ID
  <2>6. Given' = Given \cup {c}
    BY <2>1, <2>4, <2>5, <1>0 DEF Given
  <2>7. next_client_id' = IF Given' = {} THEN INVALID_ID ELSE Cardinality(Given') - 1
    <3>1. Cardinality(Given \cup {c}) = n + 1
      BY <2>2, <1>0, FS_AddElement
    <3>2. Cardinality(Given') = n + 1 /\ Given' # {}
      BY <3>1, <2>6
    <3> HIDE DEF n
    <3> QED
      BY <3>2, <2>4, <1>0 DEF n
  <2>8. \A d \in Given : owner[d] < n
    <3> SUFFICES ASSUME NEW d \in Given PROVE owner[d] < n
      OBVIOUS
    <3>1. next_client_id = n - 1 /\ owner[d] <= next_client_id
      BY DEF ClientIds
    <3> QED
      BY <3>1, <1>0
  <2>9. owner'[c] = n /\ \A d \in Clients : d # c => owner'[d] = owner[d]
    BY <2>1, <2>4, <1>0
  <2> HIDE DEF n
  <2>10. \A d \in Given' : owner'[d] <= next_client_id'
    BY <2>4, <2>6, <2>8, <2>9, <1>0 DEF n
  <2>11. ClientIdsUnique'
    <3> SUFFICES ASSUME NEW d \in Clients, NEW e \in Clients, owner'[d] = owner'[e],
                        owner'[d] # INVALID_ID
                 PROVE  d = e
      BY DEF ClientIdsUnique
    <3>1. CASE d = c
      BY <3>1, <2>5, <2>8, <2>9, <1>0 DEF Given, n
    <3>2. CASE e = c
      BY <3>2, <2>5, <2>8, <2>9, <1>0 DEF Given, n
    <3>3. CASE d # c /\ e # c
      BY <3>3, <2>9 DEF ClientIds, ClientIdsUnique
    <3> QED
      BY <3>1, <3>2, <3>3
  <2> QED
    BY <2>7, <2>10, <2>11 DEF ClientIds
<1>3. ASSUME NEW c \in Clients, Client(c), ~GetClientId(c) PROVE UNCHANGED <<owner, next_client_id>>
  BY <1>3 DEF Client, ScheduleBegin, SchedulePost, UpdateWork, CancelWork, CancelClientWorks,
     KillWorker, Join, schedule_work, update_work, cancel_work, cancel_client_works,
     signal_worker_to_stop, join_worker, wqvars, ids, clientvars
<1>4. ASSUME Worker PROVE UNCHANGED <<owner, next_client_id>>
  BY <1>4 DEF Worker, worker_step, wait_for_some_work, wait_interrupted, wait_expired,
     wait_continues, work_returns, ids, clientvars
<1>5. CASE Tick \/ StartWorker \/ SpuriousWakeup \/ UNCHANGED vars
  <2>1. UNCHANGED <<owner, next_client_id>>
    BY <1>5 DEF Tick, StartWorker, start_worker, SpuriousWakeup, spurious_wakeup, vars, wqvars,
       ids, clientvars
  <2> QED
    BY <2>1, <1>1
<1> QED
  BY <1>1, <1>2, <1>3, <1>4, <1>5 DEF Next

\* Clients have IDs of their own, and none can cancel the works of another, as long
\* as there are not more clients than IDs.
THEOREM ClientsHaveOwnIds ==
  ASSUME IsFiniteSet(Clients), Cardinality(Clients) <= IdModulus - 1
  PROVE  Spec => []ClientIdsUnique
<1>1. Init => ClientIds
  <2> SUFFICES ASSUME Init PROVE ClientIds
    OBVIOUS
  <2>1. Given = {} /\ next_client_id = INVALID_ID /\ \A c \in Clients : owner[c] = INVALID_ID
    BY DEF Init, WQInit, Given
  <2> QED
    BY <2>1 DEF ClientIds, ClientIdsUnique
<1>2. WInv /\ ClientIds /\ [Next]_vars => ClientIds'
  BY InvParts, ClientIdsKept
<1>3. ClientIds => ClientIdsUnique
  BY DEF ClientIds
<1> QED
  BY <1>1, <1>2, <1>3, WInvInit, WInvStep, PTL DEF Spec
-----------------------------------------------------------------------------
(* What the implementation of the schedule needs besides. *)

\* Once the worker is to stop, no work is left.
StopIsAlone == stopped => \A r \in ToSet(container) : ~r.fields.work

\* Works belong to clients that have an ID.
Owned(S) == \A r \in S : r.fields.work => r.fields.client_id # INVALID_ID

\* Unless it is to look again, the worker waits for the first work and no other.
WaitsForFirst == wpc = "time_point" /\ ~change_flag => deadline = container[1].fields.time_point

\* The arguments with which clients call schedule_work.
CallsAreValid ==
  \A c \in Clients : cpc[c] = "schedule" => owner[c] # INVALID_ID /\ stime[c] <= MaxTime

EntryInv ==
  StopIsAlone /\ Owned(ToSet(container) \cup item) /\ WaitsForFirst /\ CallsAreValid

\* The calls of schedule_work, and of kill_worker, of which there is at most one for
\* each of start_worker, bound the number of records.
Scheduling == {c \in Clients : cpc[c] = "schedule"}
Counted ==
  /\ calls \in [schedule : 0 .. MaxPosts, update : Nat, start : 0 .. MaxStarts]
  /\ IsFiniteSet(Scheduling)
  /\ posted + Cardinality(Scheduling) + (IF stopped THEN 0 ELSE 1) <= calls.schedule + calls.start

LEMMA SameEntries ==
  ASSUME EntryInv, UNCHANGED <<container, item, stopped, wpc, change_flag, deadline>>
  PROVE  StopIsAlone' /\ Owned(ToSet(container) \cup item)' /\ WaitsForFirst'
  BY DEF EntryInv, StopIsAlone, Owned, WaitsForFirst

\* A change by a client makes the worker look again.
LEMMA EditedEntries ==
  ASSUME EntryInv, ~stopped, NEW S, IsFiniteSet(S), make_heap_and_notify_worker(S),
         \A r \in S : r \in ToSet(container) \/ Owned({r}),
         UNCHANGED <<item, wpc, deadline>>, stopped' => \A r \in S : ~r.fields.work
  PROVE  StopIsAlone' /\ Owned(ToSet(container) \cup item)' /\ WaitsForFirst'
<1>1. ToSet(container') = S /\ change_flag' = TRUE
  BY Rewritten DEF make_heap_and_notify_worker, signal_container_change
<1> QED
  BY <1>1 DEF EntryInv, StopIsAlone, Owned, WaitsForFirst

LEMMA PostedEntries ==
  ASSUME QueueInv, EntryInv, ~stopped, NEW S \in SUBSET ToSet(container), NEW f, post_work(S, f),
         f.work => f.client_id # INVALID_ID, UNCHANGED <<item, wpc, deadline>>,
         stopped' => S = {} /\ ~f.work
  PROVE  StopIsAlone' /\ Owned(ToSet(container) \cup item)' /\ WaitsForFirst'
<1>1. PICK u : u = record(f, next_work_id', posted')
  OBVIOUS
<1>2. make_heap_and_notify_worker(S \cup {u}) /\ u.fields = f
  BY <1>1 DEF post_work, record
<1>3. IsFiniteSet(S \cup {u})
  BY InTheContainer, FS_Subset, FS_AddElement
<1>4. /\ \A r \in S \cup {u} : r \in ToSet(container) \/ Owned({r})
      /\ stopped' => \A r \in S \cup {u} : ~r.fields.work
  BY <1>2 DEF Owned
<1> QED
  BY <1>2, <1>3, <1>4, EditedEntries

LEMMA EntriesKept == QueueInv /\ ClientInv /\ OrderInv /\ EntryInv /\ [Next]_vars => EntryInv'
<1> SUFFICES ASSUME QueueInv, ClientInv, OrderInv, EntryInv, [Next]_vars PROVE EntryInv'
  OBVIOUS
<1> DEFINE R == ToSet(container)
           Entries == StopIsAlone' /\ Owned(ToSet(container) \cup item)' /\ WaitsForFirst'
<1>0. NoDuplicates(container) /\ CallsAreValid /\ Owned(R \cup item)
  BY DEF OrderInv, EntryInv
<1>1. ASSUME UNCHANGED <<cpc, owner, stime>> PROVE CallsAreValid'
  BY <1>0, <1>1 DEF CallsAreValid
<1>2. Entries /\ CallsAreValid' => EntryInv'
  BY DEF EntryInv
<1>3. ASSUME NEW c \in Clients, Client(c) PROVE Entries
  <2>1. CASE GetClientId(c) \/ ScheduleBegin(c)
    BY <2>1, SameEntries DEF GetClientId, get_client_id, ScheduleBegin, wqvars, loopvars
  <2>2. CASE Join(c)
    BY <2>2 DEF Join, join_worker, EntryInv, StopIsAlone, Owned, WaitsForFirst
  <2>3. CASE SchedulePost(c)
    <3>1. CASE UNCHANGED wqvars
      BY <3>1, SameEntries DEF wqvars, loopvars
    <3>2. ASSUME NEW p \in Periods, schedule_work(owner[c], stime[c], p) PROVE Entries
      <4>1. PICK f : f = wq_item(TRUE, stime[c], owner[c], p)
        OBVIOUS
      <4>2. /\ post_work(R, f) /\ ~stopped /\ UNCHANGED <<stopped, item, wpc, deadline>>
            /\ f.client_id = owner[c]
        BY <4>1, <3>2 DEF schedule_work, wq_item
      <4>3. owner[c] # INVALID_ID
        BY <2>3, <1>0 DEF SchedulePost, CallsAreValid
      <4> QED
        BY <4>2, <4>3, PostedEntries
    <3> QED
      BY <2>3, <3>1, <3>2 DEF SchedulePost
  <2>4. CASE UpdateWork(c)
    <3>1. PICK wid, client, t, p : update_work(wid, client, t, p) /\ client # INVALID_ID
      BY <2>4 DEF UpdateWork
    <3>2. PICK f : f = wq_item(TRUE, t, client, p)
      OBVIOUS
    <3>3. PICK r \in R : make_heap_and_notify_worker((R \ {r}) \cup {record(f, wid, r.call)})
      BY <3>1, <3>2 DEF update_work, found
    <3>4. PICK u : u = record(f, wid, r.call)
      OBVIOUS
    <3>5. u.fields.client_id # INVALID_ID
      BY <3>1, <3>2, <3>4 DEF record, wq_item
    <3>6. IsFiniteSet((R \ {r}) \cup {u})
      BY InTheContainer, FS_AddElement, FS_RemoveElement
    <3>7. /\ make_heap_and_notify_worker((R \ {r}) \cup {u})
          /\ ~stopped /\ UNCHANGED <<stopped, item, wpc, deadline>>
      BY <3>1, <3>3, <3>4 DEF update_work
    <3>8. \A x \in (R \ {r}) \cup {u} : x \in R \/ Owned({x})
      BY <3>5 DEF Owned
    <3> QED
      BY <3>6, <3>7, <3>8, EditedEntries
  <2>5. CASE CancelWork(c) \/ CancelClientWorks(c)
    <3>1. /\ ~stopped /\ UNCHANGED <<stopped, item, wpc, deadline>>
          /\ \E C : make_heap_and_notify_worker(R \ C)
      BY <2>5 DEF CancelWork, cancel_work, CancelClientWorks, cancel_client_works
    <3>2. \A C : IsFiniteSet(R \ C)
      BY InTheContainer, FS_Difference
    <3> QED
      BY <3>1, <3>2, EditedEntries
  <2>6. CASE KillWorker(c)
    <3>1. PICK f : f = wq_item(FALSE, EMPTY_TIME_POINT, INVALID_ID, RUN_ONCE)
      OBVIOUS
    <3>2. post_work({}, f) /\ ~stopped /\ UNCHANGED <<item, wpc, deadline>> /\ ~f.work
      BY <2>6, <3>1 DEF KillWorker, signal_worker_to_stop, wq_item
    <3> QED
      BY <3>2, PostedEntries
  <2> QED
    BY <1>3, <2>1, <2>2, <2>3, <2>4, <2>5, <2>6 DEF Client
<1>4. ASSUME NEW c \in Clients, Client(c) PROVE CallsAreValid'
  <2>1. CASE ScheduleBegin(c)
    <3>1. PICK t \in Times \cup {EMPTY_TIME_POINT} :
            stime' = [stime EXCEPT ![c] = IF t = EMPTY_TIME_POINT THEN now ELSE t]
      BY <2>1 DEF ScheduleBegin
    <3>2. stime'[c] <= MaxTime /\ \A d \in Clients : d # c => stime'[d] = stime[d]
      BY <3>1 DEF ClientInv, Times
    <3>3. owner' = owner /\ owner[c] # INVALID_ID /\ cpc' = [cpc EXCEPT ![c] = "schedule"]
      BY <2>1 DEF ScheduleBegin
    <3> QED
      BY <3>2, <3>3, <1>0 DEF CallsAreValid, ClientInv
  <2>2. CASE SchedulePost(c) \/ KillWorker(c) \/ Join(c)
    <3>1. /\ owner' = owner /\ cpc'[c] # "schedule"
          /\ \A d \in Clients : d # c => cpc'[d] = cpc[d] /\ stime'[d] = stime[d]
      BY <2>2 DEF SchedulePost, KillWorker, Join, ClientInv
    <3> QED
      BY <3>1, <1>0 DEF CallsAreValid
  <2>3. CASE GetClientId(c)
    <3>1. /\ UNCHANGED <<cpc, stime>> /\ cpc[c] = "out"
          /\ \A d \in Clients : d # c => owner'[d] = owner[d]
      BY <2>3 DEF GetClientId, ClientInv
    <3> QED
      BY <3>1, <1>0 DEF CallsAreValid
  <2>4. CASE UpdateWork(c) \/ CancelWork(c) \/ CancelClientWorks(c)
    BY <2>4, <1>1 DEF UpdateWork, CancelWork, CancelClientWorks, clientvars
  <2> QED
    BY <1>4, <2>1, <2>2, <2>3, <2>4 DEF Client
<1>5. ASSUME Worker PROVE Entries
  <2>1. CASE wait_for_some_work \/ wait_interrupted(now)
    <3>1. PICK flag \in BOOLEAN : restart(container, flag)
      BY <2>1 DEF wait_for_some_work, wait_interrupted, QueueInv
    <3>2. UNCHANGED <<item, stopped>>
      BY <2>1 DEF wait_for_some_work, wait_interrupted
    <3>3. ToSet(<<>>) = {}
      BY DEF ToSet
    <3>4. container' = container \/ container' = <<>>
      BY <3>1 DEF restart, clear
    <3>5. WaitsForFirst'
      BY <3>1 DEF restart, WaitsForFirst
    <3> QED
      BY <3>2, <3>3, <3>4, <3>5 DEF EntryInv, StopIsAlone, Owned
  <2>2. CASE wait_expired(now)
    <3>1. /\ ToSet(container') \subseteq R /\ item' \subseteq R /\ wpc' = "run" /\ UNCHANGED stopped
      BY <2>2, <1>0, TakenOut DEF wait_expired
    <3> QED
      BY <3>1 DEF EntryInv, StopIsAlone, Owned, WaitsForFirst
  <2>3. CASE wait_continues(now)
    BY <2>3, SameEntries DEF wait_continues
  <2>4. CASE work_returns
    <3>1. PICK r \in item :
            /\ item' = {} /\ ~stopped /\ r \in Records /\ r.fields.work
            /\ \/ ToSet(container') = R
               \/ ToSet(container') = R \cup {Later(r)}
      BY <2>4, Returned
    <3>2. Later(r).fields.client_id = r.fields.client_id
      BY <3>1 DEF Later, Records, Fields
    <3>3. Owned({Later(r)})
      BY <3>1, <3>2, <1>0 DEF Owned
    <3>4. WaitsForFirst'
      BY <2>4 DEF work_returns, restart, WaitsForFirst
    <3>5. UNCHANGED stopped
      BY <2>4 DEF work_returns
    <3> QED
      BY <3>1, <3>3, <3>4, <3>5, <1>0 DEF StopIsAlone, Owned
  <2> QED
    BY <1>5, <2>1, <2>2, <2>3, <2>4 DEF Worker, worker_step
<1>6. ASSUME StartWorker PROVE Entries
  BY <1>6 DEF StartWorker, start_worker, EntryInv, StopIsAlone, Owned, WaitsForFirst
<1>7. ASSUME Tick \/ SpuriousWakeup \/ UNCHANGED vars PROVE Entries
  BY <1>7, SameEntries DEF Tick, SpuriousWakeup, spurious_wakeup, vars, wqvars, loopvars
<1>8. ASSUME Tick \/ StartWorker \/ Worker \/ SpuriousWakeup \/ UNCHANGED vars PROVE CallsAreValid'
  BY <1>1, <1>8 DEF Tick, StartWorker, Worker, SpuriousWakeup, vars, clientvars
<1> QED
  BY <1>2, <1>3, <1>4, <1>5, <1>6, <1>7, <1>8 DEF Next

LEMMA CountInit == Init => Counted
<1> SUFFICES ASSUME Init PROVE Counted
  OBVIOUS
<1>1. Scheduling = {} /\ IsFiniteSet({}) /\ Cardinality({}) = 0
  BY FS_EmptySet DEF Init, Scheduling
<1>2. posted = 0 /\ stopped = TRUE /\ calls = [schedule |-> 0, update |-> 0, start |-> 0]
  BY DEF Init, WQInit
<1> QED
  BY <1>1, <1>2, BoundsAssumption DEF Counted

LEMMA CountKept == QueueInv /\ ClientInv /\ Counted /\ [Next]_vars => Counted'
<1> SUFFICES ASSUME QueueInv, ClientInv, Counted, [Next]_vars PROVE Counted'
  OBVIOUS
<1>0. /\ calls \in [schedule : 0 .. MaxPosts, update : Nat, start : 0 .. MaxStarts]
      /\ IsFiniteSet(Scheduling) /\ Cardinality(Scheduling) \in Nat
      /\ posted + Cardinality(Scheduling) + (IF stopped THEN 0 ELSE 1) <= calls.schedule + calls.start
      /\ posted \in Nat /\ stopped \in BOOLEAN /\ MaxPosts \in Nat /\ MaxStarts \in Nat
      /\ cpc \in [Clients -> {"out", "schedule", "join"}]
  BY BoundsAssumption, FS_CardinalityType DEF Counted, ClientInv, QueueInv
<1>1. ASSUME UNCHANGED <<posted, stopped, cpc, calls>> PROVE Counted'
  BY <1>1 DEF Counted, Scheduling
<1>2. ASSUME NEW c \in Clients, ScheduleBegin(c) PROVE Counted'
  <2>1. /\ UNCHANGED <<posted, stopped>> /\ cpc[c] = "out" /\ cpc' = [cpc EXCEPT ![c] = "schedule"]
        /\ calls.schedule < MaxPosts /\ calls' = [calls EXCEPT !.schedule = @ + 1]
    BY <1>2 DEF ScheduleBegin, wqvars
  <2>2. c \notin Scheduling /\ Scheduling' = Scheduling \cup {c}
    BY <2>1, <1>0 DEF Scheduling
  <2>3. IsFiniteSet(Scheduling') /\ Cardinality(Scheduling') = Cardinality(Scheduling) + 1
    BY <2>2, <1>0, FS_AddElement
  <2>4. /\ calls' \in [schedule : 0 .. MaxPosts, update : Nat, start : 0 .. MaxStarts]
        /\ calls'.schedule = calls.schedule + 1 /\ calls'.start = calls.start
    BY <2>1, <1>0
  <2> QED
    BY <2>1, <2>3, <2>4, <1>0 DEF Counted
<1>3. ASSUME NEW c \in Clients, SchedulePost(c) PROVE Counted'
  <2>1. /\ cpc[c] = "schedule" /\ cpc' = [cpc EXCEPT ![c] = "out"] /\ UNCHANGED <<calls, stopped>>
        /\ posted' = posted + 1 \/ posted' = posted
    BY <1>3 DEF SchedulePost, schedule_work, post_work, wqvars
  <2>2. c \in Scheduling /\ Scheduling' = Scheduling \ {c}
    BY <2>1, <1>0 DEF Scheduling
  <2>3. IsFiniteSet(Scheduling') /\ Cardinality(Scheduling') = Cardinality(Scheduling) - 1
    BY <2>2, <1>0, FS_RemoveElement
  <2> QED
    BY <2>1, <2>3, <1>0 DEF Counted
<1>4. ASSUME NEW c \in Clients, cpc[c] # "schedule", \A d \in Clients : d # c => cpc'[d] = cpc[d],
             cpc'[c] # "schedule"
      PROVE  Scheduling' = Scheduling
  BY <1>4 DEF Scheduling
<1>5. ASSUME NEW c \in Clients, KillWorker(c) PROVE Counted'
  <2>1. /\ cpc[c] = "out" /\ cpc' = [cpc EXCEPT ![c] = "join"] /\ UNCHANGED calls
        /\ posted' = posted + 1 /\ ~stopped /\ stopped'
    BY <1>5 DEF KillWorker, signal_worker_to_stop, post_work
  <2>2. Scheduling' = Scheduling
    BY <2>1, <1>0, <1>4
  <2> QED
    BY <2>1, <2>2, <1>0 DEF Counted
<1>6. ASSUME NEW c \in Clients, Join(c) PROVE Counted'
  <2>1. /\ cpc[c] = "join" /\ cpc' = [cpc EXCEPT ![c] = "out"] /\ UNCHANGED <<calls, posted, stopped>>
    BY <1>6 DEF Join, join_worker
  <2>2. Scheduling' = Scheduling
    BY <2>1, <1>0, <1>4
  <2> QED
    BY <2>1, <2>2, <1>0 DEF Counted
<1>7. ASSUME NEW c \in Clients, UpdateWork(c) PROVE Counted'
  <2>1. /\ UNCHANGED <<cpc, posted, stopped>> /\ calls' = [calls EXCEPT !.update = @ + 1]
    BY <1>7 DEF UpdateWork, update_work
  <2>2. /\ calls' \in [schedule : 0 .. MaxPosts, update : Nat, start : 0 .. MaxStarts]
        /\ calls'.schedule = calls.schedule /\ calls'.start = calls.start
    BY <2>1, <1>0
  <2> QED
    BY <2>1, <2>2, <1>0 DEF Counted, Scheduling
<1>8. ASSUME NEW c \in Clients, GetClientId(c) \/ CancelWork(c) \/ CancelClientWorks(c) PROVE Counted'
  BY <1>1, <1>8 DEF GetClientId, get_client_id, CancelWork, cancel_work, CancelClientWorks,
     cancel_client_works, clientvars
<1>9. ASSUME StartWorker PROVE Counted'
  <2>1. /\ UNCHANGED <<cpc, posted>> /\ stopped /\ ~stopped'
        /\ calls.start < MaxStarts /\ calls' = [calls EXCEPT !.start = @ + 1]
    BY <1>9 DEF StartWorker, start_worker
  <2>2. /\ calls' \in [schedule : 0 .. MaxPosts, update : Nat, start : 0 .. MaxStarts]
        /\ calls'.schedule = calls.schedule /\ calls'.start = calls.start + 1
    BY <2>1, <1>0
  <2> QED
    BY <2>1, <2>2, <1>0 DEF Counted, Scheduling
<1>10. ASSUME Worker PROVE Counted'
  BY <1>1, <1>10 DEF Worker, worker_step, wait_for_some_work, wait_interrupted, wait_expired,
     wait_continues, work_returns, clientvars
<1>11. CASE Tick \/ SpuriousWakeup \/ UNCHANGED vars
  BY <1>1, <1>11 DEF Tick, SpuriousWakeup, spurious_wakeup, vars, wqvars, clientvars
<1> QED
  BY <1>2, <1>3, <1>5, <1>6, <1>7, <1>8, <1>9, <1>10, <1>11 DEF Next, Client
-----------------------------------------------------------------------------
(* The schedule that the records of a container stand for. *)

WorksOf(S) == {entry(r) : r \in {s \in S : s.fields.work}}
RunningOf(it) == {entry(r) : r \in it}

LEMMA WorkAdded ==
  ASSUME NEW S, NEW u, u.fields.work
  PROVE  WorksOf(S \cup {u}) = WorksOf(S) \cup {entry(u)}
  BY DEF WorksOf

LEMMA WorkRemoved ==
  ASSUME NEW S, \A r, s \in S : r.call = s.call => r = s, NEW r \in S, r.fields.work
  PROVE  WorksOf(S \ {r}) = WorksOf(S) \ {entry(r)} /\ entry(r) \in WorksOf(S)
<1>1. \A s \in S : entry(s) = entry(r) => s = r
  BY DEF entry
<1> QED
  BY <1>1 DEF WorksOf

LEMMA OwnerRemoved ==
  ASSUME NEW S, NEW o
  PROVE  WorksOf(S \ {r \in S : r.fields.client_id = o}) = {w \in WorksOf(S) : w.owner # o}
<1>1. \A r : entry(r).owner = r.fields.client_id
  BY DEF entry
<1> QED
  BY <1>1 DEF WorksOf

LEMMA EntryOf ==
  ASSUME NEW f, NEW i, NEW n
  PROVE  entry(record(f, i, n)) =
           [time |-> f.time_point, owner |-> f.client_id, period |-> f.period, call |-> n]
  BY DEF entry, record

\* The actions of the schedule, in terms of the works of containers.
LEMMA ScheduleActions ==
  LET W == WorksOf(ToSet(container))
      W2 == WorksOf(ToSet(container'))
      Idle == /\ RunningOf(item) = {} /\ ~stopped
              /\ RunningOf(item') = RunningOf(item) /\ (~stopped') = (~stopped) /\ now' = now
      Work == [time : 0 .. MaxTime, owner : 0 .. IdModulus - 2, period : Periods,
               call : 1 .. MaxPosts + MaxStarts]
  IN  /\ Schedule!Schedule <=>
           Idle /\ \E w \in W2 \ W : /\ w \in Work /\ W2 = W \cup {w}
                                     /\ \A v \in W : w.call > v.call
      /\ Schedule!Replace <=>
           Idle /\ \E v \in W, w \in W2 : /\ w \in Work /\ w.call = v.call
                                          /\ W2 = (W \ {v}) \cup {w}
      /\ Schedule!Cancel <=> Idle /\ \E v \in W : W2 = W \ {v}
      /\ Schedule!CancelOwner <=> Idle /\ \E o \in 0 .. IdModulus - 2 : W2 = {w \in W : w.owner # o}
      /\ Schedule!Begin <=>
           \E w \in W : /\ RunningOf(item) = {} /\ w.time <= now /\ \A v \in W : w.time <= v.time
                        /\ RunningOf(item') = {w} /\ W2 = W \ {w}
                        /\ (~stopped') = (~stopped) /\ now' = now
      /\ Schedule!End <=>
           \E w \in RunningOf(item) :
             /\ RunningOf(item') = {} /\ (~stopped') = (~stopped) /\ now' = now
             /\ \/ W2 = W
                \/ w.period > 0 /\ W2 = W \cup {[w EXCEPT !.time = @ + w.period]}
  BY DEF Schedule!Schedule, Schedule!Replace, Schedule!Cancel, Schedule!CancelOwner,
         Schedule!Begin, Schedule!End, Schedule!Unlocked, Schedule!Work, WorksOf, RunningOf

SInv == WInv /\ OrderInv /\ EntryInv /\ Counted

\* What every step of a client has in common: it is made while no work runs.
LEMMA NothingRuns ==
  ASSUME QueueInv, unlocked
  PROVE  item = {} /\ RunningOf(item) = {}
  BY DEF QueueInv, ItemRuns, unlocked, RunningOf

LEMMA PostIsSchedule ==
  ASSUME SInv, NEW c \in Clients, NEW p \in Periods, cpc[c] = "schedule",
         schedule_work(owner[c], stime[c], p), UNCHANGED now
  PROVE  Schedule!Schedule
<1> DEFINE R == ToSet(container)
           W == WorksOf(R)
           W2 == WorksOf(ToSet(container'))
<1>0. QueueInv /\ ClientInv /\ OrderInv /\ EntryInv /\ Counted
  BY InvParts DEF SInv
<1>1. PICK f : f = wq_item(TRUE, stime[c], owner[c], p)
  OBVIOUS
<1>2. /\ post_work(R, f) /\ unlocked /\ ~stopped /\ UNCHANGED <<stopped, item>>
      /\ f.work /\ f.time_point = stime[c] /\ f.client_id = owner[c] /\ f.period = p
  BY <1>1 DEF schedule_work, wq_item
<1>3. PICK u : u = record(f, next_id(next_work_id), posted + 1)
  OBVIOUS
<1>4. ToSet(container') = R \cup {u} /\ u.fields.work /\ u.call = posted + 1
  <2>1. IsFiniteSet(R)
    BY <1>0, InTheContainer
  <2>2. ToSet(container') = R \cup {u}
    BY <2>1, <1>0, <1>2, <1>3, Posted
  <2> QED
    BY <2>2, <1>2, <1>3 DEF record
<1>5. W2 = W \cup {entry(u)}
  BY <1>4, WorkAdded
<1>6. entry(u) = [time |-> stime[c], owner |-> owner[c], period |-> p, call |-> posted + 1]
  BY <1>2, <1>3, EntryOf
<1>7. \A w \in W : posted + 1 > w.call
  <2>1. \A r \in R : r.call \in 1 .. posted
    BY <1>0 DEF OrderInv, InOrder
  <2>2. \A w \in W : \E r \in R : w.call = r.call
    BY DEF WorksOf, entry
  <2> QED
    BY <2>1, <2>2, <1>0 DEF ClientInv
<1>8. posted + 1 \in 1 .. MaxPosts + MaxStarts
  <2>1. c \in Scheduling /\ IsFiniteSet(Scheduling)
    BY <1>0 DEF Scheduling, Counted
  <2>2. Cardinality(Scheduling) \in Nat /\ Cardinality(Scheduling) # 0
    BY <2>1, FS_CardinalityType, FS_EmptySet
  <2>3. /\ posted + Cardinality(Scheduling) + 1 <= calls.schedule + calls.start /\ posted \in Nat
        /\ calls.schedule \in 0 .. MaxPosts /\ calls.start \in 0 .. MaxStarts
    BY <1>0, <1>2 DEF Counted, ClientInv
  <2> QED
    BY <2>2, <2>3, BoundsAssumption
<1>9. stime[c] \in 0 .. MaxTime /\ owner[c] \in 0 .. IdModulus - 2
  BY <1>0, MaxTimeAssumption, IdModulusAssumption DEF ClientInv, EntryInv, CallsAreValid, INVALID_ID
<1>10. RunningOf(item) = {}
  BY <1>0, <1>2, NothingRuns
<1> HIDE DEF R, W, W2
<1>11. \E w \in W2 \ W :
         /\ w \in [time : 0 .. MaxTime, owner : 0 .. IdModulus - 2, period : Periods,
                   call : 1 .. MaxPosts + MaxStarts]
         /\ W2 = W \cup {w} /\ \A v \in W : w.call > v.call
  <2>1. PICK w : w = entry(u)
    OBVIOUS
  <2>2. w.call = posted + 1 /\ w.call \in Nat
    BY <2>1, <1>6, <1>0 DEF ClientInv
  <2>3. w \notin W
    BY <2>2, <1>7
  <2>4. w \in [time : 0 .. MaxTime, owner : 0 .. IdModulus - 2, period : Periods,
               call : 1 .. MaxPosts + MaxStarts]
    BY <2>1, <1>6, <1>8, <1>9
  <2>5. W2 = W \cup {w} /\ w \in W2 \ W /\ \A v \in W : w.call > v.call
    BY <2>1, <2>2, <2>3, <1>5, <1>7
  <2> QED
    BY <2>4, <2>5
<1> QED
  BY <1>2, <1>10, <1>11, ScheduleActions DEF R, W, W2

LEMMA UpdateIsReplace ==
  ASSUME SInv, NEW c \in Clients, UpdateWork(c)
  PROVE  Schedule!Replace
<1> DEFINE R == ToSet(container)
           W == WorksOf(R)
           W2 == WorksOf(ToSet(container'))
<1>0. QueueInv /\ ClientInv /\ OrderInv /\ EntryInv /\ Counted
  BY InvParts DEF SInv
<1>1. PICK wid, t, p : /\ update_work(wid, owner[c], t, p)
                       /\ t \in Times \cup {EMPTY_TIME_POINT} /\ p \in Periods
  BY DEF UpdateWork
<1>2. PICK client : client = owner[c] /\ client # INVALID_ID
  BY DEF UpdateWork
<1>3. PICK f : f = wq_item(TRUE, t, client, p)
  OBVIOUS
<1>4. f.work /\ f.time_point = t /\ f.client_id = client /\ f.period = p
  BY <1>3 DEF wq_item
<1>5. unlocked /\ ~stopped /\ UNCHANGED <<stopped, item, now>>
  BY <1>1 DEF update_work, UpdateWork
<1>6. update_work(wid, client, t, p)
  BY <1>1, <1>2
<1>7. Replaced(wid, f)
  BY <1>0, <1>3, <1>6, Updated
<1>8. PICK r \in R : ToSet(container') = (R \ {r}) \cup {record(f, wid, r.call)}
  BY <1>7 DEF Replaced
<1>9. PICK u : u = record(f, wid, r.call)
  OBVIOUS
<1>10. u.fields.work
  BY <1>4, <1>9 DEF record
<1>11. W2 = WorksOf(R \ {r}) \cup {entry(u)}
  BY <1>8, <1>9, <1>10, WorkAdded
<1>12. WorksOf(R \ {r}) = W \ {entry(r)} /\ entry(r) \in W
  <2>1. \A x, y \in R : x.call = y.call => x = y
    BY <1>0 DEF OrderInv, InOrder
  <2>2. r.fields.work
    BY <1>0, <1>5, InTheContainer
  <2> QED
    BY <2>1, <2>2, WorkRemoved
<1>13. entry(u) = [time |-> t, owner |-> client, period |-> p, call |-> r.call]
  BY <1>4, <1>9, EntryOf
<1>14. entry(r).call = r.call
  BY DEF entry
<1>15. r.call \in 1 .. MaxPosts + MaxStarts
  <2>1. r.call \in 1 .. posted /\ posted \in Nat
    BY <1>0 DEF OrderInv, InOrder, ClientInv
  <2>2. /\ posted + Cardinality(Scheduling) + 1 <= calls.schedule + calls.start
        /\ Cardinality(Scheduling) \in Nat
        /\ calls.schedule \in 0 .. MaxPosts /\ calls.start \in 0 .. MaxStarts
    BY <1>0, <1>5, FS_CardinalityType DEF Counted
  <2> QED
    BY <2>1, <2>2, BoundsAssumption
<1>16. t \in 0 .. MaxTime /\ client \in 0 .. IdModulus - 2
  BY <1>0, <1>1, <1>2, MaxTimeAssumption, IdModulusAssumption
     DEF ClientInv, INVALID_ID, Times, EMPTY_TIME_POINT
<1>17. RunningOf(item) = {}
  BY <1>0, <1>5, NothingRuns
<1> HIDE DEF R, W, W2
<1>18. \E v \in W, w \in W2 :
         /\ w \in [time : 0 .. MaxTime, owner : 0 .. IdModulus - 2, period : Periods,
                   call : 1 .. MaxPosts + MaxStarts]
         /\ w.call = v.call /\ W2 = (W \ {v}) \cup {w}
  <2>1. PICK v, w : v = entry(r) /\ w = entry(u)
    OBVIOUS
  <2>2. v \in W /\ v.call = r.call /\ w.call = r.call
    BY <2>1, <1>12, <1>13, <1>14
  <2>3. w \in [time : 0 .. MaxTime, owner : 0 .. IdModulus - 2, period : Periods,
               call : 1 .. MaxPosts + MaxStarts]
    BY <2>1, <1>1, <1>13, <1>15, <1>16
  <2>4. W2 = (W \ {v}) \cup {w} /\ w \in W2
    BY <2>1, <1>11, <1>12
  <2> QED
    BY <2>2, <2>3, <2>4
<1> QED
  BY <1>5, <1>17, <1>18, ScheduleActions DEF R, W, W2

LEMMA CancelIsCancel ==
  ASSUME SInv, NEW c \in Clients, CancelWork(c)
  PROVE  Schedule!Cancel
<1> DEFINE R == ToSet(container)
<1>0. QueueInv /\ OrderInv
  BY InvParts DEF SInv
<1>1. PICK wid : cancel_work(wid)
  BY DEF CancelWork
<1>2. PICK r \in R : make_heap_and_notify_worker(R \ {r})
  BY <1>1 DEF cancel_work, found
<1>3. unlocked /\ ~stopped /\ UNCHANGED <<stopped, item, now>>
  BY <1>1 DEF cancel_work, CancelWork
<1>4. ToSet(container') = R \ {r}
  BY <1>0, <1>2, Cancelled
<1>5. WorksOf(R \ {r}) = WorksOf(R) \ {entry(r)} /\ entry(r) \in WorksOf(R)
  <2>1. \A x, y \in R : x.call = y.call => x = y
    BY <1>0 DEF OrderInv, InOrder
  <2>2. r.fields.work
    BY <1>0, <1>3, InTheContainer
  <2> QED
    BY <2>1, <2>2, WorkRemoved
<1>6. RunningOf(item) = {}
  BY <1>0, <1>3, NothingRuns
<1> HIDE DEF R
<1>7. \E v \in WorksOf(R) : WorksOf(ToSet(container')) = WorksOf(R) \ {v}
  BY <1>4, <1>5
<1> QED
  BY <1>3, <1>6, <1>7, ScheduleActions DEF R

LEMMA CancelAllIsCancelOwner ==
  ASSUME SInv, NEW c \in Clients, CancelClientWorks(c)
  PROVE  Schedule!CancelOwner
<1> DEFINE R == ToSet(container)
           C == {r \in R : r.fields.client_id = owner[c]}
<1>0. QueueInv /\ ClientInv /\ EntryInv
  BY InvParts DEF SInv
<1>1. /\ unlocked /\ ~stopped /\ UNCHANGED <<stopped, item, now>>
      /\ C # {} /\ make_heap_and_notify_worker(R \ C)
  BY DEF CancelClientWorks, cancel_client_works
<1>2. ToSet(container') = R \ C
  BY <1>0, <1>1, Cancelled
<1>3. owner[c] \in 0 .. IdModulus - 2
  <2>1. PICK r \in R : r.fields.client_id = owner[c]
    BY <1>1
  <2>2. r.fields.work
    BY <1>0, <1>1, InTheContainer
  <2>3. owner[c] # INVALID_ID
    BY <2>1, <2>2, <1>0 DEF EntryInv, Owned
  <2> QED
    BY <2>3, <1>0, IdModulusAssumption DEF ClientInv, INVALID_ID
<1>4. WorksOf(R \ C) = {w \in WorksOf(R) : w.owner # owner[c]}
  BY OwnerRemoved
<1>5. RunningOf(item) = {}
  BY <1>0, <1>1, NothingRuns
<1> HIDE DEF R, C
<1>6. \E o \in 0 .. IdModulus - 2 :
        WorksOf(ToSet(container')) = {w \in WorksOf(R) : w.owner # o}
  BY <1>2, <1>3, <1>4
<1> QED
  BY <1>1, <1>5, <1>6, ScheduleActions DEF R

LEMMA KillIsStop ==
  ASSUME SInv, NEW c \in Clients, KillWorker(c)
  PROVE  Schedule!Stop
<1>0. QueueInv /\ EntryInv
  BY InvParts DEF SInv
<1>1. PICK f : f = wq_item(FALSE, EMPTY_TIME_POINT, INVALID_ID, RUN_ONCE)
  OBVIOUS
<1>2. /\ post_work({}, f) /\ unlocked /\ ~stopped /\ stopped' = TRUE
      /\ UNCHANGED <<item, wpc, deadline, now>> /\ ~f.work
  BY <1>1 DEF KillWorker, signal_worker_to_stop, wq_item
<1>3. StopIsAlone'
  BY <1>0, <1>2, PostedEntries
<1>4. WorksOf(ToSet(container')) = {}
  BY <1>2, <1>3 DEF StopIsAlone, WorksOf
<1>5. RunningOf(item) = {} /\ RunningOf(item') = {}
  BY <1>0, <1>2, NothingRuns
<1> QED
  BY <1>2, <1>4, <1>5 DEF Schedule!Stop, WorksOf, RunningOf

LEMMA StartIsStart ==
  ASSUME StartWorker
  PROVE  Schedule!Start
  BY DEF StartWorker, start_worker, Schedule!Start

LEMMA ExpiredIsBegin ==
  ASSUME SInv, wait_expired(now), UNCHANGED now
  PROVE  Schedule!Begin
<1> DEFINE R == ToSet(container)
<1>0. QueueInv /\ OrderInv /\ EntryInv
  BY InvParts DEF SInv
<1>1. PICK r : r = container[1]
  OBVIOUS
<1>2. r \in R /\ item' = {r} /\ ToSet(container') = R \ {r}
  BY <1>0, <1>1, TakenOut DEF OrderInv
<1>3. /\ wpc = "time_point" /\ ~change_flag /\ deadline <= now /\ UNCHANGED stopped
      /\ container # <<>>
  BY DEF wait_expired, get_container_change_flag, is_container_empty
<1>4. ~stopped
  BY <1>0, <1>3 DEF QueueInv, StoppedHoldsStop
<1>5. WorksOf(R \ {r}) = WorksOf(R) \ {entry(r)} /\ entry(r) \in WorksOf(R)
  <2>1. \A x, y \in R : x.call = y.call => x = y
    BY <1>0 DEF OrderInv, InOrder
  <2>2. r.fields.work
    BY <1>0, <1>2, <1>4, InTheContainer
  <2> QED
    BY <1>2, <2>1, <2>2, WorkRemoved
<1>6. r.fields.time_point <= now
  BY <1>0, <1>1, <1>3 DEF EntryInv, WaitsForFirst
<1>7. \A s \in R : r.fields.time_point <= s.fields.time_point
  <2>1. container \in Seq(Records) /\ is_heap(container)
        /\ \A x \in Records : x.fields.time_point \in Nat
    BY <1>0 DEF QueueInv, Records, Fields
  <2>2. \A s \in R : \E i \in 1 .. Len(container) : s = container[i]
    BY <2>1, RecordsOf
  <2> QED
    BY <1>1, <2>1, <2>2, HeapFront
<1>8. \A w \in WorksOf(R) : \E s \in R : w.time = s.fields.time_point
  BY DEF WorksOf, entry
<1>9. item = {} /\ RunningOf(item) = {} /\ RunningOf(item') = {entry(r)}
  BY <1>0, <1>2, <1>3 DEF QueueInv, ItemRuns, RunningOf
<1>10. entry(r).time = r.fields.time_point
  BY DEF entry
<1> HIDE DEF R
<1>11. \E w \in WorksOf(R) :
         /\ w.time <= now /\ \A v \in WorksOf(R) : w.time <= v.time
         /\ RunningOf(item') = {w} /\ WorksOf(ToSet(container')) = WorksOf(R) \ {w}
  <2>1. PICK w : w = entry(r)
    OBVIOUS
  <2> QED
    BY <2>1, <1>2, <1>5, <1>6, <1>7, <1>8, <1>9, <1>10
<1> QED
  BY <1>3, <1>9, <1>11, ScheduleActions DEF R

LEMMA ReturnIsEnd ==
  ASSUME SInv, work_returns, UNCHANGED now
  PROVE  Schedule!End
<1> DEFINE R == ToSet(container)
<1>0. QueueInv /\ OrderInv /\ EntryInv
  BY InvParts DEF SInv
<1>1. PICK r \in item :
        /\ r \in Records /\ r.fields.work /\ item' = {}
        /\ \/ ToSet(container') = R
           \/ r.fields.period > 0 /\ ToSet(container') = R \cup {Later(r)}
  BY <1>0, Returned
<1>2. UNCHANGED stopped
  BY DEF work_returns
<1>3. PICK w : w = entry(r)
  OBVIOUS
<1>4. w \in RunningOf(item) /\ RunningOf(item') = {} /\ w.period = r.fields.period
  BY <1>1, <1>3 DEF RunningOf, entry
<1>5. entry(Later(r)) = [w EXCEPT !.time = @ + w.period] /\ Later(r).fields.work
  BY <1>1, <1>3 DEF Later, entry, Records, Fields
<1>6. WorksOf(R \cup {Later(r)}) = WorksOf(R) \cup {[w EXCEPT !.time = @ + w.period]}
  BY <1>5, WorkAdded
<1> HIDE DEF R
<1>7. \/ WorksOf(ToSet(container')) = WorksOf(R)
      \/ /\ w.period > 0
         /\ WorksOf(ToSet(container')) = WorksOf(R) \cup {[w EXCEPT !.time = @ + w.period]}
  BY <1>1, <1>4, <1>6
<1> QED
  BY <1>2, <1>4, <1>7, ScheduleActions DEF R

\* What the schedule does not see: steps that leave works, flag and clock alone,
\* among them those with which the worker goes on to its next wait or exits.
SameSchedule == UNCHANGED <<container, item, stopped, now>>

LEMMA SameIsStutter ==
  ASSUME SameSchedule
  PROVE  UNCHANGED Schedule!schedulevars
  BY DEF SameSchedule, Schedule!schedulevars

LEMMA GoingOnIsStutter ==
  ASSUME SInv, NEW flag \in BOOLEAN, wpc \in {"some_work", "time_point"},
         restart(container, flag), UNCHANGED <<stopped, item, now>>
  PROVE  UNCHANGED Schedule!schedulevars
<1>0. QueueInv /\ EntryInv
  BY InvParts DEF SInv
<1>1. CASE ~stopped
  BY <1>0, <1>1, WentOn, SameIsStutter DEF SameSchedule
<1>2. CASE stopped
  <2>1. ToSet(container') = {}
    <3>1. container' = <<>>
      BY <1>0, <1>2, WentOn
    <3> QED
      BY <3>1 DEF ToSet
  <2>2. WorksOf(ToSet(container')) = {} /\ WorksOf(ToSet(container)) = {}
    BY <1>0, <1>2, <2>1 DEF WorksOf, EntryInv, StopIsAlone
  <2> QED
    BY <2>2 DEF Schedule!schedulevars, WorksOf
<1> QED
  BY <1>1, <1>2

LEMMA ClientStepOfSchedule ==
  ASSUME SInv, NEW c \in Clients, Client(c)
  PROVE  Schedule!Next \/ UNCHANGED Schedule!schedulevars
<1>1. CASE GetClientId(c) \/ ScheduleBegin(c) \/ Join(c)
  BY <1>1, SameIsStutter
     DEF GetClientId, get_client_id, ScheduleBegin, Join, join_worker, wqvars, loopvars, SameSchedule
<1>2. CASE SchedulePost(c)
  <2>1. CASE UNCHANGED wqvars
    BY <1>2, <2>1, SameIsStutter DEF SchedulePost, wqvars, loopvars, SameSchedule
  <2>2. ASSUME NEW p \in Periods, schedule_work(owner[c], stime[c], p)
        PROVE  Schedule!Schedule
    BY <1>2, <2>2, PostIsSchedule DEF SchedulePost
  <2> QED
    BY <1>2, <2>1, <2>2 DEF SchedulePost, Schedule!Next
<1>3. CASE UpdateWork(c)
  BY <1>3, UpdateIsReplace DEF Schedule!Next
<1>4. CASE CancelWork(c)
  BY <1>4, CancelIsCancel DEF Schedule!Next
<1>5. CASE CancelClientWorks(c)
  BY <1>5, CancelAllIsCancelOwner DEF Schedule!Next
<1>6. CASE KillWorker(c)
  BY <1>6, KillIsStop DEF Schedule!Next
<1> QED
  BY <1>1, <1>2, <1>3, <1>4, <1>5, <1>6 DEF Client

LEMMA WorkerStepOfSchedule ==
  ASSUME SInv, Worker
  PROVE  Schedule!Next \/ UNCHANGED Schedule!schedulevars
<1>0. worker_step(now) /\ UNCHANGED now
  BY DEF Worker
<1>1. CASE wait_for_some_work \/ wait_interrupted(now)
  <2>1. PICK flag \in BOOLEAN : restart(container, flag)
    BY <1>1, InvParts DEF wait_for_some_work, wait_interrupted, SInv, QueueInv
  <2>2. wpc \in {"some_work", "time_point"} /\ UNCHANGED <<stopped, item, now>>
    BY <1>0, <1>1 DEF wait_for_some_work, wait_interrupted
  <2> QED
    BY <2>1, <2>2, GoingOnIsStutter
<1>2. CASE wait_expired(now)
  BY <1>0, <1>2, ExpiredIsBegin DEF Schedule!Next
<1>3. CASE wait_continues(now)
  BY <1>0, <1>3, SameIsStutter DEF wait_continues, SameSchedule
<1>4. CASE work_returns
  BY <1>0, <1>4, ReturnIsEnd DEF Schedule!Next
<1> QED
  BY <1>0, <1>1, <1>2, <1>3, <1>4 DEF worker_step

LEMMA StepOfSchedule == SInv /\ [Next]_vars => [Schedule!Next]_(Schedule!schedulevars)
<1> SUFFICES ASSUME SInv, [Next]_vars
             PROVE  Schedule!Next \/ UNCHANGED Schedule!schedulevars
  OBVIOUS
<1>1. CASE Tick
  <2>1. now' > now
    BY <1>1, InvParts, MaxTimeAssumption DEF Tick, SInv, ClientInv, Times
  <2> QED
    BY <1>1, <2>1 DEF Tick, wqvars, loopvars, Schedule!Tick, Schedule!Next
<1>2. CASE StartWorker
  BY <1>2, StartIsStart DEF Schedule!Next
<1>3. CASE Worker
  BY <1>3, WorkerStepOfSchedule
<1>4. CASE SpuriousWakeup \/ UNCHANGED vars
  BY <1>4, SameIsStutter DEF SpuriousWakeup, spurious_wakeup, vars, wqvars, loopvars, SameSchedule
<1>5. ASSUME NEW c \in Clients, Client(c)
      PROVE  Schedule!Next \/ UNCHANGED Schedule!schedulevars
  BY <1>5, ClientStepOfSchedule
<1> QED
  BY <1>1, <1>2, <1>3, <1>4, <1>5 DEF Next

LEMMA ScheduleInit == Init => SInv /\ Schedule!Init
<1> SUFFICES ASSUME Init PROVE SInv /\ Schedule!Init
  OBVIOUS
<1>1. /\ container = <<>> /\ stopped = TRUE /\ item = {} /\ wpc = "none" /\ posted = 0
      /\ now = 1 /\ \A c \in Clients : cpc[c] = "out"
  BY DEF Init, WQInit
<1>2. ToSet(container) = {} /\ NoDuplicates(container)
  BY <1>1 DEF ToSet, NoDuplicates
<1>3. OrderInv
  BY <1>1, <1>2 DEF OrderInv, InOrder
<1>4. EntryInv
  BY <1>1, <1>2 DEF EntryInv, StopIsAlone, Owned, WaitsForFirst, CallsAreValid
<1>5. Schedule!Init
  BY <1>1, <1>2 DEF Schedule!Init
<1> QED
  BY <1>3, <1>4, <1>5, WInvInit, CountInit DEF SInv

\* The queue does what the schedule promises: the works of the heap are the works
\* that are to run, and each lock-protected step of clients and worker is one of
\* the schedule's or none. No work runs early, before an earlier one, twice at a
\* time, or after it has been replaced or cancelled or the worker has been stopped.
THEOREM QueueImplementsSchedule == Spec => ImplementsSchedule
<1>1. SInv /\ [Next]_vars => SInv'
  BY InvParts, WInvStep, OrderKept, EntriesKept, CountKept DEF SInv
<1> QED
  BY <1>1, ScheduleInit, StepOfSchedule, PTL DEF Spec, ImplementsSchedule, Schedule!Spec
=============================================================================
