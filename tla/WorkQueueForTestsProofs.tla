----------------------- MODULE WorkQueueForTestsProofs -----------------------
(***************************************************************************)
(* forward_time of work_queue_for_tests: a call that waits is answered     *)
(* once, and not before all the works that are due have run, and the       *)
(* worker does not sleep through a change of the clock, for any clients,   *)
(* works, periods and times, as long as there are IDs for the clients.     *)
(***************************************************************************)
EXTENDS WorkQueueForTests, WorkQueueProofs

\* The forwarding works among some records.
ForwardingIn(S) == {r \in S : is_forwarding(r)}

\* What the worker has in the container, in its hands and in its own variables.
WorkerTypes ==
  /\ container \in Seq(Records) /\ is_heap(container) /\ NoDuplicates(container)
  /\ item \subseteq Records /\ \A r, s \in item : r = s
  /\ change_flag \in BOOLEAN /\ stopped \in BOOLEAN /\ asleep \in BOOLEAN /\ deadline \in Nat

CallTypes ==
  /\ next_work_id \in 0 .. IdModulus - 1 /\ posted \in Nat
  /\ now \in Nat \ {0} /\ stime \in [Clients -> Nat] /\ owner \in [Clients -> 0 .. IdModulus - 1]
  /\ fpc \in {"forward", "post"} => target \in Nat \ {0}

OnlyWorks == ~stopped => \A r \in ToSet(container) \cup item : r.fields.work

StoppedAtEnd == stopped => fpc \in {"join", "gone"}

\* A record in the worker's hands is being executed or, if it is not the forwarding
\* work, waits for the user's function to be executed once again.
ItemInHands ==
  /\ wpc \notin {"run", "sync"} => item = {}
  /\ wpc = "sync" => ForwardingIn(item) = {}

\* The work that is executed was the earliest.
RunsFirst ==
  wpc = "run" => \A r \in item : /\ r \notin ToSet(container)
                                 /\ \A s \in ToSet(container) : r.fields.time_point <= s.fields.time_point

ForwardingTimed ==
  \A r \in ForwardingIn(ToSet(container) \cup item) : r.fields.time_point # EMPTY_TIME_POINT

\* A call at p that waits has a forwarding work F under way, or n = 1 post.
Tokens(F, n, p) ==
  \/ p # "wait" /\ F = {} /\ n = 0
  \/ p = "wait" /\ F = {} /\ n = 1
  \/ p = "wait" /\ (\E r : F = {r}) /\ n = 0
TokenInv == Tokens(ForwardingIn(ToSet(container) \cup item), completed, fpc)

\* While it waits, or is about to wait again, nothing is due.
SleepsTillDue ==
  wpc = "time_point" /\ (asleep \/ ~change_flag) /\ fpc # "post" =>
    \A r \in ToSet(container) : now < r.fields.time_point

TestInv ==
  /\ WorkerTypes /\ CallTypes /\ OnlyWorks /\ StoppedAtEnd /\ ItemInHands /\ RunsFirst
  /\ ForwardingTimed /\ TokenInv /\ SleepsTillDue

LEMMA TokenCounts == TokenInv => ForwardToken
<1> SUFFICES ASSUME TokenInv PROVE ForwardToken
  OBVIOUS
<1> DEFINE F == ForwardingIn(ToSet(container) \cup item)
<1>1. Tokens(F, completed, fpc) /\ F = {r \in ToSet(container) \cup item : is_forwarding(r)}
  BY DEF TokenInv, ForwardingIn
<1> HIDE DEF F
<1>2. F = {} => Cardinality(F) = 0
  BY FS_EmptySet
<1>3. (\E r : F = {r}) => Cardinality(F) = 1
  BY FS_Singleton
<1>4. completed + Cardinality(F) = IF fpc = "wait" THEN 1 ELSE 0
  BY <1>1, <1>2, <1>3 DEF Tokens
<1> QED
  BY <1>1, <1>4 DEF ForwardToken
-----------------------------------------------------------------------------
(* The worker. *)

\* The records of the container, and the first of them.
LEMMA AllRecords ==
  ASSUME NEW s \in Seq(Records), is_heap(s)
  PROVE  /\ IsFiniteSet(ToSet(s)) /\ ToSet(s) \subseteq Records
         /\ s # <<>> => s[1] \in ToSet(s)
         /\ s # <<>> => \A r \in ToSet(s) : s[1].fields.time_point <= r.fields.time_point
         /\ s = <<>> => ToSet(s) = {}
<1>1. \A x : x \in ToSet(s) <=> \E i \in 1 .. Len(s) : x = s[i]
  BY RecordsOf
<1>2. \A r \in Records : r.fields.time_point \in Nat
  BY DEF Records, Fields
<1>3. \A i \in 1 .. Len(s) : s[1].fields.time_point <= s[i].fields.time_point
  BY <1>2, HeapFront
<1>4. Len(s) \in Nat /\ (s # <<>> => 1 \in 1 .. Len(s)) /\ (s = <<>> => Len(s) = 0)
  BY EmptySeq
<1> QED
  BY <1>1, <1>3, <1>4, RecordsOf

LEMMA WorkTaken ==
  ASSUME NEW s \in Seq(Records), is_heap(s), NoDuplicates(s), s # <<>>,
         NEW t \in heaps(ToSet(Tail(s)))
  PROVE  /\ t \in Seq(Records) /\ is_heap(t) /\ NoDuplicates(t)
         /\ ToSet(t) = ToSet(s) \ {s[1]} /\ s[1] \in ToSet(s)
<1>1. Tail(s) \in Seq(Records) /\ ToSet(Tail(s)) = ToSet(s) \ {s[1]} /\ s[1] \in ToSet(s)
  BY FrontTaken
<1>2. IsFiniteSet(ToSet(Tail(s))) /\ ToSet(Tail(s)) \in SUBSET Records
  BY <1>1, RecordsOf
<1>3. ToSet(t) = ToSet(Tail(s)) /\ NoDuplicates(t) /\ is_heap(t)
  BY <1>2, HeapSet
<1>4. t \in Seq(Records)
  BY <1>2, HeapOf
<1> QED
  BY <1>1, <1>3, <1>4

LEMMA RecordPushed ==
  ASSUME NEW s \in Seq(Records), NEW N \in SUBSET Records, IsFiniteSet(N), NEW t \in pushed(s, N)
  PROVE  /\ t \in Seq(Records) /\ is_heap(t) /\ NoDuplicates(t)
         /\ ToSet(t) = ToSet(s) \cup N
<1>1. PICK S : S = ToSet(s) \cup N
  OBVIOUS
<1>2. IsFiniteSet(S) /\ S \in SUBSET Records /\ t \in heaps(S)
  BY <1>1, RecordsOf, FS_Union DEF pushed
<1> QED
  BY <1>1, <1>2, HeapSet, HeapOf

\* The worker goes on with the records of s: it takes one that is due, or waits
\* with them until they are.
LEMMA WentOnWith ==
  ASSUME NEW s \in Seq(Records), is_heap(s), NoDuplicates(s), NEW flag \in BOOLEAN,
         deadline \in Nat, now \in Nat, continue_with(s, flag)
  PROVE  /\ container' \in Seq(Records) /\ is_heap(container') /\ NoDuplicates(container')
         /\ item' \subseteq ToSet(s) /\ ToSet(container') \subseteq ToSet(s)
         /\ \A r, q \in item' : r = q
         /\ change_flag' \in BOOLEAN /\ asleep' \in BOOLEAN /\ deadline' \in Nat
         /\ (\A r \in ToSet(s) : r.fields.work) => ToSet(container') \cup item' = ToSet(s)
         /\ wpc' \in {"some_work", "time_point", "exited", "run"} /\ (wpc' # "run" => item' = {})
         /\ wpc' = "run" =>
              \A r \in item' : /\ r \notin ToSet(container')
                               /\ \A q \in ToSet(container') : r.fields.time_point <= q.fields.time_point
         /\ wpc' = "time_point" => \A r \in ToSet(container') : now < r.fields.time_point
<1>0. /\ s # <<>> => s[1] \in ToSet(s) /\ \A r \in ToSet(s) : s[1].fields.time_point <= r.fields.time_point
      /\ s # <<>> => s[1] \in Records /\ s[1].fields.time_point \in Nat /\ s[1].fields.work \in BOOLEAN
      /\ \A r \in ToSet(s) : r.fields.time_point \in Nat
      /\ s = <<>> => ToSet(s) = {}
  BY AllRecords DEF Records, Fields
<1>1. CASE is_due(s)
  <2>1. /\ s # <<>> /\ item' = {s[1]} /\ container' \in heaps(ToSet(Tail(s)))
        /\ wpc' = "run" /\ asleep' = FALSE /\ change_flag' = flag /\ deadline' = deadline
    BY <1>1 DEF continue_with, is_due
  <2>2. /\ container' \in Seq(Records) /\ is_heap(container') /\ NoDuplicates(container')
        /\ ToSet(container') = ToSet(s) \ {s[1]}
    BY <2>1, WorkTaken
  <2> QED
    BY <2>1, <2>2, <1>0
<1>2. CASE ~is_due(s)
  <2>1. restart(s, flag) /\ item' = {}
    BY <1>2 DEF continue_with
  <2>2. CASE s = <<>>
    <3>1. container' = s /\ wpc' = "some_work" /\ asleep' = TRUE /\ change_flag' = flag /\ deadline' = deadline
      BY <2>1, <2>2 DEF restart
    <3> QED
      BY <3>1, <2>1
  <2>3. CASE s # <<>> /\ ~s[1].fields.work
    <3>1. /\ container' = <<>> /\ wpc' = "exited" /\ asleep' = FALSE /\ change_flag' = flag
          /\ deadline' = deadline
      BY <2>1, <2>3 DEF restart, clear
    <3>2. <<>> \in Seq(Records) /\ is_heap(<<>>) /\ NoDuplicates(<<>>) /\ ToSet(<<>>) = {}
      BY DEF is_heap, NoDuplicates, ToSet
    <3> QED
      BY <3>1, <3>2, <2>1, <2>3, <1>0
  <2>4. CASE s # <<>> /\ s[1].fields.work
    <3>1. /\ container' = s /\ wpc' = "time_point" /\ asleep' = TRUE /\ change_flag' = FALSE
          /\ deadline' = s[1].fields.time_point
      BY <2>1, <2>4 DEF restart
    <3>2. now < s[1].fields.time_point
      BY <1>0, <1>2, <2>4 DEF is_due
    <3>3. \A r \in ToSet(s) : now < r.fields.time_point
      BY <3>2, <2>4, <1>0
    <3>4. deadline' \in Nat
      BY <3>1, <2>4, <1>0
    <3> QED
      BY <3>1, <3>3, <3>4, <2>1
  <2> QED
    BY <2>2, <2>3, <2>4
<1> QED
  BY <1>1, <1>2

\* Whatever it goes on with, if no forwarding work is lost on the way there.
LEMMA GoesOn ==
  ASSUME TestInv, NEW s \in Seq(Records), is_heap(s), NoDuplicates(s), NEW flag \in BOOLEAN,
         continue_with(s, flag),
         UNCHANGED <<stopped, ids, posted, now, clientvars, fpc, target>>,
         ~stopped => \A r \in ToSet(s) : r.fields.work,
         stopped => ForwardingIn(ToSet(s)) = {},
         \A r \in ForwardingIn(ToSet(s)) : r.fields.time_point # EMPTY_TIME_POINT,
         Tokens(ForwardingIn(ToSet(s)), completed', fpc)
  PROVE  TestInv'
<1>0. WorkerTypes /\ CallTypes /\ StoppedAtEnd
  BY DEF TestInv
<1>1. deadline \in Nat /\ now \in Nat /\ ToSet(s) \subseteq Records
  BY <1>0, AllRecords DEF WorkerTypes, CallTypes
<1>2. /\ container' \in Seq(Records) /\ is_heap(container') /\ NoDuplicates(container')
      /\ item' \subseteq ToSet(s) /\ ToSet(container') \subseteq ToSet(s)
      /\ \A r, q \in item' : r = q
      /\ change_flag' \in BOOLEAN /\ asleep' \in BOOLEAN /\ deadline' \in Nat
      /\ (\A r \in ToSet(s) : r.fields.work) => ToSet(container') \cup item' = ToSet(s)
      /\ wpc' \in {"some_work", "time_point", "exited", "run"} /\ (wpc' # "run" => item' = {})
      /\ wpc' = "run" =>
           \A r \in item' : /\ r \notin ToSet(container')
                            /\ \A q \in ToSet(container') : r.fields.time_point <= q.fields.time_point
      /\ wpc' = "time_point" => \A r \in ToSet(container') : now < r.fields.time_point
  BY <1>1, WentOnWith
<1>3. stopped' = stopped /\ fpc' = fpc /\ target' = target /\ now' = now
  OBVIOUS
<1>4. WorkerTypes'
  BY <1>0, <1>1, <1>2, <1>3 DEF WorkerTypes
<1>5. CallTypes' /\ StoppedAtEnd'
  BY <1>0 DEF CallTypes, StoppedAtEnd, ids, clientvars
<1>6. OnlyWorks'
  BY <1>2, <1>3 DEF OnlyWorks
<1>7. ItemInHands' /\ RunsFirst' /\ SleepsTillDue'
  BY <1>2, <1>3 DEF ItemInHands, RunsFirst, SleepsTillDue
<1>8. ForwardingIn(ToSet(container') \cup item') = ForwardingIn(ToSet(s))
  <2>1. CASE stopped
    BY <2>1, <1>2 DEF ForwardingIn
  <2>2. CASE ~stopped
    BY <2>2, <1>2
  <2> QED
    BY <1>0, <2>1, <2>2 DEF WorkerTypes
<1>9. ForwardingTimed' /\ TokenInv'
  BY <1>3, <1>8 DEF ForwardingTimed, TokenInv
<1> QED
  BY <1>4, <1>5, <1>6, <1>7, <1>9 DEF TestInv

\* The forwarding work is the only one while it is executed, and a call waits for it.
LEMMA OneForwarding ==
  ASSUME TestInv, wpc = "run", NEW rec \in item, is_forwarding(rec)
  PROVE  /\ item = {rec} /\ ForwardingIn(ToSet(container)) = {}
         /\ fpc = "wait" /\ completed = 0 /\ ~stopped
         /\ rec.fields.time_point # EMPTY_TIME_POINT /\ rec \in Records /\ rec.fields.work
<1>1. rec \in ForwardingIn(ToSet(container) \cup item)
  BY DEF ForwardingIn
<1>2. fpc = "wait" /\ completed = 0 /\ \E r : ForwardingIn(ToSet(container) \cup item) = {r}
  BY <1>1 DEF TestInv, TokenInv, Tokens
<1>3. ForwardingIn(ToSet(container) \cup item) = {rec}
  BY <1>1, <1>2
<1>4. rec \notin ToSet(container)
  BY DEF TestInv, RunsFirst
<1>5. ForwardingIn(ToSet(container)) = {}
  BY <1>3, <1>4 DEF ForwardingIn
<1>6. item = {rec} /\ rec \in Records
  BY DEF TestInv, WorkerTypes
<1>7. ~stopped
  BY <1>2 DEF TestInv, StoppedAtEnd
<1>8. rec.fields.work /\ rec.fields.time_point # EMPTY_TIME_POINT
  BY <1>1, <1>7 DEF TestInv, OnlyWorks, ForwardingTimed
<1> QED
  BY <1>2, <1>5, <1>6, <1>7, <1>8

\* Nothing else is done with the records while stopped.
LEMMA NoneForwarding ==
  ASSUME TestInv, stopped
  PROVE  ForwardingIn(ToSet(container) \cup item) = {} /\ completed = 0
  BY DEF TestInv, StoppedAtEnd, TokenInv, Tokens

LEMMA WakeUpKeeps == TestInv /\ WakeUp => TestInv'
<1> SUFFICES ASSUME TestInv, WakeUp PROVE TestInv'
  OBVIOUS
<1>0. /\ WorkerTypes /\ CallTypes /\ OnlyWorks /\ StoppedAtEnd /\ ItemInHands /\ RunsFirst
      /\ ForwardingTimed /\ TokenInv /\ SleepsTillDue
  BY DEF TestInv
<1>1. /\ UNCHANGED <<stopped, ids, posted, now, clientvars, fpc, target, completed>>
      /\ wpc \in {"some_work", "time_point"}
  BY DEF WakeUp, forwardvars
<1>2. item = {} /\ ToSet(container) \cup item = ToSet(container)
  BY <1>0, <1>1 DEF ItemInHands
<1>3. ASSUME NEW flag \in BOOLEAN, continue_with(container, flag) PROVE TestInv'
  <2>1. container \in Seq(Records) /\ is_heap(container) /\ NoDuplicates(container)
    BY <1>0 DEF WorkerTypes
  <2>2. ~stopped => \A r \in ToSet(container) : r.fields.work
    BY <1>0 DEF OnlyWorks
  <2>3. stopped => ForwardingIn(ToSet(container)) = {}
    BY <1>2, NoneForwarding
  <2>4. \A r \in ForwardingIn(ToSet(container)) : r.fields.time_point # EMPTY_TIME_POINT
    BY <1>0, <1>2 DEF ForwardingTimed
  <2>5. Tokens(ForwardingIn(ToSet(container)), completed', fpc)
    BY <1>0, <1>1, <1>2 DEF TokenInv
  <2> QED
    BY <1>1, <1>3, <2>1, <2>2, <2>3, <2>4, <2>5, GoesOn
<1>4. CASE \/ wpc = "some_work" /\ continue_with(container, change_flag)
           \/ wpc = "time_point" /\ change_flag /\ continue_with(container, FALSE)
  <2>1. change_flag \in BOOLEAN
    BY <1>0 DEF WorkerTypes
  <2> QED
    BY <1>3, <1>4, <2>1
<1>5. CASE /\ wpc = "time_point" /\ ~change_flag /\ asleep' = TRUE
           /\ UNCHANGED <<container, change_flag, wpc, deadline, item>>
  <2>1. WorkerTypes' /\ CallTypes' /\ StoppedAtEnd'
    BY <1>0, <1>1, <1>5 DEF WorkerTypes, CallTypes, StoppedAtEnd, ids, clientvars
  <2>2. OnlyWorks' /\ ItemInHands' /\ RunsFirst' /\ SleepsTillDue'
    BY <1>0, <1>1, <1>5 DEF OnlyWorks, ItemInHands, RunsFirst, SleepsTillDue
  <2>3. ForwardingTimed' /\ TokenInv'
    BY <1>0, <1>1, <1>5 DEF ForwardingTimed, TokenInv
  <2> QED
    BY <2>1, <2>2, <2>3 DEF TestInv
<1> QED
  BY <1>4, <1>5 DEF WakeUp

LEMMA ForwardingKeeps ==
  ASSUME TestInv, wpc = "run", NEW rec \in item, is_forwarding(rec), execute_forwarding(rec),
         UNCHANGED <<stopped, ids, posted, now, clientvars, fpc, target>>
  PROVE  TestInv'
<1>0. /\ ForwardingIn(ToSet(container)) = {} /\ fpc = "wait" /\ completed = 0 /\ ~stopped
      /\ rec \in Records /\ rec.fields.work
      /\ container \in Seq(Records) /\ is_heap(container) /\ NoDuplicates(container)
      /\ change_flag \in BOOLEAN /\ now \in Nat /\ now # EMPTY_TIME_POINT
      /\ \A r \in ToSet(container) : r.fields.work
  BY OneForwarding DEF TestInv, WorkerTypes, CallTypes, OnlyWorks, EMPTY_TIME_POINT
<1>1. CASE works_due
  <2>1. PICK again : again = [rec EXCEPT !.fields.time_point = now]
    OBVIOUS
  <2>2. PICK s \in pushed(container, {again}) : continue_with(s, change_flag)
    BY <1>1, <2>1 DEF execute_forwarding, put_off
  <2>3. /\ again \in Records /\ again.fields.work /\ again.fields.time_point = now
        /\ again.fields.client_id = rec.fields.client_id
    BY <1>0, <2>1 DEF Records, Fields
  <2>4. IsFiniteSet({again}) /\ {again} \in SUBSET Records
    BY <2>3, FS_Singleton
  <2>5. /\ s \in Seq(Records) /\ is_heap(s) /\ NoDuplicates(s)
        /\ ToSet(s) = ToSet(container) \cup {again}
    BY <1>0, <2>2, <2>4, RecordPushed
  <2>6. ForwardingIn(ToSet(s)) = {again}
    BY <1>0, <2>3, <2>5 DEF ForwardingIn, is_forwarding
  <2>7. completed' = completed
    BY <1>1 DEF execute_forwarding
  <2>8. Tokens(ForwardingIn(ToSet(s)), completed', fpc)
    BY <1>0, <2>6, <2>7 DEF Tokens
  <2>9. /\ \A r \in ToSet(s) : r.fields.work
        /\ \A r \in ForwardingIn(ToSet(s)) : r.fields.time_point # EMPTY_TIME_POINT
    BY <1>0, <2>3, <2>5, <2>6
  <2> QED
    BY <1>0, <2>2, <2>5, <2>8, <2>9, GoesOn
<1>2. CASE ~works_due
  <2>1. continue_with(container, change_flag) /\ completed' = 1
    BY <1>0, <1>2 DEF execute_forwarding
  <2>2. Tokens(ForwardingIn(ToSet(container)), completed', fpc)
    BY <1>0, <2>1 DEF Tokens
  <2> QED
    BY <1>0, <2>1, <2>2, GoesOn
<1> QED
  BY <1>1, <1>2

LEMMA OtherKeeps ==
  ASSUME TestInv, wpc = "run", NEW rec \in item, ~is_forwarding(rec), execute_other(rec),
         UNCHANGED <<stopped, ids, posted, now, clientvars, fpc, target>>
  PROVE  TestInv'
<1>0. /\ WorkerTypes /\ CallTypes /\ OnlyWorks /\ StoppedAtEnd /\ ItemInHands /\ RunsFirst
      /\ ForwardingTimed /\ TokenInv /\ SleepsTillDue
  BY DEF TestInv
<1>1. /\ UNCHANGED <<container, change_flag, asleep, deadline, completed>> /\ wpc' = "sync"
  BY DEF execute_other
<1>2. /\ rec \in Records /\ rec.fields.time_point \in Nat /\ rec.fields.period \in Nat
      /\ item = {rec}
  BY <1>0, PeriodsAssumption DEF WorkerTypes, Records, Fields
<1>3. \A r \in item' : /\ r \in Records /\ r.fields.client_id = rec.fields.client_id
                       /\ r.fields.work = rec.fields.work
  <2>1. PICK t \in rescheduled_time_points(rec) :
          item' = IF t = EMPTY_TIME_POINT THEN {} ELSE {[rec EXCEPT !.fields.time_point = t]}
    BY DEF execute_other
  <2>2. t \in Nat
    BY <1>2, <2>1 DEF rescheduled_time_points, EMPTY_TIME_POINT
  <2> QED
    BY <1>2, <2>1, <2>2 DEF Records, Fields
<1>4. \A r, q \in item' : r = q
  BY DEF execute_other
<1>5. ForwardingIn(item') = {} /\ ForwardingIn(item) = {}
  BY <1>2, <1>3 DEF ForwardingIn, is_forwarding
<1>6. ForwardingIn(ToSet(container') \cup item') = ForwardingIn(ToSet(container) \cup item)
  <2>1. ForwardingIn(ToSet(container) \cup item') = ForwardingIn(ToSet(container) \cup item)
    BY <1>5 DEF ForwardingIn
  <2> QED
    BY <1>1, <2>1
<1>7. WorkerTypes' /\ CallTypes' /\ StoppedAtEnd'
  BY <1>0, <1>1, <1>3, <1>4 DEF WorkerTypes, CallTypes, StoppedAtEnd, ids, clientvars
<1>8. OnlyWorks' /\ ItemInHands' /\ RunsFirst' /\ SleepsTillDue'
  BY <1>0, <1>1, <1>2, <1>3, <1>5 DEF OnlyWorks, ItemInHands, RunsFirst, SleepsTillDue
<1>9. ForwardingTimed' /\ TokenInv'
  BY <1>0, <1>1, <1>6 DEF ForwardingTimed, TokenInv
<1> QED
  BY <1>7, <1>8, <1>9 DEF TestInv

LEMMA ExecuteKeeps == TestInv /\ Execute => TestInv'
<1> SUFFICES ASSUME TestInv, Execute PROVE TestInv'
  OBVIOUS
<1>1. /\ wpc = "run" /\ UNCHANGED <<stopped, ids, posted, now, clientvars, fpc, target>>
      /\ \E rec \in item : IF is_forwarding(rec) THEN execute_forwarding(rec) ELSE execute_other(rec)
  BY DEF Execute
<1> QED
  BY <1>1, ForwardingKeeps, OtherKeeps

LEMMA SyncReturnsKeeps == TestInv /\ SyncReturns => TestInv'
<1> SUFFICES ASSUME TestInv, SyncReturns PROVE TestInv'
  OBVIOUS
<1>1. /\ wpc = "sync"
      /\ UNCHANGED <<stopped, ids, posted, now, clientvars, fpc, target, completed>>
  BY DEF SyncReturns, forwardvars
<1>2. PICK s \in pushed(container, item) : continue_with(s, change_flag)
  BY DEF SyncReturns
<1>3. /\ container \in Seq(Records) /\ item \in SUBSET Records /\ change_flag \in BOOLEAN
      /\ \A r, q \in item : r = q
  BY DEF TestInv, WorkerTypes
<1>4. IsFiniteSet(item)
  <2>1. CASE item = {}
    BY <2>1, FS_EmptySet
  <2>2. ASSUME NEW r \in item PROVE IsFiniteSet(item)
    <3>1. item = {r}
      BY <1>3
    <3> QED
      BY <3>1, FS_Singleton
  <2> QED
    BY <2>1, <2>2
<1>5. /\ s \in Seq(Records) /\ is_heap(s) /\ NoDuplicates(s)
      /\ ToSet(s) = ToSet(container) \cup item
  BY <1>2, <1>3, <1>4, RecordPushed
<1>6. stopped => ForwardingIn(ToSet(s)) = {}
  BY <1>5, NoneForwarding
<1>7. /\ ~stopped => \A r \in ToSet(s) : r.fields.work
      /\ \A r \in ForwardingIn(ToSet(s)) : r.fields.time_point # EMPTY_TIME_POINT
  BY <1>5 DEF TestInv, OnlyWorks, ForwardingTimed
<1>8. Tokens(ForwardingIn(ToSet(s)), completed', fpc)
  BY <1>1, <1>5 DEF TestInv, TokenInv
<1> QED
  BY <1>1, <1>2, <1>3, <1>5, <1>6, <1>7, <1>8, GoesOn
-----------------------------------------------------------------------------
(* The clients and the thread that forwards the time. *)

\* A change of the container wakes the worker.
LEMMA ChangeKeeps ==
  ASSUME TestInv, unlocked, NEW S \in SUBSET Records, IsFiniteSet(S),
         make_heap_and_notify_worker(S), UNCHANGED <<wpc, deadline, item>>,
         stopped' \in BOOLEAN, ~stopped' => ~stopped /\ \A r \in S : r.fields.work,
         CallTypes', StoppedAtEnd',
         \A r \in ForwardingIn(S) : r.fields.time_point # EMPTY_TIME_POINT,
         Tokens(ForwardingIn(S \cup item), completed', fpc')
  PROVE  TestInv'
<1>0. /\ WorkerTypes /\ OnlyWorks /\ ItemInHands /\ ForwardingTimed
  BY DEF TestInv
<1>1. /\ container' \in Seq(Records) /\ is_heap(container') /\ NoDuplicates(container')
      /\ ToSet(container') = S /\ change_flag' = TRUE /\ asleep' = FALSE
  BY Changed, Rewritten
<1>2. WorkerTypes'
  BY <1>0, <1>1 DEF WorkerTypes
<1>3. OnlyWorks' /\ ItemInHands' /\ RunsFirst' /\ SleepsTillDue'
  BY <1>0, <1>1 DEF OnlyWorks, ItemInHands, RunsFirst, SleepsTillDue, unlocked
<1>4. ForwardingTimed' /\ TokenInv'
  BY <1>0, <1>1 DEF ForwardingTimed, TokenInv, ForwardingIn
<1> QED
  BY <1>2, <1>3, <1>4 DEF TestInv

\* A step that leaves the worker, its records, the clock and the forwarding alone.
LEMMA CallKeeps ==
  ASSUME TestInv, CallTypes',
         UNCHANGED <<container, change_flag, stopped, loopvars, now, fpc, completed>>
  PROVE  TestInv'
<1>1. WorkerTypes' /\ OnlyWorks' /\ StoppedAtEnd' /\ ItemInHands' /\ RunsFirst' /\ SleepsTillDue'
  BY DEF TestInv, WorkerTypes, OnlyWorks, StoppedAtEnd, ItemInHands, RunsFirst, SleepsTillDue, loopvars
<1>2. ForwardingTimed' /\ TokenInv'
  BY DEF TestInv, ForwardingTimed, TokenInv, loopvars
<1> QED
  BY <1>1, <1>2 DEF TestInv

\* A client changes works of its own only.
LEMMA WorksChanged ==
  ASSUME TestInv, unlocked, ~stopped, NEW S \in SUBSET Records, IsFiniteSet(S),
         make_heap_and_notify_worker(S), \A r \in S : r.fields.work,
         ForwardingIn(S) = ForwardingIn(ToSet(container)),
         UNCHANGED <<stopped, wpc, deadline, item, now, fpc, completed>>, CallTypes'
  PROVE  TestInv'
<1>0. WorkerTypes /\ StoppedAtEnd /\ ForwardingTimed /\ TokenInv
  BY DEF TestInv
<1>1. ForwardingIn(S \cup item) = ForwardingIn(ToSet(container) \cup item)
  BY DEF ForwardingIn
<1>2. Tokens(ForwardingIn(S \cup item), completed', fpc')
  BY <1>0, <1>1 DEF TokenInv
<1>3. \A r \in ForwardingIn(S) : r.fields.time_point # EMPTY_TIME_POINT
  BY <1>0 DEF ForwardingTimed, ForwardingIn
<1>4. stopped' \in BOOLEAN /\ (~stopped' => ~stopped /\ \A r \in S : r.fields.work) /\ StoppedAtEnd'
  BY <1>0 DEF WorkerTypes, StoppedAtEnd
<1> QED
  BY <1>2, <1>3, <1>4, ChangeKeeps

LEMMA InTheTestContainer ==
  ASSUME TestInv
  PROVE  /\ IsFiniteSet(ToSet(container)) /\ ToSet(container) \in SUBSET Records
         /\ ~stopped => \A r \in ToSet(container) : r.fields.work
<1>1. container \in Seq(Records) /\ OnlyWorks
  BY DEF TestInv, WorkerTypes
<1> QED
  BY <1>1, RecordsOf DEF OnlyWorks

\* A record that is posted, and the records S that are left.
LEMMA RecordPosted ==
  ASSUME TestInv, NEW S \in SUBSET ToSet(container), NEW f \in Fields, post_work(S, f)
  PROVE  \E u \in Records :
           /\ u.fields = f /\ make_heap_and_notify_worker(S \cup {u})
           /\ IsFiniteSet(S \cup {u}) /\ S \cup {u} \in SUBSET Records
           /\ next_work_id' \in 0 .. IdModulus - 1 /\ posted' \in Nat
<1>0. next_work_id \in 0 .. IdModulus - 1 /\ posted \in Nat
  BY DEF TestInv, CallTypes
<1>1. next_work_id' \in 0 .. IdModulus - 2 /\ posted' \in Nat
  BY <1>0, NextId DEF post_work
<1>2. PICK u : u = record(f, next_work_id', posted')
  OBVIOUS
<1>3. u \in Records /\ u.fields = f
  BY <1>1, <1>2 DEF record, Records
<1>4. IsFiniteSet(S \cup {u}) /\ S \cup {u} \in SUBSET Records
  BY <1>3, InTheTestContainer, FS_Subset, FS_AddElement
<1>5. make_heap_and_notify_worker(S \cup {u})
  BY <1>2 DEF post_work
<1>6. next_work_id' \in 0 .. IdModulus - 1
  BY <1>1, IdModulusAssumption
<1> QED
  BY <1>1, <1>3, <1>4, <1>5, <1>6

LEMMA SchedulePostKeeps ==
  ASSUME TestInv, NEW c \in Clients, owner[c] # FORWARDING_CLIENT, SchedulePost(c),
         UNCHANGED forwardvars
  PROVE  TestInv'
<1>0. CallTypes
  BY DEF TestInv
<1>1. /\ UNCHANGED <<now, owner, calls, fpc, target, completed>>
      /\ stime' = [stime EXCEPT ![c] = EMPTY_TIME_POINT]
  BY DEF SchedulePost, forwardvars
<1>2. stime' \in [Clients -> Nat]
  BY <1>0, <1>1 DEF CallTypes, EMPTY_TIME_POINT
<1>3. CASE UNCHANGED wqvars
  <2>1. UNCHANGED <<container, change_flag, stopped, next_work_id, posted, loopvars>>
    BY <1>3 DEF wqvars, ids
  <2>2. CallTypes'
    BY <1>0, <1>1, <1>2, <2>1 DEF CallTypes
  <2> QED
    BY <1>1, <2>1, <2>2, CallKeeps
<1>4. ASSUME NEW p \in Periods, schedule_work(owner[c], stime[c], p) PROVE TestInv'
  <2>1. PICK f : f = wq_item(TRUE, stime[c], owner[c], p)
    OBVIOUS
  <2>2. f \in Fields /\ f.work /\ f.client_id # FORWARDING_CLIENT
    BY <1>0, <2>1 DEF wq_item, Fields, CallTypes
  <2>3. /\ unlocked /\ ~stopped /\ UNCHANGED <<stopped, wpc, deadline, item>>
        /\ post_work(ToSet(container), f)
    BY <1>4, <2>1 DEF schedule_work
  <2>4. PICK u \in Records :
          /\ u.fields = f /\ make_heap_and_notify_worker(ToSet(container) \cup {u})
          /\ IsFiniteSet(ToSet(container) \cup {u}) /\ ToSet(container) \cup {u} \in SUBSET Records
          /\ next_work_id' \in 0 .. IdModulus - 1 /\ posted' \in Nat
    BY <2>2, <2>3, RecordPosted
  <2>5. CallTypes'
    BY <1>0, <1>1, <1>2, <2>4 DEF CallTypes
  <2>6. ForwardingIn(ToSet(container) \cup {u}) = ForwardingIn(ToSet(container))
    BY <2>2, <2>4 DEF ForwardingIn, is_forwarding
  <2>7. \A r \in ToSet(container) \cup {u} : r.fields.work
    BY <2>2, <2>3, <2>4, InTheTestContainer
  <2> QED
    BY <1>1, <2>3, <2>4, <2>5, <2>6, <2>7, WorksChanged
<1> QED
  BY <1>3, <1>4 DEF SchedulePost

\* What a client may not do to the forwarding work.
OwnWorksOnly(c) == \A r \in ToSet(container) : r \in ToSet(container') \/ r.fields.client_id = owner[c]

LEMMA UpdateWorkKeeps ==
  ASSUME TestInv, NEW c \in Clients, owner[c] # FORWARDING_CLIENT, UpdateWork(c), OwnWorksOnly(c),
         UNCHANGED forwardvars
  PROVE  TestInv'
<1>0. CallTypes
  BY DEF TestInv
<1>1. PICK wid, t, p : /\ wid \in 0 .. IdModulus - 2 /\ t \in Times \cup {EMPTY_TIME_POINT}
                       /\ p \in Periods /\ update_work(wid, owner[c], t, p)
  BY DEF UpdateWork
<1>2. PICK f : f = wq_item(TRUE, t, owner[c], p)
  OBVIOUS
<1>3. f \in Fields /\ f.work /\ f.client_id = owner[c]
  BY <1>0, <1>1, <1>2, MaxTimeAssumption DEF wq_item, Fields, CallTypes, Times, EMPTY_TIME_POINT
<1>4. PICK r \in found(wid) :
        make_heap_and_notify_worker((ToSet(container) \ {r}) \cup {record(f, wid, r.call)})
  BY <1>1, <1>2 DEF update_work
<1>5. r \in ToSet(container) /\ r \in Records
  BY <1>4, InTheTestContainer DEF found
<1>6. PICK u : u = record(f, wid, r.call)
  OBVIOUS
<1>7. u \in Records /\ u.fields = f
  BY <1>1, <1>3, <1>5, <1>6 DEF record, Records
<1>8. PICK S : S = (ToSet(container) \ {r}) \cup {u}
  OBVIOUS
<1>9. /\ IsFiniteSet(S) /\ S \in SUBSET Records /\ make_heap_and_notify_worker(S)
  <2>1. IsFiniteSet(ToSet(container) \ {r}) /\ ToSet(container) \ {r} \in SUBSET Records
    BY InTheTestContainer, FS_RemoveElement
  <2>2. IsFiniteSet(S) /\ S \in SUBSET Records
    BY <2>1, <1>7, <1>8, FS_AddElement
  <2> QED
    BY <2>2, <1>4, <1>6, <1>8
<1>10. /\ unlocked /\ ~stopped
       /\ UNCHANGED <<stopped, ids, posted, wpc, deadline, item, now, stime, owner, fpc, completed, target>>
  BY <1>1 DEF update_work, UpdateWork, forwardvars
<1>11. \A x \in S : x.fields.work
  BY <1>3, <1>7, <1>8, <1>10, InTheTestContainer
<1>12. ForwardingIn(S) = ForwardingIn(ToSet(container))
  <2>1. ToSet(container') = S
    BY <1>9, Rewritten
  <2>2. ~is_forwarding(u) /\ \A x \in ToSet(container) : is_forwarding(x) => x \in S
    BY <1>3, <1>7, <2>1 DEF OwnWorksOnly, is_forwarding
  <2> QED
    BY <1>8, <2>2 DEF ForwardingIn
<1>13. CallTypes'
  BY <1>0, <1>10 DEF CallTypes, ids
<1> QED
  BY <1>9, <1>10, <1>11, <1>12, <1>13, WorksChanged

LEMMA CancelKeeps ==
  ASSUME TestInv, NEW c \in Clients, owner[c] # FORWARDING_CLIENT, UNCHANGED forwardvars,
         (CancelWork(c) /\ OwnWorksOnly(c)) \/ CancelClientWorks(c)
  PROVE  TestInv'
<1>0. CallTypes
  BY DEF TestInv
<1>1. PICK C : make_heap_and_notify_worker(ToSet(container) \ C)
               /\ (OwnWorksOnly(c) \/ \A r \in C : r.fields.client_id = owner[c])
  <2>1. CASE CancelWork(c) /\ OwnWorksOnly(c)
    BY <2>1 DEF CancelWork, cancel_work
  <2>2. CASE CancelClientWorks(c)
    BY <2>2 DEF CancelClientWorks, cancel_client_works
  <2> QED
    BY <2>1, <2>2
<1>2. /\ unlocked /\ ~stopped
      /\ UNCHANGED <<stopped, ids, posted, wpc, deadline, item, now, stime, owner, fpc, completed, target>>
  BY DEF CancelWork, cancel_work, CancelClientWorks, cancel_client_works, clientvars, forwardvars
<1>3. PICK S : S = ToSet(container) \ C
  OBVIOUS
<1>4. IsFiniteSet(S) /\ S \in SUBSET Records /\ make_heap_and_notify_worker(S)
  BY <1>1, <1>3, InTheTestContainer, FS_Difference
<1>5. \A x \in S : x.fields.work
  BY <1>2, <1>3, InTheTestContainer
<1>6. ForwardingIn(S) = ForwardingIn(ToSet(container))
  <2>1. ToSet(container') = S
    BY <1>4, Rewritten
  <2>2. \A x \in ToSet(container) : is_forwarding(x) => x \in S
    BY <1>1, <1>3, <2>1 DEF OwnWorksOnly, is_forwarding
  <2> QED
    BY <1>3, <2>2 DEF ForwardingIn
<1>7. CallTypes'
  BY <1>0, <1>2 DEF CallTypes, ids
<1> QED
  BY <1>2, <1>4, <1>5, <1>6, <1>7, WorksChanged

LEMMA TestClientKeeps ==
  ASSUME TestInv, NEW c \in Clients, owner[c] # FORWARDING_CLIENT, TestClient(c),
         next_client_id \in 0 .. IdModulus - 1
  PROVE  TestInv'
<1>0. CallTypes /\ UNCHANGED forwardvars
  BY DEF TestInv, TestClient
<1>1. CASE GetClientId(c)
  <2>1. /\ UNCHANGED <<container, change_flag, stopped, next_work_id, posted, loopvars, now, stime>>
        /\ next_client_id' = next_id(next_client_id)
        /\ owner' = [owner EXCEPT ![c] = next_client_id']
    BY <1>1 DEF GetClientId, get_client_id
  <2>2. next_client_id' \in 0 .. IdModulus - 1
    BY <2>1, NextId, IdModulusAssumption
  <2>3. CallTypes'
    BY <1>0, <2>1, <2>2 DEF CallTypes, forwardvars
  <2> QED
    BY <1>0, <2>1, <2>3, CallKeeps DEF forwardvars
<1>2. CASE ScheduleBegin(c)
  <2>1. /\ UNCHANGED <<container, change_flag, stopped, next_work_id, posted, loopvars, now, owner>>
        /\ \E t \in Times \cup {EMPTY_TIME_POINT} :
             stime' = [stime EXCEPT ![c] = IF t = EMPTY_TIME_POINT THEN now ELSE t]
    BY <1>2 DEF ScheduleBegin, wqvars, ids
  <2>2. stime' \in [Clients -> Nat]
    BY <1>0, <2>1 DEF CallTypes, Times
  <2>3. CallTypes'
    BY <1>0, <2>1, <2>2 DEF CallTypes, forwardvars
  <2> QED
    BY <1>0, <2>1, <2>3, CallKeeps DEF forwardvars
<1>3. CASE SchedulePost(c)
  BY <1>0, <1>3, SchedulePostKeeps
<1>4. CASE UpdateWork(c) /\ OwnWorksOnly(c)
  BY <1>0, <1>4, UpdateWorkKeeps
<1>5. CASE (CancelWork(c) /\ OwnWorksOnly(c)) \/ CancelClientWorks(c)
  BY <1>0, <1>5, CancelKeeps
<1> QED
  BY <1>1, <1>2, <1>3, <1>4, <1>5 DEF TestClient, OwnWorksOnly

LEMMA ForwardBeginKeeps == TestInv /\ ForwardBegin => TestInv'
<1> SUFFICES ASSUME TestInv, ForwardBegin PROVE TestInv'
  OBVIOUS
<1>0. /\ WorkerTypes /\ CallTypes /\ OnlyWorks /\ StoppedAtEnd /\ ItemInHands /\ RunsFirst
      /\ ForwardingTimed /\ TokenInv /\ SleepsTillDue
  BY DEF TestInv
<1>1. /\ fpc = "out" /\ fpc' = "forward" /\ UNCHANGED <<vars, completed>>
      /\ \/ target' \in Times
         \/ target' = IF nearest = EMPTY_TIME_POINT THEN now ELSE nearest
  BY DEF ForwardBegin
<1>2. UNCHANGED <<container, change_flag, stopped, ids, posted, wpc, asleep, deadline, item, now, stime, owner>>
  BY <1>1 DEF vars, wqvars, loopvars, clientvars
<1>3. nearest \in Nat
  <2>1. CASE container = <<>>
    BY <2>1 DEF nearest, is_container_empty, EMPTY_TIME_POINT
  <2>2. CASE container # <<>>
    <3>1. container[1] \in Records
      BY <1>0, <2>2, AllRecords DEF WorkerTypes
    <3> QED
      BY <2>2, <3>1 DEF nearest, is_container_empty, Records, Fields
  <2> QED
    BY <2>1, <2>2
<1>4. target' \in Nat \ {0}
  BY <1>0, <1>1, <1>3, MaxTimeAssumption DEF CallTypes, Times, EMPTY_TIME_POINT
<1>5. WorkerTypes' /\ CallTypes' /\ StoppedAtEnd'
  BY <1>0, <1>1, <1>2, <1>4 DEF WorkerTypes, CallTypes, StoppedAtEnd, ids
<1>6. OnlyWorks' /\ ItemInHands' /\ RunsFirst' /\ SleepsTillDue'
  BY <1>0, <1>1, <1>2 DEF OnlyWorks, ItemInHands, RunsFirst, SleepsTillDue
<1>7. ForwardingTimed' /\ TokenInv'
  BY <1>0, <1>1, <1>2 DEF ForwardingTimed, TokenInv, Tokens
<1> QED
  BY <1>5, <1>6, <1>7 DEF TestInv

LEMMA ForwardSetKeeps == TestInv /\ ForwardSet => TestInv'
<1> SUFFICES ASSUME TestInv, ForwardSet PROVE TestInv'
  OBVIOUS
<1>0. /\ WorkerTypes /\ CallTypes /\ OnlyWorks /\ StoppedAtEnd /\ ItemInHands /\ RunsFirst
      /\ ForwardingTimed /\ TokenInv /\ SleepsTillDue
  BY DEF TestInv
<1>1. /\ fpc = "forward" /\ now' = target
      /\ UNCHANGED <<container, stopped, ids, posted, wpc, deadline, item, stime, owner, target, completed>>
      /\ \/ fpc' = "post" /\ UNCHANGED <<change_flag, asleep>>
         \/ fpc' = "out" /\ change_flag' = TRUE /\ asleep' = FALSE
  BY DEF ForwardSet, signal_container_change, clientvars
<1>2. now' \in Nat \ {0} /\ target' \in Nat \ {0}
  BY <1>0, <1>1 DEF CallTypes
<1>3. WorkerTypes' /\ CallTypes' /\ StoppedAtEnd'
  BY <1>0, <1>1, <1>2 DEF WorkerTypes, CallTypes, StoppedAtEnd, ids
<1>4. OnlyWorks' /\ ItemInHands' /\ RunsFirst' /\ SleepsTillDue'
  BY <1>0, <1>1 DEF OnlyWorks, ItemInHands, RunsFirst, SleepsTillDue
<1>5. ForwardingTimed' /\ TokenInv'
  BY <1>0, <1>1 DEF ForwardingTimed, TokenInv, Tokens
<1> QED
  BY <1>3, <1>4, <1>5 DEF TestInv

LEMMA ForwardPostKeeps == TestInv /\ ForwardPost => TestInv'
<1> SUFFICES ASSUME TestInv, ForwardPost PROVE TestInv'
  OBVIOUS
<1>0. /\ CallTypes /\ StoppedAtEnd /\ TokenInv /\ WorkerTypes
  BY DEF TestInv
<1>1. PICK f : f = wq_item(TRUE, target, FORWARDING_CLIENT, RUN_ONCE)
  OBVIOUS
<1>2. /\ fpc = "post" /\ fpc' = "wait" /\ post_work(ToSet(container), f) /\ unlocked /\ ~stopped
      /\ UNCHANGED <<stopped, wpc, deadline, item, now, stime, owner, target, completed>>
  BY <1>1 DEF ForwardPost, schedule_work, clientvars
<1>3. target \in Nat \ {0}
  BY <1>0, <1>2 DEF CallTypes
<1>4. /\ f \in Fields /\ f.work /\ f.client_id = FORWARDING_CLIENT
      /\ f.time_point # EMPTY_TIME_POINT
  BY <1>1, <1>3, IdModulusAssumption, PeriodsAssumption
     DEF wq_item, Fields, FORWARDING_CLIENT, EMPTY_TIME_POINT
<1>5. PICK u \in Records :
        /\ u.fields = f /\ make_heap_and_notify_worker(ToSet(container) \cup {u})
        /\ IsFiniteSet(ToSet(container) \cup {u}) /\ ToSet(container) \cup {u} \in SUBSET Records
        /\ next_work_id' \in 0 .. IdModulus - 1 /\ posted' \in Nat
  BY <1>2, <1>4, RecordPosted
<1>6. PICK S : S = ToSet(container) \cup {u}
  OBVIOUS
<1>7. ForwardingIn(ToSet(container) \cup item) = {} /\ completed = 0
  BY <1>0, <1>2 DEF TokenInv, Tokens
<1>8. ForwardingIn(S) = {u} /\ ForwardingIn(S \cup item) = {u}
  BY <1>4, <1>5, <1>6, <1>7 DEF ForwardingIn, is_forwarding
<1>9. Tokens(ForwardingIn(S \cup item), completed', fpc')
  BY <1>2, <1>7, <1>8 DEF Tokens
<1>10. \A r \in ForwardingIn(S) : r.fields.time_point # EMPTY_TIME_POINT
  BY <1>4, <1>5, <1>8
<1>11. CallTypes' /\ StoppedAtEnd'
  BY <1>0, <1>2, <1>5 DEF CallTypes, StoppedAtEnd
<1>12. stopped' \in BOOLEAN /\ (~stopped' => ~stopped /\ \A r \in S : r.fields.work)
  BY <1>0, <1>2, <1>4, <1>5, <1>6, InTheTestContainer DEF WorkerTypes
<1> QED
  BY <1>2, <1>5, <1>6, <1>9, <1>10, <1>11, <1>12, ChangeKeeps

LEMMA DestroyKeeps == TestInv /\ Destroy => TestInv'
<1> SUFFICES ASSUME TestInv, Destroy PROVE TestInv'
  OBVIOUS
<1>0. CallTypes /\ TokenInv
  BY DEF TestInv
<1>1. PICK f : f = wq_item(FALSE, EMPTY_TIME_POINT, INVALID_ID, RUN_ONCE)
  OBVIOUS
<1>2. /\ fpc = "out" /\ fpc' = "join" /\ post_work({}, f) /\ unlocked /\ ~stopped /\ stopped' = TRUE
      /\ UNCHANGED <<wpc, deadline, item, now, stime, owner, target, completed>>
  BY <1>1 DEF Destroy, signal_worker_to_stop, clientvars
<1>3. f \in Fields /\ f.client_id # FORWARDING_CLIENT
  BY <1>1, IdModulusAssumption, PeriodsAssumption
     DEF wq_item, Fields, FORWARDING_CLIENT, EMPTY_TIME_POINT, INVALID_ID
<1>4. PICK u \in Records :
        /\ u.fields = f /\ make_heap_and_notify_worker({} \cup {u})
        /\ IsFiniteSet({} \cup {u}) /\ {} \cup {u} \in SUBSET Records
        /\ next_work_id' \in 0 .. IdModulus - 1 /\ posted' \in Nat
  BY <1>2, <1>3, RecordPosted
<1>5. PICK S : S = {} \cup {u}
  OBVIOUS
<1>6. ForwardingIn(ToSet(container) \cup item) = {} /\ completed = 0
  BY <1>0, <1>2 DEF TokenInv, Tokens
<1>7. ForwardingIn(S) = {} /\ ForwardingIn(S \cup item) = {}
  BY <1>3, <1>4, <1>5, <1>6 DEF ForwardingIn, is_forwarding
<1>8. Tokens(ForwardingIn(S \cup item), completed', fpc')
  BY <1>2, <1>6, <1>7 DEF Tokens
<1>9. CallTypes' /\ StoppedAtEnd' /\ stopped' \in BOOLEAN
  BY <1>0, <1>2, <1>4 DEF CallTypes, StoppedAtEnd
<1> QED
  BY <1>2, <1>4, <1>5, <1>7, <1>8, <1>9, ChangeKeeps

\* The ends of forward_time and of the destructor, and wakeups for no reason.
LEMMA EndKeeps == TestInv /\ (ForwardWait \/ DestroyJoin \/ TestSpurious \/ UNCHANGED testvars) => TestInv'
<1> SUFFICES ASSUME TestInv, ForwardWait \/ DestroyJoin \/ TestSpurious \/ UNCHANGED testvars
             PROVE  TestInv'
  OBVIOUS
<1>0. /\ WorkerTypes /\ CallTypes /\ OnlyWorks /\ StoppedAtEnd /\ ItemInHands /\ RunsFirst
      /\ ForwardingTimed /\ TokenInv /\ SleepsTillDue
  BY DEF TestInv
<1>1. UNCHANGED <<container, change_flag, stopped, ids, posted, deadline, item, now, stime, owner, target>>
  BY DEF ForwardWait, DestroyJoin, TestSpurious, SpuriousWakeup, spurious_wakeup, join_worker,
         vars, testvars, wqvars, loopvars, clientvars, forwardvars
<1>2. /\ wpc' = wpc \/ (wpc = "exited" /\ wpc' = "none")
      /\ asleep' = asleep \/ (asleep' = FALSE /\ wpc' = wpc /\ fpc' = fpc)
      /\ fpc' = fpc \/ (fpc = "wait" /\ fpc' = "out") \/ (fpc = "join" /\ fpc' = "gone")
      /\ \/ completed' = completed /\ (fpc = "wait" <=> fpc' = "wait")
         \/ fpc = "wait" /\ fpc' = "out" /\ completed > 0 /\ completed' = completed - 1
  <2>1. CASE ForwardWait
    BY <2>1 DEF ForwardWait, vars, wqvars, loopvars
  <2>2. CASE DestroyJoin
    BY <2>2 DEF DestroyJoin, join_worker
  <2>3. CASE TestSpurious
    BY <2>3 DEF TestSpurious, SpuriousWakeup, spurious_wakeup, forwardvars
  <2>4. CASE UNCHANGED testvars
    BY <2>4 DEF testvars, forwardvars, vars, wqvars, loopvars
  <2> QED
    BY <2>1, <2>2, <2>3, <2>4
<1>3. WorkerTypes' /\ CallTypes' /\ OnlyWorks' /\ StoppedAtEnd'
  BY <1>0, <1>1, <1>2 DEF WorkerTypes, CallTypes, OnlyWorks, StoppedAtEnd, ids
<1>4. ItemInHands' /\ RunsFirst' /\ ForwardingTimed'
  BY <1>0, <1>1, <1>2 DEF ItemInHands, RunsFirst, ForwardingTimed
<1>5. SleepsTillDue'
  <2>1. asleep' \/ ~change_flag' => asleep \/ ~change_flag
    BY <1>0, <1>1, <1>2 DEF WorkerTypes
  <2> QED
    BY <1>0, <1>1, <1>2, <2>1 DEF SleepsTillDue
<1>6. TokenInv'
  <2>1. PICK F : F = ForwardingIn(ToSet(container) \cup item)
    OBVIOUS
  <2>2. ForwardingIn(ToSet(container) \cup item)' = F
    BY <1>1, <2>1
  <2>3. Tokens(F, completed, fpc)
    BY <1>0, <2>1 DEF TokenInv
  <2>4. Tokens(F, completed', fpc')
    BY <1>2, <2>3 DEF Tokens
  <2> QED
    BY <2>2, <2>4 DEF TokenInv
<1> QED
  BY <1>3, <1>4, <1>5, <1>6 DEF TestInv

LEMMA TestInitInv == TestInit => TestInv
<1> SUFFICES ASSUME TestInit PROVE TestInv
  OBVIOUS
<1>1. /\ container = <<>> /\ item = {} /\ stopped = FALSE /\ change_flag = FALSE /\ asleep = FALSE
      /\ wpc = "some_work" /\ deadline = 0 /\ next_work_id = INVALID_ID /\ posted = 0 /\ now = 1
      /\ stime = [c \in Clients |-> 0] /\ owner = [c \in Clients |-> INVALID_ID]
      /\ fpc = "out" /\ completed = 0
  BY DEF TestInit, EMPTY_TIME_POINT
<1>2. ToSet(container) = {} /\ is_heap(container) /\ NoDuplicates(container) /\ container \in Seq(Records)
  BY <1>1 DEF ToSet, is_heap, NoDuplicates
<1>3. WorkerTypes /\ CallTypes /\ StoppedAtEnd
  <2>1. INVALID_ID \in 0 .. IdModulus - 1
    BY IdModulusAssumption DEF INVALID_ID
  <2>2. CallTypes
    BY <1>1, <2>1 DEF CallTypes
  <2> QED
    BY <1>1, <1>2, <2>2 DEF WorkerTypes, StoppedAtEnd
<1>4. OnlyWorks /\ ItemInHands /\ RunsFirst /\ SleepsTillDue
  BY <1>1, <1>2 DEF OnlyWorks, ItemInHands, RunsFirst, SleepsTillDue
<1>5. ForwardingTimed /\ TokenInv
  BY <1>1, <1>2 DEF ForwardingTimed, TokenInv, Tokens, ForwardingIn
<1> QED
  BY <1>3, <1>4, <1>5 DEF TestInv
-----------------------------------------------------------------------------
\* The clients have the IDs after the one of the forwarding work, as long as the
\* counter has not wrapped around.
TestClientIds ==
  /\ IsFiniteSet(Given) /\ Given \subseteq Clients
  /\ next_client_id = Cardinality(Given) /\ next_client_id \in 0 .. IdModulus - 2
  /\ \A c \in Clients : owner[c] # FORWARDING_CLIENT
  /\ owner \in [Clients -> 0 .. IdModulus - 1]

LEMMA TestClientIdsInit == TestInit => TestClientIds
<1> SUFFICES ASSUME TestInit PROVE TestClientIds
  OBVIOUS
<1>1. owner = [c \in Clients |-> INVALID_ID] /\ next_client_id = 0
  BY DEF TestInit, FORWARDING_CLIENT
<1>2. Given = {}
  BY <1>1 DEF Given
<1> QED
  BY <1>1, <1>2, FS_EmptySet, IdModulusAssumption DEF TestClientIds, INVALID_ID, FORWARDING_CLIENT

LEMMA TestClientIdsKept ==
  ASSUME IsFiniteSet(Clients), Cardinality(Clients) <= IdModulus - 2,
         TestClientIds, [TestNext]_testvars
  PROVE  TestClientIds'
<1>1. CASE UNCHANGED <<owner, next_client_id>>
  BY <1>1 DEF TestClientIds, Given
<1>2. ASSUME NEW c \in Clients, GetClientId(c) PROVE TestClientIds'
  <2>1. /\ owner[c] = INVALID_ID /\ next_client_id' = next_id(next_client_id)
        /\ owner' = [owner EXCEPT ![c] = next_client_id']
    BY <1>2 DEF GetClientId, get_client_id
  <2>2. PICK n : n = Cardinality(Given)
    OBVIOUS
  <2>3. c \notin Given /\ n \in Nat /\ next_client_id = n
    BY <2>1, <2>2, FS_CardinalityType DEF Given, TestClientIds
  <2>4. /\ IsFiniteSet(Given \cup {c}) /\ Cardinality(Given \cup {c}) = n + 1
        /\ Given \cup {c} \subseteq Clients
    BY <2>2, <2>3, FS_AddElement DEF TestClientIds
  <2>5. n + 1 <= IdModulus - 2
    <3>1. Cardinality(Given \cup {c}) <= Cardinality(Clients) /\ Cardinality(Clients) \in Nat
      BY <2>4, FS_Subset, FS_CardinalityType
    <3> QED
      BY <3>1, <2>3, <2>4, IdModulusAssumption
  <2>6. (n + 1) % IdModulus = n + 1
    BY <2>3, <2>5, IdModulusAssumption
  <2>7. next_client_id' = n + 1
    BY <2>1, <2>3, <2>5, <2>6, IdModulusAssumption DEF next_id, INVALID_ID
  <2>8. owner'[c] = n + 1 /\ \A d \in Clients : d # c => owner'[d] = owner[d]
    BY <2>1, <2>7 DEF TestClientIds
  <2>9. Given' = Given \cup {c}
    BY <2>3, <2>5, <2>8, IdModulusAssumption DEF Given, INVALID_ID
  <2>10. owner' \in [Clients -> 0 .. IdModulus - 1]
    BY <2>1, <2>3, <2>5, <2>7, IdModulusAssumption DEF TestClientIds
  <2>11. \A d \in Clients : owner'[d] # FORWARDING_CLIENT
    BY <2>3, <2>8 DEF TestClientIds, FORWARDING_CLIENT
  <2>12. next_client_id' = Cardinality(Given') /\ next_client_id' \in 0 .. IdModulus - 2
    BY <2>3, <2>4, <2>5, <2>7, <2>9, IdModulusAssumption
  <2> QED
    BY <2>4, <2>9, <2>10, <2>11, <2>12 DEF TestClientIds
<1>3. ASSUME NEW c \in Clients, TestClient(c), ~GetClientId(c) PROVE UNCHANGED <<owner, next_client_id>>
  BY <1>3 DEF TestClient, ScheduleBegin, SchedulePost, schedule_work, UpdateWork, update_work, CancelWork,
     cancel_work, CancelClientWorks, cancel_client_works, clientvars, wqvars, ids
<1>4. CASE TestWorker \/ TestSpurious \/ UNCHANGED testvars
  BY <1>1, <1>4 DEF TestWorker, WakeUp, Execute, SyncReturns, TestSpurious, SpuriousWakeup,
     spurious_wakeup, testvars, vars, wqvars, clientvars, ids
<1>5. CASE ForwardBegin \/ Forwarding \/ Destroy
  BY <1>1, <1>5 DEF ForwardBegin, Forwarding, ForwardSet, ForwardPost, schedule_work, ForwardWait,
     DestroyJoin, join_worker, Destroy, signal_worker_to_stop, vars, wqvars, clientvars, ids
<1> QED
  BY <1>1, <1>2, <1>3, <1>4, <1>5 DEF TestNext

LEMMA TestStep ==
  ASSUME TestInv, TestClientIds, [TestNext]_testvars
  PROVE  TestInv'
<1>1. CASE TestWorker
  BY <1>1, WakeUpKeeps, ExecuteKeeps, SyncReturnsKeeps DEF TestWorker
<1>2. CASE ForwardBegin \/ Forwarding \/ Destroy \/ TestSpurious \/ UNCHANGED testvars
  BY <1>2, ForwardBeginKeeps, ForwardSetKeeps, ForwardPostKeeps, DestroyKeeps, EndKeeps DEF Forwarding
<1>3. ASSUME NEW c \in Clients, TestClient(c) PROVE TestInv'
  <2>1. next_client_id \in 0 .. IdModulus - 1 /\ owner[c] # FORWARDING_CLIENT
    BY IdModulusAssumption DEF TestClientIds
  <2> QED
    BY <1>3, <2>1, TestClientKeeps
<1> QED
  BY <1>1, <1>2, <1>3 DEF TestNext

LEMMA TestInvariant ==
  ASSUME IsFiniteSet(Clients), Cardinality(Clients) <= IdModulus - 2
  PROVE  TestSpec => [](TestInv /\ TestClientIds)
<1>1. TestInit => TestInv /\ TestClientIds
  BY TestInitInv, TestClientIdsInit
<1>2. TestInv /\ TestClientIds /\ [TestNext]_testvars => TestInv' /\ TestClientIds'
  BY TestStep, TestClientIdsKept
<1> QED
  BY <1>1, <1>2, PTL DEF TestSpec

\* A call of forward_time that waits has one forwarding work under way or one post
\* of the semaphore, however often the work is put off, if no other client was
\* given the client ID of the forwarding work.
THEOREM ForwardingIsAToken ==
  ASSUME IsFiniteSet(Clients), Cardinality(Clients) <= IdModulus - 2
  PROVE  TestSpec => []ForwardToken
<1>1. TestInv => ForwardToken
  BY TokenCounts DEF TestInv
<1> QED
  BY TestInvariant, <1>1, PTL

\* The worker does not sleep through forward_time: while it waits for a time point
\* nothing in the container is due, unless the forwarding work is about to wake it.
THEOREM NothingDueSleeps ==
  ASSUME IsFiniteSet(Clients), Cardinality(Clients) <= IdModulus - 2
  PROVE  TestSpec => []NoDueWorkAsleep
<1>1. TestInv => NoDueWorkAsleep
  BY DEF TestInv, SleepsTillDue, NoDueWorkAsleep
<1> QED
  BY TestInvariant, <1>1, PTL

\* When the forwarding work completes, it was the earliest, and what is left in
\* the container is due later than now.
LEMMA Completion ==
  ASSUME TestInv, [TestNext]_testvars, completed' > completed
  PROVE  \A r \in ToSet(container') \cup item' : now < r.fields.time_point
<1>0. completed \in Nat /\ WorkerTypes /\ CallTypes /\ RunsFirst
  BY DEF TestInv, TokenInv, Tokens
<1>1. ASSUME UNCHANGED completed PROVE FALSE
  BY <1>0, <1>1
<1>2. Execute
  <2>1. CASE WakeUp \/ SyncReturns \/ TestSpurious \/ UNCHANGED testvars
    BY <1>1, <2>1 DEF WakeUp, SyncReturns, TestSpurious, testvars, forwardvars
  <2>2. CASE ForwardBegin \/ ForwardSet \/ ForwardPost \/ DestroyJoin \/ Destroy
    BY <1>1, <2>2 DEF ForwardBegin, ForwardSet, ForwardPost, DestroyJoin, Destroy
  <2>3. CASE ForwardWait
    BY <1>0, <2>3 DEF ForwardWait
  <2>4. CASE \E c \in Clients : TestClient(c)
    BY <1>1, <2>4 DEF TestClient, forwardvars
  <2> QED
    BY <2>1, <2>2, <2>3, <2>4 DEF TestNext, TestWorker, Forwarding
<1>3. PICK rec \in item : /\ wpc = "run" /\ is_forwarding(rec) /\ ~works_due
                          /\ continue_with(container, change_flag)
  <2>1. PICK rec \in item :
          IF is_forwarding(rec) THEN execute_forwarding(rec) ELSE execute_other(rec)
    BY <1>2 DEF Execute
  <2> QED
    BY <1>1, <1>2, <2>1 DEF Execute, execute_forwarding, execute_other
<1>4. /\ rec.fields.time_point \in Nat /\ rec.fields.time_point # EMPTY_TIME_POINT
      /\ \A s \in ToSet(container) : rec.fields.time_point <= s.fields.time_point
  BY <1>0, <1>3, OneForwarding DEF RunsFirst, Records, Fields
<1>5. \A s \in ToSet(container) : now < s.fields.time_point
  <2>1. CASE container = <<>>
    BY <2>1, <1>0, AllRecords DEF WorkerTypes
  <2>2. CASE container # <<>>
    <3>1. /\ container[1] \in ToSet(container) /\ container[1] \in Records
          /\ \A s \in ToSet(container) : container[1].fields.time_point <= s.fields.time_point
          /\ \A s \in ToSet(container) : s.fields.time_point \in Nat
      BY <1>0, <2>2, AllRecords DEF WorkerTypes, Records, Fields
    <3>2. container[1].fields.time_point # EMPTY_TIME_POINT
      BY <1>4, <3>1 DEF EMPTY_TIME_POINT
    <3>3. now < container[1].fields.time_point
      BY <1>0, <1>3, <2>2, <3>1, <3>2 DEF works_due, is_container_empty, CallTypes
    <3> QED
      BY <1>0, <3>1, <3>3 DEF CallTypes
  <2> QED
    BY <2>1, <2>2
<1>6. item' \subseteq ToSet(container) /\ ToSet(container') \subseteq ToSet(container)
  <2>1. /\ container \in Seq(Records) /\ is_heap(container) /\ NoDuplicates(container)
        /\ change_flag \in BOOLEAN /\ deadline \in Nat /\ now \in Nat
    BY <1>0 DEF WorkerTypes, CallTypes
  <2> QED
    BY <1>3, <2>1, WentOnWith
<1> QED
  BY <1>5, <1>6

\* forward_time does not return before the works have run: when the forwarding work
\* completes nothing that is scheduled, by whoever and whenever, is due.
THEOREM NothingDueIsLeft ==
  ASSUME IsFiniteSet(Clients), Cardinality(Clients) <= IdModulus - 2
  PROVE  TestSpec => CompletedWhenDone
<1>1. TestInv /\ [TestNext]_testvars =>
        [completed' > completed => \A r \in ToSet(container') \cup item' : now < r.fields.time_point]_testvars
  BY Completion
<1> QED
  BY TestInvariant, <1>1, PTL DEF TestSpec, CompletedWhenDone
=============================================================================
