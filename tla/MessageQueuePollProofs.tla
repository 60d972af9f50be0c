----------------------- MODULE MessageQueuePollProofs -----------------------
(***************************************************************************)
(* Threads that poll message queues, for any number of queues, of pollers  *)
(* and of ranges, and any times: no listener outlives its call in a queue, *)
(* no wakeup is lost and no poll gives up early.                           *)
(***************************************************************************)
EXTENDS MessageQueuePollThreads, MessageQueueProofs

Messages == [qid : Qids, mid : 1 .. MaxMessages]
Records == notification_rec_type(Qids, Objects \cup {nullptr})

\* What TypeOK leaves open of a call: only its loops move its position.
CallTypes ==
  /\ range \in [Listeners -> Seq(Objects)]
  /\ pos \in [Listeners -> Nat]
  /\ result \in [Listeners -> Seq(Records)]
  /\ todo \in [Listeners -> Seq(Records)]
  /\ began \in [Listeners -> Int]
  /\ \A l \in Listeners : phase[l] \notin {"set", "clear"} => pos[l] = 1

Types == TypeOK /\ MQListsAscending /\ CallTypes

LEMMA QidsInNat == Qids \subseteq Nat /\ undefined_qid \in Qids
  BY ObjectsAssumption DEF Qids

LEMMA TypesOfQueues == Types => MQInv(Qids, Messages)
  BY DEF Types, TypeOK, MQInv, Messages

LEMMA InitTypes == Init => Types
<1> SUFFICES ASSUME Init PROVE Types
  OBVIOUS
<1>1. MQTypeOK(Qids, Messages) /\ MQListsAscending
  <2>1. id \in [Objects -> Qids]
    BY ObjectsAssumption DEF Init, Qids
  <2> QED
    BY <2>1 DEF Init, MQTypeOK, MQListsAscending, Ascending
<1>2. PollTypeOK
  BY DEF Init, PollInit, PollTypeOK, no_wait, wait_time_provider, EMPTY_TIME_POINT
<1>3. created \in 0 .. MaxMessages /\ moves \in 0 .. MaxMoves
  BY BoundsAssumption DEF Init
<1>4. CallTypes
  BY DEF Init, PollInit, CallTypes
<1> QED
  BY <1>1, <1>2, <1>3, <1>4 DEF Types, TypeOK, Messages

\* Every step uses the queues by their methods, and ends a listener with its call.
LEMMA QueuesKept == Types /\ [Next]_vars => MQInv(Qids, Messages)'
<1> SUFFICES ASSUME Types, [Next]_vars PROVE MQInv(Qids, Messages)'
  OBVIOUS
<1>1. /\ MQInv(Qids, Messages) /\ Qids \subseteq Nat /\ undefined_qid \in Qids
      /\ Lists(notifications, Qids)
  BY TypesOfQueues, QidsInNat DEF MQInv, MQTypeOK, MQListsAscending, Lists
<1>2. /\ alive \subseteq Objects /\ asleep \subseteq Listeners
      /\ id \in [Objects -> Qids] /\ queue \in [Objects -> Seq(Messages)]
      /\ listener \in [Objects -> Listeners \cup {nullptr}]
  BY <1>1 DEF MQInv, MQTypeOK
<1>3. ASSUME UNCHANGED <<alive, id, queue, listener, notifications>>, asleep' \subseteq Listeners
      PROVE  MQInv(Qids, Messages)'
  BY <1>1, <1>2, <1>3, MQInvAfter
<1>4. ASSUME NEW l \in Listeners, PollBegin(l) \/ Timeout(l) \/ SpuriousWakeup(l)
      PROVE  MQInv(Qids, Messages)'
  BY <1>2, <1>3, <1>4
     DEF PollBegin, poll_begin, Timeout, poll_timeout, SpuriousWakeup, poll_spurious_wakeup, mqvars
<1>5. ASSUME NEW l \in Listeners, PollStep(l) PROVE MQInv(Qids, Messages)'
  <2>1. phase[l] \in {"set", "clear"} => range[l][pos[l]] \in Objects
    BY DEF Types, TypeOK, PollTypeOK, CallTypes
  <2>2. CASE poll_set(l)
    BY <2>1, <2>2, <1>1, MQUseInv DEF poll_set
  <2>3. CASE poll_clear(l)
    BY <2>1, <2>3, <1>1, MQUseInv DEF poll_clear
  <2>4. CASE poll_return(l) \/ poll_sleep(l)
    BY <2>4, <1>2, <1>3 DEF poll_return, poll_sleep, mqvars
  <2>5. CASE poll_end(l)
    <3>1. notifications' = [notifications EXCEPT ![l] = <<>>]
      BY <2>5 DEF poll_end
    <3>2. Lists(notifications', Qids)
      <4> DEFINE T == Seq(notification_rec_type(Qids, Objects \cup {nullptr}))
      <4>0. <<>> \in T
        OBVIOUS
      <4>4. notifications \in [Listeners -> T]
        BY <1>1 DEF Lists
      <4>1. notifications' \in [Listeners -> T]
        <5> HIDE DEF T
        <5> QED
          BY <3>1, <4>0, <4>4
      <4>2. Ascending(<<>>)
        BY DEF Ascending
      <4>3. \A k \in Listeners : Ascending(notifications'[k])
        BY <3>1, <4>2, <1>1 DEF Lists
      <4> QED
        BY <4>1, <4>3 DEF Lists
    <3> QED
      BY <2>5, <3>2, <1>2, MQInvAfter DEF poll_end
  <2> QED
    BY <1>5, <2>2, <2>3, <2>4, <2>5 DEF PollStep, poll_step
<1>6. ASSUME NEW l \in Listeners, Consume(l) PROVE MQInv(Qids, Messages)'
  <2>1. ASSUME NEW mq, pop(mq) PROVE MQInv(Qids, Messages)'
    <3>1. CASE mq \in Objects
      BY <2>1, <3>1, <1>1, MQUseInv
    <3>2. CASE mq \notin Objects
      <4>1. queue' = queue /\ UNCHANGED <<alive, id, listener, notifications, asleep>>
        BY <2>1, <3>2, <1>2 DEF pop
      <4> QED
        BY <4>1, <1>2, <1>3
    <3> QED
      BY <3>1, <3>2
  <2>2. CASE UNCHANGED mqvars
    BY <2>2, <1>2, <1>3 DEF mqvars
  <2> QED
    BY <1>6, <2>1, <2>2 DEF Consume
<1>7. ASSUME NEW o \in Objects, Push(o) PROVE MQInv(Qids, Messages)'
  <2> DEFINE m == message(id[o], created + 1)
  <2>1. m \in Messages
    BY <1>2, <1>7, BoundsAssumption DEF Push, message, Messages, Types, TypeOK
  <2>2. push(o, m)
    BY <1>7 DEF Push
  <2> HIDE DEF m
  <2> QED
    BY <2>1, <2>2, <1>1, MQUseInv
<1>8. ASSUME NEW o \in Objects, NEW d \in Objects, Move(d, o) PROVE MQInv(Qids, Messages)'
  <2>1. move_assign(d, o)
    BY <1>8 DEF Move
  <2> QED
    BY <2>1, <1>1, MQLifetimeInv
<1>9. CASE Tick \/ UNCHANGED vars
  BY <1>2, <1>3, <1>9 DEF Tick, vars, mqvars
<1> QED
  BY <1>4, <1>5, <1>6, <1>7, <1>8, <1>9 DEF Next

\* The types of the calls, in the parts that the actions change.
CallsInv == PollTypeOK /\ CallTypes

\* A turn of a loop of the call l, or its end.
LEMMA LoopTypes ==
  ASSUME CallsInv, NEW l \in Listeners, phase[l] \in {"set", "clear"}, NEW after \in {"wait", "end"},
         next_queue(l, after), UNCHANGED <<range, wtp, until, result, clock, began>>,
         todo' \in [Listeners -> Seq(Records)]
  PROVE  CallsInv'
<1>1. /\ pos \in [Listeners -> Nat] /\ range \in [Listeners -> Seq(Objects)]
      /\ phase \in [Listeners -> {"out", "set", "wait", "clear", "end"}]
      /\ \A k \in Listeners : /\ Len(range[k]) \in Nat /\ pos[k] \in 1 .. Len(range[k]) + 1
                              /\ phase[k] \in {"set", "clear"} => pos[k] \in 1 .. Len(range[k])
                              /\ phase[k] \notin {"set", "clear"} => pos[k] = 1
  <2>1. /\ phase \in [Listeners -> {"out", "set", "wait", "clear", "end"}]
        /\ \A k \in Listeners : /\ range[k] \in Seq(Objects) /\ pos[k] \in 1 .. Len(range[k]) + 1
                                /\ phase[k] \in {"set", "clear"} => pos[k] \in 1 .. Len(range[k])
    BY DEF CallsInv, PollTypeOK
  <2>2. /\ pos \in [Listeners -> Nat] /\ range \in [Listeners -> Seq(Objects)]
        /\ \A k \in Listeners : phase[k] \notin {"set", "clear"} => pos[k] = 1
    BY DEF CallsInv, CallTypes
  <2>3. \A k \in Listeners : Len(range[k]) \in Nat
    BY <2>1, LenProperties
  <2> QED
    BY <2>1, <2>2, <2>3
<1>2. /\ pos' \in [Listeners -> Nat]
      /\ phase' \in [Listeners -> {"out", "set", "wait", "clear", "end"}]
      /\ \A k \in Listeners : /\ pos'[k] \in 1 .. Len(range[k]) + 1
                              /\ phase'[k] \in {"set", "clear"} => pos'[k] \in 1 .. Len(range[k])
                              /\ phase'[k] \notin {"set", "clear"} => pos'[k] = 1
  <2>1. CASE more_queues(l)
    <3>1. pos' = [pos EXCEPT ![l] = @ + 1] /\ phase' = phase /\ pos[l] < Len(range[l])
      BY <2>1 DEF next_queue, more_queues
    <3> QED
      BY <3>1, <1>1
  <2>2. CASE ~more_queues(l)
    <3>1. pos' = [pos EXCEPT ![l] = 1] /\ phase' = [phase EXCEPT ![l] = after]
      BY <2>2 DEF next_queue
    <3> QED
      BY <3>1, <1>1
  <2> QED
    BY <2>1, <2>2
<1> QED
  BY <1>1, <1>2 DEF CallsInv, PollTypeOK, CallTypes

\* poll_copy, when there is no queue to clear a listener of or there is one.
LEMMA CopyTypes ==
  ASSUME CallsInv, NEW l \in Listeners, phase[l] = "wait", poll_copy(l),
         notifications \in [Listeners -> Seq(Records)], UNCHANGED began,
         todo' \in [Listeners -> Seq(Records)]
  PROVE  CallsInv'
<1>1. /\ result' = [result EXCEPT ![l] = notifications[l]]
      /\ phase' = [phase EXCEPT ![l] = IF range[l] = <<>> THEN "end" ELSE "clear"]
      /\ until' = [until EXCEPT ![l] = 0]
      /\ UNCHANGED <<range, pos, wtp, clock>>
  BY DEF poll_copy, enter, EMPTY_TIME_POINT
<1>2. result' \in [Listeners -> Seq(Records)]
  BY <1>1 DEF CallsInv, CallTypes
<1>3. range[l] # <<>> => Len(range[l]) \in Nat /\ 1 <= Len(range[l])
  BY EmptySeq DEF CallsInv, CallTypes
<1>4. PollTypeOK'
  BY <1>1, <1>3 DEF CallsInv, PollTypeOK, CallTypes
<1>5. CallTypes'
  BY <1>1, <1>2, <1>3 DEF CallsInv, CallTypes
<1> QED
  BY <1>4, <1>5 DEF CallsInv

LEMMA CallsKept == Types /\ [Next]_vars => CallsInv'
<1> SUFFICES ASSUME Types, [Next]_vars PROVE CallsInv'
  OBVIOUS
<1>0. CallsInv
  BY DEF Types, TypeOK, CallsInv
<1>1. notifications \in [Listeners -> Seq(Records)]
  BY DEF Types, TypeOK, MQTypeOK, Records
<1>2. todo \in [Listeners -> Seq(Records)] /\ result \in [Listeners -> Seq(Records)]
  BY DEF Types, CallTypes
<1>3. ASSUME NEW l \in Listeners, PollBegin(l) PROVE CallsInv'
  <2>1. PICK r \in Ranges : \E w \in Waits : poll_begin(l, r, w)
    BY <1>3 DEF PollBegin
  <2>2. PICK w \in Waits : poll_begin(l, r, w)
    BY <2>1
  <2>3. /\ phase[l] = "out"
        /\ range' = [range EXCEPT ![l] = r]
        /\ wtp' = [wtp EXCEPT ![l] = w]
        /\ result' = [result EXCEPT ![l] = <<>>]
        /\ phase' = [phase EXCEPT ![l] = IF r = <<>> THEN "wait" ELSE "set"]
        /\ began' = [began EXCEPT ![l] = clock]
        /\ UNCHANGED <<pos, until, clock, todo>>
    BY <1>3, <2>2 DEF PollBegin, poll_begin, enter
  <2>4. r \in Seq(Objects) /\ w \in [rel_time : Int, abs_time : Int, wait_infinitely : BOOLEAN]
    BY CallsAssumption
  <2>5. Len(r) \in Nat /\ (r # <<>> => 1 <= Len(r))
    BY <2>4, EmptySeq
  <2>6. result' \in [Listeners -> Seq(Records)]
    <3>1. <<>> \in Seq(Records)
      OBVIOUS
    <3> QED
      BY <2>3, <3>1, <1>2
  <2>7. CallTypes'
    <3>1. range' \in [Listeners -> Seq(Objects)] /\ began' \in [Listeners -> Int]
      BY <2>3, <2>4, <1>0 DEF CallsInv, PollTypeOK, CallTypes
    <3>2. \A k \in Listeners : phase'[k] \notin {"set", "clear"} => pos'[k] = 1
      BY <2>3, <1>0 DEF CallsInv, PollTypeOK, CallTypes
    <3> QED
      BY <2>3, <2>6, <3>1, <3>2, <1>0 DEF CallsInv, CallTypes
  <2>8. PollTypeOK'
    <3>1. /\ phase' \in [Listeners -> {"out", "set", "wait", "clear", "end"}]
          /\ wtp' \in [Listeners -> [rel_time : Int, abs_time : Int, wait_infinitely : BOOLEAN]]
          /\ until' \in [Listeners -> Int] /\ clock' \in Int
      BY <2>3, <2>4, <1>0 DEF CallsInv, PollTypeOK
    <3>2. ASSUME NEW k \in Listeners
          PROVE  /\ range'[k] \in Seq(Objects)
                 /\ pos'[k] \in 1 .. Len(range'[k]) + 1
                 /\ phase'[k] \in {"set", "clear"} => pos'[k] \in 1 .. Len(range'[k])
      <4>1. CASE k = l
        <5>1. range'[l] = r /\ pos'[l] = 1 /\ (phase'[l] = "set" => r # <<>>)
              /\ phase'[l] # "clear"
          BY <2>3, <1>0 DEF CallsInv, PollTypeOK, CallTypes
        <5> QED
          BY <4>1, <5>1, <2>4, <2>5
      <4>2. CASE k # l
        <5>1. range'[k] = range[k] /\ pos'[k] = pos[k] /\ phase'[k] = phase[k]
          BY <4>2, <2>3, <1>0 DEF CallsInv, PollTypeOK, CallTypes
        <5> QED
          BY <5>1, <1>0 DEF CallsInv, PollTypeOK
      <4> QED
        BY <4>1, <4>2
    <3> QED
      BY <3>1, <3>2 DEF PollTypeOK
  <2> QED
    BY <2>7, <2>8 DEF CallsInv
<1>4. ASSUME NEW l \in Listeners, PollStep(l) PROVE CallsInv'
  <2>1. /\ todo' = IF phase'[l] = "out" THEN [todo EXCEPT ![l] = result[l]] ELSE todo
        /\ began' = IF phase'[l] = "out" THEN [began EXCEPT ![l] = 0] ELSE began
        /\ poll_step(l)
    BY <1>4 DEF PollStep
  <2>2. todo' \in [Listeners -> Seq(Records)]
    BY <2>1, <1>2
  <2>3. CASE poll_set(l) \/ poll_clear(l)
    <3>1. PICK after \in {"wait", "end"} : next_queue(l, after)
      BY <2>3 DEF poll_set, poll_clear
    <3>2. phase[l] \in {"set", "clear"} /\ UNCHANGED <<range, wtp, until, result, clock>>
      BY <2>3 DEF poll_set, poll_clear
    <3>3. phase'[l] # "out"
      BY <3>1, <3>2, <1>0 DEF next_queue, CallsInv, PollTypeOK
    <3> QED
      BY <3>1, <3>2, <3>3, <2>1, <2>2, <1>0, LoopTypes
  <2>4. CASE poll_return(l)
    <3>1. phase[l] = "wait" /\ poll_copy(l)
      BY <2>4 DEF poll_return
    <3>2. phase'[l] # "out"
      BY <3>1, <1>0 DEF poll_copy, enter, CallsInv, PollTypeOK
    <3> QED
      BY <3>1, <3>2, <2>1, <2>2, <1>0, <1>1, CopyTypes
  <2>5. CASE poll_sleep(l)
    <3>1. phase[l] = "wait" /\ UNCHANGED <<phase, range, pos, wtp, result, clock>>
      BY <2>5 DEF poll_sleep
    <3>2. UNCHANGED <<todo, began>>
      BY <3>1, <2>1
    <3>3. abs_time(l) \in Int
      BY <1>0 DEF abs_time, get_time_point, EMPTY_TIME_POINT, CallsInv, PollTypeOK
    <3>4. until' \in [Listeners -> Int]
      BY <3>3, <2>5, <1>0 DEF poll_sleep, CallsInv, PollTypeOK
    <3> QED
      BY <3>1, <3>2, <3>4, <1>0 DEF CallsInv, PollTypeOK, CallTypes
  <2>6. CASE poll_end(l)
    <3>1. /\ phase[l] = "end" /\ phase' = [phase EXCEPT ![l] = "out"]
          /\ range' = [range EXCEPT ![l] = <<>>]
          /\ wtp' = [wtp EXCEPT ![l] = no_wait]
          /\ UNCHANGED <<pos, until, result, clock>>
      BY <2>6 DEF poll_end
    <3>2. began' \in [Listeners -> Int]
      BY <2>1, <1>0 DEF CallsInv, CallTypes
    <3>3. CallTypes'
      <4>1. range' \in [Listeners -> Seq(Objects)]
        BY <3>1, <1>0 DEF CallsInv, CallTypes
      <4>2. \A k \in Listeners : phase'[k] \notin {"set", "clear"} => pos'[k] = 1
        BY <3>1, <1>0 DEF CallsInv, PollTypeOK, CallTypes
      <4> QED
        BY <3>1, <3>2, <4>1, <4>2, <2>2, <1>0 DEF CallsInv, CallTypes
    <3>4. no_wait \in [rel_time : Int, abs_time : Int, wait_infinitely : BOOLEAN]
      BY DEF no_wait, wait_time_provider, EMPTY_TIME_POINT
    <3>5. PollTypeOK'
      BY <3>1, <3>4, <1>0 DEF CallsInv, CallTypes, PollTypeOK
    <3> QED
      BY <3>3, <3>5 DEF CallsInv
  <2> QED
    BY <2>1, <2>3, <2>4, <2>5, <2>6 DEF poll_step
<1>5. ASSUME NEW l \in Listeners, Timeout(l) PROVE CallsInv'
  BY <1>0, <1>1, <1>2, <1>5, CopyTypes DEF Timeout, poll_timeout
<1>6. ASSUME NEW l \in Listeners, Consume(l) PROVE CallsInv'
  <2>1. todo[l] # <<>> /\ (todo' = todo \/ todo' = [todo EXCEPT ![l] = Tail(todo[l])])
    BY <1>6 DEF Consume
  <2>2. Tail(todo[l]) \in Seq(Records)
    BY <2>1, <1>2, HeadTailProperties
  <2>3. todo' \in [Listeners -> Seq(Records)] /\ UNCHANGED <<pollvars, began>>
    BY <2>1, <2>2, <1>2, <1>6 DEF Consume
  <2> QED
    BY <2>3, <1>0 DEF CallsInv, PollTypeOK, CallTypes, pollvars, callvars
<1>7. ASSUME UNCHANGED <<callvars, todo, began>>, clock' \in Int PROVE CallsInv'
  BY <1>0, <1>7 DEF CallsInv, PollTypeOK, CallTypes, callvars
<1>8. CASE UNCHANGED vars
  BY <1>0, <1>7, <1>8 DEF CallsInv, PollTypeOK, vars, pollvars
<1>9. CASE Tick
  BY <1>0, <1>7, <1>9 DEF CallsInv, PollTypeOK, Tick
<1>10. ASSUME NEW l \in Listeners, SpuriousWakeup(l) PROVE CallsInv'
  BY <1>0, <1>7, <1>10 DEF CallsInv, PollTypeOK, SpuriousWakeup, poll_spurious_wakeup, pollvars
<1>11. ASSUME NEW o \in Objects, Push(o) \/ \E d \in Objects : Move(d, o) PROVE CallsInv'
  BY <1>0, <1>7, <1>11 DEF CallsInv, PollTypeOK, Push, Move, pollvars
<1> QED
  BY <1>3, <1>4, <1>5, <1>6, <1>8, <1>9, <1>10, <1>11 DEF Next

LEMMA TypesKept == Types /\ [Next]_vars => Types'
<1> SUFFICES ASSUME Types, [Next]_vars PROVE Types'
  OBVIOUS
<1>1. MQInv(Qids, Messages)' /\ CallsInv'
  BY QueuesKept, CallsKept
<1>2. (created \in 0 .. MaxMessages /\ moves \in 0 .. MaxMoves)'
  <2>1. created \in 0 .. MaxMessages /\ moves \in 0 .. MaxMoves
    BY DEF Types, TypeOK
  <2>2. ASSUME NEW o \in Objects, Push(o) \/ \E d \in Objects : Move(d, o)
        PROVE  created' \in 0 .. MaxMessages /\ moves' \in 0 .. MaxMoves
    BY <2>1, <2>2, BoundsAssumption DEF Push, Move
  <2>3. CASE UNCHANGED counters
    BY <2>1, <2>3 DEF counters
  <2> QED
    BY <2>2, <2>3 DEF Next, PollBegin, PollStep, Timeout, SpuriousWakeup, Consume, Tick, vars
<1>3. MQTypeOK(Qids, Messages)' /\ MQListsAscending'
  BY <1>1 DEF MQInv
<1>4. TypeOK'
  BY <1>1, <1>2, <1>3 DEF TypeOK, CallsInv, Messages
<1> QED
  BY <1>1, <1>3, <1>4 DEF Types, CallsInv

\* Members, calls and lists keep their types across all the interleavings.
THEOREM PollTypes == Spec => []TypeOK
<1>1. Types => TypeOK
  BY DEF Types
<1> QED
  BY <1>1, InitTypes, TypesKept, PTL DEF Spec
-----------------------------------------------------------------------------
\* In phase ph, with p its position: has a call set its listener for the i-th
\* queue of its range, and not cleared it yet?
SetFor(ph, p, i) ==
  \/ ph = "set" /\ i < p
  \/ ph = "wait"
  \/ ph = "clear" /\ p <= i

\* The call of listener l is one that will still clear it in object o.
HeldBy(o, l) == \E i \in 1 .. Len(range[l]) : range[l][i] = o /\ SetFor(phase[l], pos[l], i)

\* Only a call that will still clear it has its listener in a queue.
ListenersHeld == \A o \in Objects : listener[o] # nullptr => HeldBy(o, listener[o])

\* What is known of a call before each step.
LEMMA CallFacts ==
  Types => /\ listener \in [Objects -> Listeners \cup {nullptr}] /\ nullptr \notin Listeners
           /\ phase \in [Listeners -> {"out", "set", "wait", "clear", "end"}]
           /\ pos \in [Listeners -> Nat] /\ range \in [Listeners -> Seq(Objects)]
           /\ \A l \in Listeners :
                /\ Len(range[l]) \in Nat
                /\ \A i \in 1 .. Len(range[l]) : range[l][i] \in Objects
                /\ phase[l] \in {"set", "clear"} => pos[l] \in 1 .. Len(range[l])
                /\ phase[l] \notin {"set", "clear"} => pos[l] = 1
<1> SUFFICES ASSUME Types
             PROVE  /\ listener \in [Objects -> Listeners \cup {nullptr}] /\ nullptr \notin Listeners
                    /\ phase \in [Listeners -> {"out", "set", "wait", "clear", "end"}]
                    /\ pos \in [Listeners -> Nat] /\ range \in [Listeners -> Seq(Objects)]
                    /\ \A l \in Listeners :
                         /\ Len(range[l]) \in Nat
                         /\ \A i \in 1 .. Len(range[l]) : range[l][i] \in Objects
                         /\ phase[l] \in {"set", "clear"} => pos[l] \in 1 .. Len(range[l])
                         /\ phase[l] \notin {"set", "clear"} => pos[l] = 1
  OBVIOUS
<1>1. listener \in [Objects -> Listeners \cup {nullptr}] /\ nullptr \notin Listeners
  BY ObjectsAssumption DEF Types, TypeOK, MQTypeOK
<1>2. phase \in [Listeners -> {"out", "set", "wait", "clear", "end"}]
  BY DEF Types, TypeOK, PollTypeOK
<1>3. pos \in [Listeners -> Nat] /\ range \in [Listeners -> Seq(Objects)]
  BY DEF Types, CallTypes
<1>4. ASSUME NEW l \in Listeners
      PROVE  phase[l] \in {"set", "clear"} => pos[l] \in 1 .. Len(range[l])
  BY DEF Types, TypeOK, PollTypeOK
<1>5. ASSUME NEW l \in Listeners
      PROVE  phase[l] \notin {"set", "clear"} => pos[l] = 1
  BY DEF Types, CallTypes
<1>6. ASSUME NEW l \in Listeners
      PROVE  Len(range[l]) \in Nat /\ \A i \in 1 .. Len(range[l]) : range[l][i] \in Objects
  <2>1. range[l] \in Seq(Objects)
    BY <1>3
  <2> QED
    BY <2>1
<1> QED
  BY <1>1, <1>2, <1>3, <1>4, <1>5, <1>6

LEMMA ListenersHeldKept == Types /\ ListenersHeld /\ [Next]_vars => ListenersHeld'
<1> SUFFICES ASSUME Types, ListenersHeld, [Next]_vars PROVE ListenersHeld'
  OBVIOUS
<1>0. /\ listener \in [Objects -> Listeners \cup {nullptr}] /\ nullptr \notin Listeners
      /\ phase \in [Listeners -> {"out", "set", "wait", "clear", "end"}]
      /\ pos \in [Listeners -> Nat] /\ range \in [Listeners -> Seq(Objects)]
      /\ \A l \in Listeners :
           /\ Len(range[l]) \in Nat
           /\ \A i \in 1 .. Len(range[l]) : range[l][i] \in Objects
           /\ phase[l] \in {"set", "clear"} => pos[l] \in 1 .. Len(range[l])
           /\ phase[l] \notin {"set", "clear"} => pos[l] = 1
  BY CallFacts
<1> DEFINE After(o, l) == \E i \in 1 .. Len(range'[l]) :
                            range'[l][i] = o /\ SetFor(phase'[l], pos'[l], i)
\* A queue that has the same listener after the step, whose call is the same.
<1>1. ASSUME NEW o \in Objects, NEW l \in Listeners, listener[o] = l,
             phase'[l] = phase[l], pos'[l] = pos[l], range'[l] = range[l]
      PROVE  After(o, l)
  BY <1>0, <1>1 DEF ListenersHeld, HeldBy
<1>2. (\A o \in Objects : listener'[o] # nullptr => After(o, listener'[o])) => ListenersHeld'
  BY DEF ListenersHeld, HeldBy
<1>12. \A o \in Objects : listener[o] # nullptr => listener[o] \in Listeners
  BY <1>0
<1> HIDE DEF After
<1>3. ASSUME \A o \in Objects : listener'[o] = listener[o] \/ listener'[o] = nullptr,
             UNCHANGED <<phase, range, pos>>
      PROVE  ListenersHeld'
  BY <1>1, <1>2, <1>3, <1>12
<1>4. ASSUME NEW l \in Listeners, PollBegin(l) \/ poll_end(l) PROVE ListenersHeld'
  <2>1. /\ phase[l] \in {"out", "end"} /\ listener' = listener /\ pos' = pos
        /\ \A k \in Listeners : k # l => phase'[k] = phase[k] /\ range'[k] = range[k]
    BY <1>0, <1>4 DEF PollBegin, poll_begin, poll_end, enter, mqvars
  <2>2. ~SetFor(phase[l], pos[l], 1) /\ \A i \in Nat : ~SetFor(phase[l], pos[l], i)
    BY <2>1 DEF SetFor
  <2>3. \A o \in Objects : listener[o] # l
    BY <2>2, <1>0 DEF ListenersHeld, HeldBy
  <2> QED
    BY <2>1, <2>3, <1>12, <1>1, <1>2
<1>5. ASSUME NEW l \in Listeners, poll_set(l) PROVE ListenersHeld'
  <2>1. PICK p : p = range[l][pos[l]]
    OBVIOUS
  <2>2. phase[l] = "set" /\ pos[l] \in 1 .. Len(range[l]) /\ p \in Objects /\ range' = range
    BY <2>1, <1>0, <1>5 DEF poll_set
  <2>3. listener' = listener \/ listener' = [listener EXCEPT ![p] = l]
    BY <2>1, <1>5 DEF poll_set, set_listener, mqvars
  <2>4. /\ \A k \in Listeners : k # l => phase'[k] = phase[k] /\ pos'[k] = pos[k]
        /\ \/ pos'[l] = pos[l] + 1 /\ phase'[l] = "set"
           \/ phase'[l] = "wait"
    BY <1>0, <1>5 DEF poll_set, next_queue
  <2>5. \A i \in 1 .. Len(range[l]) :
          i = pos[l] \/ SetFor(phase[l], pos[l], i) => SetFor(phase'[l], pos'[l], i)
    BY <2>2, <2>4, <1>0 DEF SetFor
  <2>6. ASSUME NEW o \in Objects, listener'[o] # nullptr PROVE After(o, listener'[o])
    <3>1. CASE listener'[o] = l /\ o = p
      BY <3>1, <2>1, <2>2, <2>5 DEF After
    <3>2. CASE listener'[o] = listener[o] /\ listener[o] = l
      BY <3>2, <2>2, <2>5, <2>6 DEF ListenersHeld, HeldBy, After
    <3>3. CASE listener'[o] = listener[o] /\ listener[o] # l
      BY <3>3, <2>2, <2>4, <2>6, <1>12, <1>1
    <3> QED
      BY <3>1, <3>2, <3>3, <2>2, <2>3, <1>0
  <2> QED
    BY <2>6, <1>2
<1>6. ASSUME NEW l \in Listeners, phase[l] = "wait", poll_copy(l), listener' = listener
      PROVE  ListenersHeld'
  <2>1. /\ UNCHANGED <<range, pos>>
        /\ \A k \in Listeners : k # l => phase'[k] = phase[k]
        /\ phase'[l] = IF range[l] = <<>> THEN "end" ELSE "clear"
    BY <1>0, <1>6 DEF poll_copy, enter
  <2>2. \A i \in 1 .. Len(range[l]) : SetFor(phase'[l], pos'[l], i)
    <3>1. range[l] = <<>> => Len(range[l]) = 0
      BY EmptySeq
    <3>2. pos'[l] = 1 /\ Len(range[l]) \in Nat
      BY <2>1, <1>0, <1>6
    <3> QED
      BY <3>1, <3>2, <2>1 DEF SetFor
  <2>3. ASSUME NEW o \in Objects, listener[o] # nullptr PROVE After(o, listener[o])
    <3>1. CASE listener[o] = l
      BY <3>1, <2>1, <2>2, <2>3 DEF ListenersHeld, HeldBy, After
    <3>2. CASE listener[o] # l
      BY <3>2, <2>1, <2>3, <1>12, <1>1
    <3> QED
      BY <3>1, <3>2
  <2> QED
    BY <2>3, <1>2, <1>6
<1>7. ASSUME NEW l \in Listeners, poll_clear(l) PROVE ListenersHeld'
  <2>1. PICK p : p = range[l][pos[l]]
    OBVIOUS
  <2>2. phase[l] = "clear" /\ pos[l] \in 1 .. Len(range[l]) /\ p \in Objects /\ range' = range
    BY <2>1, <1>0, <1>7 DEF poll_clear
  <2>3. listener' = [listener EXCEPT ![p] = nullptr]
    BY <2>1, <1>7 DEF poll_clear, clear_listener
  <2>4. /\ \A k \in Listeners : k # l => phase'[k] = phase[k] /\ pos'[k] = pos[k]
        /\ \/ pos'[l] = pos[l] + 1 /\ phase'[l] = "clear"
           \/ pos[l] = Len(range[l])
    BY <2>2, <1>0, <1>7 DEF poll_clear, next_queue, more_queues
  <2>5. \A i \in 1 .. Len(range[l]) :
          i # pos[l] /\ SetFor(phase[l], pos[l], i) => SetFor(phase'[l], pos'[l], i)
    BY <2>2, <2>4, <1>0 DEF SetFor
  <2>6. ASSUME NEW o \in Objects, listener'[o] # nullptr PROVE After(o, listener'[o])
    <3>1. o # p /\ listener'[o] = listener[o] /\ listener[o] # nullptr
      BY <2>2, <2>3, <2>6, <1>0
    <3>2. CASE listener[o] = l
      BY <3>1, <3>2, <2>1, <2>2, <2>5 DEF ListenersHeld, HeldBy, After
    <3>3. CASE listener[o] # l
      BY <3>1, <3>3, <2>2, <2>4, <1>12, <1>1
    <3> QED
      BY <3>2, <3>3
  <2> QED
    BY <2>6, <1>2
<1>8. ASSUME NEW l \in Listeners, PollStep(l) \/ Timeout(l) PROVE ListenersHeld'
  <2>1. CASE poll_sleep(l)
    BY <2>1, <1>3 DEF poll_sleep
  <2> QED
    BY <2>1, <1>4, <1>5, <1>6, <1>7, <1>8
       DEF PollStep, poll_step, Timeout, poll_timeout, poll_return, mqvars
<1>9. ASSUME NEW l \in Listeners, SpuriousWakeup(l) \/ Consume(l) PROVE ListenersHeld'
  <2>1. UNCHANGED <<listener, phase, range, pos>>
    BY <1>9 DEF SpuriousWakeup, poll_spurious_wakeup, Consume, pop, mqvars, pollvars, callvars
  <2> QED
    BY <2>1, <1>3
<1>10. ASSUME NEW o \in Objects, Push(o) \/ \E d \in Objects : Move(d, o) PROVE ListenersHeld'
  <2>1. UNCHANGED <<phase, range, pos>>
    BY <1>10 DEF Push, Move, pollvars, callvars
  <2>2. \A p \in Objects : listener'[p] = listener[p] \/ listener'[p] = nullptr
    BY <1>0, <1>10 DEF Push, push, Move, move_assign, move, drop_listeners, mqvars
  <2> QED
    BY <2>1, <2>2, <1>3
<1>11. CASE Tick \/ UNCHANGED vars
  BY <1>3, <1>11 DEF Tick, vars, mqvars, pollvars, callvars
<1> QED
  BY <1>4, <1>8, <1>9, <1>10, <1>11 DEF Next

LEMMA ListenersInvariant == Spec => [](Types /\ ListenersHeld)
<1>1. Init => ListenersHeld
  BY DEF Init, ListenersHeld
<1> QED
  BY <1>1, InitTypes, TypesKept, ListenersHeldKept, PTL DEF Spec

\* A queue never refers to the listener of a call that has returned, which was on
\* its stack, nor to one whose range it is not in, whatever polls overlap, are
\* abandoned or give up, and whatever queues are moved meanwhile.
THEOREM NoListenerDangles == Spec => []NoDanglingListener
<1>1. Types /\ ListenersHeld => NoDanglingListener
  BY DEF ListenersHeld, HeldBy, NoDanglingListener, SetFor
<1> QED
  BY <1>1, ListenersInvariant, PTL
-----------------------------------------------------------------------------
\* A notification leaves a record, and those of the other listeners alone.
LEMMA OneIsTold ==
  ASSUME NEW ns, Lists(ns, Qids), NEW l \in Listeners \cup {nullptr}, NEW q \in Qids,
         NEW mq \in Objects \cup {nullptr}, NEW flag \in notification_flag
  PROVE  /\ Lists(notify(ns, l, q, mq, flag), Qids)
         /\ \A k \in Listeners : IF k = l THEN notify(ns, l, q, mq, flag)[k] # <<>>
                                 ELSE notify(ns, l, q, mq, flag)[k] = ns[k]
<1>1. nullptr \notin Listeners /\ Qids \subseteq Nat
  BY ObjectsAssumption, QidsInNat
<1>2. Lists(notify(ns, l, q, mq, flag), Qids) /\ Hears(l, ns, notify(ns, l, q, mq, flag))
  BY <1>1, ListenerHears
<1> QED
  BY <1>2 DEF Hears

\* The same of the listener that an object has.
LEMMA ItsListenerIsTold ==
  ASSUME Types, NEW ns, Lists(ns, Qids), NEW o \in Objects, NEW flag \in notification_flag
  PROVE  LET ms == notify(ns, listener[o], id[o], o, flag)
         IN  /\ Lists(ms, Qids)
             /\ \A k \in Listeners : IF k = listener[o] THEN ms[k] # <<>> ELSE ms[k] = ns[k]
<1>1. /\ listener[o] \in Listeners \cup {nullptr} /\ id[o] \in Qids
      /\ o \in Objects \cup {nullptr}
  BY DEF Types, TypeOK, MQTypeOK
<1> QED
  BY <1>1, OneIsTold

\* Two calls that are under way at the same time share no queue.
PollsApart ==
  \A l, k \in Listeners : l # k /\ phase[l] # "out" /\ phase[k] # "out" =>
    \A i \in 1 .. Len(range[l]), j \in 1 .. Len(range[k]) : range[l][i] # range[k][j]

\* A call that has heard nothing is the listener of its queues, from their turn
\* on, and they are empty.
QuietUntilTold(l) ==
  phase[l] \in {"set", "wait"} /\ notifications[l] = <<>> =>
    \A i \in 1 .. Len(range[l]) : SetFor(phase[l], pos[l], i) =>
      listener[range[l][i]] = l /\ queue[range[l][i]] = <<>>

\* A thread sleeps until its listener is told.
SleepsUntilTold == \A l \in asleep : phase[l] = "wait" /\ notifications[l] = <<>>

QInv ==
  /\ Types /\ ListenersHeld
  /\ SleepsUntilTold
  /\ \A l \in Listeners : QuietUntilTold(l)

\* What a step that is no call's own does: a listener hears of it, or it does
\* not take an empty queue from it nor put a message into one.
Unheard(l) ==
  /\ notifications'[l] = notifications[l]
  /\ \A o \in Objects : listener[o] = l /\ queue[o] = <<>> => listener'[o] = l /\ queue'[o] = <<>>

LEMMA OthersAreHeard ==
  ASSUME Types,
         \/ \E o \in Objects : Push(o) \/ \E d \in Objects : Move(d, o)
         \/ \E l \in Listeners : Consume(l)
  PROVE  /\ UNCHANGED pollvars /\ asleep' \subseteq asleep
         /\ \A l \in Listeners : (notifications'[l] # <<>> /\ l \notin asleep') \/ Unheard(l)
<1>0. /\ Lists(notifications, Qids) /\ id \in [Objects -> Qids]
      /\ queue \in [Objects -> Seq(Messages)]
      /\ listener \in [Objects -> Listeners \cup {nullptr}] /\ nullptr \notin Listeners
      /\ "data" \in notification_flag /\ "detached" \in notification_flag
  BY ObjectsAssumption, Flags DEF Types, TypeOK, MQTypeOK, MQListsAscending, Lists, Messages
<1> DEFINE Heard == /\ UNCHANGED pollvars /\ asleep' \subseteq asleep
                    /\ \A l \in Listeners : (notifications'[l] # <<>> /\ l \notin asleep') \/ Unheard(l)
<1>1. ASSUME NEW o \in Objects, Push(o) PROVE Heard
  <2>1. PICK m : push(o, m)
    BY <1>1 DEF Push
  <2>2. CASE UNCHANGED mqvars
    BY <2>2, <1>1 DEF Push, mqvars, Unheard
  <2>3. CASE /\ queue' = [queue EXCEPT ![o] = Append(queue[o], m)] /\ UNCHANGED listener
             /\ IF queue[o] = <<>>
                THEN /\ notifications' = notify(notifications, listener[o], id[o], o, "data")
                     /\ asleep' = asleep \ {listener[o]}
                ELSE UNCHANGED <<notifications, asleep>>
    <3>1. CASE queue[o] = <<>>
      <4>1. \A k \in Listeners : IF k = listener[o] THEN notifications'[k] # <<>>
                                 ELSE notifications'[k] = notifications[k]
        BY <2>3, <3>1, <1>0, ItsListenerIsTold
      <4> QED
        BY <4>1, <2>3, <3>1, <1>0, <1>1 DEF Push, Unheard
    <3>2. CASE queue[o] # <<>>
      BY <2>3, <3>2, <1>0, <1>1 DEF Push, Unheard
    <3> QED
      BY <3>1, <3>2
  <2> QED
    BY <2>1, <2>2, <2>3 DEF push, push_back, first_message, tell
<1>2. ASSUME NEW o \in Objects, NEW d \in Objects, Move(d, o) PROVE Heard
  <2> DEFINE ns == notify(notifications, listener[d], id[d], d, "detached")
  <2>1. /\ queue' = [queue EXCEPT ![d] = queue[o], ![o] = <<>>]
        /\ listener' = [listener EXCEPT ![d] = nullptr, ![o] = nullptr]
        /\ notifications' = notify(ns, listener[o], id[o], o, "detached")
        /\ asleep' = asleep \ {listener[d], listener[o]}
    BY <1>2 DEF Move, move_assign, move, move_queue, drop_listeners, tell_both
  <2>2. /\ Lists(ns, Qids)
        /\ \A k \in Listeners : IF k = listener[d] THEN ns[k] # <<>> ELSE ns[k] = notifications[k]
    BY <1>0, ItsListenerIsTold
  <2> HIDE DEF ns
  <2>3. \A k \in Listeners : IF k = listener[o] THEN notifications'[k] # <<>>
                             ELSE notifications'[k] = ns[k]
    <3>1. PICK list : list = ns
      OBVIOUS
    <3>2. Lists(list, Qids)
      BY <3>1, <2>2
    <3>3. "detached" \in notification_flag
      BY <1>0
    <3>4. \A k \in Listeners : IF k = listener[o]
                               THEN notify(list, listener[o], id[o], o, "detached")[k] # <<>>
                               ELSE notify(list, listener[o], id[o], o, "detached")[k] = list[k]
      BY <3>2, <3>3, ItsListenerIsTold
    <3> QED
      BY <3>1, <3>4, <2>1
  <2>4. ASSUME NEW l \in Listeners
        PROVE  (notifications'[l] # <<>> /\ l \notin asleep') \/ Unheard(l)
    <3>1. CASE l = listener[o] \/ l = listener[d]
      BY <3>1, <2>1, <2>2, <2>3
    <3>2. CASE l # listener[o] /\ l # listener[d]
      BY <3>2, <2>1, <2>2, <2>3, <1>0 DEF Unheard
    <3> QED
      BY <3>1, <3>2
  <2> QED
    BY <2>1, <2>4, <1>2 DEF Move
<1>3. ASSUME NEW l \in Listeners, Consume(l) PROVE Heard
  <2>1. UNCHANGED pollvars /\ (UNCHANGED mqvars \/ \E mq : pop(mq))
    BY <1>3 DEF Consume
  <2>2. ASSUME NEW mq, pop(mq)
        PROVE  /\ UNCHANGED <<listener, notifications, asleep>>
               /\ \A p \in Objects : queue[p] = <<>> => queue'[p] = <<>>
    BY <2>2, <1>0 DEF pop, has_message
  <2> QED
    BY <2>1, <2>2 DEF mqvars, Unheard
<1> QED
  BY <1>1, <1>2, <1>3

\* A step of poll sets the listener of one queue, which is told if it has data.
LEMMA SetIsHeard ==
  ASSUME Types, NEW l \in Listeners, poll_set(l), NEW p, p = range[l][pos[l]]
  PROVE  /\ UNCHANGED queue /\ asleep' \subseteq asleep
         /\ \A k \in Listeners : k # l => notifications'[k] = notifications[k]
         /\ \A o \in Objects : o # p \/ listener[p] # nullptr => listener'[o] = listener[o]
         /\ notifications'[l] = <<>> => notifications[l] = <<>>
         /\ listener[p] = nullptr => /\ listener'[p] = l
                                     /\ notifications'[l] = <<>> => queue[p] = <<>>
         /\ l \in asleep' => UNCHANGED notifications
<1>0. /\ Lists(notifications, Qids) /\ id \in [Objects -> Qids]
      /\ listener \in [Objects -> Listeners \cup {nullptr}] /\ nullptr \notin Listeners
      /\ "data" \in notification_flag /\ p \in Objects /\ id[p] \in Qids
  BY ObjectsAssumption, Flags, CallFacts
     DEF Types, TypeOK, MQTypeOK, MQListsAscending, Lists, Messages, poll_set
<1>1. CASE listener[p] # nullptr
  BY <1>1 DEF poll_set, set_listener, mqvars
<1>2. CASE listener[p] = nullptr
  <2>1. /\ UNCHANGED queue /\ listener' = [listener EXCEPT ![p] = l]
        /\ IF queue[p] # <<>>
           THEN /\ notifications' = notify(notifications, l, id[p], p, "data")
                /\ asleep' = asleep \ {l}
           ELSE UNCHANGED <<notifications, asleep>>
    BY <1>2 DEF poll_set, set_listener, reports, tell
  <2>2. queue[p] # <<>> =>
          \A k \in Listeners : IF k = l THEN notifications'[k] # <<>>
                               ELSE notifications'[k] = notifications[k]
    BY <2>1, <1>0, OneIsTold
  <2> QED
    BY <2>1, <2>2, <1>0, <1>2
<1> QED
  BY <1>1, <1>2

\* A step of another call, or of none, leaves what is said of a call true.
LEMMA OthersKeepQuiet ==
  ASSUME NEW l \in Listeners, QuietUntilTold(l),
         phase'[l] = phase[l], pos'[l] = pos[l], range'[l] = range[l],
         \/ notifications'[l] # <<>>
         \/ /\ notifications[l] = <<>>
            /\ \A i \in 1 .. Len(range[l]) :
                 LET o == range[l][i]
                 IN  SetFor(phase[l], pos[l], i) /\ listener[o] = l /\ queue[o] = <<>> =>
                       listener'[o] = l /\ queue'[o] = <<>>
  PROVE  QuietUntilTold(l)'
  BY DEF QuietUntilTold

LEMMA QuietKept ==
  QInv /\ PollsApart /\ [Next]_vars => \A l \in Listeners : QuietUntilTold(l)'
<1> SUFFICES ASSUME QInv, PollsApart, [Next]_vars, NEW l \in Listeners PROVE QuietUntilTold(l)'
  OBVIOUS
<1>0. /\ Types /\ ListenersHeld /\ QuietUntilTold(l)
      /\ listener \in [Objects -> Listeners \cup {nullptr}] /\ nullptr \notin Listeners
      /\ phase \in [Listeners -> {"out", "set", "wait", "clear", "end"}]
      /\ pos \in [Listeners -> Nat] /\ range \in [Listeners -> Seq(Objects)]
      /\ \A k \in Listeners :
           /\ Len(range[k]) \in Nat
           /\ \A i \in 1 .. Len(range[k]) : range[k][i] \in Objects
           /\ phase[k] \in {"set", "clear"} => pos[k] \in 1 .. Len(range[k])
           /\ phase[k] \notin {"set", "clear"} => pos[k] = 1
  BY CallFacts DEF QInv
<1>1. ASSUME UNCHANGED <<listener, queue, notifications>>,
             phase'[l] = phase[l], pos'[l] = pos[l], range'[l] = range[l]
      PROVE  QuietUntilTold(l)'
  BY <1>0, <1>1, OthersKeepQuiet
\* Before and after its loops no queue is set for a call.
<1>2. ASSUME phase'[l] # "set", phase'[l] # "wait" PROVE QuietUntilTold(l)'
  BY <1>2 DEF QuietUntilTold
<1>3. ASSUME NEW k \in Listeners, PollBegin(k) PROVE QuietUntilTold(l)'
  <2>1. PICK r \in Ranges : \E w \in Waits : poll_begin(k, r, w)
    BY <1>3 DEF PollBegin
  <2>2. /\ phase[k] = "out" /\ UNCHANGED <<listener, queue, notifications, pos>>
        /\ range' = [range EXCEPT ![k] = r]
        /\ phase' = [phase EXCEPT ![k] = IF r = <<>> THEN "wait" ELSE "set"]
    BY <2>1 DEF poll_begin, enter, mqvars
  <2>3. CASE k = l
    <3>1. /\ range'[l] = r /\ pos'[l] = 1
          /\ phase'[l] = IF r = <<>> THEN "wait" ELSE "set"
      BY <2>2, <2>3, <1>0
    <3>2. r = <<>> => Len(r) = 0
      BY EmptySeq
    <3> QED
      BY <3>1, <3>2 DEF QuietUntilTold, SetFor
  <2>4. CASE k # l
    BY <2>2, <2>4, <1>0, <1>1
  <2> QED
    BY <2>3, <2>4
<1>4. ASSUME NEW k \in Listeners, poll_set(k) PROVE QuietUntilTold(l)'
  <2>1. PICK p : p = range[k][pos[k]]
    OBVIOUS
  <2>2. /\ UNCHANGED queue
        /\ \A j \in Listeners : j # k => notifications'[j] = notifications[j]
        /\ \A o \in Objects : o # p \/ listener[p] # nullptr => listener'[o] = listener[o]
        /\ notifications'[k] = <<>> => notifications[k] = <<>>
        /\ listener[p] = nullptr => listener'[p] = k /\ (notifications'[k] = <<>> => queue[p] = <<>>)
    BY <2>1, <1>0, <1>4, SetIsHeard
  <2>3. phase[k] = "set" /\ pos[k] \in 1 .. Len(range[k]) /\ p \in Objects /\ range' = range
    BY <2>1, <1>0, <1>4 DEF poll_set
  <2>4. /\ \A j \in Listeners : j # k => phase'[j] = phase[j] /\ pos'[j] = pos[j]
        /\ \/ pos'[k] = pos[k] + 1 /\ phase'[k] = "set"
           \/ phase'[k] = "wait" /\ pos[k] = Len(range[k])
    BY <2>3, <1>0, <1>4 DEF poll_set, next_queue, more_queues
  <2>5. CASE k # l
    <3>1. \A o \in Objects : listener[o] = l => listener'[o] = l
      BY <2>2, <1>0
    <3> QED
      BY <3>1, <2>2, <2>3, <2>4, <2>5, <1>0, OthersKeepQuiet
  <2>6. CASE k = l
    <3>1. SUFFICES ASSUME notifications'[l] = <<>>, NEW i \in 1 .. Len(range[l]),
                          SetFor(phase'[l], pos'[l], i)
                   PROVE  listener'[range[l][i]] = l /\ queue'[range[l][i]] = <<>>
      BY <2>3 DEF QuietUntilTold
    <3>2. i = pos[l] \/ SetFor(phase[l], pos[l], i)
      BY <3>1, <2>3, <2>4, <2>6, <1>0 DEF SetFor
    <3>3. \A j \in 1 .. Len(range[l]) : SetFor(phase[l], pos[l], j) =>
            listener[range[l][j]] = l /\ queue[range[l][j]] = <<>>
      BY <3>1, <2>2, <2>3, <2>6, <1>0 DEF QuietUntilTold
    <3>4. CASE listener[p] = nullptr
      BY <3>2, <3>3, <3>4, <3>1, <2>1, <2>2, <2>6, <1>0
    <3>5. CASE listener[p] # nullptr
      <4>1. PICK m : m = listener[p]
        OBVIOUS
      <4>2. m \in Listeners /\ HeldBy(p, m)
        BY <4>1, <3>5, <2>3, <1>0 DEF ListenersHeld
      <4>3. PICK j \in 1 .. Len(range[m]) : range[m][j] = p /\ SetFor(phase[m], pos[m], j)
        BY <4>2 DEF HeldBy
      <4>4. m = l
        BY <4>2, <4>3, <2>1, <2>3, <2>6 DEF PollsApart, SetFor
      <4>5. listener[p] = l /\ queue[p] = <<>>
        BY <4>3, <4>4, <3>3
      <4> QED
        BY <4>5, <3>2, <3>3, <3>5, <2>1, <2>2, <2>6, <1>0
    <3> QED
      BY <3>4, <3>5
  <2> QED
    BY <2>5, <2>6
<1>5. ASSUME NEW k \in Listeners, phase[k] = "wait", poll_copy(k),
             UNCHANGED <<listener, queue, notifications>>
      PROVE  QuietUntilTold(l)'
  <2>1. /\ phase' = [phase EXCEPT ![k] = IF range[k] = <<>> THEN "end" ELSE "clear"]
        /\ UNCHANGED <<range, pos>>
    BY <1>5 DEF poll_copy, enter
  <2>2. CASE k = l
    <3>1. phase'[l] # "set" /\ phase'[l] # "wait"
      BY <2>1, <2>2, <1>0
    <3> QED
      BY <3>1, <1>2
  <2>3. CASE k # l
    BY <2>1, <2>3, <1>0, <1>1, <1>5
  <2> QED
    BY <2>2, <2>3
<1>6. ASSUME NEW k \in Listeners, poll_clear(k) PROVE QuietUntilTold(l)'
  <2>1. PICK p : p = range[k][pos[k]]
    OBVIOUS
  <2>2. /\ phase[k] = "clear" /\ pos[k] \in 1 .. Len(range[k]) /\ p \in Objects
        /\ UNCHANGED <<range, queue, notifications>>
        /\ listener' = [listener EXCEPT ![p] = nullptr]
    BY <2>1, <1>0, <1>6 DEF poll_clear, clear_listener
  <2>3. /\ \A j \in Listeners : j # k => phase'[j] = phase[j] /\ pos'[j] = pos[j]
        /\ phase'[k] \in {"clear", "end"}
    BY <2>2, <1>0, <1>6 DEF poll_clear, next_queue
  <2>4. CASE k = l
    <3>1. phase'[l] # "set" /\ phase'[l] # "wait"
      BY <2>3, <2>4
    <3> QED
      BY <3>1, <1>2
  <2>5. CASE k # l
    <3>1. phase[l] \in {"set", "wait"} => \A i \in 1 .. Len(range[l]) : range[l][i] # p
      BY <2>1, <2>2, <2>5 DEF PollsApart
    <3>2. phase[l] \notin {"set", "wait"} => QuietUntilTold(l)'
      <4>1. phase'[l] = phase[l]
        BY <2>3, <2>5
      <4> QED
        BY <4>1, <1>2
    <3>3. phase[l] \in {"set", "wait"} => QuietUntilTold(l)'
      <4>1. phase[l] \in {"set", "wait"} =>
              \A i \in 1 .. Len(range[l]) : listener'[range[l][i]] = listener[range[l][i]]
        BY <3>1, <2>2, <1>0
      <4> QED
        BY <4>1, <2>2, <2>3, <2>5, <1>0, OthersKeepQuiet
    <3> QED
      BY <3>2, <3>3
  <2> QED
    BY <2>4, <2>5
<1>7. ASSUME NEW k \in Listeners, poll_end(k) PROVE QuietUntilTold(l)'
  <2>1. /\ phase' = [phase EXCEPT ![k] = "out"]
        /\ notifications' = [notifications EXCEPT ![k] = <<>>]
        /\ range' = [range EXCEPT ![k] = <<>>]
        /\ UNCHANGED <<listener, queue, pos>>
    BY <1>7 DEF poll_end
  <2>2. CASE k = l
    <3>1. phase'[l] # "set" /\ phase'[l] # "wait"
      BY <2>1, <2>2, <1>0
    <3> QED
      BY <3>1, <1>2
  <2>3. CASE k # l
    <3>1. notifications'[l] = notifications[l]
      BY <2>1, <2>3
    <3> QED
      BY <2>1, <2>3, <3>1, <1>0, OthersKeepQuiet
  <2> QED
    BY <2>2, <2>3
<1>8. ASSUME NEW k \in Listeners, PollStep(k) \/ Timeout(k) PROVE QuietUntilTold(l)'
  <2>1. CASE poll_sleep(k)
    BY <2>1, <1>1 DEF poll_sleep
  <2> QED
    BY <2>1, <1>4, <1>5, <1>6, <1>7, <1>8
       DEF PollStep, poll_step, Timeout, poll_timeout, poll_return, mqvars
<1>9. CASE \/ \E o \in Objects : Push(o) \/ \E d \in Objects : Move(d, o)
           \/ \E k \in Listeners : Consume(k)
  <2>1. UNCHANGED <<phase, pos, range>> /\ (notifications'[l] # <<>> \/ Unheard(l))
    BY <1>0, <1>9, OthersAreHeard DEF pollvars, callvars
  <2> QED
    BY <2>1, <1>0, OthersKeepQuiet DEF Unheard
<1>10. CASE Tick \/ UNCHANGED vars \/ \E k \in Listeners : SpuriousWakeup(k)
  BY <1>1, <1>10 DEF Tick, vars, mqvars, pollvars, callvars, SpuriousWakeup, poll_spurious_wakeup
<1> QED
  BY <1>3, <1>8, <1>9, <1>10 DEF Next

LEMMA SleepKept == Types /\ SleepsUntilTold /\ [Next]_vars => SleepsUntilTold'
<1> SUFFICES ASSUME Types, SleepsUntilTold, [Next]_vars, NEW l \in asleep'
             PROVE  phase'[l] = "wait" /\ notifications'[l] = <<>>
  BY DEF SleepsUntilTold
<1>0. /\ asleep \subseteq Listeners
      /\ phase \in [Listeners -> {"out", "set", "wait", "clear", "end"}]
      /\ notifications \in [Listeners -> Seq(Records)]
      /\ l \in asleep => l \in Listeners /\ phase[l] = "wait" /\ notifications[l] = <<>>
  BY DEF SleepsUntilTold, Types, TypeOK, MQTypeOK, PollTypeOK, Records
<1>1. ASSUME l \in asleep, phase'[l] = phase[l], notifications'[l] = notifications[l]
      PROVE  phase'[l] = "wait" /\ notifications'[l] = <<>>
  BY <1>0, <1>1
<1>2. ASSUME NEW k \in Listeners, PollBegin(k) \/ poll_end(k)
      PROVE  phase'[l] = "wait" /\ notifications'[l] = <<>>
  <2>1. /\ asleep' = asleep /\ phase[k] # "wait"
        /\ k # l => phase'[l] = phase[l] /\ notifications'[l] = notifications[l]
    BY <1>0, <1>2 DEF PollBegin, poll_begin, enter, poll_end, mqvars
  <2> QED
    BY <2>1, <1>0, <1>1
<1>3. ASSUME NEW k \in Listeners, poll_set(k)
      PROVE  phase'[l] = "wait" /\ notifications'[l] = <<>>
  <2>1. /\ asleep' \subseteq asleep /\ phase[k] = "set"
        /\ \A j \in Listeners : j # k => phase'[j] = phase[j] /\ notifications'[j] = notifications[j]
    BY <1>0, <1>3, SetIsHeard DEF poll_set, next_queue
  <2> QED
    BY <2>1, <1>0, <1>1
<1>4. ASSUME NEW k \in Listeners, poll_clear(k)
      PROVE  phase'[l] = "wait" /\ notifications'[l] = <<>>
  <2>1. /\ asleep' = asleep /\ phase[k] = "clear" /\ notifications' = notifications
        /\ \A j \in Listeners : j # k => phase'[j] = phase[j]
    BY <1>0, <1>4 DEF poll_clear, clear_listener, next_queue
  <2> QED
    BY <2>1, <1>0, <1>1
<1>5. ASSUME NEW k \in Listeners, poll_return(k) \/ poll_timeout(k)
      PROVE  phase'[l] = "wait" /\ notifications'[l] = <<>>
  <2>1. /\ asleep' \subseteq asleep /\ k \notin asleep' /\ notifications' = notifications
        /\ \A j \in Listeners : j # k => phase'[j] = phase[j]
    BY <1>0, <1>5 DEF poll_return, poll_timeout, poll_copy, enter, mqvars
  <2> QED
    BY <2>1, <1>0, <1>1
<1>6. ASSUME NEW k \in Listeners, poll_sleep(k)
      PROVE  phase'[l] = "wait" /\ notifications'[l] = <<>>
  <2>1. /\ asleep' = asleep \cup {k} /\ phase[k] = "wait" /\ notifications[k] = <<>>
        /\ UNCHANGED <<phase, notifications>>
    BY <1>6 DEF poll_sleep, nothing_to_wait_for
  <2> QED
    BY <2>1, <1>0, <1>1
<1>7. CASE \/ \E o \in Objects : Push(o) \/ \E d \in Objects : Move(d, o)
           \/ \E k \in Listeners : Consume(k)
  <2>1. /\ UNCHANGED phase /\ asleep' \subseteq asleep
        /\ \A k \in Listeners : k \in asleep' => notifications'[k] = notifications[k]
    BY <1>7, OthersAreHeard DEF pollvars, callvars, Unheard
  <2> QED
    BY <2>1, <1>0, <1>1
<1>8. CASE Tick \/ UNCHANGED vars \/ \E k \in Listeners : SpuriousWakeup(k)
  <2>1. asleep' \subseteq asleep /\ UNCHANGED <<phase, notifications>>
    BY <1>8 DEF Tick, vars, mqvars, pollvars, callvars, SpuriousWakeup, poll_spurious_wakeup
  <2> QED
    BY <2>1, <1>1
<1> QED
  BY <1>2, <1>3, <1>4, <1>5, <1>6, <1>7, <1>8 DEF Next, PollStep, poll_step, Timeout

LEMMA QuietInvariant == Spec /\ []PollsApart => []QInv
<1>1. Init => QInv
  BY InitTypes DEF Init, PollInit, QInv, ListenersHeld, SleepsUntilTold, QuietUntilTold
<1>2. QInv /\ PollsApart /\ [Next]_vars => QInv'
  BY TypesKept, ListenersHeldKept, SleepKept, QuietKept DEF QInv
<1> QED
  BY <1>1, <1>2, PTL DEF Spec

\* No wakeup is lost, however pushes, moves and other polls interleave with the
\* setting of the listeners, as long as no two polls under way share a queue:
\* of those, the second finds the listener of the first in the queue.
THEOREM NoWakeupIsLost == Spec /\ []PollsApart => []BlockedOnlyWhenQuiet
<1>1. QInv => BlockedOnlyWhenQuiet
  <2> SUFFICES ASSUME QInv, NEW l \in asleep
               PROVE  /\ notifications[l] = <<>>
                      /\ \A i \in 1 .. Len(range[l]) : ~has_message(range[l][i])
    BY DEF BlockedOnlyWhenQuiet
  <2>1. l \in Listeners /\ phase[l] = "wait" /\ notifications[l] = <<>>
    BY DEF QInv, SleepsUntilTold, Types, TypeOK, MQTypeOK
  <2>2. \A i \in 1 .. Len(range[l]) : queue[range[l][i]] = <<>>
    BY <2>1 DEF QInv, QuietUntilTold, SetFor
  <2> QED
    BY <2>1, <2>2 DEF has_message
<1> QED
  BY <1>1, QuietInvariant, PTL

\* In particular, no wakeup of a single poller is lost.
THEOREM OnePollerIsWoken ==
  ASSUME \A l, k \in Listeners : l = k
  PROVE  Spec => []BlockedOnlyWhenQuiet
<1>1. PollsApart
  BY DEF PollsApart
<1> QED
  BY <1>1, NoWakeupIsLost, PTL
-----------------------------------------------------------------------------
\* What a call has been told to wait for, and until when it waits.
Deadline(l) ==
  /\ began[l] <= clock
  /\ wtp[l].rel_time = 0 \/ wtp[l].abs_time = 0
  /\ until[l] # 0 =>
       /\ phase[l] = "wait" /\ ~wtp[l].wait_infinitely
       /\ IF wtp[l].abs_time = 0 THEN began[l] + wtp[l].rel_time <= until[l]
                                 ELSE until[l] = wtp[l].abs_time

Deadlines == clock >= 1 /\ \A l \in Listeners : Deadline(l)

LEMMA TimeFacts ==
  Types => /\ phase \in [Listeners -> {"out", "set", "wait", "clear", "end"}]
           /\ wtp \in [Listeners -> [rel_time : Int, abs_time : Int, wait_infinitely : BOOLEAN]]
           /\ until \in [Listeners -> Int] /\ clock \in Int /\ began \in [Listeners -> Int]
  BY DEF Types, TypeOK, PollTypeOK, CallTypes

LEMMA DeadlinesKept == Types /\ Deadlines /\ [Next]_vars => Deadlines'
<1> SUFFICES ASSUME Types, Deadlines, [Next]_vars PROVE Deadlines'
  OBVIOUS
<1>0. /\ phase \in [Listeners -> {"out", "set", "wait", "clear", "end"}]
      /\ wtp \in [Listeners -> [rel_time : Int, abs_time : Int, wait_infinitely : BOOLEAN]]
      /\ until \in [Listeners -> Int] /\ clock \in Int /\ began \in [Listeners -> Int]
      /\ clock >= 1 /\ \A l \in Listeners : Deadline(l)
  BY TimeFacts DEF Deadlines
<1>1. ASSUME clock' >= clock, clock' \in Int, UNCHANGED <<wtp, until, began, phase>>
      PROVE  Deadlines'
  BY <1>0, <1>1 DEF Deadlines, Deadline
\* A step of the call k.
<1>2. ASSUME NEW k \in Listeners, clock' = clock, Deadline(k)',
             \A l \in Listeners : l # k =>
               /\ phase'[l] = phase[l] /\ wtp'[l] = wtp[l]
               /\ until'[l] = until[l] /\ began'[l] = began[l]
      PROVE  Deadlines'
  <2>1. \A l \in Listeners : l # k => Deadline(l)'
    BY <1>0, <1>2 DEF Deadline
  <2> QED
    BY <2>1, <1>0, <1>2 DEF Deadlines
<1>3. ASSUME NEW k \in Listeners, PollBegin(k) PROVE Deadlines'
  <2>1. PICK r \in Ranges : \E w \in Waits : poll_begin(k, r, w)
    BY <1>3 DEF PollBegin
  <2>2. PICK w \in Waits : poll_begin(k, r, w)
    BY <2>1
  <2>3. /\ phase[k] = "out" /\ clock' = clock /\ until' = until
        /\ wtp' = [wtp EXCEPT ![k] = w]
        /\ began' = [began EXCEPT ![k] = clock]
        /\ \A l \in Listeners : l # k => phase'[l] = phase[l]
    BY <1>0, <1>3, <2>2 DEF PollBegin, poll_begin, enter
  <2>4. w.rel_time = 0 \/ w.abs_time = 0
    BY CallsAssumption DEF EMPTY_TIME_POINT
  <2>5. Deadline(k)'
    BY <2>3, <2>4, <1>0 DEF Deadline
  <2> QED
    BY <2>3, <2>5, <1>0, <1>2
<1>4. ASSUME NEW k \in Listeners, PollStep(k), poll_set(k) \/ poll_clear(k) PROVE Deadlines'
  <2>1. /\ phase[k] \in {"set", "clear"} /\ phase'[k] # "out" /\ UNCHANGED <<wtp, until, clock>>
        /\ \A l \in Listeners : l # k => phase'[l] = phase[l]
    BY <1>0, <1>4 DEF poll_set, poll_clear, next_queue
  <2>2. UNCHANGED began
    BY <2>1, <1>4 DEF PollStep
  <2>3. Deadline(k)'
    BY <2>1, <2>2, <1>0 DEF Deadline
  <2> QED
    BY <2>1, <2>2, <2>3, <1>2
<1>5. ASSUME NEW k \in Listeners, poll_copy(k), UNCHANGED began PROVE Deadlines'
  <2>1. /\ UNCHANGED <<wtp, clock>> /\ until' = [until EXCEPT ![k] = 0]
        /\ \A l \in Listeners : l # k => phase'[l] = phase[l]
    BY <1>0, <1>5 DEF poll_copy, enter, EMPTY_TIME_POINT
  <2>2. Deadline(k)'
    BY <2>1, <1>0, <1>5 DEF Deadline
  <2> QED
    BY <2>1, <2>2, <1>0, <1>2, <1>5
<1>6. ASSUME NEW k \in Listeners, PollStep(k), poll_return(k) PROVE Deadlines'
  <2>1. phase'[k] # "out"
    BY <1>0, <1>6 DEF poll_return, poll_copy, enter
  <2> QED
    BY <2>1, <1>5, <1>6 DEF PollStep, poll_return
<1>7. ASSUME NEW k \in Listeners, PollStep(k), poll_sleep(k) PROVE Deadlines'
  <2>1. /\ phase[k] = "wait" /\ UNCHANGED <<phase, wtp, clock>>
        /\ ~nothing_to_wait_for(k)
        /\ until' = IF wtp[k].wait_infinitely THEN until ELSE [until EXCEPT ![k] = abs_time(k)]
    BY <1>7 DEF poll_sleep
  <2>2. UNCHANGED began
    BY <2>1, <1>7 DEF PollStep
  <2>3. Deadline(k)'
    <3>1. CASE wtp[k].wait_infinitely
      BY <3>1, <2>1, <2>2, <1>0 DEF Deadline
    <3>2. CASE ~wtp[k].wait_infinitely
      <4>1. until'[k] = abs_time(k) /\ abs_time(k) # 0
        BY <3>2, <2>1, <1>0 DEF nothing_to_wait_for, is_time_point_empty, EMPTY_TIME_POINT
      <4>2. IF wtp[k].abs_time = 0 THEN began[k] + wtp[k].rel_time <= abs_time(k)
                                   ELSE abs_time(k) = wtp[k].abs_time
        BY <4>1, <1>0 DEF abs_time, get_time_point, is_time_point_empty, EMPTY_TIME_POINT, Deadline
      <4> QED
        BY <4>1, <4>2, <3>2, <2>1, <2>2, <1>0 DEF Deadline
    <3> QED
      BY <3>1, <3>2
  <2> QED
    BY <2>1, <2>2, <2>3, <1>0, <1>2
<1>8. ASSUME NEW k \in Listeners, PollStep(k), poll_end(k) PROVE Deadlines'
  <2>1. /\ phase[k] = "end" /\ phase' = [phase EXCEPT ![k] = "out"]
        /\ wtp' = [wtp EXCEPT ![k] = no_wait] /\ UNCHANGED <<until, clock>>
    BY <1>8 DEF poll_end
  <2>2. began' = [began EXCEPT ![k] = 0]
    BY <2>1, <1>0, <1>8 DEF PollStep
  <2>3. Deadline(k)'
    BY <2>1, <2>2, <1>0 DEF Deadline, no_wait, wait_time_provider, EMPTY_TIME_POINT
  <2> QED
    BY <2>1, <2>2, <2>3, <1>0, <1>2
<1>9. ASSUME NEW k \in Listeners, PollStep(k) \/ Timeout(k) PROVE Deadlines'
  BY <1>4, <1>5, <1>6, <1>7, <1>8, <1>9 DEF PollStep, poll_step, Timeout, poll_timeout
<1>10. CASE \/ \E o \in Objects : Push(o) \/ \E d \in Objects : Move(d, o)
            \/ \E k \in Listeners : Consume(k) \/ SpuriousWakeup(k)
            \/ UNCHANGED vars
  <2>1. UNCHANGED <<wtp, until, began, phase, clock>>
    BY <1>10 DEF Push, Move, Consume, SpuriousWakeup, poll_spurious_wakeup, vars, pollvars, callvars
  <2> QED
    BY <2>1, <1>0, <1>1
<1>11. CASE Tick
  BY <1>0, <1>1, <1>11 DEF Tick, callvars
<1> QED
  BY <1>3, <1>9, <1>10, <1>11 DEF Next

\* What no step of a poll does.
GivesUpInTime ==
  \A l \in Listeners : phase[l] = "wait" /\ phase'[l] # "wait" /\ result'[l] = <<>> =>
    /\ ~wtp[l].wait_infinitely
    /\ began[l] + wtp[l].rel_time <= clock /\ wtp[l].abs_time <= clock

LEMMA GivesUp == Types /\ Deadlines /\ [Next]_vars => GivesUpInTime
<1> SUFFICES ASSUME Types, Deadlines, [Next]_vars, NEW l \in Listeners,
                    phase[l] = "wait", phase'[l] # "wait", result'[l] = <<>>
             PROVE  /\ ~wtp[l].wait_infinitely
                    /\ began[l] + wtp[l].rel_time <= clock /\ wtp[l].abs_time <= clock
  BY DEF GivesUpInTime
<1>0. /\ phase \in [Listeners -> {"out", "set", "wait", "clear", "end"}]
      /\ wtp \in [Listeners -> [rel_time : Int, abs_time : Int, wait_infinitely : BOOLEAN]]
      /\ until \in [Listeners -> Int] /\ clock \in Int /\ began \in [Listeners -> Int]
      /\ clock >= 1 /\ \A k \in Listeners : Deadline(k)
  BY TimeFacts DEF Deadlines
<1>1. poll_return(l) \/ poll_timeout(l)
  <2>1. ASSUME NEW k \in Listeners, PollBegin(k) PROVE FALSE
    BY <2>1, <1>0 DEF PollBegin, poll_begin, enter
  <2>2. ASSUME NEW k \in Listeners, poll_set(k) \/ poll_clear(k) \/ poll_end(k) PROVE FALSE
    BY <2>2, <1>0 DEF poll_set, poll_clear, poll_end, next_queue
  <2>3. ASSUME NEW k \in Listeners, poll_copy(k) PROVE k = l
    BY <2>3, <1>0 DEF poll_copy, enter
  <2>4. UNCHANGED phase => FALSE
    OBVIOUS
  <2> QED
    BY <2>1, <2>2, <2>3, <2>4 
       DEF Next, PollStep, poll_step, poll_return, poll_sleep, Timeout, poll_timeout, SpuriousWakeup,
           poll_spurious_wakeup, Consume, Tick, Push, Move, vars, pollvars, callvars
<1>2. CASE poll_return(l)
  <2>1. /\ result'[l] = notifications[l] /\ nothing_to_wait_for(l)
    <3>1. result \in [Listeners -> Seq(Records)]
      BY DEF Types, CallTypes
    <3> QED
      BY <3>1, <1>2 DEF poll_return, poll_copy
  <2>2. ~wtp[l].wait_infinitely /\ abs_time(l) = 0
    BY <2>1 DEF nothing_to_wait_for, is_time_point_empty, EMPTY_TIME_POINT
  <2> QED
    BY <2>2, <1>0 DEF abs_time, get_time_point, is_time_point_empty, EMPTY_TIME_POINT, Deadline
<1>3. CASE poll_timeout(l)
  <2>1. until[l] # 0 /\ until[l] <= clock
    BY <1>3 DEF poll_timeout, time_is_up, is_time_point_empty, EMPTY_TIME_POINT
  <2>2. /\ until[l] \in Int /\ clock \in Int /\ began[l] \in Int
        /\ wtp[l].rel_time \in Int /\ wtp[l].abs_time \in Int /\ clock >= 1
    BY <1>0
  <2>3. Deadline(l)
    BY <1>0
  <2> QED
    BY <2>1, <2>2, <2>3 DEF Deadline
<1> QED
  BY <1>1, <1>2, <1>3

\* A poll that reports nothing has waited as long as it was told to, from its call
\* on, however often its thread was woken up before; a wait without end reports.
THEOREM NoPollGivesUpEarly == Spec => NothingOnlyAfterTime
<1>1. Init => Deadlines
  BY DEF Init, PollInit, Deadlines, Deadline, no_wait, wait_time_provider, EMPTY_TIME_POINT
<1>2. Types /\ Deadlines /\ [Next]_vars => Types' /\ Deadlines' /\ [GivesUpInTime]_vars
  BY TypesKept, DeadlinesKept, GivesUp
<1>3. [][GivesUpInTime]_vars => NothingOnlyAfterTime
  BY PTL DEF NothingOnlyAfterTime, GivesUpInTime
<1> QED
  BY <1>1, <1>2, <1>3, InitTypes, PTL DEF Spec
-----------------------------------------------------------------------------
\* While no queue is moved: a record says that the object has data, under its ID.
SaysData(r) == r.flags = {"data"} /\ r.mq \in Objects /\ r.qid = QidOf[r.mq]

\* Every record says so, and is right with the contents qs of the queues.
HasData(list, qs) == \A i \in 1 .. Len(list) : SaysData(list[i]) /\ qs[list[i].mq] # <<>>

\* A list of records without the first.
LEMMA TailOfList ==
  ASSUME NEW list \in Seq(Records), list # <<>>
  PROVE  /\ Tail(list) \in Seq(Records) /\ Head(list) = list[1] /\ 1 \in 1 .. Len(list)
         /\ Len(Tail(list)) = Len(list) - 1
         /\ \A i \in 1 .. Len(Tail(list)) : i + 1 \in 1 .. Len(list) /\ Tail(list)[i] = list[i + 1]
         /\ Ascending(list) => Ascending(Tail(list))
<1>1. /\ Len(list) \in Nat \ {0} /\ Tail(list) \in Seq(Records) /\ Head(list) = list[1]
      /\ Len(Tail(list)) = Len(list) - 1
      /\ \A i \in 1 .. Len(Tail(list)) : i + 1 \in 1 .. Len(list) /\ Tail(list)[i] = list[i + 1]
  BY EmptySeq, HeadTailProperties
<1>2. ASSUME Ascending(list) PROVE Ascending(Tail(list))
  <2> SUFFICES ASSUME NEW i \in 1 .. Len(Tail(list)), NEW j \in 1 .. Len(Tail(list)), i < j
               PROVE  Tail(list)[i].qid < Tail(list)[j].qid
    BY DEF Ascending
  <2>1. /\ i + 1 \in 1 .. Len(list) /\ j + 1 \in 1 .. Len(list) /\ i + 1 < j + 1
        /\ Tail(list)[i] = list[i + 1] /\ Tail(list)[j] = list[j + 1]
    BY <1>1
  <2> QED
    BY <2>1, <1>2 DEF Ascending
<1> QED
  BY <1>1, <1>2

\* The queue of the first record, which is in no other record, is popped.
LEMMA FirstIsPopped ==
  ASSUME NEW list \in Seq(Records), list # <<>>, Ascending(list), SaysData(Head(list)),
         NEW qs, NEW qs2, HasData(Tail(list), qs),
         \A o \in Objects : o # Head(list).mq => qs2[o] = qs[o]
  PROVE  HasData(Tail(list), qs2)
<1>1. /\ Head(list) = list[1] /\ 1 \in 1 .. Len(list) /\ Len(list) \in Nat
      /\ \A i \in 1 .. Len(Tail(list)) : i + 1 \in 1 .. Len(list) /\ Tail(list)[i] = list[i + 1]
  BY TailOfList
<1> SUFFICES ASSUME NEW i \in 1 .. Len(Tail(list))
             PROVE  SaysData(Tail(list)[i]) /\ qs2[Tail(list)[i].mq] # <<>>
  BY DEF HasData
<1>2. PICK r : r = Tail(list)[i]
  OBVIOUS
<1>3. SaysData(r) /\ qs[r.mq] # <<>>
  BY <1>2 DEF HasData
<1>4. list[1].qid < list[i + 1].qid /\ list[i + 1] = r
  BY <1>1, <1>2 DEF Ascending
<1>5. list[1] \in Records
  BY <1>1
<1>6. list[1].qid \in Nat
  BY <1>5, QidsInNat DEF Records, notification_rec_type
<1>7. r.mq # Head(list).mq
  BY <1>1, <1>3, <1>4, <1>6 DEF SaysData
<1> QED
  BY <1>2, <1>3, <1>7 DEF SaysData

\* Queue o, which has a message, is reported to a listener.
LEMMA DataIsTold ==
  ASSUME NEW list \in Seq(Records), Ascending(list), NEW o \in Objects,
         NEW qs, HasData(list, qs), qs[o] # <<>>
  PROVE  HasData(notified(list, QidOf[o], o, "data"), qs)
<1>1. QidOf[o] \in Qids /\ Qids \subseteq Nat /\ o \in Objects \cup {nullptr}
  BY QidsInNat DEF Qids
<1>2. "data" \in notification_flag
  BY Flags
<1>3. PICK new : new = notified(list, QidOf[o], o, "data")
  OBVIOUS
<1> SUFFICES ASSUME NEW i \in 1 .. Len(new)
             PROVE  SaysData(new[i]) /\ qs[new[i].mq] # <<>>
  BY <1>3 DEF HasData
<1>4. \/ new[i] = notification_rec(QidOf[o], o, "data")
      \/ \E j \in 1 .. Len(list) :
           new[i] = list[j] \/ new[i] = [list[j] EXCEPT !.flags = @ \cup {"data"}]
  BY <1>1, <1>2, <1>3, NotifiedRecords DEF Records
<1>5. CASE new[i] = notification_rec(QidOf[o], o, "data")
  BY <1>5 DEF notification_rec, SaysData
<1>6. ASSUME NEW j \in 1 .. Len(list),
             new[i] = list[j] \/ new[i] = [list[j] EXCEPT !.flags = @ \cup {"data"}]
      PROVE  SaysData(new[i]) /\ qs[new[i].mq] # <<>>
  <2>1. SaysData(list[j]) /\ qs[list[j].mq] # <<>> /\ list[j] \in Records
    BY DEF HasData
  <2>2. new[i].flags = {"data"} /\ new[i].mq = list[j].mq /\ new[i].qid = list[j].qid
    BY <1>6, <2>1 DEF SaysData, Records, notification_rec_type
  <2> QED
    BY <2>1, <2>2 DEF SaysData
<1> QED
  BY <1>4, <1>5, <1>6

\* What the poller of call l knows while no queue is moved.
Reported(l) ==
  /\ HasData(notifications[l], queue)
  /\ phase[l] \in {"clear", "end"} => HasData(result[l], queue) /\ Ascending(result[l])
  /\ Ascending(todo[l])
  /\ todo[l] # <<>> => SaysData(Head(todo[l])) /\ HasData(Tail(todo[l]), queue)

\* Between two calls there is no listener, and during a call no result to handle.
InTurns(l) == IF phase[l] = "out" THEN notifications[l] = <<>> ELSE todo[l] = <<>>

DataInv ==
  /\ Types /\ ListenersHeld
  /\ \A l \in Listeners : InTurns(l) /\ (moves = 0 => id = QidOf /\ Reported(l))

\* A step that leaves the call alone and takes no message.
LEMMA ReportedStays ==
  ASSUME NEW l \in Listeners, Reported(l), phase'[l] = phase[l], result'[l] = result[l],
         todo'[l] = todo[l], HasData(notifications'[l], queue'),
         \A o \in Objects : queue[o] # <<>> => queue'[o] # <<>>
  PROVE  Reported(l)'
<1>1. \A list : HasData(list, queue) => HasData(list, queue')
  BY DEF HasData, SaysData
<1> QED
  BY <1>1 DEF Reported

\* The listener of an object, if any, is told that it has data.
LEMMA ListenerHearsOfData ==
  ASSUME Types, NEW l \in Listeners, NEW o \in Objects, NEW k \in Listeners \cup {nullptr},
         NEW qs, HasData(notifications[l], qs), qs[o] # <<>>
  PROVE  HasData(notify(notifications, k, QidOf[o], o, "data")[l], qs)
<1>1. /\ notifications \in [Listeners -> Seq(Records)] /\ Ascending(notifications[l])
      /\ nullptr \notin Listeners
  BY ObjectsAssumption DEF Types, TypeOK, MQTypeOK, MQListsAscending, Records
<1>2. CASE k = l
  <2>1. HasData(notified(notifications[l], QidOf[o], o, "data"), qs)
    BY <1>1, DataIsTold
  <2> QED
    BY <2>1, <1>1, <1>2 DEF notify
<1>3. CASE k # l
  BY <1>1, <1>3 DEF notify
<1> QED
  BY <1>2, <1>3

LEMMA TurnsKept ==
  ASSUME \A l, k \in Listeners : l = k, DataInv, [Next]_vars, NEW l \in Listeners
  PROVE  InTurns(l)'
<1>0. /\ notifications \in [Listeners -> Seq(Records)] /\ todo \in [Listeners -> Seq(Records)]
      /\ phase \in [Listeners -> {"out", "set", "wait", "clear", "end"}]
      /\ pos \in [Listeners -> Nat] /\ range \in [Listeners -> Seq(Objects)]
      /\ listener \in [Objects -> Listeners \cup {nullptr}] /\ nullptr \notin Listeners
      /\ InTurns(l) /\ \A k \in Listeners : k = l
  BY ObjectsAssumption, CallFacts DEF DataInv, Types, TypeOK, MQTypeOK, PollTypeOK, CallTypes, Records
<1>1. ASSUME UNCHANGED <<notifications, phase, todo>> PROVE InTurns(l)'
  BY <1>0, <1>1 DEF InTurns
<1>2. ASSUME PollBegin(l) PROVE InTurns(l)'
  <2>1. UNCHANGED todo /\ todo[l] = <<>> /\ phase'[l] # "out"
    BY <1>0, <1>2 DEF PollBegin, poll_begin, enter
  <2> QED
    BY <2>1 DEF InTurns
<1>3. ASSUME PollStep(l) \/ Timeout(l) PROVE InTurns(l)'
  <2>1. CASE poll_end(l)
    BY <2>1, <1>0 DEF poll_end, InTurns
  <2>2. CASE poll_set(l) \/ poll_return(l) \/ poll_sleep(l) \/ poll_clear(l) \/ poll_timeout(l)
    <3>1. phase[l] # "out" /\ phase'[l] # "out"
      BY <2>2, <1>0 DEF poll_set, poll_return, poll_sleep, poll_clear, poll_timeout, poll_copy,
                        enter, next_queue
    <3>2. UNCHANGED todo
      BY <3>1, <2>2, <1>3 DEF PollStep, Timeout
    <3> QED
      BY <3>1, <3>2, <1>0 DEF InTurns
  <2> QED
    BY <2>1, <2>2, <1>3 DEF PollStep, Timeout, poll_step
<1>4. CASE SpuriousWakeup(l) \/ Tick \/ UNCHANGED vars
  BY <1>1, <1>4 DEF SpuriousWakeup, poll_spurious_wakeup, Tick, vars, mqvars, pollvars, callvars
<1>5. ASSUME Consume(l) PROVE InTurns(l)'
  <2>1. todo[l] # <<>> /\ UNCHANGED <<phase, notifications>>
    BY <1>5 DEF Consume, pop, mqvars, pollvars, callvars
  <2> QED
    BY <2>1, <1>0 DEF InTurns
\* Between two calls no queue has the listener.
<1>6. ASSUME UNCHANGED <<phase, todo>>,
             (\A o \in Objects : listener[o] # l) => notifications'[l] = notifications[l]
      PROVE  InTurns(l)'
  <2>1. ASSUME phase[l] = "out", NEW o \in Objects PROVE listener[o] # l
    BY <2>1, <1>0 DEF DataInv, ListenersHeld, HeldBy, SetFor
  <2> QED
    BY <2>1, <1>0, <1>6 DEF InTurns
<1>7. ASSUME NEW o \in Objects, Push(o) PROVE InTurns(l)'
  <2>1. UNCHANGED <<phase, todo>>
    BY <1>7 DEF Push, pollvars, callvars
  <2>2. \/ UNCHANGED notifications
        \/ notifications' = notify(notifications, listener[o], id[o], o, "data")
    BY <1>7 DEF Push, push, tell, mqvars
  <2>3. listener[o] # l => notifications'[l] = notifications[l]
    BY <2>2, <1>0 DEF notify
  <2> QED
    BY <2>1, <2>3, <1>6
<1>8. ASSUME NEW o \in Objects, NEW d \in Objects, Move(d, o) PROVE InTurns(l)'
  <2>1. UNCHANGED <<phase, todo>>
    BY <1>8 DEF Move, pollvars, callvars
  <2>2. PICK ns : ns = notify(notifications, listener[d], id[d], d, "detached")
    OBVIOUS
  <2>3. notifications' = notify(ns, listener[o], id[o], o, "detached")
    BY <2>2, <1>8 DEF Move, move_assign, move, tell_both
  <2>4. listener[d] # l => DOMAIN ns = Listeners /\ ns[l] = notifications[l]
    BY <2>2, <1>0 DEF notify
  <2>5. listener[d] # l /\ listener[o] # l => notifications'[l] = notifications[l]
    BY <2>3, <2>4, <1>0 DEF notify
  <2> QED
    BY <2>1, <2>5, <1>6
<1> QED
  BY <1>0, <1>2, <1>3, <1>4, <1>5, <1>7, <1>8 DEF Next

LEMMA ReportedKept ==
  ASSUME \A l, k \in Listeners : l = k, DataInv, [Next]_vars, moves' = 0, NEW l \in Listeners
  PROVE  id' = QidOf /\ Reported(l)'
<1>0. /\ notifications \in [Listeners -> Seq(Records)] /\ todo \in [Listeners -> Seq(Records)]
      /\ result \in [Listeners -> Seq(Records)] /\ queue \in [Objects -> Seq(Messages)]
      /\ phase \in [Listeners -> {"out", "set", "wait", "clear", "end"}]
      /\ pos \in [Listeners -> Nat] /\ range \in [Listeners -> Seq(Objects)]
      /\ listener \in [Objects -> Listeners \cup {nullptr}] /\ moves \in Nat
      /\ Types /\ InTurns(l) /\ Ascending(notifications[l])
  <2>1. Types /\ InTurns(l)
    BY DEF DataInv
  <2>2. notifications \in [Listeners -> Seq(Records)] /\ queue \in [Objects -> Seq(Messages)]
    BY <2>1 DEF Types, TypeOK, MQTypeOK, Records, Messages
  <2>3. moves \in Nat /\ Ascending(notifications[l])
    BY <2>1, BoundsAssumption DEF Types, TypeOK, MQListsAscending
  <2> QED
    BY <2>1, <2>2, <2>3, CallFacts DEF Types, CallTypes
<1>1. moves = 0 /\ ~\E o, d \in Objects : Move(d, o)
  BY <1>0 DEF Next, Move, PollBegin, PollStep, Timeout, SpuriousWakeup, Consume, Tick, Push,
              counters, vars
<1>2. id = QidOf /\ Reported(l) /\ \A k \in Listeners : k = l
  BY <1>1 DEF DataInv
<1>3. id' = QidOf
  BY <1>1, <1>2 DEF Next, PollBegin, PollStep, Timeout, SpuriousWakeup, Consume, Tick, Push, vars,
     poll_begin, poll_step, poll_set, poll_return, poll_sleep, poll_clear, poll_end, set_listener,
     clear_listener, poll_timeout, poll_spurious_wakeup, pop, push, mqvars
<1>4. ASSUME UNCHANGED <<queue, notifications, todo>>, phase'[l] = phase[l], result'[l] = result[l]
      PROVE  Reported(l)'
  BY <1>2, <1>4 DEF Reported
<1>5. ASSUME UNCHANGED <<queue, notifications, todo>>, phase'[l] \notin {"clear", "end"}
      PROVE  Reported(l)'
  BY <1>2, <1>5 DEF Reported
<1>6. ASSUME PollBegin(l) PROVE Reported(l)'
  <2>1. UNCHANGED <<queue, notifications, todo>> /\ phase'[l] \in {"set", "wait"}
    BY <1>0, <1>6 DEF PollBegin, poll_begin, enter, mqvars
  <2> QED
    BY <2>1, <1>5
<1>7. ASSUME PollStep(l), poll_set(l) PROVE Reported(l)'
  <2>1. PICK p : p = range[l][pos[l]]
    OBVIOUS
  <2>2. p \in Objects /\ phase[l] = "set"
    BY <2>1, <1>0, <1>7, CallFacts DEF poll_set
  <2>3. phase'[l] \in {"set", "wait"} /\ UNCHANGED <<queue, todo>>
    BY <2>2, <1>0, <1>7 DEF PollStep, poll_set, next_queue, set_listener, mqvars
  <2>4. \/ UNCHANGED notifications
        \/ queue[p] # <<>> /\ notifications' = notify(notifications, l, id[p], p, "data")
    BY <2>1, <1>7 DEF poll_set, set_listener, reports, tell, mqvars
  <2>5. HasData(notifications'[l], queue)
    BY <2>2, <2>4, <1>0, <1>2, ListenerHearsOfData DEF Reported
  <2> QED
    BY <2>3, <2>5, <1>2 DEF Reported
<1>8. ASSUME PollStep(l) \/ Timeout(l), phase[l] = "wait", poll_copy(l), UNCHANGED <<queue, notifications>>
      PROVE  Reported(l)'
  <2>1. result'[l] = notifications[l] /\ phase'[l] \in {"clear", "end"}
    BY <1>0, <1>8 DEF poll_copy, enter
  <2>2. UNCHANGED todo
    BY <2>1, <1>8 DEF PollStep, Timeout
  <2> QED
    BY <2>1, <2>2, <1>0, <1>2, <1>8 DEF Reported
<1>9. ASSUME PollStep(l), poll_sleep(l) \/ poll_clear(l) PROVE Reported(l)'
  <2>1. /\ UNCHANGED <<queue, notifications, result>>
        /\ \/ phase'[l] = phase[l] /\ phase[l] # "out"
           \/ phase[l] = "clear" /\ phase'[l] \in {"clear", "end"}
    BY <1>0, <1>9 DEF poll_sleep, poll_clear, clear_listener, next_queue
  <2>2. UNCHANGED todo
    BY <2>1, <1>0, <1>9 DEF PollStep
  <2> QED
    BY <2>1, <2>2, <1>2 DEF Reported
\* The result becomes what the poller has to handle.
<1>10. ASSUME PollStep(l), poll_end(l) PROVE Reported(l)'
  <2>1. /\ phase[l] = "end" /\ phase'[l] = "out" /\ notifications'[l] = <<>> /\ queue' = queue
        /\ todo'[l] = result[l]
    BY <1>0, <1>10 DEF PollStep, poll_end
  <2>2. HasData(result[l], queue) /\ Ascending(result[l]) /\ result[l] \in Seq(Records)
    BY <2>1, <1>0, <1>2 DEF Reported
  <2>3. HasData(<<>>, queue')
    BY DEF HasData
  <2>4. ASSUME result[l] # <<>> PROVE SaysData(Head(result[l])) /\ HasData(Tail(result[l]), queue)
    BY <2>2, <2>4, TailOfList DEF HasData
  <2> QED
    BY <2>1, <2>2, <2>3, <2>4 DEF Reported
<1>11. ASSUME PollStep(l) \/ Timeout(l) PROVE Reported(l)'
  BY <1>7, <1>8, <1>9, <1>10, <1>11
     DEF PollStep, poll_step, Timeout, poll_timeout, poll_return, mqvars
\* The queue of the first record is popped, or the record is done with.
<1>12. ASSUME Consume(l) PROVE Reported(l)'
  <2>1. PICK rest : rest = todo[l]
    OBVIOUS
  <2>2. /\ rest # <<>> /\ rest \in Seq(Records) /\ Ascending(rest)
        /\ SaysData(Head(rest)) /\ HasData(Tail(rest), queue)
    BY <2>1, <1>0, <1>2, <1>12 DEF Consume, Reported
  <2>3. phase[l] = "out" /\ phase'[l] = "out" /\ notifications'[l] = <<>>
    <3>1. phase[l] = "out" /\ notifications[l] = <<>>
      BY <2>1, <2>2, <1>0 DEF InTurns
    <3> QED
      BY <3>1, <1>12 DEF Consume, pollvars, callvars, pop, mqvars
  <2>4. HasData(notifications'[l], queue')
    BY <2>3 DEF HasData
  <2>5. CASE queue' = queue /\ todo' = [todo EXCEPT ![l] = Tail(@)]
    <3>1. todo'[l] = Tail(rest) /\ Tail(rest) \in Seq(Records) /\ Ascending(Tail(rest))
      BY <2>1, <2>2, <2>5, <1>0, TailOfList
    <3>2. ASSUME Tail(rest) # <<>>
          PROVE  SaysData(Head(Tail(rest))) /\ HasData(Tail(Tail(rest)), queue)
      <4>1. PICK t : t = Tail(rest)
        OBVIOUS
      <4>2. /\ t \in Seq(Records) /\ t # <<>>
            /\ \A i \in 1 .. Len(t) : SaysData(t[i]) /\ queue[t[i].mq] # <<>>
        BY <3>1, <3>2, <2>2, <4>1 DEF HasData
      <4>3. SaysData(Head(t)) /\ HasData(Tail(t), queue)
        BY <4>2, TailOfList DEF HasData
      <4> QED
        BY <4>1, <4>3
    <3> QED
      BY <3>1, <3>2, <2>3, <2>4, <2>5 DEF Reported
  <2>6. CASE todo' = todo /\ pop(Head(rest).mq)
    <3>1. \A o \in Objects : o # Head(rest).mq => queue'[o] = queue[o]
      BY <2>6, <1>0 DEF pop
    <3>2. HasData(Tail(rest), queue')
      BY <3>1, <2>2, FirstIsPopped
    <3> QED
      BY <3>2, <2>1, <2>2, <2>3, <2>4, <2>6 DEF Reported
  <2> QED
    BY <2>1, <2>5, <2>6, <1>12 DEF Consume, mqvars
<1>13. ASSUME NEW o \in Objects, Push(o) PROVE Reported(l)'
  <2>1. UNCHANGED <<phase, result, todo>>
    BY <1>13 DEF Push, pollvars, callvars
  <2>2. PICK m \in Messages : push(o, m)
    <3>1. id[o] \in Qids /\ created + 1 \in 1 .. MaxMessages
      BY <1>0, <1>13, BoundsAssumption DEF Push, Types, TypeOK, MQTypeOK
    <3> QED
      BY <3>1, <1>13 DEF Push, message, Messages
  <2>3. CASE UNCHANGED mqvars
    BY <2>1, <2>3, <1>4 DEF mqvars
  <2>4. CASE /\ queue' = [queue EXCEPT ![o] = Append(@, m)]
             /\ IF queue[o] = <<>>
                THEN notifications' = notify(notifications, listener[o], id[o], o, "data")
                ELSE UNCHANGED notifications
    <3>1. \A p \in Objects : queue[p] # <<>> => queue'[p] # <<>>
      <4>1. queue[o] \in Seq(Messages)
        BY <1>0
      <4>2. Append(queue[o], m) # <<>>
        BY <4>1, AppendProperties
      <4> QED
        BY <4>2, <2>4, <1>0
    <3>2. queue'[o] # <<>>
      BY <3>1, <2>4, <1>0
    <3>3. HasData(notifications[l], queue')
      BY <3>1, <1>2 DEF Reported, HasData, SaysData
    <3>4. HasData(notifications'[l], queue')
      BY <3>2, <3>3, <2>4, <1>0, <1>2, ListenerHearsOfData
    <3> QED
      BY <3>1, <3>4, <2>1, <1>2, ReportedStays
  <2> QED
    BY <2>2, <2>3, <2>4 DEF push, push_back, first_message, tell
<1>14. ASSUME SpuriousWakeup(l) \/ Tick \/ UNCHANGED vars PROVE Reported(l)'
  <2>1. UNCHANGED <<queue, notifications, todo, phase, result>>
    BY <1>14 DEF SpuriousWakeup, poll_spurious_wakeup, Tick, vars, mqvars, pollvars, callvars
  <2> QED
    BY <2>1, <1>4
<1>15. Reported(l)'
  BY <1>1, <1>2, <1>6, <1>11, <1>12, <1>13, <1>14 DEF Next
<1> QED
  BY <1>3, <1>15

\* Whatever is pushed meanwhile, each record that the worker of a pool has yet to
\* handle is about a queue that has a message for it, as long as it is the only
\* one who polls, and pops, and no queue is moved.
THEOREM ReportsAreTrue ==
  ASSUME \A l, k \in Listeners : l = k
  PROVE  Spec => []ReportedQueueHasData
<1>1. Init => DataInv
  <2> SUFFICES ASSUME Init PROVE DataInv
    OBVIOUS
  <2>1. Types /\ ListenersHeld
    BY InitTypes DEF Init, ListenersHeld
  <2> QED
    BY <2>1 DEF Init, PollInit, DataInv, InTurns, Reported, HasData, Ascending
<1>2. DataInv /\ [Next]_vars => DataInv'
  <2> SUFFICES ASSUME DataInv, [Next]_vars PROVE DataInv'
    OBVIOUS
  <2>1. Types' /\ ListenersHeld'
    BY TypesKept, ListenersHeldKept DEF DataInv
  <2>2. \A l \in Listeners : InTurns(l)' /\ (moves' = 0 => id' = QidOf /\ Reported(l)')
    BY TurnsKept, ReportedKept
  <2> QED
    BY <2>1, <2>2 DEF DataInv
<1>3. DataInv => ReportedQueueHasData
  <2> SUFFICES ASSUME DataInv, moves = 0, NEW l \in Listeners,
                      todo[l] # <<>> \/ phase[l] \in {"clear", "end"}
               PROVE  LET list == IF phase[l] = "out" THEN Tail(todo[l]) ELSE result[l]
                      IN  \A i \in 1 .. Len(list) : list[i].flags = {"data"} /\ has_message(list[i].mq)
    BY DEF ReportedQueueHasData
  <2>1. HasData(IF phase[l] = "out" THEN Tail(todo[l]) ELSE result[l], queue) /\ id = QidOf
    BY DEF DataInv, InTurns, Reported
  <2> QED
    BY <2>1, ObjectsAssumption DEF HasData, SaysData, has_message
<1> QED
  BY <1>1, <1>2, <1>3, PTL DEF Spec
=============================================================================
