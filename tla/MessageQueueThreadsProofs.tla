---------------------- MODULE MessageQueueThreadsProofs ----------------------
(***************************************************************************)
(* Message queues used by several threads, for any number of objects,      *)
(* threads, listeners and IDs and any interleaving of pushes, pops, moves  *)
(* and destructions: no message of a queue is lost, duplicated or          *)
(* reordered, listeners are told what they have to know, and the queues    *)
(* implement a channel for each ID.                                        *)
(***************************************************************************)
EXTENDS MessageQueueThreads, MessageQueueProofs

\* An ID that was never given to a queue has no messages and no owner, and an
\* address where no object lives has no ID.
FreshQids ==
  /\ \A q \in Qids \ used : accepted[q] = <<>> /\ taken[q] = <<>>
  /\ \A o \in Objects : id[o] # undefined_qid => id[o] \in used
  /\ \A o \in Objects \ alive : id[o] = undefined_qid

\* The inductive invariant. UniqueQid makes NothingLost a statement about one
\* object for each ID; OwnMessages says which history a popped message joins.
IInv ==
  /\ TypeOK /\ MQListsAscending
  /\ FreshQids /\ UniqueQid /\ OwnMessages /\ NothingLost /\ TakenInOrder

LEMMA AnyQidInNat == AnyQid \subseteq Nat /\ undefined_qid \in AnyQid
  BY QidsAssumption DEF AnyQid

LEMMA InitIInv == Init => IInv
<1> SUFFICES ASSUME Init PROVE IInv
  OBVIOUS
<1>1. MQInv(AnyQid, Messages)
  BY AnyQidInNat, MQInitInv DEF Init
<1>2. TypeOK /\ MQListsAscending
  BY <1>1 DEF Init, TypeOK, MQInv
<1>3. FreshQids /\ UniqueQid /\ OwnMessages /\ NothingLost
  BY DEF Init, MQInit, FreshQids, UniqueQid, OwnMessages, NothingLost
<1>4. TakenInOrder
  BY DEF Init, TakenInOrder, IsPrefix
<1> QED
  BY <1>2, <1>3, <1>4 DEF IInv

\* Every action keeps the types and the order of the listeners' lists.
LEMMA TypesKept == IInv /\ [Next]_vars => TypeOK' /\ MQListsAscending'
<1> SUFFICES ASSUME IInv, [Next]_vars PROVE TypeOK' /\ MQListsAscending'
  OBVIOUS
<1>0. /\ MQInv(AnyQid, Messages)
      /\ used \subseteq Qids
      /\ held \in [Threads -> SUBSET [object : Objects, msg : Messages]]
      /\ created \in Nat
      /\ accepted \in [Qids -> Seq(Messages)]
      /\ taken \in [Qids -> Seq(Messages)]
  BY DEF IInv, TypeOK, MQInv
<1>1. ASSUME NEW o \in Objects, NEW q \in Qids, Construct(o, q)
      PROVE  TypeOK' /\ MQListsAscending'
  <2>1. MQInv(AnyQid, Messages)'
    BY <1>0, <1>1, AnyQidInNat, MQLifetimeInv DEF Construct, AnyQid
  <2> QED
    BY <2>1, <1>0, <1>1 DEF Construct, history, TypeOK, MQInv
<1>2. ASSUME NEW o \in Objects, NEW p \in Objects, MoveConstruct(o, p) \/ MoveAssign(o, p) \/ Destroy(o)
      PROVE  TypeOK' /\ MQListsAscending'
  <2>1. MQInv(AnyQid, Messages)'
    BY <1>0, <1>2, AnyQidInNat, MQLifetimeInv DEF MoveConstruct, MoveAssign, Destroy
  <2> QED
    BY <2>1, <1>0, <1>2 DEF MoveConstruct, MoveAssign, Destroy, history, TypeOK, MQInv
<1>3. ASSUME NEW o \in Objects, ClearListener(o) \/ \E l \in Listeners : SetListener(o, l)
      PROVE  TypeOK' /\ MQListsAscending'
  <2>1. MQInv(AnyQid, Messages)'
    BY <1>0, <1>3, AnyQidInNat, MQUseInv DEF SetListener, ClearListener
  <2> QED
    BY <2>1, <1>0, <1>3 DEF SetListener, ClearListener, history, TypeOK, MQInv
<1>4. ASSUME NEW o \in Objects, Pop(o)
      PROVE  TypeOK' /\ MQListsAscending'
  <2>1. MQInv(AnyQid, Messages)'
    BY <1>0, <1>4, AnyQidInNat, MQUseInv DEF Pop
  <2>2. taken' \in [Qids -> Seq(Messages)]
    <3>1. CASE has_message(o)
      <4>1. Head(queue[o]) \in Messages
        BY <1>0, <3>1, HeadTailProperties DEF has_message, MQInv, MQTypeOK
      <4>2. taken' = [taken EXCEPT ![Head(queue[o]).qid] = Append(@, Head(queue[o]))]
        BY <1>4, <3>1 DEF Pop
      <4> DEFINE q == Head(queue[o]).qid
                 s == Append(taken[q], Head(queue[o]))
      <4>3. q \in Qids => s \in Seq(Messages)
        BY <1>0, <4>1, AppendProperties
      <4> HIDE DEF q, s
      <4>4. taken' = [taken EXCEPT ![q] = s]
        BY <4>2 DEF q, s
      <4> QED
        BY <1>0, <4>3, <4>4
    <3>2. CASE ~has_message(o)
      BY <1>0, <1>4, <3>2 DEF Pop
    <3> QED
      BY <3>1, <3>2
  <2> QED
    BY <2>1, <2>2, <1>0, <1>4 DEF Pop, TypeOK, MQInv
<1>5. ASSUME NEW t \in Threads, NEW o \in Objects, NewMessage(t, o)
      PROVE  TypeOK' /\ MQListsAscending'
  <2>1. message(id[o], created + 1) \in Messages
    BY <1>0 DEF message, Messages, MQInv, MQTypeOK
  <2>2. held' \in [Threads -> SUBSET [object : Objects, msg : Messages]]
    BY <1>0, <1>5, <2>1 DEF NewMessage
  <2>3. MQInv(AnyQid, Messages)'
    BY <1>0, <1>5 DEF NewMessage, mqvars, MQInv, MQTypeOK, MQListsAscending
  <2> QED
    BY <2>2, <2>3, <1>0, <1>5 DEF NewMessage, history, TypeOK, MQInv
<1>6. ASSUME NEW t \in Threads, Push(t)
      PROVE  TypeOK' /\ MQListsAscending'
  <2>1. PICK c \in held[t] :
          /\ push(c.object, c.msg)
          /\ held' = [held EXCEPT ![t] = {}]
          /\ accepted' = IF accepts(c.object, c.msg)
                         THEN [accepted EXCEPT ![c.msg.qid] = Append(@, c.msg)] ELSE accepted
          /\ UNCHANGED <<used, created, taken>>
    BY <1>6 DEF Push
  <2>2. c.object \in Objects /\ c.msg \in Messages
    BY <1>0
  <2>3. MQInv(AnyQid, Messages)'
    BY <1>0, <2>1, <2>2, AnyQidInNat, MQUseInv
  <2>4. accepted' \in [Qids -> Seq(Messages)]
    <3> DEFINE s == Append(accepted[c.msg.qid], c.msg)
    <3>1. c.msg.qid \in Qids => s \in Seq(Messages)
      BY <1>0, <2>2, AppendProperties
    <3> HIDE DEF s
    <3>2. accepted' = accepted \/ accepted' = [accepted EXCEPT ![c.msg.qid] = s]
      BY <2>1 DEF s
    <3> QED
      BY <1>0, <3>1, <3>2
  <2>5. held' \in [Threads -> SUBSET [object : Objects, msg : Messages]]
    BY <1>0, <2>1
  <2> QED
    BY <1>0, <2>1, <2>3, <2>4, <2>5 DEF TypeOK, MQInv
<1>7. CASE UNCHANGED vars
  BY <1>0, <1>7 DEF vars, mqvars, history, TypeOK, MQInv, MQTypeOK, MQListsAscending
<1> QED
  BY <1>1, <1>2, <1>3, <1>4, <1>5, <1>6, <1>7 DEF Next

\* What moves, pushes and pops do to sequences.
LEMMA PrefixOfConcat ==
  ASSUME NEW S, NEW s \in Seq(S), NEW t \in Seq(S)
  PROVE  IsPrefix(s, s \o t)
<1> DEFINE u == s \o t
<1>1. /\ Len(s) \in Nat /\ Len(t) \in Nat /\ Len(u) = Len(s) + Len(t)
      /\ u \in Seq(S)
      /\ \A i \in 1 .. Len(s) : u[i] = s[i]
  BY ConcatProperties
<1> HIDE DEF u
<1>2. SubSeq(s, 1, Len(s)) = SubSeq(u, 1, Len(s))
  BY <1>1, SubSeqProperties
<1> QED
  BY <1>1, <1>2 DEF IsPrefix, u

LEMMA PrefixOfAppend ==
  ASSUME NEW S, NEW s \in Seq(S), NEW t \in Seq(S), IsPrefix(s, t), NEW m \in S
  PROVE  IsPrefix(s, Append(t, m))
<1> DEFINE u == Append(t, m)
<1>1. /\ Len(s) \in Nat /\ Len(t) \in Nat /\ Len(u) = Len(t) + 1 /\ u \in Seq(S)
      /\ \A i \in 1 .. Len(t) : u[i] = t[i]
  BY AppendProperties
<1>2. Len(s) <= Len(t) /\ SubSeq(s, 1, Len(s)) = SubSeq(t, 1, Len(s))
  BY DEF IsPrefix
<1> HIDE DEF u
<1>3. SubSeq(t, 1, Len(s)) = SubSeq(u, 1, Len(s))
  BY <1>1, <1>2, SubSeqProperties
<1> QED
  BY <1>1, <1>2, <1>3 DEF IsPrefix, u

\* A message appended to what is queued is appended to the whole history.
\* The operator keeps the sequences out of the provers' sight where the lemma
\* is used.
Extends(a, s, t, b, u) == a = s \o t => b = s \o u

LEMMA AppendExtends ==
  ASSUME NEW S, NEW a, NEW s \in Seq(S), NEW t \in Seq(S), NEW m \in S
  PROVE  Extends(a, s, t, Append(a, m), Append(t, m))
<1> SUFFICES ASSUME a = s \o t PROVE Append(s \o t, m) = s \o Append(t, m)
  BY DEF Extends
<1>1. s \o t \in Seq(S) /\ <<m>> \in Seq(S)
  BY ConcatProperties
<1>2. Append(s \o t, m) = (s \o t) \o <<m>> /\ Append(t, m) = t \o <<m>>
  BY <1>1, AppendIsConcat
<1>3. (s \o t) \o <<m>> = s \o (t \o <<m>>)
  BY <1>1, ConcatAssociative
<1> QED
  BY <1>2, <1>3

LEMMA HeadToTaken ==
  ASSUME NEW S, NEW s \in Seq(S), NEW t \in Seq(S), t # <<>>
  PROVE  /\ Head(t) \in S /\ Tail(t) \in Seq(S) /\ Head(t) = t[1]
         /\ s \o t = Append(s, Head(t)) \o Tail(t)
<1>1. /\ Head(t) \in S /\ Tail(t) \in Seq(S) /\ Head(t) = t[1]
      /\ Len(t) \in Nat /\ 1 \in 1 .. Len(t) /\ Len(t) \in 1 .. Len(t)
  BY HeadTailProperties, LenProperties
<1>2. t = <<Head(t)>> \o Tail(t)
  BY <1>1, SubSeqRecursiveFirst, SubSeqFull, TailIsSubSeq
<1>3. <<Head(t)>> \in Seq(S)
  BY <1>1
<1>4. (s \o <<Head(t)>>) \o Tail(t) = s \o (<<Head(t)>> \o Tail(t))
  BY <1>1, <1>3, ConcatAssociative
<1>5. Append(s, Head(t)) = s \o <<Head(t)>>
  BY <1>1, AppendIsConcat
<1> QED
  BY <1>1, <1>2, <1>4, <1>5

\* A step that gives queue and ID of o to n, or that drops them, keeps the
\* messages of the IDs that remain: n is an object or an address that is free.
LEMMA OrderMoved ==
  ASSUME IInv, NEW n \in Objects, NEW o \in Objects, UNCHANGED <<used, history>>,
         \/ /\ n # o
            /\ id' = [id EXCEPT ![n] = id[o], ![o] = undefined_qid]
            /\ queue' = [queue EXCEPT ![n] = queue[o], ![o] = <<>>]
         \/ /\ id' = [id EXCEPT ![o] = undefined_qid]
            /\ queue' = [queue EXCEPT ![o] = <<>>]
         \/ UNCHANGED <<id, queue>>
  PROVE  UniqueQid' /\ OwnMessages' /\ NothingLost' /\ TakenInOrder'
<1>1. id \in [Objects -> AnyQid] /\ queue \in [Objects -> Seq(Messages)]
  BY DEF IInv, TypeOK, MQTypeOK
<1>2. UniqueQid'
  <2>1. UniqueQid
    BY DEF IInv
  <2>2. CASE n # o /\ id' = [id EXCEPT ![n] = id[o], ![o] = undefined_qid]
    BY <2>1, <2>2, <1>1 DEF UniqueQid
  <2>3. CASE id' = [id EXCEPT ![o] = undefined_qid]
    BY <2>1, <2>3, <1>1 DEF UniqueQid
  <2>4. CASE UNCHANGED id
    BY <2>1, <2>4 DEF UniqueQid
  <2> QED
    BY <2>2, <2>3, <2>4
<1>3. OwnMessages'
  BY <1>1 DEF IInv, OwnMessages
<1>4. NothingLost'
  BY <1>1 DEF IInv, NothingLost, history
<1>5. TakenInOrder'
  BY DEF IInv, TakenInOrder, history
<1> QED
  BY <1>2, <1>3, <1>4, <1>5

LEMMA OrderKept ==
  IInv /\ [Next]_vars => FreshQids' /\ UniqueQid' /\ OwnMessages' /\ NothingLost' /\ TakenInOrder'
<1> DEFINE Goal == FreshQids /\ UniqueQid /\ OwnMessages /\ NothingLost /\ TakenInOrder
<1> SUFFICES ASSUME IInv, [Next]_vars PROVE Goal'
  OBVIOUS
<1>0. /\ alive \subseteq Objects
      /\ id \in [Objects -> AnyQid] /\ queue \in [Objects -> Seq(Messages)]
      /\ used \subseteq Qids
      /\ held \in [Threads -> SUBSET [object : Objects, msg : Messages]]
      /\ accepted \in [Qids -> Seq(Messages)] /\ taken \in [Qids -> Seq(Messages)]
  BY DEF IInv, TypeOK, MQTypeOK
<1>1. ASSUME NEW o \in Objects, NEW q \in Qids, Construct(o, q) PROVE Goal'
  <2>1. /\ id' = [id EXCEPT ![o] = q] /\ used' = used \cup {q} /\ alive' = alive \cup {o}
        /\ UNCHANGED <<queue, accepted, taken>>
        /\ q \notin used /\ id[o] = undefined_qid /\ q # undefined_qid
    BY <1>1, QidsAssumption DEF Construct, construct, history, IInv, FreshQids
  <2>2. queue[o] = <<>>
    BY <2>1, <1>0, EmptySeq DEF IInv, OwnMessages
  <2>3. FreshQids'
    BY <2>1, <1>0 DEF IInv, FreshQids
  <2>4. \A p \in Objects : id[p] # q
    BY <2>1, QidsAssumption DEF IInv, FreshQids
  <2>5. UniqueQid'
    BY <2>1, <2>4, <1>0 DEF IInv, UniqueQid
  <2>6. OwnMessages'
    BY <2>1, <2>2, <1>0 DEF IInv, OwnMessages
  <2>7. NothingLost'
    <3>1. accepted[q] = <<>> /\ taken[q] = <<>> /\ <<>> \o <<>> = <<>>
      BY <2>1 DEF IInv, FreshQids
    <3> QED
      BY <2>1, <2>2, <3>1, <1>0 DEF IInv, NothingLost
  <2>8. TakenInOrder'
    BY <2>1 DEF IInv, TakenInOrder
  <2> QED
    BY <2>3, <2>5, <2>6, <2>7, <2>8
<1>2. ASSUME NEW o \in Objects, NEW p \in Objects, MoveConstruct(o, p) \/ MoveAssign(o, p) PROVE Goal'
  <2>1. /\ o # p /\ p \in alive /\ UNCHANGED <<used, accepted, taken>>
        /\ id' = [id EXCEPT ![o] = id[p], ![p] = undefined_qid]
        /\ queue' = [queue EXCEPT ![o] = queue[p], ![p] = <<>>]
        /\ alive \subseteq alive' /\ o \in alive'
    BY <1>2 DEF MoveConstruct, MoveAssign, move_construct, move_assign, move, move_id, move_queue, history
  <2>2. FreshQids'
    BY <2>1, <1>0 DEF IInv, FreshQids
  <2> QED
    BY <2>1, <2>2, OrderMoved DEF history
<1>3. ASSUME NEW o \in Objects, Destroy(o) PROVE Goal'
  <2>1. /\ UNCHANGED <<used, accepted, taken>> /\ alive' = alive \ {o}
        /\ id' = [id EXCEPT ![o] = undefined_qid] /\ queue' = [queue EXCEPT ![o] = <<>>]
    BY <1>3 DEF Destroy, destroy, history
  <2>2. FreshQids'
    BY <2>1, <1>0 DEF IInv, FreshQids
  <2> QED
    BY <2>1, <2>2, OrderMoved DEF history
<1>4. ASSUME UNCHANGED <<alive, id, queue, used, history>> PROVE Goal'
  BY <1>4 DEF IInv, FreshQids, UniqueQid, OwnMessages, NothingLost, TakenInOrder, history
<1>5. ASSUME NEW o \in Objects, Pop(o), has_message(o) PROVE Goal'
  <2> DEFINE q == id[o]
             m == Head(queue[o])
  <2>1. /\ q \in Qids /\ queue[o] # <<>> /\ q # undefined_qid
        /\ UNCHANGED <<alive, id, used, accepted>>
        /\ queue' = [queue EXCEPT ![o] = Tail(@)]
        /\ taken' = [taken EXCEPT ![m.qid] = Append(@, m)]
    BY <1>0, <1>5 DEF Pop, pop, has_message, AnyQid
  <2>2. /\ m \in Messages /\ Tail(queue[o]) \in Seq(Messages) /\ m = queue[o][1]
        /\ taken[q] \o queue[o] = Append(taken[q], m) \o Tail(queue[o])
    BY <2>1, <1>0, HeadToTaken
  <2>3. m.qid = q
    <3>1. 1 \in 1 .. Len(queue[o])
      BY <2>1, <1>0, LenProperties
    <3> QED
      BY <3>1, <2>2 DEF IInv, OwnMessages
  <2>4. taken' = [taken EXCEPT ![q] = Append(@, m)]
    BY <2>1, <2>3
  <2>5. q \in used
    BY <2>1 DEF IInv, FreshQids
  <2> HIDE DEF m
  <2>6. FreshQids'
    BY <2>1, <2>4, <2>5, <1>0 DEF IInv, FreshQids
  <2>7. UniqueQid'
    BY <2>1 DEF IInv, UniqueQid
  <2>8. OwnMessages'
    <3>1. /\ Len(Tail(queue[o])) = Len(queue[o]) - 1 /\ Len(queue[o]) \in Nat
          /\ \A i \in 1 .. Len(Tail(queue[o])) : Tail(queue[o])[i] = queue[o][i + 1]
      BY <2>1, <1>0, HeadTailProperties, LenProperties
    <3>2. \A i \in 1 .. Len(Tail(queue[o])) : Tail(queue[o])[i].qid = q
      BY <3>1 DEF IInv, OwnMessages
    <3> QED
      BY <2>1, <3>2, <1>0 DEF IInv, OwnMessages
  <2>9. NothingLost'
    <3>1. \A p \in Objects : p # o /\ id[p] # undefined_qid => id[p] # q
      BY <2>1 DEF IInv, UniqueQid
    <3>2. accepted[q] = taken[q] \o queue[o]
      BY <2>1 DEF IInv, NothingLost
    <3>3. accepted'[q] = taken'[q] \o queue'[o]
      <4>1. taken'[q] = Append(taken[q], m) /\ queue'[o] = Tail(queue[o]) /\ accepted'[q] = accepted[q]
        BY <2>1, <2>4, <1>0
      <4> QED
        BY <4>1, <2>2, <3>2
    <3>4. ASSUME NEW p \in Objects, p # o, id[p] # undefined_qid
          PROVE  accepted'[id[p]] = taken'[id[p]] \o queue'[p]
      <4>1. /\ accepted'[id[p]] = accepted[id[p]] /\ taken'[id[p]] = taken[id[p]]
            /\ queue'[p] = queue[p]
        BY <2>1, <2>4, <3>1, <3>4, <1>0
      <4> QED
        BY <4>1, <3>4 DEF IInv, NothingLost
    <3> QED
      BY <2>1, <3>3, <3>4 DEF NothingLost
  <2>10. TakenInOrder'
    <3>1. accepted[q] = Append(taken[q], m) \o Tail(queue[o])
      BY <2>1, <2>2 DEF IInv, NothingLost
    <3>2. Append(taken[q], m) \in Seq(Messages)
      BY <2>1, <2>2, <1>0, AppendProperties
    <3>3. IsPrefix(Append(taken[q], m), accepted[q])
      BY <2>2, <3>1, <3>2, PrefixOfConcat
    <3> QED
      BY <2>1, <2>4, <3>3, <1>0 DEF IInv, TakenInOrder
  <2> QED
    BY <2>6, <2>7, <2>8, <2>9, <2>10
<1>6. ASSUME NEW t \in Threads, Push(t) PROVE Goal'
  <2>1. PICK c \in held[t] :
          /\ push(c.object, c.msg)
          /\ accepted' = IF accepts(c.object, c.msg)
                         THEN [accepted EXCEPT ![c.msg.qid] = Append(@, c.msg)] ELSE accepted
          /\ UNCHANGED <<used, created, taken>>
    BY <1>6 DEF Push
  <2> DEFINE o == c.object
             m == c.msg
             q == id[o]
  <2>2. o \in Objects /\ m \in Messages
    BY <1>0
  <2>3. CASE ~accepts(o, m)
    BY <2>1, <2>3, <1>4 DEF push, mqvars, history
  <2>4. CASE accepts(o, m)
    <3>1. /\ q # undefined_qid /\ m.qid = q /\ q \in Qids /\ q \in used
          /\ UNCHANGED <<alive, id, used, taken>>
          /\ queue' = [queue EXCEPT ![o] = Append(@, m)]
          /\ accepted' = [accepted EXCEPT ![q] = Append(@, m)]
      BY <2>1, <2>2, <2>4, <1>0 DEF push, push_back, accepts, AnyQid, IInv, FreshQids
    <3> HIDE DEF o, m
    <3>2. FreshQids'
      BY <3>1, <1>0 DEF IInv, FreshQids
    <3>3. UniqueQid'
      BY <3>1 DEF IInv, UniqueQid
    <3>4. OwnMessages'
      <4>1. /\ Len(queue[o]) \in Nat /\ Len(Append(queue[o], m)) = Len(queue[o]) + 1
            /\ \A i \in 1 .. Len(queue[o]) : Append(queue[o], m)[i] = queue[o][i]
            /\ Append(queue[o], m)[Len(queue[o]) + 1] = m
        BY <2>2, <1>0, AppendProperties, LenProperties
      <4>2. \A i \in 1 .. Len(Append(queue[o], m)) : Append(queue[o], m)[i].qid = q
        BY <4>1, <3>1, <2>2 DEF IInv, OwnMessages
      <4> QED
        BY <3>1, <4>2, <2>2, <1>0 DEF IInv, OwnMessages
    <3>5. NothingLost'
      <4>1. /\ taken'[q] = taken[q] /\ queue'[o] = Append(queue[o], m)
            /\ accepted'[q] = Append(accepted[q], m)
        BY <3>1, <2>2, <1>0
      <4>2. taken[q] \in Seq(Messages) /\ queue[o] \in Seq(Messages)
        BY <3>1, <2>2, <1>0
      <4>3. accepted[q] = taken[q] \o queue[o]
        BY <3>1, <2>2 DEF IInv, NothingLost
      <4>4. Extends(accepted[q], taken[q], queue[o], Append(accepted[q], m), Append(queue[o], m))
        BY <4>2, <2>2, AppendExtends
      <4>5. accepted'[q] = taken'[q] \o queue'[o]
        BY <4>1, <4>3, <4>4 DEF Extends
      <4>6. ASSUME NEW p \in Objects, p # o, id[p] # undefined_qid
            PROVE  accepted'[id[p]] = taken'[id[p]] \o queue'[p]
        <5>1. id[p] # q
          BY <4>6, <3>1, <2>2 DEF IInv, UniqueQid
        <5>2. /\ accepted'[id[p]] = accepted[id[p]] /\ taken'[id[p]] = taken[id[p]]
              /\ queue'[p] = queue[p]
          BY <3>1, <5>1, <4>6, <1>0
        <5> QED
          BY <5>2, <4>6 DEF IInv, NothingLost
      <4> QED
        BY <3>1, <4>5, <4>6 DEF NothingLost
    <3>6. TakenInOrder'
      <4>1. IsPrefix(taken[q], Append(accepted[q], m))
        BY <3>1, <2>2, <1>0, PrefixOfAppend DEF IInv, TakenInOrder
      <4> QED
        BY <4>1, <3>1, <1>0 DEF IInv, TakenInOrder
    <3> QED
      BY <3>2, <3>3, <3>4, <3>5, <3>6
  <2> QED
    BY <2>3, <2>4
<1>7. ASSUME NEW o \in Objects,
             \/ Pop(o) /\ ~has_message(o)
             \/ ClearListener(o)
             \/ \E l \in Listeners : SetListener(o, l)
             \/ \E t \in Threads : NewMessage(t, o)
      PROVE  Goal'
  BY <1>4, <1>7 DEF Pop, pop, ClearListener, clear_listener, SetListener, set_listener,
                    NewMessage, mqvars, history
<1>8. CASE UNCHANGED vars
  BY <1>4, <1>8 DEF vars, mqvars, history
<1> QED
  BY <1>1, <1>2, <1>3, <1>5, <1>6, <1>7, <1>8 DEF Next

\* The invariant holds in every state.
LEMMA KeptInvariant == Spec => []IInv
<1>1. IInv /\ [Next]_vars => IInv'
  BY TypesKept, OrderKept DEF IInv
<1> QED
  BY InitIInv, <1>1, PTL DEF Spec

\* Every message that push accepted stays in its queue until pop returns it,
\* in the order of the pushes, and is never in two queues.
THEOREM MessagesKept == Spec => [](OwnMessages /\ NothingLost /\ TakenInOrder)
<1>1. IInv => OwnMessages /\ NothingLost /\ TakenInOrder
  BY DEF IInv
<1> QED
  BY KeptInvariant, <1>1, PTL

\* An ID has one owner at most, whatever is moved into whatever else: no two
\* queues accept messages for the same ID.
THEOREM OneQueuePerQid == Spec => []UniqueQid
<1>1. IInv => UniqueQid
  BY DEF IInv
<1> QED
  BY KeptInvariant, <1>1, PTL

\* Members, lists and histories keep their types across all the methods.
THEOREM QueueTypes == Spec => []TypeOK
<1>1. IInv => TypeOK
  BY DEF IInv
<1> QED
  BY KeptInvariant, <1>1, PTL
-----------------------------------------------------------------------------
\* The listener of a message queue knows of the data that waits in it, and is
\* told when the queue goes away.

\* No record of a listener loses a flag from the lists ns to the lists ms.
FlagsGrow(ns, ms) ==
  \A k \in Listeners, p \in AnyQid : flags_of(ns[k], p) \subseteq flags_of(ms[k], p)

\* A notification adds its flag, under the ID that it is made with, and takes
\* none away.
LEMMA FlagReported ==
  ASSUME NEW ns, Lists(ns, AnyQid), NEW l \in Listeners \cup {nullptr}, NEW q \in AnyQid,
         NEW mq \in Objects \cup {nullptr}, NEW flag \in notification_flag
  PROVE  /\ FlagsGrow(ns, notify(ns, l, q, mq, flag))
         /\ l # nullptr => flag \in flags_of(notify(ns, l, q, mq, flag)[l], q)
<1>1. CASE l = nullptr
  BY <1>1 DEF notify, FlagsGrow
<1>2. CASE l # nullptr
  <2> DEFINE new == notified(ns[l], q, mq, flag)
  <2>1. /\ l \in Listeners /\ Ascending(ns[l])
        /\ ns[l] \in Seq(notification_rec_type(AnyQid, Objects \cup {nullptr}))
    BY <1>2 DEF Lists
  <2>2. \A p \in AnyQid : flags_of(ns[l], p) \subseteq flags_of(new, p)
    <3> SUFFICES ASSUME NEW p \in AnyQid, NEW f \in flags_of(ns[l], p)
                 PROVE  f \in flags_of(new, p)
      OBVIOUS
    <3> QED
      BY <2>1, AnyQidInNat, NotifiedFlags
  <2>3. flag \in flags_of(new, q)
    BY <2>1, AnyQidInNat, NotifiedFlags
  <2>4. notify(ns, l, q, mq, flag) = [ns EXCEPT ![l] = new] /\ DOMAIN ns = Listeners
    BY <1>2 DEF notify, Lists
  <2> HIDE DEF new
  <2>5. /\ notify(ns, l, q, mq, flag)[l] = new
        /\ \A k \in Listeners : k # l => notify(ns, l, q, mq, flag)[k] = ns[k]
    BY <2>1, <2>4
  <2> QED
    BY <2>2, <2>3, <2>5 DEF FlagsGrow
<1> QED
  BY <1>1, <1>2

\* The two notifications of a move: each listener is told under its own ID.
LEMMA BothReported ==
  ASSUME IInv, NEW n \in Objects, NEW o \in Objects
  PROVE  /\ FlagsGrow(notifications, tell_both(n, o))
         /\ listener[n] # nullptr => "detached" \in flags_of(tell_both(n, o)[listener[n]], id[n])
         /\ listener[o] # nullptr => "detached" \in flags_of(tell_both(n, o)[listener[o]], id[o])
<1> DEFINE ns == notify(notifications, listener[n], id[n], n, "detached")
           ms == notify(ns, listener[o], id[o], o, "detached")
<1>1. /\ Lists(notifications, AnyQid) /\ "detached" \in notification_flag
      /\ listener[n] \in Listeners \cup {nullptr} /\ listener[o] \in Listeners \cup {nullptr}
      /\ id[n] \in AnyQid /\ id[o] \in AnyQid
  BY Flags DEF IInv, TypeOK, MQTypeOK, MQListsAscending, Lists
<1>2. /\ FlagsGrow(notifications, ns)
      /\ listener[n] # nullptr => "detached" \in flags_of(ns[listener[n]], id[n])
  BY <1>1, FlagReported
<1>3. Lists(ns, AnyQid)
  BY <1>1, AnyQidInNat, ListsNotified
<1> HIDE DEF ns
<1>4. /\ FlagsGrow(ns, ms)
      /\ listener[o] # nullptr => "detached" \in flags_of(ms[listener[o]], id[o])
  BY <1>1, <1>3, FlagReported
<1>5. tell_both(n, o) = ms
  BY DEF tell_both, ns
<1> HIDE DEF ms
<1> QED
  BY <1>1, <1>2, <1>4, <1>5 DEF FlagsGrow
-----------------------------------------------------------------------------
\* An address where no object lives has no listener.
DeadUnheard == \A o \in Objects \ alive : listener[o] = nullptr

\* The inductive invariant: an empty queue has nothing to report, by
\* OwnMessages one without an ID, and a new object starts without a listener.
RInv == IInv /\ DataReported /\ DeadUnheard

LEMMA DeadUnheardKept == RInv /\ [Next]_vars => DeadUnheard'
<1> SUFFICES ASSUME RInv, [Next]_vars PROVE DeadUnheard'
  OBVIOUS
<1>0. alive \subseteq Objects /\ listener \in [Objects -> Listeners \cup {nullptr}] /\ DeadUnheard
  BY DEF RInv, IInv, TypeOK, MQTypeOK
<1>1. ASSUME NEW o \in Objects,
             \/ \E q \in Qids : Construct(o, q)
             \/ \E p \in Objects : MoveConstruct(o, p) \/ MoveAssign(o, p)
             \/ Destroy(o) \/ Pop(o) \/ ClearListener(o)
             \/ \E l \in Listeners : SetListener(o, l)
      PROVE  DeadUnheard'
  BY <1>0, <1>1 DEF DeadUnheard, Construct, construct, MoveConstruct, move_construct, MoveAssign,
       move_assign, move, drop_listeners, Destroy, destroy, Pop, pop, ClearListener, clear_listener,
       SetListener, set_listener, mqvars
<1>2. ASSUME NEW t \in Threads, Push(t) \/ \E o \in Objects : NewMessage(t, o) PROVE DeadUnheard'
  BY <1>0, <1>2 DEF DeadUnheard, Push, push, NewMessage, mqvars
<1>3. CASE UNCHANGED vars
  BY <1>0, <1>3 DEF DeadUnheard, vars, mqvars
<1> QED
  BY <1>1, <1>2, <1>3 DEF Next

LEMMA DataReportedKept == RInv /\ [Next]_vars => DataReported'
<1> SUFFICES ASSUME RInv, [Next]_vars PROVE DataReported'
  OBVIOUS
<1>0. /\ id \in [Objects -> AnyQid] /\ queue \in [Objects -> Seq(Messages)]
      /\ listener \in [Objects -> Listeners \cup {nullptr}]
      /\ held \in [Threads -> SUBSET [object : Objects, msg : Messages]]
      /\ Lists(notifications, AnyQid) /\ DataReported /\ "data" \in notification_flag
  BY Flags DEF RInv, IInv, TypeOK, MQTypeOK, MQListsAscending, Lists
\* An object whose queue had messages, under the same ID and with the same
\* listener, is still reported.
<1>1. ASSUME FlagsGrow(notifications, notifications'),
             NEW o \in Objects, listener'[o] = listener[o], id'[o] = id[o],
             queue[o] # <<>>, listener[o] # nullptr
      PROVE  "data" \in flags_of(notifications'[listener'[o]], id'[o])
  <2>1. "data" \in flags_of(notifications[listener[o]], id[o])
    BY <1>0, <1>1 DEF DataReported
  <2>2. listener[o] \in Listeners /\ id[o] \in AnyQid
    BY <1>0, <1>1
  <2> QED
    BY <1>1, <2>1, <2>2 DEF FlagsGrow
<1>2. UNCHANGED notifications => FlagsGrow(notifications, notifications')
  BY DEF FlagsGrow
<1>3. ASSUME NEW o \in Objects, NEW q \in Qids, Construct(o, q) PROVE DataReported'
  <2>1. /\ id' = [id EXCEPT ![o] = q] /\ UNCHANGED <<queue, listener, notifications>>
        /\ id[o] = undefined_qid
    BY <1>3 DEF Construct, construct, RInv, IInv, FreshQids
  <2>2. queue[o] = <<>>
    BY <2>1, <1>0, EmptySeq DEF RInv, IInv, OwnMessages
  <2> QED
    BY <2>1, <2>2, <1>0, <1>1, <1>2 DEF DataReported
<1>4. ASSUME NEW o \in Objects, NEW p \in Objects, MoveConstruct(o, p) \/ MoveAssign(o, p)
      PROVE  DataReported'
  <2>1. /\ o # p
        /\ id' = [id EXCEPT ![o] = id[p], ![p] = undefined_qid]
        /\ queue' = [queue EXCEPT ![o] = queue[p], ![p] = <<>>]
        /\ listener' = [listener EXCEPT ![o] = nullptr, ![p] = nullptr]
        /\ notifications' = tell_both(o, p)
    BY <1>4 DEF MoveConstruct, MoveAssign, move_construct, move_assign, move, move_id, move_queue,
                drop_listeners
  <2>2. FlagsGrow(notifications, notifications')
    BY <2>1, BothReported DEF RInv
  <2> QED
    BY <2>1, <2>2, <1>0, <1>1 DEF DataReported
<1>5. ASSUME NEW o \in Objects, Destroy(o) PROVE DataReported'
  <2>1. /\ id' = [id EXCEPT ![o] = undefined_qid] /\ queue' = [queue EXCEPT ![o] = <<>>]
        /\ listener' = [listener EXCEPT ![o] = nullptr]
        /\ notifications' = notify(notifications, listener[o], id[o], nullptr, "closed")
    BY <1>5 DEF Destroy, destroy, tell
  <2>2. FlagsGrow(notifications, notifications')
    BY <2>1, <1>0, FlagReported, Flags
  <2> QED
    BY <2>1, <2>2, <1>0, <1>1 DEF DataReported
<1>6. ASSUME NEW o \in Objects, Pop(o) PROVE DataReported'
  <2>1. /\ UNCHANGED <<id, listener, notifications>>
        /\ \A p \in Objects : queue'[p] # <<>> => queue[p] # <<>>
    BY <1>0, <1>6 DEF Pop, pop, has_message
  <2> QED
    BY <2>1, <1>0, <1>1, <1>2 DEF DataReported
<1>7. ASSUME NEW t \in Threads, Push(t) PROVE DataReported'
  <2>1. PICK c \in held[t] : push(c.object, c.msg)
    BY <1>7 DEF Push
  <2> DEFINE o == c.object
  <2>2. o \in Objects
    BY <1>0
  <2> HIDE DEF o
  <2>3. CASE UNCHANGED <<id, queue, listener, notifications>>
    BY <2>3, <1>0, <1>1, <1>2 DEF DataReported
  <2>4. CASE /\ \A p \in Objects : p # o => queue'[p] = queue[p]
             /\ UNCHANGED <<id, listener>>
             /\ IF queue[o] = <<>>
                THEN notifications' = notify(notifications, listener[o], id[o], o, "data")
                ELSE UNCHANGED notifications
    <3>1. /\ FlagsGrow(notifications, notifications')
          /\ queue[o] = <<>> /\ listener[o] # nullptr =>
               "data" \in flags_of(notifications'[listener[o]], id[o])
      BY <2>2, <2>4, <1>0, <1>2, FlagReported
    <3> QED
      BY <2>2, <2>4, <3>1, <1>0, <1>1 DEF DataReported
  <2> QED
    BY <2>1, <2>3, <2>4, <1>0 DEF push, push_back, first_message, tell, mqvars, o
<1>8. ASSUME NEW o \in Objects, NEW l \in Listeners, SetListener(o, l) PROVE DataReported'
  <2>1. CASE UNCHANGED <<id, queue, listener, notifications>>
    BY <2>1, <1>0, <1>1, <1>2 DEF DataReported
  <2>2. CASE /\ listener' = [listener EXCEPT ![o] = l]
             /\ UNCHANGED <<id, queue>>
             /\ IF queue[o] # <<>>
                THEN notifications' = notify(notifications, l, id[o], o, "data")
                ELSE UNCHANGED notifications
    <3>1. l # nullptr
      BY NullptrAssumption
    <3>2. /\ FlagsGrow(notifications, notifications')
          /\ queue[o] # <<>> => "data" \in flags_of(notifications'[l], id[o])
      BY <2>2, <3>1, <1>0, <1>2, FlagReported
    <3> QED
      BY <2>2, <3>2, <1>0, <1>1 DEF DataReported
  <2> QED
    BY <2>1, <2>2, <1>8 DEF SetListener, set_listener, reports, tell, mqvars
<1>9. ASSUME NEW o \in Objects, ClearListener(o) PROVE DataReported'
  <2>1. listener' = [listener EXCEPT ![o] = nullptr] /\ UNCHANGED <<id, queue, notifications>>
    BY <1>9 DEF ClearListener, clear_listener
  <2> QED
    BY <2>1, <1>0, <1>1, <1>2 DEF DataReported
<1>10. CASE UNCHANGED vars \/ \E t \in Threads, o \in Objects : NewMessage(t, o)
  <2>1. UNCHANGED <<id, queue, listener, notifications>>
    BY <1>10 DEF vars, NewMessage, mqvars
  <2> QED
    BY <2>1, <1>0, <1>1, <1>2 DEF DataReported
<1> QED
  BY <1>3, <1>4, <1>5, <1>6, <1>7, <1>8, <1>9, <1>10 DEF Next

\* What a step may never do to a queue with a listener.
Departure ==
  \A o \in Objects :
    listener[o] # nullptr /\ (o \notin alive' \/ id'[o] # id[o]) =>
      /\ listener'[o] = nullptr
      /\ flags_of(notifications'[listener[o]], id[o]) \cap {"detached", "closed"} # {}

LEMMA DepartureOfStep == RInv /\ [Next]_vars => Departure
<1> SUFFICES ASSUME RInv, [Next]_vars,
                    NEW o \in Objects, listener[o] # nullptr, o \notin alive' \/ id'[o] # id[o]
             PROVE  /\ listener'[o] = nullptr
                    /\ \/ "detached" \in flags_of(notifications'[listener[o]], id[o])
                       \/ "closed" \in flags_of(notifications'[listener[o]], id[o])
  BY DEF Departure
<1>0. /\ o \in alive
      /\ id \in [Objects -> AnyQid]
      /\ listener \in [Objects -> Listeners \cup {nullptr}]
      /\ Lists(notifications, AnyQid) /\ IInv
  BY DEF RInv, DeadUnheard, IInv, TypeOK, MQTypeOK, MQListsAscending, Lists
<1>1. ASSUME NEW n \in Objects, NEW p \in Objects, MoveConstruct(n, p) \/ MoveAssign(n, p)
      PROVE  listener'[o] = nullptr /\ "detached" \in flags_of(notifications'[listener[o]], id[o])
  <2>1. /\ alive \subseteq alive'
        /\ id' = [id EXCEPT ![n] = id[p], ![p] = undefined_qid]
        /\ listener' = [listener EXCEPT ![n] = nullptr, ![p] = nullptr]
        /\ notifications' = tell_both(n, p)
    BY <1>1 DEF MoveConstruct, MoveAssign, move_construct, move_assign, move, move_id, drop_listeners
  <2>2. o = n \/ o = p
    BY <2>1, <1>0
  <2> QED
    BY <2>1, <2>2, <1>0, BothReported
<1>2. ASSUME NEW n \in Objects, Destroy(n)
      PROVE  listener'[o] = nullptr /\ "closed" \in flags_of(notifications'[listener[o]], id[o])
  <2>1. /\ alive' = alive \ {n} /\ id' = [id EXCEPT ![n] = undefined_qid]
        /\ listener' = [listener EXCEPT ![n] = nullptr]
        /\ notifications' = notify(notifications, listener[n], id[n], nullptr, "closed")
    BY <1>2 DEF Destroy, destroy, tell
  <2>2. o = n
    BY <2>1, <1>0
  <2> QED
    BY <2>1, <2>2, <1>0, FlagReported, Flags
<1>3. ASSUME NEW n \in Objects, NEW q \in Qids, Construct(n, q) PROVE FALSE
  BY <1>0, <1>3 DEF Construct, construct
<1>4. ASSUME UNCHANGED <<alive, id>> PROVE FALSE
  BY <1>0, <1>4
<1>5. CASE \/ \E n \in Objects : \/ Pop(n) \/ ClearListener(n)
                                 \/ \E l \in Listeners : SetListener(n, l)
                                 \/ \E t \in Threads : NewMessage(t, n)
           \/ \E t \in Threads : Push(t)
           \/ UNCHANGED vars
  BY <1>4, <1>5 DEF Pop, pop, ClearListener, clear_listener, SetListener, set_listener, NewMessage,
                    Push, push, vars, mqvars
<1> QED
  BY <1>1, <1>2, <1>3, <1>5 DEF Next

LEMMA ReportsInvariant == Spec => []RInv
<1>1. Init => RInv
  BY InitIInv DEF Init, MQInit, RInv, DataReported, DeadUnheard
<1>2. RInv /\ [Next]_vars => RInv'
  BY TypesKept, OrderKept, DataReportedKept, DeadUnheardKept DEF RInv, IInv
<1> QED
  BY <1>1, <1>2, PTL DEF Spec

\* The listener of a queue knows of the data that waits in it, although only
\* a push onto the empty queue is reported.
THEOREM DataIsReported == Spec => []DataReported
<1>1. RInv => DataReported
  BY DEF RInv
<1> QED
  BY <1>1, ReportsInvariant, PTL

\* The listener of a queue hears of its end, by a move or by its destruction,
\* under the ID that it knows the queue by.
THEOREM DeparturesAreReported == Spec => DepartureReported
<1>1. RInv /\ [Next]_vars => [Departure]_vars
  BY DepartureOfStep
<1>2. [][Departure]_vars => DepartureReported
  BY PTL DEF DepartureReported, Departure
<1> QED
  BY <1>1, <1>2, ReportsInvariant, PTL DEF Spec
-----------------------------------------------------------------------------
\* The message queues implement the channels of Channels: to those who send and
\* receive by ID, the objects and the moves between them do not show.

\* Messages are numbered as they are created, up to the bound.
Numbered ==
  /\ created <= MaxMessages
  /\ \A t \in Threads : \A c \in held[t] : c.msg.mid \in 1 .. created

\* What the refinement rests on.
CInv == IInv /\ Numbered

LEMMA NumberedKept == CInv /\ [Next]_vars => Numbered'
<1> SUFFICES ASSUME CInv, [Next]_vars PROVE Numbered'
  OBVIOUS
<1>1. /\ created \in Nat /\ Numbered
      /\ held \in [Threads -> SUBSET [object : Objects, msg : Messages]]
  BY DEF CInv, IInv, TypeOK
<1>2. ASSUME NEW t \in Threads, NEW o \in Objects, NewMessage(t, o) PROVE Numbered'
  <2>1. /\ created' = created + 1 /\ created' <= MaxMessages
        /\ held' = [held EXCEPT ![t] = {[object |-> o, msg |-> message(id[o], created')]}]
    BY <1>1, <1>2, MaxMessagesAssumption DEF NewMessage
  <2>2. \A c \in held'[t] : c.msg.mid = created'
    BY <2>1, <1>1 DEF message
  <2>3. \A u \in Threads : u # t => held'[u] = held[u]
    BY <2>1, <1>1
  <2> QED
    BY <1>1, <2>1, <2>2, <2>3 DEF Numbered
<1>3. ASSUME NEW t \in Threads, Push(t) PROVE Numbered'
  <2>1. held' = [held EXCEPT ![t] = {}] /\ created' = created
    BY <1>3 DEF Push
  <2> QED
    BY <1>1, <2>1 DEF Numbered
<1>4. ASSUME UNCHANGED <<held, created>> PROVE Numbered'
  BY <1>1, <1>4 DEF Numbered
<1>5. ASSUME NEW o \in Objects,
             \/ \E q \in Qids : Construct(o, q)
             \/ \E p \in Objects : MoveConstruct(o, p) \/ MoveAssign(o, p)
             \/ Destroy(o) \/ Pop(o) \/ ClearListener(o)
             \/ \E l \in Listeners : SetListener(o, l)
      PROVE  Numbered'
  BY <1>4, <1>5 DEF Construct, MoveConstruct, MoveAssign, Destroy, Pop, ClearListener, SetListener
<1>6. CASE UNCHANGED vars
  BY <1>4, <1>6 DEF vars
<1> QED
  BY <1>2, <1>3, <1>5, <1>6 DEF Next

\* The channel of an ID is the queue of the only object that has it.
Owner(ids, o, q) == ids[o] = q /\ \A p \in Objects : p # o => ids[p] # q

LEMMA OnlyOwner ==
  ASSUME UniqueQid, NEW o \in Objects, NEW q \in Qids, id[o] = q
  PROVE  Owner(id, o, q)
  BY QidsAssumption DEF UniqueQid, Owner

LEMMA OwnedChannel ==
  ASSUME NEW ids, NEW queues, NEW o \in Objects, NEW q \in Qids, Owner(ids, o, q)
  PROVE  channel_of(ids, queues)[q] = queues[o]
<1>1. (CHOOSE p \in Objects : ids[p] = q) = o
  BY DEF Owner
<1> QED
  BY <1>1 DEF channel_of, Owner

LEMMA OwnedState ==
  ASSUME NEW ids, NEW given, NEW o \in Objects, NEW q \in Qids, Owner(ids, o, q)
  PROVE  state_of(ids, given)[q] = "open"
  BY DEF state_of, Owner

\* The channel of an ID that no object has.
LEMMA UnownedChannel ==
  ASSUME NEW ids, NEW queues, NEW q \in Qids, \A p \in Objects : ids[p] # q
  PROVE  channel_of(ids, queues)[q] = <<>>
  BY DEF channel_of

LEMMA UnownedState ==
  ASSUME NEW ids, NEW given, NEW q \in Qids, \A p \in Objects : ids[p] # q
  PROVE  state_of(ids, given)[q] = IF q \in given THEN "closed" ELSE "unused"
  BY DEF state_of

\* The channels from one step to the next, ID by ID.
LEMMA OneChannelChanged ==
  ASSUME NEW f, NEW g, NEW q \in Qids, NEW v,
         f = [r \in Qids |-> f[r]], g = [r \in Qids |-> g[r]],
         g[q] = v, \A r \in Qids : r # q => g[r] = f[r]
  PROVE  g = [f EXCEPT ![q] = v]
  OBVIOUS

LEMMA ChannelFunctions ==
  ASSUME NEW ids, NEW queues
  PROVE  channel_of(ids, queues) = [r \in Qids |-> channel_of(ids, queues)[r]]
  BY DEF channel_of

LEMMA StateFunctions ==
  ASSUME NEW ids, NEW given
  PROVE  state_of(ids, given) = [r \in Qids |-> state_of(ids, given)[r]]
  BY DEF state_of

\* An assignment over n, with the content of o, or the destruction of n closes
\* the channel of n and no other: that of o moves to n.
LEMMA ChannelClosed ==
  ASSUME IInv, UniqueQid', UNCHANGED used, NEW n \in Objects, NEW o \in Objects,
         \/ /\ n # o
            /\ id' = [id EXCEPT ![n] = id[o], ![o] = undefined_qid]
            /\ queue' = [queue EXCEPT ![n] = queue[o], ![o] = <<>>]
         \/ /\ id' = [id EXCEPT ![n] = undefined_qid]
            /\ queue' = [queue EXCEPT ![n] = <<>>]
  PROVE  [C!Next]_<<state_of(id, used), channel_of(id, queue)>>
<1> DEFINE st == state_of(id, used)
           ch == channel_of(id, queue)
           st2 == state_of(id', used')
           ch2 == channel_of(id', queue')
<1>1. /\ id \in [Objects -> AnyQid] /\ queue \in [Objects -> Seq(Messages)]
      /\ UniqueQid /\ undefined_qid \notin Qids
  BY QidsAssumption DEF IInv, TypeOK, MQTypeOK
<1>2. ASSUME NEW q \in Qids, q # id[n] PROVE st2[q] = st[q] /\ ch2[q] = ch[q]
  <2>1. CASE \A p \in Objects : id[p] # q
    <3>1. \A p \in Objects : id'[p] # q
      BY <1>1, <1>2, <2>1
    <3> QED
      BY <2>1, <3>1, UnownedChannel, UnownedState
  <2>2. ASSUME NEW p \in Objects, id[p] = q, NEW r \in Objects, id'[r] = q, queue'[r] = queue[p]
        PROVE  st2[q] = st[q] /\ ch2[q] = ch[q]
    <3>1. Owner(id, p, q) /\ Owner(id', r, q)
      BY <2>2, <1>1 DEF UniqueQid, Owner
    <3>2. ch[q] = queue[p] /\ ch2[q] = queue'[r]
      BY <3>1, OwnedChannel
    <3>3. st[q] = "open" /\ st2[q] = "open"
      BY <3>1, OwnedState
    <3> QED
      BY <2>2, <3>2, <3>3
  <2>3. ASSUME NEW p \in Objects, id[p] = q
        PROVE  \E r \in Objects : id'[r] = q /\ queue'[r] = queue[p]
    BY <2>3, <1>1, <1>2
  <2> QED
    BY <2>1, <2>2, <2>3
<1>3. ASSUME id[n] \in Qids PROVE C!Close(id[n])
  <2> DEFINE q == id[n]
  <2>1. \A p \in Objects : id'[p] # q
    BY <1>1, <1>3 DEF UniqueQid
  <2>2. q \in used
    BY <1>1, <1>3 DEF IInv, FreshQids
  <2>3. st2[q] = "closed" /\ ch2[q] = <<>>
    BY <1>3, <2>1, <2>2, UnownedChannel, UnownedState
  <2>5. st[q] = "open"
    BY <1>3 DEF state_of
  <2>6. st2 = [st EXCEPT ![q] = "closed"]
    BY <1>2, <2>3, StateFunctions, OneChannelChanged
  <2>7. ch2 = [ch EXCEPT ![q] = <<>>]
    BY <1>2, <2>3, ChannelFunctions, OneChannelChanged
  <2> QED
    BY <2>5, <2>6, <2>7 DEF C!Close
<1>4. ASSUME id[n] \notin Qids PROVE st2 = st /\ ch2 = ch
  BY <1>2, <1>4, StateFunctions, ChannelFunctions
<1> QED
  BY <1>3, <1>4 DEF C!Next

\* Every step of the queues is a step of the channels, or none.
LEMMA StepOfChannels == CInv /\ [Next]_vars => [C!Next]_<<state_of(id, used), channel_of(id, queue)>>
<1> DEFINE st == state_of(id, used)
           ch == channel_of(id, queue)
           st2 == state_of(id', used')
           ch2 == channel_of(id', queue')
           Goal == [C!Next]_<<st, ch>>
<1> SUFFICES ASSUME CInv, [Next]_vars PROVE Goal
  OBVIOUS
<1>0. /\ id \in [Objects -> AnyQid] /\ queue \in [Objects -> Seq(Messages)]
      /\ held \in [Threads -> SUBSET [object : Objects, msg : Messages]]
      /\ IInv /\ UniqueQid /\ UniqueQid' /\ undefined_qid \notin Qids /\ created \in Nat
  BY OrderKept, QidsAssumption DEF CInv, IInv, TypeOK, MQTypeOK
<1>1. ASSUME NEW o \in Objects, NEW q \in Qids, Construct(o, q) PROVE Goal
  <2>1. /\ id' = [id EXCEPT ![o] = q] /\ used' = used \cup {q} /\ UNCHANGED queue
        /\ q \notin used /\ id[o] = undefined_qid
    BY <1>0, <1>1 DEF Construct, construct, IInv, FreshQids
  <2>2. queue[o] = <<>>
    BY <2>1, <1>0, EmptySeq DEF IInv, OwnMessages
  <2>3. \A p \in Objects : id[p] # q 
    BY <2>1, <1>0 DEF IInv, FreshQids
  <2>4. Owner(id', o, q)
    BY <2>1, <2>3, <1>0 DEF Owner
  <2>5. st[q] = "unused" /\ ch[q] = <<>>
    BY <2>1, <2>3, UnownedChannel, UnownedState
  <2>6. st2[q] = "open" /\ ch2[q] = <<>>
    <3>1. ch2[q] = queue'[o]
      BY <2>4, OwnedChannel
    <3>2. st2[q] = "open"
      BY <2>4, OwnedState
    <3> QED
      BY <3>1, <3>2, <2>1, <2>2
  <2>7. ASSUME NEW r \in Qids, r # q PROVE st2[r] = st[r] /\ ch2[r] = ch[r]
    <3>1. \A p \in Objects : id'[p] = r <=> id[p] = r
      BY <2>1, <2>7, <1>0
    <3>2. r \in used' <=> r \in used
      BY <2>1, <2>7
    <3>3. CASE \A p \in Objects : id[p] # r
      BY <3>1, <3>2, <3>3, UnownedChannel, UnownedState
    <3>4. ASSUME NEW p \in Objects, id[p] = r PROVE st2[r] = st[r] /\ ch2[r] = ch[r]
      <4>0. Owner(id, p, r)
        BY <3>4, <1>0, OnlyOwner
      <4>1. Owner(id', p, r)
        BY <3>1, <4>0 DEF Owner
      <4>2. ch[r] = queue[p] /\ ch2[r] = queue'[p]
        <5>1. ch[r] = queue[p]
          BY <4>0, OwnedChannel
        <5>2. ch2[r] = queue'[p]
          BY <4>1, OwnedChannel
        <5> QED
          BY <5>1, <5>2
      <4>3. st[r] = "open" /\ st2[r] = "open"
        BY <4>0, <4>1, OwnedState
      <4> QED
        BY <4>2, <4>3, <2>1
    <3> QED
      BY <3>3, <3>4
  <2>8. st2 = [st EXCEPT ![q] = "open"]
    BY <2>6, <2>7, StateFunctions, OneChannelChanged
  <2>9. ch2 = ch
    BY <2>5, <2>6, <2>7, ChannelFunctions
  <2> QED
    BY <2>5, <2>8, <2>9 DEF C!Next, C!Open
<1>2. ASSUME NEW o \in Objects, NEW p \in Objects, MoveConstruct(o, p) \/ MoveAssign(o, p) PROVE Goal
  <2>1. /\ o # p /\ UNCHANGED used
        /\ id' = [id EXCEPT ![o] = id[p], ![p] = undefined_qid]
        /\ queue' = [queue EXCEPT ![o] = queue[p], ![p] = <<>>]
    BY <1>2 DEF MoveConstruct, MoveAssign, move_construct, move_assign, move, move_id, move_queue
  <2> QED
    BY <2>1, <1>0, ChannelClosed
<1>3. ASSUME NEW o \in Objects, Destroy(o) PROVE Goal
  <2>1. /\ UNCHANGED used
        /\ id' = [id EXCEPT ![o] = undefined_qid] /\ queue' = [queue EXCEPT ![o] = <<>>]
    BY <1>3 DEF Destroy, destroy
  <2> QED
    BY <2>1, <1>0, ChannelClosed
<1>4. ASSUME UNCHANGED <<id, queue, used>> PROVE Goal
  BY <1>4
\* A step that changes the queue of one object changes one channel.
<1>5. ASSUME NEW o \in Objects, id[o] \in Qids, NEW s, UNCHANGED <<id, used>>,
             queue' = [queue EXCEPT ![o] = s]
      PROVE  /\ st2 = st /\ ch2 = [ch EXCEPT ![id[o]] = s]
             /\ st[id[o]] = "open" /\ ch[id[o]] = queue[o]
  <2>1. Owner(id, o, id[o]) /\ Owner(id', o, id[o])
    BY <1>0, <1>5 DEF UniqueQid, Owner
  <2>2. ch[id[o]] = queue[o] /\ ch2[id[o]] = queue'[o]
    <3> DEFINE q == id[o]
    <3>1. q \in Qids /\ Owner(id, o, q) /\ Owner(id', o, q)
      BY <1>5, <2>1
    <3> HIDE DEF q
    <3>2. ch[q] = queue[o] /\ ch2[q] = queue'[o]
      BY <3>1, OwnedChannel
    <3> QED
      BY <3>2 DEF q
  <2>3. st[id[o]] = "open" /\ st2 = st
    <3>1. st[id[o]] = "open"
      BY <1>5, <2>1, OwnedState
    <3>2. st2 = st
      BY <1>5
    <3> QED
      BY <3>1, <3>2
  <2>4. ASSUME NEW r \in Qids, r # id[o] PROVE ch2[r] = ch[r]
    <3>1. CASE \A p \in Objects : id[p] # r
      BY <1>5, <3>1, UnownedChannel
    <3>2. ASSUME NEW p \in Objects, id[p] = r PROVE ch2[r] = ch[r]
      <4>0. Owner(id, p, r)
        BY <3>2, <1>0, OnlyOwner
      <4>1. Owner(id', p, r)
        BY <4>0, <1>5
      <4>2. ch[r] = queue[p] /\ ch2[r] = queue'[p]
        <5>1. ch[r] = queue[p]
          BY <4>0, OwnedChannel
        <5>2. ch2[r] = queue'[p]
          BY <4>1, OwnedChannel
        <5> QED
          BY <5>1, <5>2
      <4> QED
        BY <4>2, <3>2, <2>4, <1>0, <1>5
    <3> QED
      BY <3>1, <3>2
  <2>5. ch2 = [ch EXCEPT ![id[o]] = s]
    <3> DEFINE q == id[o]
    <3>1. q \in Qids /\ ch2[q] = s /\ \A r \in Qids : r # q => ch2[r] = ch[r]
      BY <1>0, <1>5, <2>2, <2>4
    <3>2. ch = [r \in Qids |-> ch[r]] /\ ch2 = [r \in Qids |-> ch2[r]]
      BY ChannelFunctions
    <3> HIDE DEF q, ch, ch2
    <3>3. ch2 = [ch EXCEPT ![q] = s]
      BY <3>1, <3>2, OneChannelChanged
    <3> QED
      BY <3>3 DEF q
  <2> QED
    BY <2>2, <2>3, <2>5
<1>6. ASSUME NEW o \in Objects, Pop(o), has_message(o) PROVE Goal
  <2>1. /\ id[o] \in Qids /\ queue[o] # <<>> /\ UNCHANGED <<id, used>>
        /\ queue' = [queue EXCEPT ![o] = Tail(queue[o])]
    BY <1>0, <1>6 DEF Pop, pop, has_message, AnyQid
  <2> QED
    BY <2>1, <1>5 DEF C!Next, C!Receive
<1>7. ASSUME NEW t \in Threads, Push(t) PROVE Goal
  <2>1. PICK c \in held[t] : push(c.object, c.msg) /\ UNCHANGED used
    BY <1>7 DEF Push
  <2> DEFINE o == c.object
             m == c.msg
  <2>2. o \in Objects /\ m \in Messages
    BY <1>0
  <2>3. CASE ~accepts(o, m)
    BY <2>1, <2>3, <1>4 DEF push, mqvars
  <2>4. CASE accepts(o, m)
    <3>1. /\ id[o] = m.qid /\ id[o] \in Qids /\ UNCHANGED <<id, used>>
          /\ queue' = [queue EXCEPT ![o] = Append(queue[o], m)]
      BY <2>1, <2>2, <2>4, <1>0 DEF push, push_back, accepts, AnyQid
    <3>2. m \in [qid : Qids, mid : 1 .. MaxMessages]
      <4>1. m.mid \in 1 .. created /\ created <= MaxMessages
        BY <2>1 DEF CInv, Numbered
      <4> QED
        BY <4>1, <3>1, <2>2, <1>0, MaxMessagesAssumption DEF Messages
    <3>3. C!Send(m)
      BY <3>1, <2>2, <1>5 DEF C!Send
    <3> QED
      BY <3>2, <3>3 DEF C!Next
  <2> QED
    BY <2>3, <2>4
<1>8. ASSUME NEW o \in Objects,
             \/ Pop(o) /\ ~has_message(o)
             \/ ClearListener(o)
             \/ \E l \in Listeners : SetListener(o, l)
             \/ \E t \in Threads : NewMessage(t, o)
      PROVE  Goal
  BY <1>4, <1>8 DEF Pop, pop, ClearListener, clear_listener, SetListener, set_listener,
                    NewMessage, mqvars
<1>9. CASE UNCHANGED vars
  BY <1>4, <1>9 DEF vars, mqvars
<1> QED
  BY <1>1, <1>2, <1>3, <1>6, <1>7, <1>8, <1>9 DEF Next

\* Whatever objects hold them, messages that are sent to an ID are received in
\* their order, each once, until the queue of the ID is destroyed or assigned over.
THEOREM QueuesImplementChannels == Spec => ImplementsChannels
<1>1. Init => CInv /\ C!Init
  <2> SUFFICES ASSUME Init PROVE CInv /\ C!Init
    OBVIOUS
  <2>1. IInv
    BY InitIInv
  <2>2. Numbered
    BY MaxMessagesAssumption DEF Init, Numbered
  <2>3. \A q \in Qids, o \in Objects : id[o] # q
    BY QidsAssumption DEF Init, MQInit
  <2>4. C!Init
    BY <2>3 DEF Init, C!Init, state_of, channel_of
  <2> QED
    BY <2>1, <2>2, <2>4 DEF CInv
<1>2. CInv /\ [Next]_vars => CInv'
  BY TypesKept, OrderKept, NumberedKept DEF CInv, IInv
<1>3. CInv /\ [Next]_vars => [C!Next]_<<state_of(id, used), channel_of(id, queue)>>
  BY StepOfChannels
<1> QED
  BY <1>1, <1>2, <1>3, PTL DEF Spec, ImplementsChannels, C!Spec
=============================================================================
