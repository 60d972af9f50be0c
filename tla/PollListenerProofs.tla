------------------------- MODULE PollListenerProofs -------------------------
(***************************************************************************)
(* The list of a message_queue_poll_listener is ascending, and implements  *)
(* the abstract listener, for every set of queue IDs and pointers and      *)
(* every order of notifications.                                           *)
(***************************************************************************)
EXTENDS PollListener, NotificationListProofs

\* The records and their order at once: the order is kept only on records.
IInv == TypeOK /\ ListAscending

\* One notification keeps the records and their order.
LEMMA NotifyKeeps == IInv /\ [Next]_vars => IInv'
<1> SUFFICES ASSUME IInv, [Next]_vars PROVE IInv'
  OBVIOUS
<1>1. CASE UNCHANGED vars
  BY <1>1 DEF IInv, TypeOK, ListAscending, vars
<1>2. ASSUME NEW q \in Qids, NEW mq \in Pointers, NEW flag \in notification_flag,
             notify(q, mq, flag)
      PROVE  IInv'
  <2>1. list \in Seq(notification_rec_type(Qids, Pointers)) /\ Ascending(list)
    BY DEF IInv, TypeOK, ListAscending
  <2>2. /\ list' \in Seq(notification_rec_type(Qids, Pointers))
        /\ Ascending(list')
    BY <1>2, <2>1, QidsAssumption, NotifiedAscending DEF notify
  <2>3. told' \subseteq Qids \X notification_flag
    BY <1>2 DEF IInv, TypeOK, notify
  <2> QED
    BY <2>2, <2>3 DEF IInv, TypeOK, ListAscending
<1> QED
  BY <1>1, <1>2 DEF Next

\* Every state of a listener is one that the invariant describes.
LEMMA ListInvariant == Spec => []IInv
<1>1. Init => IInv
  BY DEF Init, IInv, TypeOK, ListAscending, Ascending
<1> QED
  BY <1>1, NotifyKeeps, PTL DEF Spec

\* notify keeps the vector sorted and free of duplicate queue IDs.
THEOREM ListStaysAscending == Spec => []ListAscending
<1>1. IInv => ListAscending
  BY DEF IInv
<1> QED
  BY <1>1, ListInvariant, PTL

\* notify keeps the vector a list of records, each with a flag at least.
THEOREM ListStaysTyped == Spec => []TypeOK
<1>1. IInv => TypeOK
  BY DEF IInv
<1> QED
  BY <1>1, ListInvariant, PTL

\* The list l keeps record i of list k: the queue ID, the pointer, the flags.
KeepsRecord(k, l, i) ==
  \E j \in 1 .. Len(l) :
    /\ l[j].qid = k[i].qid
    /\ l[j].mq = k[i].mq
    /\ k[i].flags \subseteq l[j].flags

\* notify keeps each record of the list, at its position or the next one.
LEMMA NotifiedKeepsRecords ==
  ASSUME NEW q \in Qids, NEW mq \in Pointers, NEW flag \in notification_flag,
         list \in Seq(notification_rec_type(Qids, Pointers)), Ascending(list),
         NEW i \in 1 .. Len(list)
  PROVE  KeepsRecord(list, notified(list, q, mq, flag), i)
<1> DEFINE Record == notification_rec_type(Qids, Pointers)
           N == Len(list)
           u == upper_bound(list, q)
           new == notification_rec(q, mq, flag)
           l2 == notified(list, q, mq, flag)
<1>1. N \in Nat /\ u \in 1 .. N + 1 /\ list[i] \in Record
  <2>1. N \in Nat /\ list[i] \in Record
    OBVIOUS
  <2>2. u \in 1 .. N + 1
    BY QidsAssumption, UpperBound
  <2> QED
    BY <2>1, <2>2
<1>2. CASE has_record(list, u, q)
  <2> DEFINE r == [list[u - 1] EXCEPT !.flags = @ \cup {flag}]
  <2>1. u - 1 \in 1 .. N /\ l2 = [list EXCEPT ![u - 1] = r] /\ list[u - 1] \in Record
    BY <1>1, <1>2 DEF has_record, notified
  <2>2. /\ r.qid = list[u - 1].qid /\ r.mq = list[u - 1].mq
        /\ list[u - 1].flags \subseteq r.flags
    BY <2>1 DEF notification_rec_type
  <2> HIDE DEF u, r, N
  <2>3. Len(l2) = N /\ \A j \in 1 .. N : l2[j] = IF j = u - 1 THEN r ELSE list[j]
    BY <2>1 DEF N
  <2>4. i \in 1 .. Len(l2) /\ ((l2[i] = r /\ i = u - 1) \/ l2[i] = list[i])
    BY <2>3 DEF N
  <2> HIDE DEF l2
  <2>5. KeepsRecord(list, l2, i)
    BY <2>2, <2>4 DEF KeepsRecord
  <2> QED
    BY <2>5 DEF l2
<1>3. CASE ~has_record(list, u, q)
  <2>1. l2 = InsertAt(list, u, new)
    BY <1>3 DEF notified
  <2>2. new \in Record
    BY DEF notification_rec, notification_rec_type
  <2> HIDE DEF new, Record, u, N, l2
  <2>3. /\ Len(l2) = N + 1
        /\ \A j \in 1 .. N + 1 : l2[j] = IF j < u THEN list[j] ELSE IF j = u THEN new ELSE list[j - 1]
    <3>1. list \in Seq(Record) /\ u \in 1 .. Len(list) + 1
      BY <1>1 DEF N, Record
    <3>2. /\ Len(InsertAt(list, u, new)) = Len(list) + 1
          /\ \A j \in 1 .. Len(list) + 1 :
               InsertAt(list, u, new)[j] = IF j < u THEN list[j]
                                           ELSE IF j = u THEN new ELSE list[j - 1]
      BY <3>1, <2>2, RecordInserted
    <3> QED
      BY <3>2, <2>1 DEF N
  <2>4. \E j \in 1 .. N + 1 : l2[j] = list[i]
    <3>1. CASE i < u
      BY <3>1, <1>1, <2>3 DEF N
    <3>2. CASE i >= u
      <4>1. i + 1 \in 1 .. N + 1 /\ ~(i + 1 < u) /\ i + 1 # u /\ i + 1 - 1 = i
        BY <3>2, <1>1 DEF N
      <4> QED
        BY <4>1, <2>3
    <3> QED
      BY <3>1, <3>2, <1>1
  <2>5. KeepsRecord(list, l2, i)
    BY <2>3, <2>4 DEF KeepsRecord
  <2> QED
    BY <2>5 DEF l2
<1> QED
  BY <1>2, <1>3

\* notify never takes back what it has recorded: no record disappears, changes
\* its queue or pointer, or loses a flag.
THEOREM NoRecordIsLost == Spec => RecordsKept
<1>1. IInv /\ [Next]_vars =>
        [\A i \in 1 .. Len(list) : \E j \in 1 .. Len(list') :
            /\ list'[j].qid = list[i].qid
            /\ list'[j].mq = list[i].mq
            /\ list[i].flags \subseteq list'[j].flags]_vars
  <2> SUFFICES ASSUME IInv, Next, NEW i \in 1 .. Len(list)
               PROVE  KeepsRecord(list, list', i)
    BY DEF KeepsRecord
  <2>1. list \in Seq(notification_rec_type(Qids, Pointers)) /\ Ascending(list)
    BY DEF IInv, TypeOK, ListAscending
  <2>2. PICK q \in Qids, mq \in Pointers, flag \in notification_flag : notify(q, mq, flag)
    BY DEF Next
  <2> QED
    BY <2>1, <2>2, NotifiedKeepsRecords DEF notify
<1> QED
  BY <1>1, ListInvariant, PTL DEF Spec, RecordsKept

\* notify reports exactly what the listener is told: the list implements the
\* map from queue IDs to flags.
THEOREM ListImplementsReportedFlags == Spec => ImplementsReportedFlags
<1>1. Init => Reported!Init
  BY DEF Init, Reported!Init, flags_of
<1>2. IInv /\ [Next]_vars => [Reported!Next]_(Reported!flagvars)
  <2> SUFFICES ASSUME IInv, [Next]_vars PROVE [Reported!Next]_(Reported!flagvars)
    OBVIOUS
  <2>1. CASE UNCHANGED vars
    BY <2>1 DEF vars, Reported!flagvars
  <2>2. ASSUME NEW q \in Qids, NEW mq \in Pointers, NEW flag \in notification_flag,
               notify(q, mq, flag)
        PROVE  Reported!Report(q, flag)
    <3> DEFINE reported == [p \in Qids |-> flags_of(list, p)]
    <3>1. \A p \in Qids : flags_of(list', p) =
            IF p = q THEN flags_of(list, p) \cup {flag} ELSE flags_of(list, p)
      <4>1. list \in Seq(notification_rec_type(Qids, Pointers)) /\ Ascending(list)
        BY DEF IInv, TypeOK, ListAscending
      <4>2. ASSUME NEW p \in Qids, NEW f
            PROVE  f \in flags_of(notified(list, q, mq, flag), p) <=>
                     f \in flags_of(list, p) \/ (p = q /\ f = flag)
        BY <4>1, QidsAssumption, NotifiedFlags
      <4>3. list' = notified(list, q, mq, flag)
        BY <2>2 DEF notify
      <4> QED
        BY <4>2, <4>3
    <3>2. reported' = [reported EXCEPT ![q] = @ \cup {flag}]
      BY <3>1
    <3>3. told' = told \cup {<<q, flag>>}
      BY <2>2 DEF notify
    <3> QED
      BY <3>2, <3>3 DEF Reported!Report
  <2>3. notification_flag = {"data", "detached", "closed"}
    BY DEF notification_flag
  <2> QED
    BY <2>1, <2>2, <2>3 DEF Next, Reported!Next
<1> QED
  BY <1>1, <1>2, ListInvariant, PTL DEF Spec, ImplementsReportedFlags, Reported!Spec
=============================================================================
