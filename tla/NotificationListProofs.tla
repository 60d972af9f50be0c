----------------------- MODULE NotificationListProofs -----------------------
(***************************************************************************)
(* What upper_bound and notified do to an ascending list of records.       *)
(***************************************************************************)
EXTENDS NotificationList, TLAPS, SequenceTheorems, FiniteSetTheorems

\* The records of a list and their queue IDs.
LEMMA ListOfRecords ==
  ASSUME NEW Q, Q \subseteq Nat, NEW P, NEW list \in Seq(notification_rec_type(Q, P))
  PROVE  Len(list) \in Nat /\ \A i \in 1 .. Len(list) : list[i].qid \in Nat
<1>1. \A r \in notification_rec_type(Q, P) : r.qid \in Nat
  BY DEF notification_rec_type
<1>2. Len(list) \in Nat /\ \A i \in 1 .. Len(list) : list[i] \in notification_rec_type(Q, P)
  OBVIOUS
<1> QED
  BY <1>1, <1>2

\* On an ascending list upper_bound separates the IDs up to q from the others.
\* The position exists because the records with an ID up to q are a prefix,
\* whose length is their number.
LEMMA UpperBound ==
  ASSUME NEW Q, Q \subseteq Nat, NEW P, NEW list \in Seq(notification_rec_type(Q, P)),
         Ascending(list), NEW q \in Nat
  PROVE  /\ upper_bound(list, q) \in 1 .. Len(list) + 1
         /\ \A j \in 1 .. upper_bound(list, q) - 1 : list[j].qid <= q
         /\ \A j \in upper_bound(list, q) .. Len(list) : q < list[j].qid
<1> DEFINE N == Len(list)
           I == {i \in 1 .. N : list[i].qid <= q}
           c == Cardinality(I)
<1>1. N \in Nat /\ \A i \in 1 .. N : list[i].qid \in Nat
  BY ListOfRecords
<1>2. \A i, j \in 1 .. N : i < j => list[i].qid < list[j].qid
  BY DEF Ascending
<1> HIDE DEF N
<1>3. IsFiniteSet(1 .. N) /\ I \in SUBSET (1 .. N)
  BY <1>1, FS_Interval
<1>4. IsFiniteSet(I) /\ c \in Nat /\ c <= N
  <2>1. IsFiniteSet(I) /\ c <= Cardinality(1 .. N)
    BY <1>3, FS_Subset
  <2>2. Cardinality(1 .. N) = IF 1 > N THEN 0 ELSE N - 1 + 1
    BY <1>1, FS_Interval
  <2> QED
    BY <2>1, <2>2, <1>1, FS_CardinalityType
<1>5. ASSUME NEW j \in I PROVE j <= c
  <2>1. 1 .. j \subseteq I
    BY <1>1, <1>2 DEF I
  <2>2. Cardinality(1 .. j) <= c
    BY <2>1, <1>4, FS_Subset
  <2>3. Cardinality(1 .. j) = j
    <3>1. j \in Nat /\ 1 <= j
      BY <1>1 DEF I
    <3> HIDE DEF I
    <3> QED
      BY <3>1, FS_Interval
  <2> QED
    BY <2>2, <2>3
<1>6. ASSUME NEW j \in 1 .. N, j \notin I PROVE c < j
  <2>1. I \subseteq 1 .. (j - 1)
    BY <1>1, <1>2, <1>6 DEF I
  <2>2. IsFiniteSet(1 .. (j - 1)) /\ Cardinality(1 .. (j - 1)) = j - 1
    BY FS_Interval
  <2>3. c <= Cardinality(1 .. (j - 1))
    BY <2>1, <2>2, FS_Subset
  <2> QED
    BY <2>2, <2>3, <1>4
<1> DEFINE Sep(i) == /\ i \in 1 .. N + 1
                     /\ \A j \in 1 .. i - 1 : list[j].qid <= q
                     /\ i <= N => q < list[i].qid
           u == CHOOSE i \in 1 .. N + 1 : Sep(i)
<1>7. Sep(c + 1)
  <2>1. \A j \in 1 .. c : j \in I
    <3> HIDE DEF c, I
    <3> QED
      BY <1>1, <1>4, <1>6
  <2>2. c + 1 \notin I
    <3> HIDE DEF c, I
    <3> QED
      BY <1>4, <1>5
  <2> HIDE DEF c
  <2> QED
    BY <2>1, <2>2, <1>1, <1>4
<1>8. u \in 1 .. N + 1 /\ Sep(u)
  BY <1>7
<1>9. u = upper_bound(list, q)
  BY DEF upper_bound, N
<1> HIDE DEF u
<1>10. \A j \in u .. N : q < list[j].qid
  BY <1>1, <1>2, <1>8
<1> QED
  BY <1>8, <1>9, <1>10 DEF N

\* Adding a flag to a record of the list changes no queue ID and no order.
LEMMA FlagAdded ==
  ASSUME NEW Q, Q \subseteq Nat, NEW P, NEW list \in Seq(notification_rec_type(Q, P)),
         Ascending(list), NEW i \in 1 .. Len(list), NEW flag \in notification_flag
  PROVE  /\ [list EXCEPT ![i].flags = @ \cup {flag}] \in Seq(notification_rec_type(Q, P))
         /\ Ascending([list EXCEPT ![i].flags = @ \cup {flag}])
<1> DEFINE Record == notification_rec_type(Q, P)
           r == [list[i] EXCEPT !.flags = @ \cup {flag}]
           l2 == [list EXCEPT ![i] = r]
<1>1. list[i] \in Record
  OBVIOUS
<1>2. r \in Record /\ r.qid = list[i].qid
  BY <1>1 DEF notification_rec_type
<1>3. /\ l2 \in Seq(Record)
      /\ Len(l2) = Len(list)
      /\ \A j \in 1 .. Len(list) : l2[j] = IF j = i THEN r ELSE list[j]
  <2> HIDE DEF r, Record
  <2> QED
    BY <1>2, ExceptSeq DEF Record
<1>4. \A j \in 1 .. Len(list) : l2[j].qid = list[j].qid
  BY <1>2, <1>3
<1>5. l2 = [list EXCEPT ![i].flags = @ \cup {flag}]
  OBVIOUS
<1> HIDE DEF l2
<1>6. l2 \in Seq(Record) /\ Ascending(l2)
  BY <1>3, <1>4 DEF Ascending
<1> QED
  BY <1>5, <1>6

\* What InsertAt makes of a list of records: the record at its position, the
\* others before and after it.
LEMMA RecordInserted ==
  ASSUME NEW Record, NEW list \in Seq(Record), NEW u \in 1 .. Len(list) + 1, NEW new \in Record
  PROVE  /\ InsertAt(list, u, new) \in Seq(Record)
         /\ Len(InsertAt(list, u, new)) = Len(list) + 1
         /\ \A i \in 1 .. Len(list) + 1 :
              InsertAt(list, u, new)[i] = IF i < u THEN list[i]
                                          ELSE IF i = u THEN new ELSE list[i - 1]
<1> DEFINE N == Len(list)
           a == SubSeq(list, 1, u - 1)
           b == SubSeq(list, u, N)
           d == a \o <<new>>
           e == d \o b
<1>1. N \in Nat /\ u \in Nat /\ u >= 1 /\ u <= N + 1
  BY LenProperties
<1>2. /\ a \in Seq(Record) /\ Len(a) = u - 1
      /\ \A i \in 1 .. u - 1 : a[i] = list[i]
  BY <1>1, SubSeqProperties
<1>3. /\ b \in Seq(Record) /\ Len(b) = N - u + 1
      /\ \A i \in 1 .. N - u + 1 : b[i] = list[u + i - 1]
  BY <1>1, SubSeqProperties
<1>4. <<new>> \in Seq(Record) /\ Len(<<new>>) = 1 /\ <<new>>[1] = new
  OBVIOUS
<1> HIDE DEF a, b, N
<1>5. /\ d \in Seq(Record) /\ Len(d) = u
      /\ \A i \in 1 .. u : d[i] = IF i < u THEN list[i] ELSE new
  <2>1. /\ d \in Seq(Record) /\ Len(d) = Len(a) + 1
        /\ \A i \in 1 .. Len(a) + 1 : d[i] = IF i <= Len(a) THEN a[i] ELSE <<new>>[i - Len(a)]
    BY <1>2, <1>4, ConcatProperties
  <2> HIDE DEF d
  <2>2. \A i \in 1 .. u : i < u => d[i] = list[i]
    BY <2>1, <1>1, <1>2
  <2>3. d[u] = new
    BY <2>1, <1>1, <1>2, <1>4
  <2> QED
    BY <2>1, <2>2, <2>3, <1>1, <1>2
<1>6. e = InsertAt(list, u, new)
  BY DEF InsertAt, a, b, N
<1> HIDE DEF d
<1>7. /\ e \in Seq(Record) /\ Len(e) = N + 1
      /\ \A i \in 1 .. N + 1 : e[i] = IF i <= u THEN d[i] ELSE b[i - u]
  <2>1. /\ e \in Seq(Record) /\ Len(e) = Len(d) + Len(b)
        /\ \A i \in 1 .. Len(d) + Len(b) : e[i] = IF i <= Len(d) THEN d[i] ELSE b[i - Len(d)]
    BY <1>3, <1>5, ConcatProperties
  <2> HIDE DEF e
  <2> QED
    BY <2>1, <1>1, <1>3, <1>5
<1> HIDE DEF e
<1>8. ASSUME NEW i \in 1 .. N + 1
      PROVE  e[i] = IF i < u THEN list[i] ELSE IF i = u THEN new ELSE list[i - 1]
  <2>1. CASE i <= u
    BY <2>1, <1>1, <1>5, <1>7
  <2>2. CASE i > u
    <3>1. e[i] = b[i - u] /\ i - u \in 1 .. N - u + 1
      BY <2>2, <1>1, <1>7
    <3>2. b[i - u] = list[i - 1]
      BY <3>1, <1>1, <1>3
    <3> QED
      BY <2>2, <3>1, <3>2, <1>1
  <2> QED
    BY <2>1, <2>2, <1>1
<1> QED
  BY <1>6, <1>7, <1>8 DEF N

\* notified keeps the list a list of records in strictly ascending order of
\* queue ID, wherever the record goes and whether or not it is new.
LEMMA NotifiedAscending ==
  ASSUME NEW Q, Q \subseteq Nat, NEW P, NEW list \in Seq(notification_rec_type(Q, P)),
         Ascending(list), NEW q \in Q, NEW mq \in P, NEW flag \in notification_flag
  PROVE  /\ notified(list, q, mq, flag) \in Seq(notification_rec_type(Q, P))
         /\ Ascending(notified(list, q, mq, flag))
<1> DEFINE Record == notification_rec_type(Q, P)
           N == Len(list)
           u == upper_bound(list, q)
           new == notification_rec(q, mq, flag)
<1>1. N \in Nat /\ \A i \in 1 .. N : list[i].qid \in Nat
  BY ListOfRecords
<1>2. \A i, j \in 1 .. N : i < j => list[i].qid < list[j].qid
  BY DEF Ascending
<1>3. /\ u \in 1 .. N + 1
      /\ \A j \in 1 .. u - 1 : list[j].qid <= q
      /\ \A j \in u .. N : q < list[j].qid
  BY UpperBound
<1>4. CASE has_record(list, u, q)
  <2>1. u - 1 \in 1 .. N
    BY <1>1, <1>3, <1>4 DEF has_record
  <2>2. notified(list, q, mq, flag) = [list EXCEPT ![u - 1].flags = @ \cup {flag}]
    BY <1>4 DEF notified
  <2> HIDE DEF N, u
  <2>3. /\ [list EXCEPT ![u - 1].flags = @ \cup {flag}] \in Seq(Record)
        /\ Ascending([list EXCEPT ![u - 1].flags = @ \cup {flag}])
    BY <2>1, FlagAdded DEF N
  <2> QED
    BY <2>2, <2>3
<1>5. CASE ~has_record(list, u, q)
  <2> DEFINE l2 == InsertAt(list, u, new)
  <2>1. notified(list, q, mq, flag) = l2
    BY <1>5 DEF notified
  <2>2. new \in Record /\ new.qid = q
    BY DEF notification_rec, notification_rec_type
  <2>3. \A j \in 1 .. u - 1 : list[j].qid < q
    <3>1. u > 1 => list[u - 1].qid # q
      BY <1>5 DEF has_record
    <3> QED
      BY <3>1, <1>1, <1>2, <1>3
  <2> HIDE DEF new, Record, u, N
  <2>4. /\ l2 \in Seq(Record) /\ Len(l2) = N + 1
        /\ \A i \in 1 .. N + 1 : l2[i] = IF i < u THEN list[i] ELSE IF i = u THEN new ELSE list[i - 1]
    BY <2>2, <1>3, RecordInserted DEF N, Record
  <2> HIDE DEF l2
  <2>5. ASSUME NEW i \in 1 .. N + 1, NEW j \in 1 .. N + 1, i < j
        PROVE  l2[i].qid < l2[j].qid
    <3>1. CASE j < u
      <4>1. l2[i] = list[i] /\ l2[j] = list[j] /\ i \in 1 .. N /\ j \in 1 .. N
        BY <3>1, <2>4, <2>5, <1>1, <1>3
      <4> QED
        BY <4>1, <2>5, <1>2
    <3>2. CASE j = u
      BY <3>2, <2>2, <2>3, <2>4, <2>5, <1>1, <1>3
    <3>3. CASE j > u /\ i = u
      BY <3>3, <2>2, <2>4, <1>1, <1>3
    <3>4. CASE j > u /\ i > u
      <4>1. l2[i] = list[i - 1] /\ l2[j] = list[j - 1] /\ i - 1 \in 1 .. N /\ j - 1 \in 1 .. N /\ i - 1 < j - 1
        BY <3>4, <2>4, <2>5, <1>1, <1>3
      <4> QED
        BY <4>1, <1>2
    <3>5. CASE j > u /\ i < u
      <4>1. l2[i] = list[i] /\ l2[j] = list[j - 1] /\ i \in 1 .. N /\ j - 1 \in 1 .. N /\ i < j - 1
        BY <3>5, <2>4, <1>1, <1>3
      <4> QED
        BY <4>1, <1>2
    <3> QED
      BY <3>1, <3>2, <3>3, <3>4, <3>5, <1>1, <1>3
  <2> QED
    BY <2>1, <2>4, <2>5 DEF Ascending, Record
<1> QED
  BY <1>4, <1>5

\* A flag is recorded for a queue ID by a record of that ID.
LEMMA FlagsOf ==
  ASSUME NEW list, NEW p, NEW f
  PROVE  f \in flags_of(list, p) <=>
           \E i \in 1 .. Len(list) : list[i].qid = p /\ f \in list[i].flags
  BY DEF flags_of

\* notified adds its flag to those of its queue ID, and to no others.
LEMMA NotifiedFlags ==
  ASSUME NEW Q, Q \subseteq Nat, NEW P, NEW list \in Seq(notification_rec_type(Q, P)),
         Ascending(list), NEW q \in Q, NEW mq \in P, NEW flag \in notification_flag,
         NEW p \in Q, NEW f
  PROVE  f \in flags_of(notified(list, q, mq, flag), p) <=>
           f \in flags_of(list, p) \/ (p = q /\ f = flag)
<1> DEFINE Record == notification_rec_type(Q, P)
           N == Len(list)
           u == upper_bound(list, q)
           new == notification_rec(q, mq, flag)
           l2 == notified(list, q, mq, flag)
           r == [list[u - 1] EXCEPT !.flags = @ \cup {flag}]
<1>1. N \in Nat /\ \A i \in 1 .. N : list[i] \in Record
  BY ListOfRecords
<1>2. u \in 1 .. N + 1
  BY UpperBound
<1>3. CASE has_record(list, u, q)
  <2>1. u - 1 \in 1 .. N /\ list[u - 1].qid = q
    BY <1>1, <1>2, <1>3 DEF has_record
  <2>2. l2 = [list EXCEPT ![u - 1] = r]
    BY <1>3 DEF notified
  <2>3. r.qid = q /\ r.flags = list[u - 1].flags \cup {flag}
    BY <2>1, <1>1 DEF notification_rec_type
  <2> HIDE DEF u, r, N
  <2>4. Len(l2) = N /\ \A i \in 1 .. N : l2[i] = IF i = u - 1 THEN r ELSE list[i]
    BY <2>1, <2>2 DEF N
  <2> HIDE DEF l2
  <2>5. (\E i \in 1 .. N : l2[i].qid = p /\ f \in l2[i].flags) <=>
          \/ \E i \in 1 .. N : list[i].qid = p /\ f \in list[i].flags
          \/ p = q /\ f = flag
    BY <2>1, <2>3, <2>4
  <2>6. f \in flags_of(l2, p) <=> f \in flags_of(list, p) \/ (p = q /\ f = flag)
    <3>1. f \in flags_of(l2, p) <=> \E i \in 1 .. Len(l2) : l2[i].qid = p /\ f \in l2[i].flags
      BY FlagsOf
    <3>2. f \in flags_of(list, p) <=> \E i \in 1 .. N : list[i].qid = p /\ f \in list[i].flags
      BY FlagsOf DEF N
    <3> QED
      BY <3>1, <3>2, <2>4, <2>5
  <2> QED
    BY <2>6 DEF l2
<1>4. CASE ~has_record(list, u, q)
  <2>1. l2 = InsertAt(list, u, new)
    BY <1>4 DEF notified
  <2>2. new \in Record /\ new.qid = q /\ new.flags = {flag}
    BY DEF notification_rec, notification_rec_type
  <2> HIDE DEF new, Record, u, N
  <2>3. /\ Len(l2) = N + 1
        /\ \A i \in 1 .. N + 1 : l2[i] = IF i < u THEN list[i] ELSE IF i = u THEN new ELSE list[i - 1]
    BY <2>1, <2>2, <1>2, RecordInserted DEF N, Record
  <2> HIDE DEF l2
  <2>4. (\E i \in 1 .. N + 1 : l2[i].qid = p /\ f \in l2[i].flags) <=>
          \/ \E i \in 1 .. N : list[i].qid = p /\ f \in list[i].flags
          \/ p = q /\ f = flag
    <3>1. ASSUME NEW i \in 1 .. N + 1, l2[i].qid = p, f \in l2[i].flags
          PROVE  \/ \E j \in 1 .. N : list[j].qid = p /\ f \in list[j].flags
                 \/ p = q /\ f = flag
      <4>1. CASE i < u
        BY <4>1, <3>1, <2>3, <1>1, <1>2
      <4>2. CASE i = u
        BY <4>2, <3>1, <2>2, <2>3, <1>1, <1>2
      <4>3. CASE i > u
        <5>1. l2[i] = list[i - 1] /\ i - 1 \in 1 .. N
          BY <4>3, <2>3, <1>1, <1>2
        <5> QED
          BY <5>1, <3>1
      <4> QED
        BY <4>1, <4>2, <4>3, <1>1, <1>2
    <3>2. ASSUME NEW j \in 1 .. N
          PROVE  \E i \in 1 .. N + 1 : l2[i] = list[j]
      <4>1. CASE j < u
        BY <4>1, <2>3, <1>1, <1>2
      <4>2. CASE j >= u
        <5>1. j + 1 \in 1 .. N + 1 /\ l2[j + 1] = list[j]
          BY <4>2, <2>3, <1>1, <1>2
        <5> QED
          BY <5>1
      <4> QED
        BY <4>1, <4>2, <1>1, <1>2
    <3>3. u \in 1 .. N + 1 /\ l2[u].qid = q /\ l2[u].flags = {flag}
      BY <2>2, <2>3, <1>1, <1>2
    <3> QED
      BY <3>1, <3>2, <3>3
  <2>5. f \in flags_of(l2, p) <=> f \in flags_of(list, p) \/ (p = q /\ f = flag)
    <3>1. f \in flags_of(l2, p) <=> \E i \in 1 .. Len(l2) : l2[i].qid = p /\ f \in l2[i].flags
      BY FlagsOf
    <3>2. f \in flags_of(list, p) <=> \E i \in 1 .. N : list[i].qid = p /\ f \in list[i].flags
      BY FlagsOf DEF N
    <3> QED
      BY <3>1, <3>2, <2>3, <2>4
  <2> QED
    BY <2>5 DEF l2
<1> QED
  BY <1>3, <1>4

\* A record of the list that notified makes is new, or one of the old records,
\* or that of the queue ID with the flag added.
LEMMA NotifiedRecords ==
  ASSUME NEW Q, Q \subseteq Nat, NEW P, NEW list \in Seq(notification_rec_type(Q, P)),
         Ascending(list), NEW q \in Q, NEW mq \in P, NEW flag \in notification_flag,
         NEW i \in 1 .. Len(notified(list, q, mq, flag))
  PROVE  LET r == notified(list, q, mq, flag)[i]
         IN  \/ r = notification_rec(q, mq, flag)
             \/ \E j \in 1 .. Len(list) :
                  r = list[j] \/ r = [list[j] EXCEPT !.flags = @ \cup {flag}]
<1> DEFINE Record == notification_rec_type(Q, P)
           N == Len(list)
           u == upper_bound(list, q)
           new == notification_rec(q, mq, flag)
           l2 == notified(list, q, mq, flag)
<1>1. N \in Nat /\ u \in 1 .. N + 1
  BY ListOfRecords, UpperBound
<1>2. CASE has_record(list, u, q)
  <2> DEFINE r == [list[u - 1] EXCEPT !.flags = @ \cup {flag}]
  <2>1. u - 1 \in 1 .. N /\ l2 = [list EXCEPT ![u - 1] = r]
    BY <1>1, <1>2 DEF has_record, notified
  <2> HIDE DEF u, r, N
  <2>2. Len(l2) = N /\ \A j \in 1 .. N : l2[j] = IF j = u - 1 THEN r ELSE list[j]
    BY <2>1 DEF N
  <2> HIDE DEF l2
  <2>3. i \in 1 .. N
    BY <2>2 DEF l2
  <2> QED
    BY <2>1, <2>2, <2>3 DEF r, l2, N
<1>3. CASE ~has_record(list, u, q)
  <2>1. l2 = InsertAt(list, u, new)
    BY <1>3 DEF notified
  <2>2. new \in Record
    BY DEF notification_rec, notification_rec_type
  <2> HIDE DEF new, Record, u, N
  <2>3. /\ Len(l2) = N + 1
        /\ \A j \in 1 .. N + 1 : l2[j] = IF j < u THEN list[j] ELSE IF j = u THEN new ELSE list[j - 1]
    BY <2>1, <2>2, <1>1, RecordInserted DEF N, Record
  <2> HIDE DEF l2
  <2>4. i \in 1 .. N + 1
    BY <2>3 DEF l2
  <2>5. l2[i] = new \/ \E j \in 1 .. N : l2[i] = list[j]
    <3>1. CASE i < u
      BY <3>1, <2>3, <2>4, <1>1
    <3>2. CASE i > u
      <4>1. i - 1 \in 1 .. N /\ l2[i] = list[i - 1]
        BY <3>2, <2>3, <2>4, <1>1
      <4> QED
        BY <4>1
    <3> QED
      BY <3>1, <3>2, <2>3, <2>4, <1>1
  <2> QED
    BY <2>5 DEF l2, N, new
<1> QED
  BY <1>2, <1>3
=============================================================================
