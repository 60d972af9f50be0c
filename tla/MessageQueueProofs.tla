------------------------- MODULE MessageQueueProofs -------------------------
(***************************************************************************)
(* Every method of message_queue keeps the members and the lists of the    *)
(* listeners well typed and the lists sorted, whatever the program does    *)
(* with the objects.                                                       *)
(***************************************************************************)
EXTENDS MessageQueue, NotificationListProofs

\* The lists of all the listeners, well typed and sorted.
Lists(ns, Q) ==
  /\ ns \in [Listeners -> Seq(notification_rec_type(Q, Objects \cup {nullptr}))]
  /\ \A l \in Listeners : Ascending(ns[l])

\* One notification of any listener, or of none.
LEMMA ListsNotified ==
  ASSUME NEW Q, Q \subseteq Nat, NEW ns, Lists(ns, Q), NEW l \in Listeners \cup {nullptr},
         l = nullptr \/ l \in Listeners, NEW q \in Q, NEW mq \in Objects \cup {nullptr},
         NEW flag \in notification_flag
  PROVE  Lists(notify(ns, l, q, mq, flag), Q)
<1>1. CASE l = nullptr
  BY <1>1 DEF notify
<1>2. CASE l # nullptr
  <2> DEFINE T == Seq(notification_rec_type(Q, Objects \cup {nullptr}))
             new == notified(ns[l], q, mq, flag)
  <2>1. l \in Listeners /\ ns[l] \in T /\ Ascending(ns[l])
    BY <1>2 DEF Lists
  <2>2. new \in T /\ Ascending(new)
    BY <2>1, NotifiedAscending
  <2>3. notify(ns, l, q, mq, flag) = [ns EXCEPT ![l] = new]
    BY <1>2 DEF notify
  <2> HIDE DEF new
  <2> QED
    BY <2>1, <2>2, <2>3 DEF Lists
<1> QED
  BY <1>1, <1>2

\* A notification leaves a record, and the lists of the other listeners alone.
Hears(l, ns, ms) == \A k \in Listeners : IF k = l THEN ms[k] # <<>> ELSE ms[k] = ns[k]

LEMMA ListenerHears ==
  ASSUME NEW Q, Q \subseteq Nat, NEW ns, Lists(ns, Q), nullptr \notin Listeners,
         NEW l \in Listeners \cup {nullptr}, NEW q \in Q,
         NEW mq \in Objects \cup {nullptr}, NEW flag \in notification_flag
  PROVE  Lists(notify(ns, l, q, mq, flag), Q) /\ Hears(l, ns, notify(ns, l, q, mq, flag))
<1>0. Lists(notify(ns, l, q, mq, flag), Q)
  BY ListsNotified
<1>1. CASE l = nullptr
  BY <1>0, <1>1 DEF notify, Hears
<1>2. CASE l # nullptr
  <2> DEFINE new == notified(ns[l], q, mq, flag)
  <2>1. /\ l \in Listeners /\ Ascending(ns[l])
        /\ ns[l] \in Seq(notification_rec_type(Q, Objects \cup {nullptr}))
    BY <1>2 DEF Lists
  <2>2. flag \in flags_of(new, q)
    BY <2>1, NotifiedFlags
  <2>3. flags_of(<<>>, q) = {}
    BY DEF flags_of
  <2>4. notify(ns, l, q, mq, flag) = [ns EXCEPT ![l] = new] /\ DOMAIN ns = Listeners
    BY <1>2 DEF notify, Lists
  <2> HIDE DEF new
  <2> QED
    BY <2>1, <2>2, <2>3, <2>4, <1>0 DEF Hears
<1> QED
  BY <1>1, <1>2

\* The invariant of the members that every method keeps.
MQInv(Q, M) == MQTypeOK(Q, M) /\ MQListsAscending

LEMMA Flags == {"data", "detached", "closed"} = notification_flag
  BY DEF notification_flag

LEMMA MQInitInv ==
  ASSUME NEW Q, NEW M, undefined_qid \in Q, MQInit
  PROVE  MQInv(Q, M)
  BY DEF MQInit, MQInv, MQTypeOK, MQListsAscending, Ascending

\* The invariant after a step, from the members and the lists one by one.
LEMMA MQInvAfter ==
  ASSUME NEW Q, NEW M,
         alive' \subseteq Objects, id' \in [Objects -> Q], queue' \in [Objects -> Seq(M)],
         listener' \in [Objects -> Listeners \cup {nullptr}], asleep' \subseteq Listeners,
         Lists(notifications', Q)
  PROVE  MQInv(Q, M)'
  BY DEF MQInv, MQTypeOK, MQListsAscending, Lists

\* The methods that construct, move and destroy objects.
LEMMA MQLifetimeInv ==
  ASSUME NEW Q, Q \subseteq Nat, undefined_qid \in Q, NEW M, MQInv(Q, M),
         NEW o \in Objects, NEW p \in Objects, NEW q \in Q,
         construct(o, q) \/ move_construct(o, p) \/ move_assign(o, p) \/ destroy(o)
  PROVE  MQInv(Q, M)'
<1>1. Lists(notifications, Q)
  BY DEF MQInv, MQTypeOK, MQListsAscending, Lists
<1>2. /\ alive \subseteq Objects /\ asleep \subseteq Listeners
      /\ id \in [Objects -> Q]
      /\ listener \in [Objects -> Listeners \cup {nullptr}]
      /\ queue \in [Objects -> Seq(M)]
  BY DEF MQInv, MQTypeOK
<1>3. <<>> \in Seq(M)
  OBVIOUS
<1>4. CASE construct(o, q)
  BY <1>1, <1>2, <1>4, MQInvAfter DEF construct
<1>5. CASE move_construct(o, p) \/ move_assign(o, p)
  <2>1. move(o, p) /\ alive' \subseteq Objects
    BY <1>2, <1>5 DEF move_construct, move_assign
  <2> DEFINE ns == notify(notifications, listener[o], id[o], o, "detached")
  <2>2. Lists(ns, Q)
    BY <1>1, <1>2, ListsNotified, Flags
  <2>3. Lists(notify(ns, listener[p], id[p], p, "detached"), Q)
    <3> HIDE DEF ns
    <3> QED
      BY <2>2, <1>2, ListsNotified, Flags
  <2>4. Lists(notifications', Q)
    BY <2>1, <2>3 DEF move, tell_both
  <2>5. queue' \in [Objects -> Seq(M)]
    BY <1>2, <1>3, <2>1 DEF move, move_queue
  <2> QED
    BY <1>2, <2>1, <2>4, <2>5, MQInvAfter DEF move, move_id, drop_listeners
<1>6. CASE destroy(o)
  <2>1. Lists(notifications', Q)
    BY <1>1, <1>2, <1>6, ListsNotified, Flags DEF destroy, tell
  <2>2. queue' \in [Objects -> Seq(M)]
    BY <1>2, <1>3, <1>6 DEF destroy
  <2> QED
    BY <1>2, <1>6, <2>1, <2>2, MQInvAfter DEF destroy, tell
<1> QED
  BY <1>4, <1>5, <1>6

\* The methods that use an object.
LEMMA MQUseInv ==
  ASSUME NEW Q, Q \subseteq Nat, NEW M, MQInv(Q, M), NEW o \in Objects,
         \/ \E m \in M : push(o, m)
         \/ \E l \in Listeners : set_listener(o, l)
         \/ pop(o)
         \/ clear_listener(o)
  PROVE  MQInv(Q, M)'
<1>1. Lists(notifications, Q)
  BY DEF MQInv, MQTypeOK, MQListsAscending, Lists
<1>2. /\ alive \subseteq Objects /\ asleep \subseteq Listeners
      /\ id \in [Objects -> Q]
      /\ listener \in [Objects -> Listeners \cup {nullptr}]
      /\ queue \in [Objects -> Seq(M)]
  BY DEF MQInv, MQTypeOK
<1>3. CASE UNCHANGED mqvars
  BY <1>1, <1>2, <1>3, MQInvAfter DEF mqvars
<1>4. ASSUME NEW m \in M, push(o, m), ~UNCHANGED mqvars
      PROVE  MQInv(Q, M)'
  <2>1. /\ queue' = [queue EXCEPT ![o] = Append(@, m)]
        /\ UNCHANGED <<alive, id, listener>>
        /\ \/ notifications' = notify(notifications, listener[o], id[o], o, "data")
           \/ UNCHANGED notifications
        /\ asleep' \subseteq Listeners
    BY <1>2, <1>4 DEF push, push_back, tell
  <2>2. Lists(notifications', Q)
    BY <1>1, <1>2, <2>1, ListsNotified, Flags
  <2>3. queue' \in [Objects -> Seq(M)]
    <3>1. Append(queue[o], m) \in Seq(M)
      BY <1>2, AppendProperties
    <3> QED
      BY <1>2, <2>1, <3>1
  <2> QED
    BY <1>2, <2>1, <2>2, <2>3, MQInvAfter
<1>5. CASE pop(o)
  <2>1. queue[o] # <<>> => Tail(queue[o]) \in Seq(M)
    BY <1>2, HeadTailProperties
  <2>2. queue' \in [Objects -> Seq(M)]
    BY <1>2, <1>5, <2>1 DEF pop, has_message
  <2> QED
    BY <1>1, <1>2, <1>5, <2>2, MQInvAfter DEF pop
<1>6. ASSUME NEW l \in Listeners, set_listener(o, l), ~UNCHANGED mqvars
      PROVE  MQInv(Q, M)'
  <2>1. /\ listener' = [listener EXCEPT ![o] = l]
        /\ UNCHANGED <<alive, id, queue>>
        /\ \/ notifications' = notify(notifications, l, id[o], o, "data")
           \/ UNCHANGED notifications
        /\ asleep' \subseteq Listeners
    BY <1>2, <1>6 DEF set_listener, tell
  <2>2. Lists(notifications', Q)
    BY <1>1, <1>2, <2>1, ListsNotified, Flags
  <2> QED
    BY <1>2, <2>1, <2>2, MQInvAfter
<1>7. CASE clear_listener(o)
  BY <1>1, <1>2, <1>7, MQInvAfter DEF clear_listener
<1> QED
  BY <1>3, <1>4, <1>5, <1>6, <1>7
=============================================================================
