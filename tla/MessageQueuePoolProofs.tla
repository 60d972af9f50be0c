----------------------- MODULE MessageQueuePoolProofs -----------------------
(***************************************************************************)
(* What a pool promises whatever its clients do.  Only one thread polls    *)
(* its queues at a time, and _mqs does not change meanwhile.  Every member *)
(* of _mqs is once there and belongs to a client that still waits for it,  *)
(* so nothing freed is used.  Polls report pool queues only, so nobody     *)
(* hears of a deleted queue.  With one thread at a time in allocate_queue, *)
(* the IDs are distinct, each handler gets its own messages and the pool   *)
(* serves a channel in each slot.  An idle poll is idle when it is said.   *)
(***************************************************************************)
EXTENDS MessageQueuePool, MessageQueueProofs

Phases == {"out", "set", "wait", "clear", "end"}
ClientStates ==
  {"out", "allocate", "add", "wait_add", "wait_remove", "delete", "wait_pause", "polling",
   "post_resume", "join", "gone"}

\* What the argument needs of the types.
PauseTypes ==
  /\ sem_pause \in Nat /\ sem_resume \in Nat
  /\ cpc \in [Clients -> ClientStates]
  /\ phase \in [Listeners -> Phases]
  /\ DOMAIN range = Listeners

\* A thread polls only where its code calls poll.
PollersPolling ==
  /\ phase[worker] # "out" => wpc = "poll"
  /\ \A c \in Clients : phase[c] # "out" => cpc[c] = "polling"

\* The inductive invariant: the token says who may poll, and no poll runs
\* while the worker, which alone changes _mqs, is elsewhere in its loop.
IInv == PauseTypes /\ PauseToken /\ PollersPolling /\ RangesStable

\* No client polls unless the worker waits to be resumed, and then one.
LEMMA TokenHolders ==
  ASSUME PauseTypes, PauseToken
  PROVE  /\ IsFiniteSet(PausedBy) /\ Cardinality(PausedBy) \in Nat
         /\ wpc # "resume" => PausedBy = {} /\ sem_pause = 0 /\ sem_resume = 0
         /\ \A c, d \in PausedBy : c = d
<1>1. IsFiniteSet(PausedBy) /\ Cardinality(PausedBy) \in Nat
  <2>1. PausedBy \subseteq Clients
    BY DEF PausedBy
  <2> QED
    BY <2>1, PoolAssumption, FS_Subset, FS_CardinalityType
<1>2. wpc # "resume" => Cardinality(PausedBy) = 0 /\ sem_pause = 0 /\ sem_resume = 0
  BY <1>1 DEF PauseTypes, PauseToken
<1>3. Cardinality(PausedBy) = 0 \/ Cardinality(PausedBy) = 1
  BY <1>1 DEF PauseTypes, PauseToken
<1>4. Cardinality(PausedBy) = 0 => PausedBy = {}
  BY <1>1, FS_EmptySet
<1>5. Cardinality(PausedBy) = 1 => \E x : PausedBy = {x}
  BY <1>1, FS_Singleton
<1> QED
  BY <1>1, <1>2, <1>3, <1>4, <1>5

LEMMA Exclusive == IInv => PollExclusive
<1> SUFFICES ASSUME IInv, NEW l \in Listeners, NEW k \in Listeners,
                    phase[l] # "out", phase[k] # "out"
             PROVE  l = k
  BY DEF PollExclusive
<1>1. \A c \in Clients : phase[c] # "out" => c \in PausedBy
  BY DEF IInv, PollersPolling, PausedBy
<1>2. phase[worker] # "out" => PausedBy = {}
  BY TokenHolders DEF IInv, PollersPolling
<1> QED
  BY <1>1, <1>2, TokenHolders, PoolAssumption DEF IInv

\* A step of a call of poll moves that call only, and its range only at its end.
LEMMA PollMovesOn ==
  ASSUME NEW l \in Listeners, PauseTypes,
         poll_step(l) \/ poll_timeout(l) \/ poll_spurious_wakeup(l)
  PROVE  /\ phase[l] # "out" \/ UNCHANGED phase
         /\ \/ UNCHANGED range
            \/ range' = [range EXCEPT ![l] = <<>>] /\ phase'[l] = "out"
         /\ \E p \in Phases : phase' = [phase EXCEPT ![l] = p]
<1>1. phase = [phase EXCEPT ![l] = phase[l]] /\ phase[l] \in Phases
  BY DEF PauseTypes
<1>2. CASE UNCHANGED <<phase, range>>
  BY <1>1, <1>2
<1>3. CASE poll_set(l) \/ poll_clear(l)
  BY <1>1, <1>3 DEF poll_set, poll_clear, next_queue, Phases
<1>4. CASE poll_return(l) \/ poll_timeout(l)
  BY <1>1, <1>4 DEF poll_return, poll_timeout, poll_copy, enter, Phases
<1>5. CASE poll_sleep(l) \/ poll_spurious_wakeup(l)
  BY <1>2, <1>5 DEF poll_sleep, poll_spurious_wakeup, pollvars, callvars
<1>6. CASE poll_end(l)
  BY <1>1, <1>6 DEF poll_end, Phases, PauseTypes
<1> QED
  BY <1>3, <1>4, <1>5, <1>6 DEF poll_step

\* A call of poll begins with the vector as it is.
LEMMA PollBegins ==
  ASSUME NEW l \in Listeners, PauseTypes, NEW m, poll_begin(l, mqs, m)
  PROVE  /\ phase[l] = "out"
         /\ range' = [range EXCEPT ![l] = mqs]
         /\ \E p \in Phases : phase' = [phase EXCEPT ![l] = p]
  BY DEF poll_begin, enter, Phases

\* Of what the token and the polls depend on, most steps change nothing, or
\* the place of one client that neither becomes nor was a token holder.
LEMMA Elsewhere ==
  ASSUME IInv, UNCHANGED <<sem_pause, sem_resume, phase, range>>,
         cpc' \in [Clients -> ClientStates],
         \A c \in Clients : cpc'[c] # cpc[c] =>
           {cpc[c], cpc'[c]} \cap {"polling", "post_resume"} = {},
         wpc' = wpc \/ (wpc # "resume" /\ wpc' # "resume" /\ phase[worker] = "out"),
         mqs' = mqs \/ wpc = "control"
  PROVE  IInv'
<1>1. PausedBy' = PausedBy
  BY DEF PausedBy
<1>2. PauseTypes' /\ PauseToken'
  BY <1>1 DEF IInv, PauseTypes, PauseToken
<1>3. PollersPolling'
  BY DEF IInv, PollersPolling
<1>4. RangesStable'
  <2>1. CASE mqs' = mqs
    BY <2>1 DEF IInv, RangesStable
  <2>2. CASE wpc = "control"
    <3>1. PausedBy = {}
      BY <2>2, TokenHolders DEF IInv
    <3>2. \A l \in Listeners : phase[l] = "out"
      BY <2>2, <3>1, PoolAssumption DEF IInv, PollersPolling, PausedBy
    <3> QED
      BY <3>2 DEF RangesStable
  <2> QED
    BY <2>1, <2>2
<1> QED
  BY <1>2, <1>3, <1>4 DEF IInv

LEMMA InitIInv == Init => IInv
<1> SUFFICES ASSUME Init PROVE IInv
  OBVIOUS
<1>1. PauseTypes /\ PollersPolling /\ RangesStable
  BY PoolAssumption
     DEF Init, PollInit, PauseTypes, PollersPolling, RangesStable, Phases, ClientStates
<1>2. PausedBy = {}
  BY DEF Init, PausedBy
<1>3. PauseToken
  BY <1>2, FS_EmptySet DEF Init, PauseToken
<1> QED
  BY <1>1, <1>3 DEF IInv

\* A step of a poll, or its beginning, by a thread that may poll.
LEMMA Polls ==
  ASSUME IInv, NEW l \in Listeners, UNCHANGED mqs,
         \E p \in Phases : phase' = [phase EXCEPT ![l] = p],
         \/ UNCHANGED range
         \/ range' = [range EXCEPT ![l] = mqs]
         \/ range' = [range EXCEPT ![l] = <<>>] /\ phase'[l] = "out",
         phase[l] # "out" \/ UNCHANGED phase \/ range' = [range EXCEPT ![l] = mqs]
  PROVE  /\ RangesStable'
         /\ phase' \in [Listeners -> Phases] /\ DOMAIN range' = Listeners
         /\ \A k \in Listeners : k # l => phase'[k] = phase[k]
  BY DEF IInv, PauseTypes, RangesStable

\* The steps of the worker.
LEMMA WorkerKeeps ==
  ASSUME IInv, Worker \/ SpuriousWakeup
  PROVE  IInv'
<1>0. /\ PauseTypes /\ PauseToken /\ PollersPolling /\ RangesStable
      /\ worker \in Listeners /\ Clients \subseteq Listeners /\ worker \notin Clients
      /\ cpc \in [Clients -> ClientStates]
  BY PoolAssumption DEF IInv, PauseTypes
<1>1. ASSUME UNCHANGED <<sem_pause, sem_resume, cpc, mqs>>,
             phase' \in [Listeners -> Phases], DOMAIN range' = Listeners, RangesStable',
             \A k \in Listeners : k # worker => phase'[k] = phase[k],
             phase'[worker] # "out" => wpc' = "poll", wpc = "poll", wpc' # "resume"
      PROVE  IInv'
  <2>1. PausedBy' = PausedBy
    BY <1>1 DEF PausedBy
  <2> QED
    BY <1>0, <1>1, <2>1 DEF IInv, PauseTypes, PauseToken, PollersPolling
<1>2. CASE PollBegin
  <2>1. /\ UNCHANGED <<sem_pause, sem_resume, cpc, mqs, wpc>> /\ wpc = "poll"
        /\ poll_begin(worker, mqs, WAIT_INFINITELY)
    BY <1>2 DEF PollBegin, semaphores, clientvars, workervars
  <2> QED
    BY <1>0, <1>1, <2>1, PollBegins, Polls
<1>3. CASE PollStep
  <2>1. /\ UNCHANGED <<sem_pause, sem_resume, cpc, mqs>> /\ wpc = "poll"
        /\ poll_step(worker)
        /\ phase'[worker] # "out" => wpc' = "poll"
        /\ wpc' # "resume"
    BY <1>3 DEF PollStep, semaphores, clientvars
  <2> QED
    BY <1>0, <1>1, <2>1, PollMovesOn, Polls
<1>4. CASE SpuriousWakeup
  BY <1>0, <1>4, Elsewhere
     DEF SpuriousWakeup, poll_spurious_wakeup, pollvars, callvars, semaphores, clientvars, workervars
<1>5. CASE HandleControl
  BY <1>0, <1>5, Elsewhere
     DEF HandleControl, handle_control, poll_again, pollvars, callvars, clientvars, PollersPolling
<1>6. CASE PostPause
  <2>1. /\ wpc = "pause" /\ wpc' = "resume" /\ sem_pause' = sem_pause + 1
        /\ UNCHANGED <<sem_resume, cpc, phase, range, mqs>>
    BY <1>6 DEF PostPause, stay_paused, pollvars, callvars, clientvars
  <2>2. PausedBy' = PausedBy
    BY <2>1 DEF PausedBy
  <2>3. Cardinality(PausedBy) \in Nat
    BY <1>0, TokenHolders
  <2>4. /\ sem_pause \in Nat /\ sem_resume \in Nat
        /\ sem_pause + sem_resume + Cardinality(PausedBy) = 0
    BY <1>0, <2>1 DEF PauseTypes, PauseToken
  <2>5. sem_resume = 0 /\ sem_pause = 0 /\ sem_pause' = 1 /\ Cardinality(PausedBy) = 0
    BY <2>1, <2>3, <2>4
  <2>6. PauseTypes'
    BY <1>0, <2>1, <2>4, <2>5 DEF PauseTypes
  <2>7. Cardinality(PausedBy)' = 0
    BY <2>2, <2>5
  <2>8. PauseToken'
    BY <2>1, <2>5, <2>7 DEF PauseToken
  <2> QED
    BY <1>0, <2>1, <2>6, <2>8 DEF IInv, PollersPolling, RangesStable
<1>7. CASE WaitResume
  <2>1. /\ wpc = "resume" /\ wpc' = "poll" /\ sem_resume > 0 /\ sem_resume' = sem_resume - 1
        /\ UNCHANGED <<sem_pause, cpc, phase, range, mqs>>
    BY <1>7 DEF WaitResume, wait_resume, pollvars, callvars, clientvars
  <2>2. PausedBy' = PausedBy
    BY <2>1 DEF PausedBy
  <2>3. Cardinality(PausedBy) \in Nat
    BY <1>0, TokenHolders
  <2>4. /\ sem_pause \in Nat /\ sem_resume \in Nat
        /\ sem_pause + sem_resume + Cardinality(PausedBy) = 1
    BY <1>0, <2>1 DEF PauseTypes, PauseToken
  <2>5. sem_resume = 1 /\ sem_resume' = 0 /\ sem_pause = 0 /\ Cardinality(PausedBy) = 0
    BY <2>1, <2>3, <2>4
  <2>6. PauseTypes'
    BY <1>0, <2>1, <2>4, <2>5 DEF PauseTypes
  <2>7. Cardinality(PausedBy)' = 0
    BY <2>2, <2>5
  <2>8. PauseToken'
    BY <2>1, <2>5, <2>7 DEF PauseToken
  <2> QED
    BY <1>0, <2>1, <2>6, <2>8 DEF IInv, PollersPolling, RangesStable
<1>8. CASE HandleRecord \/ HandlerReturns
  BY <1>0, <1>8, Elsewhere
     DEF HandleRecord, HandlerReturns, pollvars, callvars, semaphores, clientvars, PollersPolling
<1> QED
  BY <1>2, <1>3, <1>4, <1>5, <1>6, <1>7, <1>8 DEF Worker

\* The steps of a client.
LEMMA ClientKeeps ==
  ASSUME IInv, NEW c \in Clients, Call(c) \/ Choice(c)
  PROVE  IInv'
<1>0. /\ PauseTypes /\ PauseToken /\ PollersPolling /\ RangesStable
      /\ worker \in Listeners /\ Clients \subseteq Listeners /\ worker \notin Clients
      /\ cpc \in [Clients -> ClientStates]
  BY PoolAssumption DEF IInv, PauseTypes
<1>1. CASE \/ \E o \in Objects : AllocateStore(c, o) \/ MoveOut(c, o)
           \/ AllocateScan(c) \/ AllocateAdd(c) \/ WaitAnswer(c) \/ Delete(c)
           \/ Enqueue(c) \/ Release(c) \/ IdlePause(c) \/ Join(c)
  <2>1. \E s \in ClientStates \ {"polling", "post_resume"} :
          /\ cpc' = [cpc EXCEPT ![c] = s]
          /\ cpc[c] # s => cpc[c] \notin {"polling", "post_resume"}
    <3>1. cpc = [cpc EXCEPT ![c] = cpc[c]]
      BY <1>0
    <3>2. CASE Enqueue(c) \/ \E o \in Objects : MoveOut(c, o)
      BY <1>0, <3>1, <3>2 DEF Enqueue, MoveOut, clientvars, ClientStates
    <3>3. CASE \/ \E o \in Objects : AllocateStore(c, o)
               \/ AllocateScan(c) \/ AllocateAdd(c) \/ IdlePause(c)
      BY <1>0, <3>3 DEF AllocateStore, AllocateScan, AllocateAdd, IdlePause, ClientStates
    <3>4. CASE WaitAnswer(c) \/ Delete(c) \/ Release(c) \/ Join(c)
      BY <1>0, <3>4 DEF WaitAnswer, Delete, Release, wait_for_answer, Join, ClientStates
    <3> QED
      BY <1>1, <3>2, <3>3, <3>4
  <2>2. UNCHANGED <<sem_pause, sem_resume, phase, range, wpc, mqs>>
    BY <1>1 DEF AllocateStore, MoveOut, AllocateScan, AllocateAdd, WaitAnswer, Delete, Enqueue,
                Release, IdlePause, Join, pollvars, callvars, semaphores, workervars
  <2> QED
    BY <1>0, <2>1, <2>2, Elsewhere
<1>2. CASE Terminate(c)
  <2>1. /\ \A d \in Clients : cpc[d] = "out"
        /\ cpc' = [d \in Clients |-> IF d = c THEN "join" ELSE "gone"]
        /\ UNCHANGED <<sem_pause, sem_resume, phase, range, wpc, mqs>>
    BY <1>2 DEF Terminate, pollvars, callvars, semaphores, workervars
  <2> QED
    BY <2>1, Elsewhere DEF ClientStates
<1>3. CASE IdleWaitPause(c)
  <2>1. /\ cpc[c] = "wait_pause" /\ cpc' = [cpc EXCEPT ![c] = "polling"]
        /\ sem_pause > 0 /\ sem_pause' = sem_pause - 1
        /\ poll_begin(c, mqs, no_wait)
        /\ UNCHANGED <<sem_resume, mqs, wpc>>
    BY <1>3 DEF IdleWaitPause, wait_pause, workervars
  <2>2. PausedBy' = PausedBy \cup {c} /\ c \notin PausedBy
    BY <1>0, <2>1 DEF PausedBy
  <2>3. /\ Cardinality(PausedBy) \in Nat
        /\ Cardinality(PausedBy') = Cardinality(PausedBy) + 1
    BY <1>0, <2>2, TokenHolders, FS_AddElement
  <2>4. PauseToken'
    BY <1>0, <2>1, <2>3 DEF PauseTypes, PauseToken
  <2>5. /\ RangesStable'
        /\ phase' \in [Listeners -> Phases] /\ DOMAIN range' = Listeners
        /\ \A k \in Listeners : k # c => phase'[k] = phase[k]
    BY <1>0, <2>1, PollBegins, Polls
  <2>6. PauseTypes' /\ PollersPolling'
    BY <1>0, <2>1, <2>5 DEF PauseTypes, PollersPolling, ClientStates
  <2> QED
    BY <2>4, <2>5, <2>6 DEF IInv
<1>4. CASE IdlePoll(c)
  <2>1. /\ cpc[c] = "polling" /\ poll_step(c)
        /\ cpc' = IF phase'[c] = "out" THEN [cpc EXCEPT ![c] = "post_resume"] ELSE cpc
        /\ UNCHANGED <<sem_pause, sem_resume, mqs, wpc>>
    BY <1>4 DEF IdlePoll, workervars, semaphores
  <2>2. PausedBy' = PausedBy
    BY <1>0, <2>1 DEF PausedBy
  <2>3. /\ RangesStable'
        /\ phase' \in [Listeners -> Phases] /\ DOMAIN range' = Listeners
        /\ \A k \in Listeners : k # c => phase'[k] = phase[k]
    BY <1>0, <2>1, PollMovesOn, Polls
  <2>4. PauseTypes' /\ PollersPolling'
    BY <1>0, <2>1, <2>3 DEF PauseTypes, PollersPolling, ClientStates
  <2>5. PauseToken'
    BY <1>0, <2>1, <2>2 DEF PauseToken
  <2> QED
    BY <2>3, <2>4, <2>5 DEF IInv
<1>5. CASE IdleResume(c)
  <2>1. /\ cpc[c] = "post_resume" /\ cpc' = [cpc EXCEPT ![c] = "out"]
        /\ sem_resume' = sem_resume + 1
        /\ UNCHANGED <<sem_pause, phase, range, mqs, wpc>>
    BY <1>5 DEF IdleResume, post_resume, pollvars, callvars, workervars
  <2>2. PausedBy' = PausedBy \ {c} /\ c \in PausedBy
    BY <1>0, <2>1 DEF PausedBy
  <2>3. /\ Cardinality(PausedBy) \in Nat
        /\ Cardinality(PausedBy') = Cardinality(PausedBy) - 1
    BY <1>0, <2>2, TokenHolders, FS_RemoveElement
  <2>4. PauseToken'
    BY <1>0, <2>1, <2>3 DEF PauseTypes, PauseToken
  <2>5. PauseTypes' /\ PollersPolling' /\ RangesStable'
    BY <1>0, <2>1 DEF PauseTypes, PollersPolling, RangesStable, ClientStates
  <2> QED
    BY <2>4, <2>5 DEF IInv
<1> QED
  BY <1>1, <1>2, <1>3, <1>4, <1>5 DEF Call, Choice

LEMMA PauseStep == IInv /\ [Next]_vars => IInv'
<1> SUFFICES ASSUME IInv, [Next]_vars PROVE IInv'
  OBVIOUS
<1>1. CASE UNCHANGED vars
  BY <1>1, Elsewhere
     DEF vars, pollvars, callvars, semaphores, workervars, clientvars, IInv, PauseTypes
<1> QED
  BY <1>1, WorkerKeeps, ClientKeeps DEF Next

LEMMA PauseInvariant == Spec => []IInv
  BY InitIInv, PauseStep, PTL DEF Spec

\* The worker and the clients in is_poll_idle hold one pause between them.
THEOREM PauseIsAToken == Spec => []PauseToken
<1>1. IInv => PauseToken
  BY DEF IInv
<1> QED
  BY PauseInvariant, <1>1, PTL

\* Polls never overlap, for any number of clients and of queues: is_poll_idle has
\* the queues to itself, and the worker has them otherwise.
THEOREM PollsExclude == Spec => [](PollExclusive /\ RangesStable)
<1>1. IInv => PollExclusive /\ RangesStable
  BY Exclusive DEF IInv
<1> QED
  BY PauseInvariant, <1>1, PTL
-----------------------------------------------------------------------------
Messages == [qid : Slots, mid : ControlMessages \cup DataMessages]
Served == [qid : 1 .. capacity, mid : DataMessages]
Records == notification_rec_type(Qids, Objects \cup {nullptr})

\* What TypeOK leaves open of the calls of poll, of the clients and the worker.
CallTypes ==
  /\ range \in [Listeners -> Seq(Objects)] /\ pos \in [Listeners -> Nat]
  /\ result \in [Listeners -> Seq(Records)] /\ \A l \in Listeners : Ascending(result[l])
  /\ \A l \in Listeners : phase[l] \in {"set", "clear"} \/ pos[l] = 1

ThreadTypes ==
  /\ slot \in [Clients -> 0 .. capacity + 1]
  /\ \A c \in Clients : cpc[c] = "allocate" => slot[c] # 0
  /\ current \subseteq Served /\ wi \in Nat \ {0}

Types == TypeOK /\ MQListsAscending /\ CallTypes /\ ThreadTypes

\* A client that adds or releases a queue waits with a semaphore of its own.
Waits == {"wait_add", "wait_remove"}
Changes == {"add", "wait_add", "wait_remove", "delete"}

\* Every client owns its queue alone.
Owners ==
  /\ \A c \in Clients :
       /\ cpc[c] \in Changes => mine[c] # nullptr
       /\ cpc[c] \in {"allocate", "join", "gone"} => mine[c] = nullptr
       /\ mine[c] # nullptr => mine[c] \in alive \ {control}
  /\ \A c, d \in Clients : mine[c] = mine[d] /\ mine[c] # nullptr => c = d

\* The message i of the control queue, and whether a client waits for it.
Asked(i) == queue[control][i].mid
Asks(i) == Asked(i).type \in {"add", "remove"}

\* A client that waits has one message under way, or its answer.
Requests ==
  /\ \A c \in Clients : sem[c] # 0 => cpc[c] \in Waits
  /\ \A i \in 1 .. Len(queue[control]) :
       /\ Asked(i) \in ControlMessages
       /\ Asks(i) => LET c == Asked(i).client
                     IN  /\ cpc[c] = IF Asked(i).type = "add" THEN "wait_add" ELSE "wait_remove"
                         /\ sem[c] = 0 /\ Asked(i).mq = mine[c]
  /\ \A i, j \in 1 .. Len(queue[control]) :
       Asks(i) /\ Asks(j) /\ Asked(i).client = Asked(j).client => i = j

\* Is the queue of the client one of _mqs?
InPool(c) ==
  /\ mine[c] # nullptr
  /\ \/ cpc[c] \notin Changes
     \/ cpc[c] = "wait_add" /\ sem[c] # 0
     \/ cpc[c] = "wait_remove" /\ sem[c] = 0

\* _mqs holds the control queue and, once each, queues of clients.
Members ==
  /\ mqs # <<>> /\ mqs[1] = control
  /\ \A i, j \in 1 .. Len(mqs) : mqs[i] = mqs[j] => i = j
  /\ \A i \in 2 .. Len(mqs) : \E c \in Clients : mqs[i] = mine[c] /\ InPool(c)

\* IDs are those of the slots, and a slot without a handler has no queue.
Ids ==
  /\ control \in alive /\ id[control] = 0
  /\ \A o \in Objects \ {control} : id[o] # 0
  /\ \A o \in Objects \ alive : id[o] = undefined_qid /\ queue[o] = <<>>
  /\ \A q \in Slots : handler[q] = nullptr => \A o \in Objects : id[o] # q
  /\ \A c \in Clients : cpc[c] \in {"add", "wait_add", "wait_remove"} => id[mine[c]] \in 1 .. capacity
  /\ AllowMove \/ \A c \in Clients : mine[c] # nullptr => id[mine[c]] # undefined_qid

\* A queue holds messages of its own, and only the control queue those of control.
OwnMessages ==
  \A o \in Objects : \A i \in 1 .. Len(queue[o]) :
    queue[o][i].qid = id[o] /\ (o # control => queue[o][i].mid \in DataMessages)

\* In phase ph, with p its position: has a call set its listener for the i-th
\* queue of its range, and not cleared it yet?
SetFor(ph, p, i) ==
  \/ ph = "set" /\ i < p
  \/ ph = "wait"
  \/ ph = "clear" /\ p <= i

HeldBy(o, l) == \E i \in 1 .. Len(range[l]) : range[l][i] = o /\ SetFor(phase[l], pos[l], i)
ListenersHeld == \A o \in Objects : listener[o] # nullptr => HeldBy(o, listener[o])

\* Records that may be used are those of the pool's queues.
IsIn(s, o) == \E j \in 1 .. Len(s) : s[j] = o
InMqs(o) == IsIn(mqs, o)
ToldOf(s, list) ==
  \A i \in 1 .. Len(list) :
    usable(list[i]) => IsIn(s, list[i].mq) /\ (list[i].mq = control => list[i].qid = 0)
Told(list) == ToldOf(mqs, list)

\* The worker has a list of such records, and of those of the control queue none
\* once it has gone on to the others.
ReportsInv ==
  /\ \A l \in Listeners : /\ phase[l] = "out" => notifications[l] = <<>>
                          /\ Told(notifications[l])
                          /\ phase[l] \in {"clear", "end"} => Told(result[l])
  /\ wpc \in {"control", "records"} => Told(result[worker])
  /\ wpc = "records" /\ wi = 1 => Head(result[worker]).qid # 0
  /\ wpc = "control" => wi = 1

QInv ==
  /\ IInv /\ Types
  /\ Owners /\ Requests /\ Members /\ Ids /\ OwnMessages
  /\ ListenersHeld /\ ReportsInv

LEMMA QidsInNat == Qids \subseteq Nat /\ undefined_qid \in Qids /\ Slots \subseteq Qids
  BY PoolAssumption DEF Qids, Slots

LEMMA TypesOfQueues == Types => MQInv(Qids, Messages)
  BY DEF Types, TypeOK, MQInv, Messages

LEMMA InitTypes == Init => Types
<1> SUFFICES ASSUME Init PROVE Types
  OBVIOUS
<1>1. MQTypeOK(Qids, Messages) /\ MQListsAscending
  <2>1. id \in [Objects -> Qids]
    BY PoolAssumption, QidsInNat DEF Init, Slots, CONTROL_MESSAGE_QUEUE_ID
  <2> QED
    BY <2>1, PoolAssumption DEF Init, MQTypeOK, MQListsAscending, Ascending
<1>2. PollTypeOK
  BY DEF Init, PollInit, PollTypeOK, no_wait, wait_time_provider, EMPTY_TIME_POINT
<1>3. /\ handler \in [Slots -> Listeners \cup {nullptr}]
      /\ mqs \in Seq(Objects)
      /\ sem_pause \in Nat /\ sem_resume \in Nat /\ sem \in [Clients -> 0 .. 1]
      /\ wpc \in {"poll", "control", "pause", "resume", "records", "halted"}
      /\ mine \in [Clients -> Objects \cup {nullptr}]
  BY PoolAssumption DEF Init
<1>4. CallTypes
  BY DEF Init, PollInit, CallTypes, Ascending
<1>5. ThreadTypes
  BY PoolAssumption DEF Init, ThreadTypes
<1> QED
  BY <1>1, <1>2, <1>3, <1>4, <1>5 DEF Types, TypeOK, Messages, ThreadTypes

LEMMA InitQInv == Init => QInv
<1> SUFFICES ASSUME Init PROVE QInv
  OBVIOUS
<1>1. IInv /\ Types
  BY InitIInv, InitTypes
<1>2. queue = [o \in Objects |-> <<>>] /\ Len(<<>>) = 0
  BY DEF Init
<1>3. Owners /\ Requests /\ OwnMessages
  BY <1>2, PoolAssumption DEF Init, Owners, Requests, OwnMessages, Changes
<1>4. Members
  BY DEF Init, Members
<1>5. Ids
  BY PoolAssumption DEF Init, Ids, Slots, CONTROL_MESSAGE_QUEUE_ID
<1>6. ListenersHeld /\ ReportsInv
  BY DEF Init, PollInit, ListenersHeld, ReportsInv, Told, ToldOf
<1> QED
  BY <1>1, <1>3, <1>4, <1>5, <1>6 DEF QInv
-----------------------------------------------------------------------------
\* A set of positions has a first one.
LEMMA FirstPosition ==
  ASSUME NEW n \in Nat, NEW I, I \subseteq 1 .. n, I # {}
  PROVE  \E i \in I : \A j \in I : i <= j
<1> DEFINE T == {1 .. j : j \in I}
<1>1. IsWellFoundedOn(StrictSubsetOrdering(1 .. n), FiniteSubsetsOf(1 .. n))
  BY FS_StrictSubsetOrderingWellFounded
<1>2. T \subseteq FiniteSubsetsOf(1 .. n) /\ T # {}
  <2>1. \A j \in I : 1 .. j \subseteq 1 .. n /\ IsFiniteSet(1 .. j)
    BY FS_Interval
  <2> QED
    BY <2>1 DEF FiniteSubsetsOf
<1>3. PICK x \in T : \A y \in T : <<y, x>> \notin StrictSubsetOrdering(1 .. n)
  BY <1>1, <1>2, WFMin
<1>4. PICK i \in I : x = 1 .. i
  BY <1>3
<1>5. ASSUME NEW j \in I, j < i PROVE FALSE
  <2>1. 1 .. j \subseteq 1 .. i /\ 1 .. i \subseteq 1 .. n
    BY <1>5
  <2>2. i \in 1 .. i /\ i \notin 1 .. j
    BY <1>5
  <2>3. <<1 .. j, 1 .. i>> \in StrictSubsetOrdering(1 .. n)
    BY <2>1, <2>2 DEF StrictSubsetOrdering
  <2> QED
    BY <1>3, <1>4, <2>3
<1> QED
  BY <1>5

\* The scan of the slots ends at the first free one or at the end.
LEMMA FreeSlot ==
  /\ free_slot \in 1 .. capacity + 1
  /\ free_slot <= capacity => handler[free_slot] = nullptr
<1> DEFINE I == {q \in 1 .. capacity + 1 : q <= capacity => handler[q] = nullptr}
<1>1. capacity \in Nat /\ capacity + 1 \in I
  BY PoolAssumption
<1>2. I \subseteq 1 .. capacity + 1 /\ I # {} /\ capacity + 1 \in Nat
  BY <1>1
<1>3. PICK q \in I : \A p \in I : q <= p
  BY <1>2, FirstPosition
<1>4. \A p \in 1 .. q - 1 : handler[p] # nullptr
  <2> SUFFICES ASSUME NEW p \in 1 .. q - 1, handler[p] = nullptr PROVE FALSE
    OBVIOUS
  <2>1. p \in I /\ p < q
    BY <1>1
  <2> QED
    BY <1>1, <1>3, <2>1
<1> QED
  BY <1>3, <1>4 DEF free_slot

\* The scan of _mqs ends before the first queue with an ID not less, or at the end.
LEMMA InsertPosition ==
  ASSUME Types, Members, NEW o \in Objects
  PROVE  /\ insert_position(o) \in 2 .. Len(mqs) + 1
         /\ insert_position(o) <= Len(mqs) => ~(id[mqs[insert_position(o)]] < id[o])
<1> DEFINE n == Len(mqs)
           I == {i \in 1 .. n + 1 : i >= 2 /\ (i <= n => ~(id[mqs[i]] < id[o]))}
<1>1. mqs \in Seq(Objects) /\ n \in Nat /\ n >= 1
  BY EmptySeq DEF Types, TypeOK, Members
<1> HIDE DEF n
<1>2. I \subseteq 1 .. n + 1 /\ n + 1 \in I /\ n + 1 \in Nat
  BY <1>1
<1>3. PICK i \in I : \A j \in I : i <= j
  BY <1>2, FirstPosition
<1>4. i \in 2 .. n + 1 /\ (i <= n => ~(id[mqs[i]] < id[o]))
  BY <1>1, <1>3
<1>5. \A j \in 2 .. i - 1 : id[mqs[j]] < id[o]
  <2> SUFFICES ASSUME NEW j \in 2 .. i - 1, ~(id[mqs[j]] < id[o]) PROVE FALSE
    OBVIOUS
  <2>1. j \in I /\ j < i
    BY <1>1, <1>4
  <2> QED
    BY <1>1, <1>3, <1>4, <2>1
<1>6. \E k \in 2 .. n + 1 : (\A j \in 2 .. k - 1 : id[mqs[j]] < id[o])
                            /\ (k <= n => ~(id[mqs[k]] < id[o]))
  BY <1>4, <1>5
<1> QED
  BY <1>6 DEF insert_position, n

Distinct(s) == \A i, j \in 1 .. Len(s) : s[i] = s[j] => i = j

\* A queue is inserted behind the control queue, and the others stay.
LEMMA QueueInserted ==
  ASSUME Types, Members, NEW o \in Objects,
         NEW s, s = InsertAt(mqs, insert_position(o), o)
  PROVE  /\ s \in Seq(Objects) /\ s # <<>> /\ s[1] = control
         /\ \A p : IsIn(mqs, p) => IsIn(s, p)
         /\ \A i \in 2 .. Len(s) : s[i] = o \/ \E j \in 2 .. Len(mqs) : s[i] = mqs[j]
         /\ (\A i \in 1 .. Len(mqs) : mqs[i] # o) => Distinct(s)
<1>1. PICK p : p = insert_position(o)
  OBVIOUS
<1>2. mqs \in Seq(Objects) /\ Len(mqs) \in Nat /\ Len(mqs) >= 1 /\ mqs[1] = control
  BY EmptySeq DEF Types, TypeOK, Members
<1>3. p \in 2 .. Len(mqs) + 1
  BY <1>1, InsertPosition
<1>4. /\ s \in Seq(Objects) /\ Len(s) = Len(mqs) + 1
      /\ \A i \in 1 .. Len(mqs) + 1 :
           s[i] = IF i < p THEN mqs[i] ELSE IF i = p THEN o ELSE mqs[i - 1]
  <2>1. p \in 1 .. Len(mqs) + 1
    BY <1>2, <1>3
  <2>2. s = InsertAt(mqs, p, o)
    BY <1>1
  <2>3. PICK list : list = mqs
    OBVIOUS
  <2>4. /\ InsertAt(list, p, o) \in Seq(Objects)
        /\ Len(InsertAt(list, p, o)) = Len(list) + 1
        /\ \A i \in 1 .. Len(list) + 1 :
             InsertAt(list, p, o)[i] = IF i < p THEN list[i] ELSE IF i = p THEN o ELSE list[i - 1]
    BY <1>2, <2>1, <2>3, RecordInserted
  <2> QED
    BY <2>2, <2>3, <2>4
<1>5. s # <<>> /\ s[1] = control
  <2>1. s[1] = control /\ Len(s) # 0
    BY <1>2, <1>3, <1>4
  <2> QED
    BY <2>1
<1>6. ASSUME NEW i \in 1 .. Len(mqs) PROVE \E j \in 1 .. Len(s) : s[j] = mqs[i]
  <2>1. CASE i < p
    BY <2>1, <1>2, <1>3, <1>4
  <2>2. CASE i >= p
    <3>1. i + 1 \in 1 .. Len(s) /\ s[i + 1] = mqs[i]
      BY <2>2, <1>2, <1>3, <1>4
    <3> QED
      BY <3>1
  <2> QED
    BY <2>1, <2>2, <1>2, <1>3
<1>7. ASSUME NEW i \in 2 .. Len(s)
      PROVE  s[i] = o \/ \E j \in 2 .. Len(mqs) : s[i] = mqs[j]
  <2>1. CASE i < p
    BY <2>1, <1>2, <1>3, <1>4
  <2>2. CASE i > p
    <3>1. i - 1 \in 2 .. Len(mqs) /\ s[i] = mqs[i - 1]
      BY <2>2, <1>2, <1>3, <1>4
    <3> QED
      BY <3>1
  <2>3. CASE i = p
    BY <2>3, <1>2, <1>3, <1>4
  <2> QED
    BY <2>1, <2>2, <2>3, <1>2, <1>3
<1>8. ASSUME \A i \in 1 .. Len(mqs) : mqs[i] # o, NEW i \in 1 .. Len(s), NEW j \in 1 .. Len(s),
             s[i] = s[j]
      PROVE  i = j
  <2>1. \A k, m \in 1 .. Len(mqs) : mqs[k] = mqs[m] => k = m
    BY DEF Members
  <2> DEFINE old(k) == IF k < p THEN k ELSE k - 1
  <2>2. \A k \in 1 .. Len(s) : k # p => s[k] = mqs[old(k)] /\ old(k) \in 1 .. Len(mqs)
    BY <1>2, <1>3, <1>4
  <2>3. s[p] = o
    BY <1>2, <1>3, <1>4
  <2>4. i = p <=> j = p
    BY <2>2, <2>3, <1>8
  <2>5. i # p /\ j # p => old(i) = old(j)
    <3> HIDE DEF old
    <3> QED
      BY <2>1, <2>2, <1>8
  <2>6. i # p /\ j # p => i = j
    BY <2>5, <1>2, <1>3, <1>4
  <2> QED
    BY <2>4, <2>6
<1> QED
  BY <1>4, <1>5, <1>6, <1>7, <1>8 DEF Distinct, IsIn

\* A queue is erased where it is found, and the others stay in their order.
LEMMA QueueErased ==
  ASSUME Types, Members, NEW o \in Objects \ {control}, NEW s, s = RemoveFirst(mqs, o)
  PROVE  /\ s \in Seq(Objects) /\ s # <<>> /\ s[1] = control
         /\ \A i \in 2 .. Len(s) : s[i] # o /\ \E j \in 2 .. Len(mqs) : s[i] = mqs[j]
         /\ \A i, j \in 1 .. Len(s) : s[i] = s[j] => i = j
<1>1. /\ mqs \in Seq(Objects) /\ Len(mqs) \in Nat /\ Len(mqs) >= 1 /\ mqs[1] = control
      /\ \A i, j \in 1 .. Len(mqs) : mqs[i] = mqs[j] => i = j
  BY EmptySeq DEF Types, TypeOK, Members
<1>2. CASE \A i \in 1 .. Len(mqs) : mqs[i] # o
  <2>1. s = mqs
    BY <1>2 DEF RemoveFirst
  <2> QED
    BY <2>1, <1>1, <1>2 DEF Members
<1>3. ASSUME NEW k \in 1 .. Len(mqs), mqs[k] = o
      PROVE  /\ s \in Seq(Objects) /\ s # <<>> /\ s[1] = control
             /\ \A i \in 2 .. Len(s) : s[i] # o /\ \E j \in 2 .. Len(mqs) : s[i] = mqs[j]
             /\ \A i, j \in 1 .. Len(s) : s[i] = s[j] => i = j
  <2>1. {i \in 1 .. Len(mqs) : mqs[i] = o} = {k}
    BY <1>1, <1>3
  <2>2. SelectInSeq(mqs, LAMBDA v : v = o) = k
    <3>1. SelectInSeq(mqs, LAMBDA v : v = o) = Min({k})
      BY <2>1 DEF SelectInSeq
    <3>2. Min({k}) = k
      BY DEF Min
    <3> QED
      BY <3>1, <3>2
  <2>3. s = SubSeq(mqs, 1, k - 1) \o SubSeq(mqs, k + 1, Len(mqs))
    BY <1>3, <2>2 DEF RemoveFirst, RemoveAt
  <2>4. k \in 2 .. Len(mqs)
    BY <1>1, <1>3
  <2> DEFINE a == SubSeq(mqs, 1, k - 1)
             b == SubSeq(mqs, k + 1, Len(mqs))
  <2>5. a \in Seq(Objects) /\ Len(a) = k - 1 /\ \A i \in 1 .. k - 1 : a[i] = mqs[i]
    BY <1>1, <2>4, SubSeqProperties
  <2>6. /\ b \in Seq(Objects) /\ Len(b) = Len(mqs) - k
        /\ \A i \in 1 .. Len(mqs) - k : b[i] = mqs[k + i]
    BY <1>1, <2>4, SubSeqProperties
  <2> HIDE DEF a, b
  <2>7. /\ s \in Seq(Objects) /\ Len(s) = Len(a) + Len(b)
        /\ \A i \in 1 .. Len(a) + Len(b) : s[i] = IF i <= Len(a) THEN a[i] ELSE b[i - Len(a)]
    <3>1. s = a \o b
      BY <2>3 DEF a, b
    <3>2. ASSUME NEW u \in Seq(Objects), NEW v \in Seq(Objects)
          PROVE  /\ u \o v \in Seq(Objects) /\ Len(u \o v) = Len(u) + Len(v)
                 /\ \A i \in 1 .. Len(u) + Len(v) :
                      (u \o v)[i] = IF i <= Len(u) THEN u[i] ELSE v[i - Len(u)]
      BY ConcatProperties
    <3>3. a \in Seq(Objects) /\ b \in Seq(Objects)
      BY <2>5, <2>6
    <3> QED
      BY <3>1, <3>2, <3>3
  <2>8. /\ Len(s) = Len(mqs) - 1
        /\ \A i \in 1 .. Len(s) : s[i] = IF i < k THEN mqs[i] ELSE mqs[i + 1]
    <3>0. PICK n \in Nat : n = Len(mqs) /\ k \in 2 .. n
      BY <1>1, <2>4
    <3>1. Len(s) = n - 1 /\ \A i \in 1 .. n - 1 : s[i] = IF i <= k - 1 THEN a[i] ELSE b[i - (k - 1)]
      BY <3>0, <2>5, <2>6, <2>7
    <3>2. ASSUME NEW i \in 1 .. n - 1 PROVE s[i] = IF i < k THEN mqs[i] ELSE mqs[i + 1]
      <4>1. CASE i <= k - 1
        <5>1. i \in 1 .. k - 1 /\ i < k
          BY <4>1, <3>0
        <5> QED
          BY <4>1, <5>1, <3>1, <2>5
      <4>2. CASE ~(i <= k - 1)
        <5>1. i - (k - 1) \in 1 .. n - k /\ ~(i < k) /\ k + (i - (k - 1)) = i + 1
          BY <4>2, <3>0
        <5> QED
          BY <4>2, <5>1, <3>0, <3>1, <2>6
      <4> QED
        BY <4>1, <4>2
    <3> QED
      BY <3>0, <3>1, <3>2
  <2>9. s # <<>> /\ s[1] = control
    <3>1. Len(s) # 0 /\ s[1] = control
      BY <2>4, <2>8, <1>1
    <3> QED
      BY <3>1
  <2> DEFINE old(i) == IF i < k THEN i ELSE i + 1
  <2>10. \A i \in 1 .. Len(s) : /\ s[i] = mqs[old(i)] /\ old(i) \in 1 .. Len(mqs) /\ old(i) # k
                                /\ i # 1 => old(i) \in 2 .. Len(mqs)
    BY <2>4, <2>8, <1>1
  <2>11. \A i, j \in 1 .. Len(s) : old(i) = old(j) => i = j
    BY <2>4, <2>8, <1>1
  <2>12. \A i \in 2 .. Len(s) : i \in 1 .. Len(s) /\ i # 1
    BY <2>7, <2>8, <1>1
  <2> HIDE DEF old
  <2>13. \A i \in 2 .. Len(s) : s[i] # o /\ \E j \in 2 .. Len(mqs) : s[i] = mqs[j]
    BY <2>10, <2>12, <1>1, <1>3
  <2>14. \A i, j \in 1 .. Len(s) : s[i] = s[j] => i = j
    BY <2>10, <2>11, <1>1
  <2> QED
    BY <2>7, <2>9, <2>13, <2>14
<1> QED
  BY <1>2, <1>3
-----------------------------------------------------------------------------
\* What is known of the members before each step.
LEMMA MemberFacts ==
  Types => /\ MQInv(Qids, Messages) /\ Lists(notifications, Qids)
           /\ alive \subseteq Objects /\ asleep \subseteq Listeners
           /\ id \in [Objects -> Qids] /\ queue \in [Objects -> Seq(Messages)]
           /\ listener \in [Objects -> Listeners \cup {nullptr}]
           /\ notifications \in [Listeners -> Seq(Records)]
           /\ nullptr \notin Listeners /\ nullptr \notin Objects
           /\ control \in Objects /\ worker \in Listeners /\ worker \notin Clients
           /\ Clients \subseteq Listeners
  BY TypesOfQueues, PoolAssumption
     DEF MQInv, MQTypeOK, MQListsAscending, Lists, Records

\* What is known of the calls of poll before each step.
LEMMA CallFacts ==
  Types => /\ phase \in [Listeners -> Phases]
           /\ pos \in [Listeners -> Nat] /\ range \in [Listeners -> Seq(Objects)]
           /\ result \in [Listeners -> Seq(Records)]
           /\ \A l \in Listeners :
                /\ Len(range[l]) \in Nat
                /\ \A i \in 1 .. Len(range[l]) : range[l][i] \in Objects
                /\ phase[l] \in {"set", "clear"} => pos[l] \in 1 .. Len(range[l])
                /\ phase[l] \notin {"set", "clear"} => pos[l] = 1
  BY DEF Types, TypeOK, PollTypeOK, CallTypes, Phases

\* What is known of the threads before each step.
LEMMA ThreadFacts ==
  QInv => /\ cpc \in [Clients -> ClientStates]
          /\ mine \in [Clients -> Objects \cup {nullptr}] /\ sem \in [Clients -> 0 .. 1]
          /\ slot \in [Clients -> 0 .. capacity + 1]
          /\ handler \in [Slots -> Listeners \cup {nullptr}]
          /\ mqs \in Seq(Objects) /\ wi \in Nat \ {0}
  BY DEF QInv, IInv, PauseTypes, Types, TypeOK, ThreadTypes

\* A message that is put into the control queue.
LEMMA ControlPushed ==
  ASSUME QInv, NEW m \in ControlMessages, enqueue_control(m)
  PROVE  /\ message(0, m) \in Messages /\ push(control, message(0, m))
         /\ queue' = [queue EXCEPT ![control] = Append(queue[control], message(0, m))]
         /\ UNCHANGED <<alive, id, listener>>
<1>1. message(0, m) \in Messages
  BY PoolAssumption DEF message, Messages, Slots
<1>2. push(control, message(0, m))
  BY DEF enqueue_control, CONTROL_MESSAGE_QUEUE_ID
<1>3. accepts(control, message(0, m))
  BY PoolAssumption DEF accepts, message, QInv, Ids
<1> QED
  BY <1>1, <1>2, <1>3 DEF push, push_back

\* A record that the worker is about to handle is that of a queue of a client.
LEMMA RecordInUse ==
  ASSUME QInv, wpc = "records", wi <= Len(result[worker]),
         NEW rec, rec = result[worker][wi], usable(rec)
  PROVE  rec \in Records /\ rec.mq \in Objects \ {control} /\ InMqs(rec.mq)
<1>1. /\ result[worker] \in Seq(Records) /\ Ascending(result[worker])
      /\ mqs \in Seq(Objects) /\ wi \in Nat \ {0}
  BY MemberFacts, ThreadFacts DEF QInv, Types, CallTypes
<1>2. wi \in 1 .. Len(result[worker]) /\ 1 \in 1 .. Len(result[worker])
  BY <1>1
<1>3. rec \in Records /\ result[worker][1] \in Records
  BY <1>1, <1>2
<1>4. rec.qid \in Nat /\ result[worker][1].qid \in Nat
  BY <1>3, QidsInNat DEF Records, notification_rec_type
<1>5. Told(result[worker]) /\ (wi = 1 => Head(result[worker]).qid # 0)
  BY DEF QInv, ReportsInv
<1>6. InMqs(rec.mq) /\ (rec.mq = control => rec.qid = 0)
  BY <1>2, <1>5 DEF Told, ToldOf, InMqs
<1>7. rec.mq \in Objects
  BY <1>1, <1>6 DEF InMqs, IsIn
<1>8. rec.qid # 0
  <2>1. CASE wi = 1
    <3>1. result[worker] # <<>> /\ Head(result[worker]) = result[worker][1]
      BY <1>1, <1>2, HeadTailProperties, EmptySeq
    <3> QED
      BY <2>1, <3>1, <1>5
  <2>2. CASE wi # 1
    <3>1. result[worker][1].qid < result[worker][wi].qid
      BY <2>2, <1>1, <1>2 DEF Ascending
    <3> QED
      BY <3>1, <1>4
  <2> QED
    BY <2>1, <2>2
<1> QED
  BY <1>3, <1>6, <1>7, <1>8

\* A step of poll uses the queues of its range, and ends a listener with its call.
LEMMA PollQueues ==
  ASSUME Types, NEW l \in Listeners, poll_step(l) \/ poll_spurious_wakeup(l)
  PROVE  MQInv(Qids, Messages)'
<1>0. /\ MQInv(Qids, Messages) /\ Lists(notifications, Qids)
      /\ alive \subseteq Objects /\ asleep \subseteq Listeners
      /\ id \in [Objects -> Qids] /\ queue \in [Objects -> Seq(Messages)]
      /\ listener \in [Objects -> Listeners \cup {nullptr}]
      /\ Qids \subseteq Nat
  BY MemberFacts, QidsInNat
<1>1. phase[l] \in {"set", "clear"} => range[l][pos[l]] \in Objects
  BY CallFacts
<1>2. ASSUME UNCHANGED <<alive, id, queue, listener, notifications>>, asleep' \subseteq Listeners
      PROVE  MQInv(Qids, Messages)'
  BY <1>0, <1>2, MQInvAfter
<1>3. CASE poll_set(l)
  BY <1>0, <1>1, <1>3, MQUseInv DEF poll_set
<1>4. CASE poll_clear(l)
  BY <1>0, <1>1, <1>4, MQUseInv DEF poll_clear
<1>5. CASE poll_return(l) \/ poll_sleep(l) \/ poll_spurious_wakeup(l)
  BY <1>0, <1>2, <1>5 DEF poll_return, poll_sleep, poll_spurious_wakeup, mqvars
<1>6. CASE poll_end(l)
  <2>1. notifications' = [notifications EXCEPT ![l] = <<>>]
    BY <1>6 DEF poll_end
  <2>2. Lists(notifications', Qids)
    <3> DEFINE T == Seq(notification_rec_type(Qids, Objects \cup {nullptr}))
    <3>0. <<>> \in T
      OBVIOUS
    <3>1. notifications \in [Listeners -> T]
      BY <1>0 DEF Lists
    <3>2. notifications' \in [Listeners -> T]
      <4> HIDE DEF T
      <4> QED
        BY <3>0, <3>1, <2>1
    <3>3. Ascending(<<>>)
      BY DEF Ascending
    <3>4. \A k \in Listeners : Ascending(notifications'[k])
      BY <2>1, <3>3, <1>0 DEF Lists
    <3> QED
      BY <3>2, <3>4 DEF Lists
  <2> QED
    BY <1>6, <2>2, <1>0, MQInvAfter DEF poll_end
<1> QED
  BY <1>3, <1>4, <1>5, <1>6 DEF poll_step

LEMMA QueuesKept == QInv /\ [Next]_vars => MQInv(Qids, Messages)'
<1> SUFFICES ASSUME QInv, [Next]_vars PROVE MQInv(Qids, Messages)'
  OBVIOUS
<1>0. /\ MQInv(Qids, Messages) /\ Types
      /\ Qids \subseteq Nat /\ undefined_qid \in Qids /\ control \in Objects
      /\ id \in [Objects -> Qids] /\ worker \in Listeners /\ Clients \subseteq Listeners
  BY MemberFacts, QidsInNat DEF QInv
<1>1. CASE UNCHANGED mqvars
  BY <1>0, <1>1 DEF mqvars, MQInv, MQTypeOK, MQListsAscending
<1>2. CASE PollStep \/ SpuriousWakeup
  BY <1>0, <1>2, PollQueues DEF PollStep, SpuriousWakeup
<1>3. CASE HandleControl
  BY <1>0, <1>1, <1>3, MQUseInv DEF HandleControl
<1>4. CASE HandleRecord
  <2>1. PICK rec : rec = result[worker][wi]
    OBVIOUS
  <2>2. CASE wi <= Len(result[worker]) /\ usable(rec) /\ has_message(rec.mq)
    <3>1. wpc = "records" /\ pop(rec.mq)
      BY <2>1, <2>2, <1>4, ThreadFacts DEF HandleRecord
    <3>2. rec.mq \in Objects
      BY <2>1, <2>2, <3>1, RecordInUse
    <3> QED
      BY <3>1, <3>2, <1>0, MQUseInv
  <2>3. CASE ~(wi <= Len(result[worker]) /\ usable(rec) /\ has_message(rec.mq))
    <3>1. UNCHANGED mqvars
      BY <2>1, <2>3, <1>4 DEF HandleRecord
    <3> QED
      BY <3>1, <1>1
  <2> QED
    BY <2>2, <2>3
<1>5. CASE PollBegin \/ PostPause \/ WaitResume \/ HandlerReturns
  BY <1>1, <1>5 DEF PollBegin, poll_begin, PostPause, WaitResume, HandlerReturns
<1>6. ASSUME NEW c \in Clients, Call(c) PROVE MQInv(Qids, Messages)'
  <2>0. mine[c] \in Objects \cup {nullptr} /\ (cpc[c] \in Changes => mine[c] \in Objects)
    BY ThreadFacts DEF QInv, Owners
  <2>1. ASSUME NEW o \in Objects, AllocateStore(c, o) PROVE MQInv(Qids, Messages)'
    <3>1. construct(o, slot[c]) /\ slot[c] \in Qids
      BY <2>1, QidsInNat DEF AllocateStore
    <3> QED
      BY <3>1, <1>0, MQLifetimeInv
  <2>2. CASE AllocateAdd(c)
    <3>1. add_queue_message(c, mine[c]) \in ControlMessages
      BY <2>0, <2>2 DEF AllocateAdd, ControlMessages, Changes
    <3> QED
      BY <3>1, <2>2, <1>0, ControlPushed, MQUseInv DEF AllocateAdd
  <2>3. CASE Delete(c)
    <3>1. destroy(mine[c]) /\ mine[c] \in Objects
      BY <2>0, <2>3 DEF Delete, Changes
    <3> QED
      BY <3>1, <1>0, MQLifetimeInv
  <2>4. CASE IdlePoll(c)
    BY <2>4, <1>0, PollQueues DEF IdlePoll
  <2>5. CASE WaitAnswer(c) \/ IdleWaitPause(c) \/ IdleResume(c) \/ Join(c)
    BY <2>5, <1>1 DEF WaitAnswer, IdleWaitPause, poll_begin, IdleResume, Join
  <2> QED
    BY <1>6, <2>1, <2>2, <2>3, <2>4, <2>5 DEF Call
<1>7. ASSUME NEW c \in Clients, Choice(c) PROVE MQInv(Qids, Messages)'
  <2>0. mine[c] \in Objects \cup {nullptr}
    BY ThreadFacts
  <2>1. CASE AllocateScan(c)
    BY <2>1, <1>1 DEF AllocateScan
  <2>2. CASE Enqueue(c)
    <3>1. PICK n \in 1 .. MaxMessages : push(mine[c], message(id[mine[c]], data_message(n)))
      BY <2>2 DEF Enqueue
    <3>2. mine[c] \in Objects /\ id[mine[c]] \in Slots
      BY <2>0, <2>2, <1>0 DEF Enqueue, Qids
    <3>3. message(id[mine[c]], data_message(n)) \in Messages
      BY <3>2 DEF message, Messages, DataMessages
    <3> QED
      BY <3>1, <3>2, <3>3, <1>0, MQUseInv
  <2>3. CASE Release(c)
    <3>1. CASE UNCHANGED mqvars
      BY <3>1, <1>1
    <3>2. CASE enqueue_control(remove_queue_message(c, mine[c]))
      <4>1. remove_queue_message(c, mine[c]) \in ControlMessages
        BY <2>0, <2>3 DEF Release, ControlMessages
      <4> QED
        BY <4>1, <3>2, <1>0, ControlPushed, MQUseInv
    <3> QED
      BY <2>3, <3>1, <3>2 DEF Release
  <2>4. CASE IdlePause(c) \/ Terminate(c)
    <3>1. POLL_PAUSE \in ControlMessages /\ TERMINATE \in ControlMessages
      BY DEF ControlMessages
    <3> QED
      BY <2>4, <3>1, <1>0, ControlPushed, MQUseInv DEF IdlePause, Terminate
  <2>5. ASSUME NEW o \in Objects, MoveOut(c, o) PROVE MQInv(Qids, Messages)'
    <3>1. move_construct(o, mine[c]) /\ mine[c] \in Objects
      BY <2>0, <2>5 DEF MoveOut
    <3> QED
      BY <3>1, <1>0, MQLifetimeInv
  <2> QED
    BY <1>7, <2>1, <2>2, <2>3, <2>4, <2>5 DEF Choice
<1>8. CASE UNCHANGED vars
  BY <1>1, <1>8 DEF vars
<1> QED
  BY <1>2, <1>3, <1>4, <1>5, <1>6, <1>7, <1>8 DEF Next, Worker
-----------------------------------------------------------------------------
CallsInv == PollTypeOK /\ CallTypes

\* A call of poll begins, for the whole of _mqs.
LEMMA CallBegins ==
  ASSUME CallsInv, mqs \in Seq(Objects), NEW l \in Listeners,
         NEW w, w \in {no_wait, WAIT_INFINITELY}, poll_begin(l, mqs, w)
  PROVE  CallsInv'
<1>1. /\ phase[l] = "out"
      /\ range' = [range EXCEPT ![l] = mqs]
      /\ wtp' = [wtp EXCEPT ![l] = w]
      /\ result' = [result EXCEPT ![l] = <<>>]
      /\ phase' = [phase EXCEPT ![l] = IF mqs = <<>> THEN "wait" ELSE "set"]
      /\ UNCHANGED <<pos, until, clock>>
  BY DEF poll_begin, enter
<1>2. w \in [rel_time : Int, abs_time : Int, wait_infinitely : BOOLEAN]
  <2>1. no_wait \in [rel_time : Int, abs_time : Int, wait_infinitely : BOOLEAN]
    BY DEF no_wait, wait_time_provider, EMPTY_TIME_POINT
  <2>2. WAIT_INFINITELY \in [rel_time : Int, abs_time : Int, wait_infinitely : BOOLEAN]
    BY DEF WAIT_INFINITELY, wait_time_provider, EMPTY_TIME_POINT
  <2> QED
    BY <2>1, <2>2
<1>3. Len(mqs) \in Nat /\ (mqs # <<>> => 1 \in 1 .. Len(mqs)) /\ 1 \in 1 .. Len(mqs) + 1
  BY EmptySeq
<1>4. <<>> \in Seq(Records) /\ Ascending(<<>>)
  BY DEF Ascending
<1>5. result' \in [Listeners -> Seq(Records)] /\ \A k \in Listeners : Ascending(result'[k])
  BY <1>1, <1>4 DEF CallsInv, CallTypes
<1>6. /\ range' \in [Listeners -> Seq(Objects)] /\ pos' \in [Listeners -> Nat]
      /\ phase' \in [Listeners -> {"out", "set", "wait", "clear", "end"}]
      /\ until' \in [Listeners -> Int] /\ clock' \in Int
  BY <1>1 DEF CallsInv, CallTypes, PollTypeOK
<1>7. wtp' \in [Listeners -> [rel_time : Int, abs_time : Int, wait_infinitely : BOOLEAN]]
  BY <1>1, <1>2 DEF CallsInv, PollTypeOK
<1>8. ASSUME NEW k \in Listeners
      PROVE  /\ pos'[k] \in 1 .. Len(range'[k]) + 1
             /\ phase'[k] \in {"set", "clear"} => pos'[k] \in 1 .. Len(range'[k])
             /\ phase'[k] \in {"set", "clear"} \/ pos'[k] = 1
  <2>1. CASE k = l
    <3>1. range'[l] = mqs /\ pos'[l] = 1 /\ phase'[l] = IF mqs = <<>> THEN "wait" ELSE "set"
      BY <1>1 DEF CallsInv, PollTypeOK, CallTypes
    <3> QED
      BY <2>1, <3>1, <1>3
  <2>2. CASE k # l
    <3>1. range'[k] = range[k] /\ pos'[k] = pos[k] /\ phase'[k] = phase[k]
      BY <2>2, <1>1 DEF CallsInv, PollTypeOK, CallTypes
    <3> QED
      BY <3>1 DEF CallsInv, PollTypeOK, CallTypes
  <2> QED
    BY <2>1, <2>2
<1> QED
  BY <1>5, <1>6, <1>7, <1>8 DEF CallsInv, PollTypeOK, CallTypes

\* A call of poll goes on.
LEMMA CallGoesOn ==
  ASSUME CallsInv, Lists(notifications, Qids), NEW l \in Listeners,
         poll_step(l) \/ poll_spurious_wakeup(l)
  PROVE  CallsInv'
<1>1. /\ pos \in [Listeners -> Nat] /\ range \in [Listeners -> Seq(Objects)]
      /\ phase \in [Listeners -> {"out", "set", "wait", "clear", "end"}]
      /\ \A k \in Listeners : /\ Len(range[k]) \in Nat /\ pos[k] \in 1 .. Len(range[k]) + 1
                              /\ phase[k] \in {"set", "clear"} => pos[k] \in 1 .. Len(range[k])
                              /\ phase[k] \notin {"set", "clear"} => pos[k] = 1
  BY DEF CallsInv, PollTypeOK, CallTypes
<1>2. CASE poll_set(l) \/ poll_clear(l)
  <2>1. PICK after \in {"wait", "end"} : next_queue(l, after)
    BY <1>2 DEF poll_set, poll_clear
  <2>2. phase[l] \in {"set", "clear"} /\ UNCHANGED <<range, wtp, until, result, clock>>
    BY <1>2 DEF poll_set, poll_clear
  <2>3. /\ pos' \in [Listeners -> Nat]
        /\ phase' \in [Listeners -> {"out", "set", "wait", "clear", "end"}]
        /\ \A k \in Listeners : /\ pos'[k] \in 1 .. Len(range[k]) + 1
                                /\ phase'[k] \in {"set", "clear"} => pos'[k] \in 1 .. Len(range[k])
                                /\ phase'[k] \notin {"set", "clear"} => pos'[k] = 1
    <3>1. CASE more_queues(l)
      <4>1. pos' = [pos EXCEPT ![l] = @ + 1] /\ phase' = phase /\ pos[l] < Len(range[l])
        BY <2>1, <3>1 DEF next_queue, more_queues
      <4> QED
        BY <4>1, <2>2, <1>1
    <3>2. CASE ~more_queues(l)
      <4>1. pos' = [pos EXCEPT ![l] = 1] /\ phase' = [phase EXCEPT ![l] = after]
        BY <2>1, <3>2 DEF next_queue
      <4> QED
        BY <4>1, <1>1
    <3> QED
      BY <3>1, <3>2
  <2> QED
    BY <2>2, <2>3 DEF CallsInv, PollTypeOK, CallTypes
<1>3. CASE poll_return(l)
  <2>1. /\ result' = [result EXCEPT ![l] = notifications[l]]
        /\ phase' = [phase EXCEPT ![l] = IF range[l] = <<>> THEN "end" ELSE "clear"]
        /\ until' = [until EXCEPT ![l] = 0]
        /\ phase[l] = "wait" /\ UNCHANGED <<range, pos, wtp, clock>>
    BY <1>3 DEF poll_return, poll_copy, enter, EMPTY_TIME_POINT
  <2>2. result' \in [Listeners -> Seq(Records)] /\ \A k \in Listeners : Ascending(result'[k])
    BY <2>1 DEF CallsInv, CallTypes, Lists, Records
  <2>3. range[l] # <<>> => Len(range[l]) \in Nat /\ 1 <= Len(range[l])
    BY EmptySeq, <1>1
  <2> QED
    BY <2>1, <2>2, <2>3 DEF CallsInv, PollTypeOK, CallTypes
<1>4. CASE poll_sleep(l)
  <2>1. UNCHANGED <<phase, range, pos, wtp, result, clock>>
    BY <1>4 DEF poll_sleep
  <2>2. abs_time(l) \in Int
    BY DEF abs_time, get_time_point, EMPTY_TIME_POINT, CallsInv, PollTypeOK
  <2>3. until' \in [Listeners -> Int]
    BY <2>2, <1>4 DEF poll_sleep, CallsInv, PollTypeOK
  <2> QED
    BY <2>1, <2>3 DEF CallsInv, PollTypeOK, CallTypes
<1>5. CASE poll_end(l)
  <2>1. /\ phase[l] = "end" /\ phase' = [phase EXCEPT ![l] = "out"]
        /\ range' = [range EXCEPT ![l] = <<>>]
        /\ wtp' = [wtp EXCEPT ![l] = no_wait]
        /\ UNCHANGED <<pos, until, result, clock>>
    BY <1>5 DEF poll_end
  <2>2. no_wait \in [rel_time : Int, abs_time : Int, wait_infinitely : BOOLEAN]
    BY DEF no_wait, wait_time_provider, EMPTY_TIME_POINT
  <2>3. CallTypes'
    <3>1. range' \in [Listeners -> Seq(Objects)]
      BY <2>1, <1>1
    <3>2. \A k \in Listeners : phase'[k] \in {"set", "clear"} \/ pos'[k] = 1
      BY <2>1, <1>1
    <3> QED
      BY <2>1, <3>1, <3>2 DEF CallsInv, CallTypes
  <2>4. PollTypeOK'
    BY <2>1, <2>2 DEF CallsInv, CallTypes, PollTypeOK
  <2> QED
    BY <2>3, <2>4 DEF CallsInv
<1>6. CASE poll_spurious_wakeup(l)
  BY <1>6 DEF poll_spurious_wakeup, pollvars, callvars, CallsInv, PollTypeOK, CallTypes
<1> QED
  BY <1>2, <1>3, <1>4, <1>5, <1>6 DEF poll_step

LEMMA CallsKept == QInv /\ [Next]_vars => CallsInv'
<1> SUFFICES ASSUME QInv, [Next]_vars PROVE CallsInv'
  OBVIOUS
<1>0. /\ CallsInv /\ Lists(notifications, Qids) /\ mqs \in Seq(Objects)
      /\ worker \in Listeners /\ Clients \subseteq Listeners
  BY MemberFacts, ThreadFacts DEF QInv, Types, TypeOK, CallsInv
<1>1. CASE UNCHANGED pollvars
  BY <1>0, <1>1 DEF pollvars, callvars, CallsInv, PollTypeOK, CallTypes
<1>2. CASE PollBegin
  BY <1>0, <1>2, CallBegins DEF PollBegin
<1>3. CASE PollStep \/ SpuriousWakeup
  BY <1>0, <1>3, CallGoesOn DEF PollStep, SpuriousWakeup
<1>4. ASSUME NEW c \in Clients, IdleWaitPause(c) \/ IdlePoll(c) PROVE CallsInv'
  BY <1>0, <1>4, CallBegins, CallGoesOn DEF IdleWaitPause, IdlePoll
<1>5. CASE HandleControl \/ PostPause \/ WaitResume \/ HandleRecord \/ HandlerReturns \/ UNCHANGED vars
  BY <1>1, <1>5 DEF HandleControl, PostPause, WaitResume, HandleRecord, HandlerReturns, vars
<1>6. ASSUME NEW c \in Clients,
             \/ \E o \in Objects : AllocateStore(c, o) \/ MoveOut(c, o)
             \/ AllocateScan(c) \/ AllocateAdd(c) \/ WaitAnswer(c) \/ Delete(c) \/ Enqueue(c)
             \/ Release(c) \/ IdlePause(c) \/ IdleResume(c) \/ Terminate(c) \/ Join(c)
      PROVE  UNCHANGED pollvars
  BY <1>6 DEF AllocateStore, MoveOut, AllocateScan, AllocateAdd, WaitAnswer, Delete, Enqueue,
              Release, IdlePause, IdleResume, Terminate, Join
<1> QED
  BY <1>1, <1>2, <1>3, <1>4, <1>5, <1>6 DEF Next, Worker, Call, Choice
-----------------------------------------------------------------------------
LEMMA ControlMessageFacts ==
  ASSUME NEW m \in ControlMessages
  PROVE  /\ m.type \in {"terminate", "pause", "add", "remove"}
         /\ m.type \in {"add", "remove"} => m.client \in Clients /\ m.mq \in Objects
  BY DEF ControlMessages, TERMINATE, POLL_PAUSE, add_queue_message, remove_queue_message

\* What the worker does with the control queue: its first message is taken,
Taken ==
  /\ queue[control] # <<>> /\ queue' = [queue EXCEPT ![control] = Tail(queue[control])]
  /\ UNCHANGED <<alive, id, listener, notifications, asleep>>

\* which asks it to stop or to pause,
Stops == Taken /\ ~Asks(1) /\ UNCHANGED <<mqs, sem, wi>> /\ wpc' \in {"halted", "pause"}

\* or to add or to remove the queue of client c; or there is none.
AskedBy(c, type) ==
  /\ Taken /\ Asks(1) /\ Asked(1).client = c /\ Asked(1).type = type
  /\ c \in Clients /\ mine[c] \in Objects \ {control} /\ mine[c] \in alive
  /\ sem[c] = 0 /\ sem' = [sem EXCEPT ![c] = 1] /\ UNCHANGED wi
Adds(c) ==
  /\ AskedBy(c, "add") /\ cpc[c] = "wait_add" /\ wpc' = wpc
  /\ mqs' = InsertAt(mqs, insert_position(mine[c]), mine[c])
Removes(c) ==
  /\ AskedBy(c, "remove") /\ cpc[c] = "wait_remove" /\ wpc' = "poll"
  /\ mqs' = RemoveFirst(mqs, mine[c])
GoesOn == UNCHANGED <<mqvars, mqs, sem>> /\ wpc' = "records" /\ wi' = 2

LEMMA ControlHandled ==
  ASSUME QInv, HandleControl
  PROVE  /\ wpc = "control"
         /\ UNCHANGED <<pollvars, handler, sem_pause, sem_resume, current, clientvars, history>>
         /\ Stops \/ GoesOn \/ \E c \in Clients : Adds(c) \/ Removes(c)
<1>0. /\ wpc = "control"
      /\ UNCHANGED <<pollvars, handler, sem_pause, sem_resume, current, clientvars, history>>
  BY DEF HandleControl
<1>1. CASE ~(usable(Head(result[worker])) /\ has_message(control))
  BY <1>0, <1>1 DEF HandleControl, GoesOn
<1>2. CASE usable(Head(result[worker])) /\ has_message(control)
  <2>1. PICK m : m = Head(queue[control]).mid
    OBVIOUS
  <2>2. handle_control(m) /\ pop(control) /\ UNCHANGED wi
    BY <2>1, <1>2 DEF HandleControl
  <2>3. queue[control] # <<>> /\ queue[control] \in Seq(Messages) /\ control \in Objects
    BY <1>2, MemberFacts DEF has_message, QInv
  <2>4. 1 \in 1 .. Len(queue[control]) /\ m = Asked(1)
    BY <2>1, <2>3, HeadTailProperties, EmptySeq DEF Asked
  <2>5. Taken
    BY <2>2, <2>3, <1>2 DEF pop, Taken
  <2>6. m \in ControlMessages
    BY <2>4 DEF QInv, Requests
  <2>7. m.type \in {"add", "remove"} =>
          /\ m.client \in Clients /\ m.mq \in Objects /\ Asks(1)
          /\ cpc[m.client] = IF m.type = "add" THEN "wait_add" ELSE "wait_remove"
          /\ sem[m.client] = 0 /\ m.mq = mine[m.client]
    BY <2>4, <2>6, ControlMessageFacts DEF QInv, Requests, Asks
  <2>8. ASSUME m.type \in {"add", "remove"}, answer(m.client)
        PROVE  AskedBy(m.client, m.type) /\ m.mq = mine[m.client]
    <3>1. mine[m.client] \in Objects \ {control} /\ mine[m.client] \in alive
      BY <2>7, <2>8, MemberFacts DEF QInv, Owners
    <3>2. sem' = [sem EXCEPT ![m.client] = 1]
      <4>1. sem' = [sem EXCEPT ![m.client] = sem[m.client] + 1]
        BY <2>8 DEF answer
      <4>2. sem[m.client] + 1 = 1
        BY <2>7, <2>8
      <4> QED
        BY <4>1, <4>2
    <3> QED
      BY <3>1, <3>2, <2>2, <2>4, <2>5, <2>7, <2>8 DEF AskedBy
  <2>9. CASE m.type = "terminate" \/ m.type = "pause"
    <3>1. wpc' \in {"halted", "pause"} /\ UNCHANGED <<mqs, sem>>
      BY <2>2, <2>9 DEF handle_control
    <3>2. ~Asks(1)
      BY <2>4, <2>9 DEF Asks
    <3> QED
      BY <3>1, <3>2, <2>2, <2>5, <1>0 DEF Stops
  <2>10. CASE m.type = "add"
    <3>1. /\ mqs' = InsertAt(mqs, insert_position(m.mq), m.mq)
          /\ answer(m.client) /\ UNCHANGED wpc
      BY <2>2, <2>10 DEF handle_control
    <3>2. Adds(m.client) /\ m.client \in Clients
      BY <3>1, <2>7, <2>8, <2>10 DEF Adds
    <3> QED
      BY <3>2, <1>0
  <2>11. CASE m.type = "remove"
    <3>1. mqs' = RemoveFirst(mqs, m.mq) /\ answer(m.client) /\ wpc' = "poll"
      BY <2>2, <2>11 DEF handle_control, poll_again
    <3>2. Removes(m.client) /\ m.client \in Clients
      BY <3>1, <2>7, <2>8, <2>11 DEF Removes
    <3> QED
      BY <3>2, <1>0
  <2> QED
    BY <2>6, <2>9, <2>10, <2>11, <1>0, ControlMessageFacts
<1> QED
  BY <1>0, <1>1, <1>2

\* The worker gives the first message of a queue to its handler, or goes on.
Serves ==
  /\ \E o \in Objects \ {control} :
       /\ InMqs(o) /\ has_message(o) /\ pop(o) /\ current' = {Head(queue[o])}
       /\ Head(queue[o]) \in Served /\ Head(queue[o]).qid = id[o]
  /\ UNCHANGED <<wpc, wi>>
Skips == UNCHANGED <<mqvars, current, handled>> /\ wpc' \in {"poll", "records"} /\ wi' \in {wi, wi + 1}

LEMMA RecordHandled ==
  ASSUME QInv, HandleRecord
  PROVE  /\ wpc = "records" /\ current = {}
         /\ UNCHANGED <<pollvars, handler, mqs, semaphores, clientvars, sent, before>>
         /\ Serves \/ Skips
<1>0. /\ wpc = "records" /\ current = {}
      /\ UNCHANGED <<pollvars, handler, mqs, semaphores, clientvars, sent, before>>
  BY DEF HandleRecord
<1>1. PICK rec : rec = result[worker][wi]
  OBVIOUS
<1>2. CASE wi <= Len(result[worker]) /\ usable(rec) /\ has_message(rec.mq)
  <2>1. /\ current' = {Head(queue[rec.mq])} /\ pop(rec.mq) /\ UNCHANGED <<wpc, wi>>
    BY <1>1, <1>2, ThreadFacts DEF HandleRecord
  <2>2. rec.mq \in Objects \ {control} /\ InMqs(rec.mq)
    BY <1>0, <1>1, <1>2, RecordInUse
  <2>3. queue[rec.mq] \in Seq(Messages) /\ queue[rec.mq] # <<>> /\ id[rec.mq] \in Qids
    BY <1>2, <2>2, MemberFacts DEF QInv, has_message
  <2>4. 1 \in 1 .. Len(queue[rec.mq]) /\ Head(queue[rec.mq]) = queue[rec.mq][1]
    BY <2>3, HeadTailProperties, EmptySeq
  <2>5. /\ Head(queue[rec.mq]).qid = id[rec.mq] /\ Head(queue[rec.mq]).mid \in DataMessages
        /\ Head(queue[rec.mq]) \in Messages
    BY <2>2, <2>3, <2>4 DEF QInv, OwnMessages
  <2>6. id[rec.mq] \in 1 .. capacity
    <3>1. id[rec.mq] # undefined_qid /\ id[rec.mq] # 0
      BY <1>2, <2>2 DEF has_message, QInv, Ids
    <3> QED
      BY <3>1, <2>3, PoolAssumption DEF Qids, Slots
  <2>7. Head(queue[rec.mq]) \in Served
    BY <2>5, <2>6 DEF Messages, Served
  <2>8. Serves
    BY <1>2, <2>1, <2>2, <2>5, <2>7 DEF Serves
  <2> QED
    BY <1>0, <2>8
<1>3. CASE ~(wi <= Len(result[worker]) /\ usable(rec) /\ has_message(rec.mq))
  <2>1. Skips
    BY <1>0, <1>1, <1>3 DEF HandleRecord, Skips
  <2> QED
    BY <1>0, <2>1
<1> QED
  BY <1>2, <1>3
-----------------------------------------------------------------------------
\* The types of the pool's own variables.
PoolTypes ==
  /\ handler \in [Slots -> Listeners \cup {nullptr}]
  /\ mqs \in Seq(Objects)
  /\ sem \in [Clients -> 0 .. 1]
  /\ wpc \in {"poll", "control", "pause", "resume", "records", "halted"}
  /\ mine \in [Clients -> Objects \cup {nullptr}]
  /\ ThreadTypes

LEMMA PoolTypesKept == QInv /\ [Next]_vars => PoolTypes'
<1> SUFFICES ASSUME QInv, [Next]_vars PROVE PoolTypes'
  OBVIOUS
<1>0. /\ PoolTypes /\ Types /\ Members
      /\ cpc \in [Clients -> ClientStates] /\ sem \in [Clients -> 0 .. 1]
  BY ThreadFacts DEF QInv, Types, TypeOK, PoolTypes
<1>1. ASSUME UNCHANGED <<handler, mqs, sem, mine, slot>>,
             wpc' \in {"poll", "control", "pause", "resume", "records", "halted"},
             current' \subseteq Served, wi' \in Nat \ {0},
             \A c \in Clients : cpc'[c] = "allocate" => cpc[c] = "allocate"
      PROVE  PoolTypes'
  BY <1>0, <1>1 DEF PoolTypes, ThreadTypes
<1>2. ASSUME UNCHANGED <<handler, mqs, sem, mine, slot, wpc, current, wi>>,
             \A c \in Clients : cpc'[c] = "allocate" => cpc[c] = "allocate"
      PROVE  PoolTypes'
  BY <1>0, <1>2 DEF PoolTypes, ThreadTypes
<1>3. CASE PollBegin \/ SpuriousWakeup \/ UNCHANGED vars
  BY <1>3, <1>2 DEF PollBegin, SpuriousWakeup, vars, semaphores, workervars, clientvars
<1>4. CASE PollStep \/ PostPause \/ WaitResume \/ HandlerReturns
  <2>1. UNCHANGED <<handler, mqs, sem, mine, slot, cpc>>
    BY <1>4 DEF PollStep, PostPause, WaitResume, HandlerReturns, semaphores, clientvars
  <2>2. wpc' \in {"poll", "control", "pause", "resume", "records", "halted"}
    BY <1>4, <1>0
       DEF PollStep, PostPause, WaitResume, HandlerReturns, PoolTypes, workervars, stay_paused
  <2>3. current' \subseteq Served /\ wi' \in Nat \ {0}
    BY <1>4, <1>0 DEF PollStep, PostPause, WaitResume, HandlerReturns, PoolTypes, ThreadTypes
  <2> QED
    BY <2>1, <2>2, <2>3, <1>1
<1>5. CASE HandleControl
  <2>1. UNCHANGED <<handler, mine, slot, cpc, current>>
    BY <1>5, ControlHandled DEF clientvars
  <2>2. CASE Stops \/ GoesOn
    BY <2>1, <2>2, <1>0, <1>1 DEF Stops, GoesOn, PoolTypes, ThreadTypes
  <2>3. ASSUME NEW c \in Clients, Adds(c) \/ Removes(c) PROVE PoolTypes'
    <3>1. mine[c] \in Objects \ {control} /\ sem' = [sem EXCEPT ![c] = 1] /\ UNCHANGED wi
      BY <2>3 DEF Adds, Removes, AskedBy
    <3>2. mqs' \in Seq(Objects)
      <4>1. CASE Adds(c)
        BY <4>1, <3>1, <1>0, QueueInserted DEF Adds
      <4>2. CASE Removes(c)
        BY <4>2, <3>1, <1>0, QueueErased DEF Removes
      <4> QED
        BY <2>3, <4>1, <4>2
    <3>3. sem' \in [Clients -> 0 .. 1]
      BY <3>1, <1>0
    <3>4. wpc' \in {"poll", "control", "pause", "resume", "records", "halted"}
      BY <2>3, <1>0 DEF Adds, Removes, PoolTypes
    <3> QED
      BY <2>1, <3>1, <3>2, <3>3, <3>4, <1>0 DEF PoolTypes, ThreadTypes
  <2> QED
    BY <1>5, <2>2, <2>3, ControlHandled
<1>6. CASE HandleRecord
  <2>1. UNCHANGED <<handler, mqs, sem, mine, slot, cpc>> /\ (Serves \/ Skips)
    BY <1>6, RecordHandled DEF semaphores, clientvars
  <2>2. wpc' \in {"poll", "control", "pause", "resume", "records", "halted"}
    BY <2>1, <1>0 DEF Serves, Skips, PoolTypes
  <2>3. current' \subseteq Served /\ wi' \in Nat \ {0}
    BY <2>1, <1>0 DEF Serves, Skips, PoolTypes, ThreadTypes
  <2> QED
    BY <1>6, <2>2, <2>3, <1>1, RecordHandled DEF semaphores, clientvars
<1>7. ASSUME NEW c \in Clients,
             \/ AllocateAdd(c) \/ Enqueue(c) \/ Release(c) \/ IdlePause(c)
             \/ IdleWaitPause(c) \/ IdlePoll(c) \/ IdleResume(c) \/ Join(c)
             \/ \E o \in Objects : MoveOut(c, o)
      PROVE  PoolTypes'
  <2>1. UNCHANGED <<handler, mqs, sem, mine, slot, wpc, current, wi>>
    BY <1>7 DEF AllocateAdd, Enqueue, Release, IdlePause, IdleWaitPause, IdlePoll, IdleResume,
                Join, MoveOut, semaphores, workervars, clientvars
  <2>2. cpc' = cpc \/ \E s \in ClientStates \ {"allocate"} : cpc' = [cpc EXCEPT ![c] = s]
    BY <1>7 DEF AllocateAdd, Enqueue, Release, IdlePause, IdleWaitPause, IdlePoll, IdleResume,
                Join, MoveOut, clientvars, wait_for_answer, ClientStates
  <2> QED
    BY <2>1, <2>2, <1>0, <1>2
<1>8. ASSUME NEW c \in Clients, Terminate(c) PROVE PoolTypes'
  BY <1>8, <1>2 DEF Terminate, semaphores, workervars
<1>9. ASSUME NEW c \in Clients, AllocateScan(c) PROVE PoolTypes'
  <2>1. /\ UNCHANGED <<handler, mqs, sem, mine, wpc, current, wi>>
        /\ slot' = [slot EXCEPT ![c] = free_slot] /\ cpc' = [cpc EXCEPT ![c] = "allocate"]
    BY <1>9 DEF AllocateScan, semaphores, workervars
  <2>2. free_slot \in 0 .. capacity + 1 /\ free_slot # 0
    BY FreeSlot, PoolAssumption
  <2>3. /\ slot \in [Clients -> 0 .. capacity + 1]
        /\ \A d \in Clients : cpc[d] = "allocate" => slot[d] # 0
    BY <1>0 DEF PoolTypes, ThreadTypes
  <2>4. /\ slot' \in [Clients -> 0 .. capacity + 1]
        /\ \A d \in Clients : cpc'[d] = "allocate" => slot'[d] # 0
    BY <2>1, <2>2, <2>3, <1>0
  <2> QED
    BY <2>1, <2>4, <1>0 DEF PoolTypes, ThreadTypes
<1>10. ASSUME NEW c \in Clients, NEW o \in Objects, AllocateStore(c, o) PROVE PoolTypes'
  <2>1. /\ UNCHANGED <<mqs, sem, slot, wpc, current, wi>>
        /\ mine' = [mine EXCEPT ![c] = o] /\ handler' = [handler EXCEPT ![slot[c]] = c]
        /\ cpc' = [cpc EXCEPT ![c] = "add"]
    BY <1>10 DEF AllocateStore, semaphores, workervars
  <2>2. \A d \in Clients : cpc'[d] = "allocate" => cpc[d] = "allocate"
    BY <2>1, <1>0
  <2>3. c \in Listeners
    BY PoolAssumption
  <2> QED
    BY <2>1, <2>2, <2>3, <1>0 DEF PoolTypes, ThreadTypes
<1>11. ASSUME NEW c \in Clients, WaitAnswer(c) \/ Delete(c) PROVE PoolTypes'
  <2>1. /\ UNCHANGED <<handler, mqs, slot, wpc, current, wi>>
        /\ mine' = mine \/ mine' = [mine EXCEPT ![c] = nullptr]
        /\ sem' = sem \/ (sem[c] > 0 /\ sem' = [sem EXCEPT ![c] = sem[c] - 1])
        /\ \E s \in {"out", "delete"} : cpc' = [cpc EXCEPT ![c] = s]
    BY <1>11 DEF WaitAnswer, Delete, semaphores, workervars
  <2>2. sem' \in [Clients -> 0 .. 1]
    BY <2>1, <1>0
  <2>3. \A d \in Clients : cpc'[d] = "allocate" => cpc[d] = "allocate"
    BY <2>1, <1>0
  <2> QED
    BY <2>1, <2>2, <2>3, <1>0 DEF PoolTypes, ThreadTypes
<1> QED
  BY <1>3, <1>4, <1>5, <1>6, <1>7, <1>8, <1>9, <1>10, <1>11 DEF Next, Worker, Call, Choice

LEMMA TypesKept == QInv /\ [Next]_vars => Types'
<1> SUFFICES ASSUME QInv, [Next]_vars PROVE Types'
  OBVIOUS
<1>1. MQInv(Qids, Messages)' /\ CallsInv' /\ PoolTypes' /\ IInv'
  BY QueuesKept, CallsKept, PoolTypesKept, PauseStep DEF QInv
<1>2. MQTypeOK(Qids, Messages)' /\ MQListsAscending'
  BY <1>1 DEF MQInv
<1>3. TypeOK'
  BY <1>1, <1>2 DEF TypeOK, CallsInv, PoolTypes, Messages, IInv, PauseTypes, ThreadTypes
<1> QED
  BY <1>1, <1>2, <1>3 DEF Types, CallsInv, PoolTypes
-----------------------------------------------------------------------------
\* A step that touches no queue, but for its listener, and no request.
Quiet ==
  /\ UNCHANGED <<alive, id, queue, mine, sem, mqs, handler>>
  /\ cpc' # cpc => \E c \in Clients, s \in ClientStates \ Changes :
       /\ cpc' = [cpc EXCEPT ![c] = s] /\ cpc[c] \notin Changes
       /\ s \in {"allocate", "join", "gone"} => mine[c] = nullptr

\* A message is taken out of the queue of a client.
TakesMessage ==
  /\ \E o \in Objects \ {control} : queue[o] # <<>> /\ queue' = [queue EXCEPT ![o] = Tail(queue[o])]
  /\ UNCHANGED <<alive, id, mine, sem, mqs, handler, cpc>>

\* The steps, as far as queues, owners and requests go.
LEMMA StepKinds ==
  ASSUME QInv, [Next]_vars
  PROVE  \/ Quiet \/ (TakesMessage /\ HandleRecord) \/ HandleControl
         \/ \E c \in Clients :
              \/ \E o \in Objects : AllocateStore(c, o) \/ MoveOut(c, o)
              \/ AllocateAdd(c) \/ WaitAnswer(c) \/ Delete(c) \/ Enqueue(c) \/ Release(c)
              \/ IdlePause(c) \/ Terminate(c)
<1>0. cpc \in [Clients -> ClientStates] /\ Clients \subseteq Listeners
  BY ThreadFacts, PoolAssumption
<1>1. CASE PollBegin \/ PostPause \/ WaitResume \/ HandlerReturns \/ UNCHANGED vars
  BY <1>1 DEF PollBegin, poll_begin, PostPause, WaitResume, HandlerReturns, vars, Quiet, mqvars,
              semaphores, clientvars
<1>2. ASSUME NEW l \in Listeners, poll_step(l) \/ poll_spurious_wakeup(l)
      PROVE  UNCHANGED <<alive, id, queue>>
  BY <1>2 DEF poll_step, poll_set, poll_return, poll_sleep, poll_clear, poll_end,
              poll_spurious_wakeup, set_listener, clear_listener, tell, mqvars
<1>3. CASE PollStep \/ SpuriousWakeup
  BY <1>2, <1>3, PoolAssumption DEF PollStep, SpuriousWakeup, Quiet, semaphores, clientvars
<1>4. CASE HandleRecord
  <2>1. Serves \/ Skips
    BY <1>4, RecordHandled
  <2>2. UNCHANGED <<mine, sem, mqs, handler, cpc>>
    BY <1>4, RecordHandled DEF semaphores, clientvars
  <2> QED
    BY <2>1, <2>2, <1>4, RecordHandled DEF Serves, Skips, pop, has_message, Quiet, TakesMessage, mqvars
<1>5. ASSUME NEW c \in Clients, AllocateScan(c) \/ Join(c) PROVE Quiet
  <2>1. /\ UNCHANGED <<alive, id, queue, mine, sem, mqs, handler>> /\ mine[c] = nullptr
        /\ cpc[c] \notin Changes
        /\ \E s \in {"allocate", "gone"} : cpc' = [cpc EXCEPT ![c] = s]
    BY <1>5 DEF AllocateScan, Join, mqvars, semaphores, Changes, QInv, Owners
  <2> QED
    BY <2>1 DEF Quiet, ClientStates, Changes
<1>6. ASSUME NEW c \in Clients, IdleWaitPause(c) \/ IdlePoll(c) \/ IdleResume(c) PROVE Quiet
  <2>1. UNCHANGED <<alive, id, queue, mine, sem, mqs, handler>>
    BY <1>0, <1>2, <1>6 DEF IdleWaitPause, poll_begin, IdlePoll, IdleResume, mqvars, semaphores
  <2>2. /\ cpc[c] \in {"wait_pause", "polling", "post_resume"}
        /\ cpc' = cpc \/ \E s \in {"polling", "post_resume", "out"} : cpc' = [cpc EXCEPT ![c] = s]
    BY <1>6 DEF IdleWaitPause, IdlePoll, IdleResume
  <2> QED
    BY <2>1, <2>2 DEF Quiet, ClientStates, Changes
<1> QED
  BY <1>1, <1>3, <1>4, <1>5, <1>6 DEF Next, Worker, Call, Choice
-----------------------------------------------------------------------------
\* The owners of the queues change when one is allocated or deleted.
LEMMA OwnersKept == QInv /\ [Next]_vars => Owners'
<1> SUFFICES ASSUME QInv, [Next]_vars PROVE Owners'
  OBVIOUS
<1>0. /\ Owners /\ cpc \in [Clients -> ClientStates] /\ control \in alive
      /\ mine \in [Clients -> Objects \cup {nullptr}] /\ nullptr \notin Objects
  BY ThreadFacts, PoolAssumption DEF QInv, Ids
<1>1. ASSUME UNCHANGED mine, alive \subseteq alive',
             \A c \in Clients : cpc'[c] \in Changes => mine[c] # nullptr,
             \A c \in Clients : cpc'[c] \in {"allocate", "join", "gone"} => mine[c] = nullptr
      PROVE  Owners'
  BY <1>0, <1>1 DEF Owners
<1>2. ASSUME UNCHANGED mine, alive \subseteq alive', NEW c \in Clients, NEW s,
             cpc' = [cpc EXCEPT ![c] = s], s \in Changes => mine[c] # nullptr,
             s \in {"allocate", "join", "gone"} => mine[c] = nullptr
      PROVE  Owners'
  <2>1. \A d \in Clients : cpc'[d] = IF d = c THEN s ELSE cpc[d]
    BY <1>0, <1>2
  <2> QED
    BY <2>1, <1>0, <1>1, <1>2 DEF Owners
<1>3. ASSUME UNCHANGED <<mine, alive, cpc>> PROVE Owners'
  BY <1>0, <1>3 DEF Owners
<1>4. CASE Quiet
  BY <1>2, <1>3, <1>4 DEF Quiet
<1>5. CASE TakesMessage
  BY <1>3, <1>5 DEF TakesMessage
<1>6. CASE HandleControl
  BY <1>3, <1>6, ControlHandled DEF clientvars, Stops, GoesOn, Adds, Removes, AskedBy, Taken, mqvars
<1>7. ASSUME NEW c \in Clients, AllocateAdd(c) \/ WaitAnswer(c) PROVE Owners'
  <2>1. cpc[c] \in Changes /\ UNCHANGED <<mine, alive>>
    BY <1>7 DEF AllocateAdd, WaitAnswer, enqueue_control, push, tell, mqvars, Changes
  <2>2. \E s \in {"wait_add", "out", "delete"} : cpc' = [cpc EXCEPT ![c] = s]
    BY <1>7 DEF AllocateAdd, WaitAnswer
  <2> QED
    BY <2>1, <2>2, <1>0, <1>2 DEF Owners
<1>8. ASSUME NEW c \in Clients, Release(c) PROVE Owners'
  <2>1. mine[c] # nullptr /\ UNCHANGED <<mine, alive>>
    BY <1>8 DEF Release, enqueue_control, push, tell, mqvars
  <2>2. \E s \in {"wait_remove", "delete"} : cpc' = [cpc EXCEPT ![c] = s]
    BY <1>8 DEF Release, wait_for_answer
  <2> QED
    BY <2>1, <2>2, <1>2
<1>9. ASSUME NEW c \in Clients, Enqueue(c) \/ \E o \in Objects : MoveOut(c, o) PROVE Owners'
  <2>1. UNCHANGED <<mine, cpc>> /\ alive \subseteq alive'
    BY <1>9 DEF Enqueue, MoveOut, push, tell, move_construct, clientvars, mqvars
  <2> QED
    BY <2>1, <1>0, <1>1 DEF Owners
<1>10. ASSUME NEW c \in Clients, IdlePause(c) PROVE Owners'
  <2>1. UNCHANGED <<mine, alive>> /\ cpc' = [cpc EXCEPT ![c] = "wait_pause"]
    BY <1>10 DEF IdlePause, enqueue_control, push, tell, mqvars
  <2> QED
    BY <2>1, <1>2 DEF Changes
<1>11. ASSUME NEW c \in Clients, Terminate(c) PROVE Owners'
  <2>1. /\ UNCHANGED <<mine, alive>> /\ \A d \in Clients : mine[d] = nullptr
        /\ \A d \in Clients : cpc'[d] \in {"join", "gone"}
    BY <1>11 DEF Terminate, enqueue_control, push, tell, mqvars
  <2> QED
    BY <2>1, <1>1 DEF Changes
<1>12. ASSUME NEW c \in Clients, NEW o \in Objects, AllocateStore(c, o) PROVE Owners'
  <2>1. /\ o \notin alive /\ alive' = alive \cup {o} /\ mine' = [mine EXCEPT ![c] = o]
        /\ cpc' = [cpc EXCEPT ![c] = "add"]
    BY <1>12 DEF AllocateStore, construct
  <2>2. \A d \in Clients : mine[d] # o
    BY <2>1, <1>0 DEF Owners
  <2> QED
    BY <2>1, <2>2, <1>0 DEF Owners, Changes
<1>13. ASSUME NEW c \in Clients, Delete(c) PROVE Owners'
  <2>1. /\ alive' = alive \ {mine[c]} /\ mine' = [mine EXCEPT ![c] = nullptr]
        /\ cpc' = [cpc EXCEPT ![c] = "out"] /\ mine[c] # nullptr
    BY <1>13, <1>0 DEF Delete, destroy, Owners, Changes
  <2>2. \A d \in Clients : d # c => mine[d] # mine[c]
    BY <2>1, <1>0 DEF Owners
  <2> QED
    BY <2>1, <2>2, <1>0 DEF Owners, Changes
<1> QED
  BY <1>4, <1>5, <1>6, <1>7, <1>8, <1>9, <1>10, <1>11, <1>12, <1>13, StepKinds
-----------------------------------------------------------------------------
\* What the requests say of one message.
LEMMA RequestFacts ==
  ASSUME Requests, Types, NEW i \in 1 .. Len(queue[control])
  PROVE  /\ Asked(i) \in ControlMessages
         /\ Asks(i) => /\ Asked(i).client \in Clients
                       /\ cpc[Asked(i).client] = IF Asked(i).type = "add" THEN "wait_add" ELSE "wait_remove"
                       /\ cpc[Asked(i).client] \in Waits
                       /\ sem[Asked(i).client] = 0 /\ Asked(i).mq = mine[Asked(i).client]
  BY ControlMessageFacts DEF Requests, Asks, Waits

\* The control queue stays as it is, and so do the clients that wait for it.
LEMMA RequestsElsewhere ==
  ASSUME QInv, queue'[control] = queue[control], NEW c \in Clients,
         \A d \in Clients : /\ d # c => cpc'[d] = cpc[d]
                            /\ d # c => mine'[d] = mine[d]
                            /\ d # c => sem'[d] = sem[d],
         \/ cpc'[c] = cpc[c] /\ mine'[c] = mine[c] /\ sem'[c] = sem[c]
         \/ (cpc[c] \notin Waits \/ sem[c] # 0) /\ sem'[c] = 0
  PROVE  Requests'
<1>0. Requests /\ Types
  BY DEF QInv
<1>1. \A i \in 1 .. Len(queue[control]) : Asked(i)' = Asked(i) /\ (Asks(i)' <=> Asks(i))
  BY DEF Asked, Asks
<1>2. \A i \in 1 .. Len(queue[control]) : Asks(i) =>
        LET d == Asked(i).client
        IN  cpc'[d] = cpc[d] /\ sem'[d] = sem[d] /\ mine'[d] = mine[d]
  BY <1>0, RequestFacts
<1> QED
  BY <1>0, <1>1, <1>2 DEF Requests

\* A client puts a message into the control queue.
LEMMA RequestsPushed ==
  ASSUME QInv, NEW m \in ControlMessages, NEW c \in Clients,
         queue'[control] = Append(queue[control], message(0, m)), UNCHANGED <<mine, sem>>,
         \A d \in Clients \ {c} : cpc'[d] = cpc[d] \/ cpc[d] \notin Waits,
         cpc[c] \notin Waits,
         m.type \in {"add", "remove"} =>
           /\ m.client = c /\ m.mq = mine[c]
           /\ cpc'[c] = IF m.type = "add" THEN "wait_add" ELSE "wait_remove"
  PROVE  Requests'
<1>n. PICK n : n = Len(queue[control])
  OBVIOUS
<1>0. /\ Requests /\ Types /\ queue[control] \in Seq(Messages)
      /\ n = Len(queue[control]) /\ n \in Nat /\ sem \in [Clients -> 0 .. 1]
  BY <1>n, MemberFacts, ThreadFacts DEF QInv
<1>1. \A d \in Clients : sem[d] # 0 => cpc'[d] = cpc[d] /\ cpc[d] \in Waits
  BY <1>0 DEF Requests
<1>2. Len(queue'[control]) = n + 1
  BY <1>0
<1>3. \A i \in 1 .. n : queue'[control][i] = queue[control][i]
  BY <1>0
<1>4. queue'[control][n + 1] = message(0, m)
  BY <1>0
<1>5. \A i \in 1 .. n : Asked(i)' = Asked(i) /\ (Asks(i)' <=> Asks(i))
  BY <1>3 DEF Asked, Asks
<1>6. Asked(n + 1)' = m /\ (Asks(n + 1)' <=> m.type \in {"add", "remove"})
  <2>1. queue'[control][n + 1].mid = m
    <3>1. message(0, m).mid = m
      BY DEF message
    <3> QED
      BY <3>1, <1>4
  <2> QED
    BY <2>1 DEF Asked, Asks
<1>7. \A i \in 1 .. n : /\ Asked(i) \in ControlMessages
                        /\ Asks(i) => /\ Asked(i).client \in Clients \ {c}
                                      /\ cpc'[Asked(i).client] = cpc[Asked(i).client]
  BY <1>0, RequestFacts
<1>8. \A i \in 1 .. n + 1 : i \in 1 .. n \/ i = n + 1
  BY <1>0
<1>9. ASSUME NEW i \in 1 .. n + 1
      PROVE  /\ Asked(i)' \in ControlMessages
             /\ Asks(i)' => LET d == Asked(i)'.client
                            IN  /\ cpc'[d] = IF Asked(i)'.type = "add" THEN "wait_add" ELSE "wait_remove"
                                /\ sem'[d] = 0 /\ Asked(i)'.mq = mine'[d]
  <2>1. CASE i \in 1 .. n
    <3>1. Asks(i) => LET d == Asked(i).client
                     IN  /\ cpc[d] = IF Asked(i).type = "add" THEN "wait_add" ELSE "wait_remove"
                         /\ sem[d] = 0 /\ Asked(i).mq = mine[d]
      BY <2>1, <1>0, RequestFacts
    <3> QED
      BY <2>1, <3>1, <1>5, <1>7 DEF Asked, Asks
  <2>2. CASE i = n + 1
    <3>1. Asked(i)' = m /\ (Asks(i)' <=> m.type \in {"add", "remove"})
      BY <2>2, <1>6 DEF Asked, Asks
    <3>2. cpc[c] \notin Waits => sem'[c] = 0
      BY <1>1, <1>0
    <3> QED
      BY <3>1, <3>2
  <2> QED
    BY <2>1, <2>2, <1>8
<1>10. \A i, j \in 1 .. n + 1 : Asks(i)' /\ Asks(j)' /\ Asked(i)'.client = Asked(j)'.client => i = j
  <2>1. \A i, j \in 1 .. n : Asks(i)' /\ Asks(j)' /\ Asked(i)'.client = Asked(j)'.client => i = j
    BY <1>0, <1>5 DEF Requests, Asked, Asks
  <2>2. \A i \in 1 .. n : Asks(i)' /\ Asks(n + 1)' => Asked(i)'.client # Asked(n + 1)'.client
    BY <1>5, <1>6, <1>7
  <2> QED
    BY <2>1, <2>2, <1>8 DEF Asked, Asks
<1> QED
  BY <1>1, <1>2, <1>9, <1>10 DEF Requests

\* The worker takes the first message, and answers it if a client waits for it.
LEMMA RequestsTaken ==
  ASSUME QInv, Taken, UNCHANGED <<cpc, mine>>,
         \/ ~Asks(1) /\ UNCHANGED sem
         \/ \E c \in Clients : Asks(1) /\ Asked(1).client = c /\ sem' = [sem EXCEPT ![c] = 1]
  PROVE  Requests'
<1>n. PICK n : n = Len(queue[control])
  OBVIOUS
<1>0. /\ Requests /\ Types /\ queue[control] \in Seq(Messages) /\ queue[control] # <<>>
      /\ n = Len(queue[control]) /\ n \in Nat /\ n >= 1 /\ sem \in [Clients -> 0 .. 1]
      /\ queue'[control] = Tail(queue[control])
  BY <1>n, MemberFacts, ThreadFacts, EmptySeq DEF QInv, Taken
<1>1. Len(queue'[control]) = n - 1 /\ \A i \in 1 .. n - 1 : queue'[control][i] = queue[control][i + 1]
  BY <1>0, HeadTailProperties
<1>2. \A i \in 1 .. n - 1 : /\ Asked(i)' = Asked(i + 1) /\ (Asks(i)' <=> Asks(i + 1))
                            /\ i + 1 \in 1 .. n /\ 1 \in 1 .. n /\ i + 1 # 1
  <2>1. \A i \in 1 .. n - 1 : i + 1 \in 1 .. n /\ 1 \in 1 .. n /\ i + 1 # 1
    BY <1>0
  <2> QED
    BY <2>1, <1>1 DEF Asked, Asks
<1>3. \A i \in 1 .. n - 1 : Asks(i + 1) => sem'[Asked(i + 1).client] = sem[Asked(i + 1).client]
  <2> SUFFICES ASSUME NEW i \in 1 .. n - 1, Asks(i + 1)
               PROVE  sem'[Asked(i + 1).client] = sem[Asked(i + 1).client]
    OBVIOUS
  <2>1. Asks(1) => Asked(1).client # Asked(i + 1).client
    BY <1>0, <1>2 DEF Requests, Asked, Asks
  <2>2. Asked(i + 1).client \in Clients
    BY <1>0, <1>2, RequestFacts
  <2> QED
    BY <2>1, <2>2, <1>0
<1>4. \A d \in Clients : sem'[d] # 0 => cpc[d] \in Waits
  <2>1. 1 \in 1 .. n
    BY <1>0
  <2>2. Asks(1) => cpc[Asked(1).client] \in Waits
    BY <1>0, <2>1, RequestFacts
  <2> QED
    BY <2>2, <1>0 DEF Requests
<1>5. ASSUME NEW i \in 1 .. n - 1
      PROVE  /\ Asked(i)' \in ControlMessages
             /\ Asks(i)' => LET d == Asked(i)'.client
                            IN  /\ cpc'[d] = IF Asked(i)'.type = "add" THEN "wait_add" ELSE "wait_remove"
                                /\ sem'[d] = 0 /\ Asked(i)'.mq = mine'[d]
  BY <1>0, <1>2, <1>3 DEF Requests, Asked, Asks
<1>6. \A i, j \in 1 .. n - 1 : Asks(i)' /\ Asks(j)' /\ Asked(i)'.client = Asked(j)'.client => i = j
  <2> SUFFICES ASSUME NEW i \in 1 .. n - 1, NEW j \in 1 .. n - 1, Asks(i)', Asks(j)',
                      Asked(i)'.client = Asked(j)'.client
               PROVE  i = j
    OBVIOUS
  <2>1. i + 1 = j + 1
    BY <1>0, <1>2 DEF Requests, Asked, Asks
  <2> QED
    BY <2>1, <1>0
<1> QED
  BY <1>1, <1>4, <1>5, <1>6 DEF Requests

\* Each client that waits for the worker has one request under way.
LEMMA RequestsKept == QInv /\ [Next]_vars => Requests'
<1> SUFFICES ASSUME QInv, [Next]_vars PROVE Requests'
  OBVIOUS
<1>0. /\ Requests /\ Types /\ Owners /\ Ids /\ cpc \in [Clients -> ClientStates]
      /\ mine \in [Clients -> Objects \cup {nullptr}] /\ sem \in [Clients -> 0 .. 1]
      /\ queue \in [Objects -> Seq(Messages)] /\ control \in Objects /\ nullptr \notin Objects
      /\ Waits \subseteq Changes /\ \A c \in Clients : cpc[c] \notin Waits => sem[c] = 0
      /\ \A c \in Clients : mine[c] # nullptr => mine[c] # control
  BY MemberFacts, ThreadFacts DEF QInv, Waits, Changes, Requests, Owners
<1>1. ASSUME queue'[control] = queue[control], UNCHANGED <<cpc, mine, sem>> PROVE Requests'
  <2>1. \A i \in 1 .. Len(queue[control]) : Asked(i)' = Asked(i) /\ (Asks(i)' <=> Asks(i))
    BY <1>1 DEF Asked, Asks
  <2> QED
    BY <2>1, <1>0, <1>1 DEF Requests, Asked, Asks
<1>2. CASE Quiet
  <2>1. ASSUME NEW c \in Clients, NEW s \in ClientStates \ Changes, cpc' = [cpc EXCEPT ![c] = s],
               cpc[c] \notin Changes
        PROVE  Requests'
    BY <2>1, <1>0, <1>2, RequestsElsewhere DEF Quiet
  <2> QED
    BY <2>1, <1>1, <1>2 DEF Quiet
<1>3. CASE TakesMessage
  BY <1>0, <1>1, <1>3 DEF TakesMessage
<1>4. CASE HandleControl
  <2>1. UNCHANGED <<cpc, mine>>
    BY <1>4, ControlHandled DEF clientvars
  <2>2. CASE Stops
    BY <2>1, <2>2, RequestsTaken DEF Stops
  <2>3. CASE GoesOn
    BY <2>1, <2>3, <1>1 DEF GoesOn, mqvars
  <2>4. ASSUME NEW c \in Clients, Adds(c) \/ Removes(c) PROVE Requests'
    BY <2>1, <2>4, RequestsTaken DEF Adds, Removes, AskedBy
  <2> QED
    BY <2>2, <2>3, <2>4, <1>4, ControlHandled
<1>5. ASSUME NEW c \in Clients, Delete(c) \/ \E o \in Objects : AllocateStore(c, o)
      PROVE  Requests'
  <2>1. /\ cpc[c] \notin Waits /\ sem' = sem
        /\ \E s : cpc' = [cpc EXCEPT ![c] = s]
        /\ \E o : mine' = [mine EXCEPT ![c] = o]
    BY <1>5 DEF Delete, AllocateStore, Waits, semaphores
  <2>2. queue'[control] = queue[control]
    BY <1>5, <1>0 DEF Delete, AllocateStore, construct, destroy, Owners, Changes
  <2> QED
    BY <2>1, <2>2, <1>0, RequestsElsewhere
<1>6. ASSUME NEW c \in Clients, WaitAnswer(c) PROVE Requests'
  <2>1. /\ sem[c] # 0 /\ sem' = [sem EXCEPT ![c] = sem[c] - 1]
        /\ UNCHANGED <<queue, mine>> /\ \E s : cpc' = [cpc EXCEPT ![c] = s]
    <3>1. sem[c] \in 0 .. 1 /\ sem[c] > 0
      BY <1>6, <1>0 DEF WaitAnswer
    <3>2. \E s : cpc' = [cpc EXCEPT ![c] = s]
      BY <1>6 DEF WaitAnswer
    <3>3. sem' = [sem EXCEPT ![c] = sem[c] - 1] /\ UNCHANGED <<queue, mine>>
      BY <1>6 DEF WaitAnswer, mqvars
    <3>4. sem[c] # 0
      BY <3>1
    <3> QED
      BY <3>2, <3>3, <3>4
  <2>2. sem'[c] = 0
    <3>1. sem[c] \in 0 .. 1
      BY <1>0
    <3>2. sem[c] - 1 = 0
      BY <2>1, <3>1
    <3> QED
      BY <2>1, <3>2, <1>0
  <2> QED
    BY <2>1, <2>2, <1>0, RequestsElsewhere
<1>7. ASSUME NEW c \in Clients, Enqueue(c) \/ \E o \in Objects : MoveOut(c, o) PROVE Requests'
  <2>1. UNCHANGED <<cpc, mine, sem>> /\ mine[c] # control
    BY <1>7, <1>0 DEF Enqueue, MoveOut, clientvars, semaphores
  <2>2. CASE Enqueue(c)
    <3>1. \E m : push(mine[c], m)
      BY <2>2 DEF Enqueue
    <3>2. queue'[control] = queue[control]
      BY <3>1, <2>1, <1>0 DEF push, mqvars
    <3> QED
      BY <3>2, <2>1, <1>1
  <2>3. ASSUME NEW o \in Objects, MoveOut(c, o) PROVE Requests'
    <3>1. queue' = [queue EXCEPT ![o] = queue[mine[c]], ![mine[c]] = <<>>] /\ o # control
      BY <2>3 DEF MoveOut, move_construct, move, move_queue
    <3> QED
      BY <3>1, <2>1, <1>0, <1>1
  <2> QED
    BY <2>2, <2>3, <1>7
<1>8. ASSUME NEW c \in Clients, AllocateAdd(c) \/ Release(c) \/ IdlePause(c) \/ Terminate(c)
      PROVE  Requests'
  <2>0. /\ UNCHANGED <<mine, sem>> /\ cpc[c] \notin Waits
        /\ \A d \in Clients \ {c} : cpc'[d] = cpc[d] \/ cpc[d] \notin Waits
    BY <1>8, <1>0 DEF AllocateAdd, Release, wait_for_answer, IdlePause, Terminate, semaphores, Waits
  <2>1. ASSUME NEW m \in ControlMessages, enqueue_control(m),
               m.type \in {"add", "remove"} =>
                 /\ m.client = c /\ m.mq = mine[c]
                 /\ cpc'[c] = IF m.type = "add" THEN "wait_add" ELSE "wait_remove"
        PROVE  Requests'
    <3>1. queue'[control] = Append(queue[control], message(0, m))
      BY <2>1, <1>0, ControlPushed
    <3> QED
      BY <2>0, <2>1, <3>1, RequestsPushed
  <2>2. CASE AllocateAdd(c)
    <3>1. PICK m : m = add_queue_message(c, mine[c])
      OBVIOUS
    <3>2. m \in ControlMessages
      BY <3>1, <2>2, <1>0 DEF AllocateAdd, ControlMessages, Owners, Changes
    <3>3. m.type = "add" /\ m.client = c /\ m.mq = mine[c] /\ cpc'[c] = "wait_add"
      BY <3>1, <2>2, <1>0 DEF AllocateAdd, add_queue_message
    <3> QED
      BY <3>1, <3>2, <3>3, <2>1, <2>2 DEF AllocateAdd
  <2>3. CASE Release(c)
    <3>1. CASE enqueue_control(remove_queue_message(c, mine[c])) /\ cpc' = [cpc EXCEPT ![c] = wait_for_answer]
      <4>1. PICK m : m = remove_queue_message(c, mine[c])
        OBVIOUS
      <4>2. m \in ControlMessages
        BY <4>1, <2>3, <1>0 DEF Release, ControlMessages
      <4>3. m.type = "remove" /\ m.client = c /\ m.mq = mine[c] /\ cpc'[c] = "wait_remove"
        BY <4>1, <3>1, <1>0 DEF remove_queue_message, wait_for_answer
      <4> QED
        BY <4>1, <4>2, <4>3, <3>1, <2>1
    <3>2. CASE UNCHANGED mqvars /\ cpc' = [cpc EXCEPT ![c] = "delete"]
      BY <3>2, <2>0, <1>0, RequestsElsewhere DEF mqvars
    <3> QED
      BY <2>3, <3>1, <3>2 DEF Release
  <2>4. CASE IdlePause(c) \/ Terminate(c)
    <3>1. /\ POLL_PAUSE \in ControlMessages /\ TERMINATE \in ControlMessages
          /\ POLL_PAUSE.type \notin {"add", "remove"} /\ TERMINATE.type \notin {"add", "remove"}
      BY DEF ControlMessages, POLL_PAUSE, TERMINATE
    <3> QED
      BY <3>1, <2>1, <2>4 DEF IdlePause, Terminate
  <2> QED
    BY <2>2, <2>3, <2>4, <1>8
<1> QED
  BY <1>2, <1>3, <1>4, <1>5, <1>6, <1>7, <1>8, StepKinds
-----------------------------------------------------------------------------
\* A client whose queue is not in the pool: no queue of _mqs is its own.
LEMMA NotInPool ==
  ASSUME QInv, NEW c \in Clients, mine[c] # nullptr, ~InPool(c)
  PROVE  \A i \in 1 .. Len(mqs) : mqs[i] # mine[c]
<1> SUFFICES ASSUME NEW i \in 1 .. Len(mqs), mqs[i] = mine[c] PROVE FALSE
  OBVIOUS
<1>1. mine[c] # control /\ mqs[1] = control /\ Len(mqs) \in Nat
  BY ThreadFacts DEF QInv, Owners, Members
<1>2. i \in 2 .. Len(mqs)
  BY <1>1
<1>3. PICK d \in Clients : mqs[i] = mine[d] /\ InPool(d)
  BY <1>2 DEF QInv, Members
<1>4. d = c
  BY <1>3 DEF QInv, Owners
<1> QED
  BY <1>3, <1>4

\* A queue that is released has a handler in its slot.
LEMMA ReleaseAsks ==
  ASSUME QInv, NEW c \in Clients, Release(c)
  PROVE  /\ enqueue_control(remove_queue_message(c, mine[c]))
         /\ cpc' = [cpc EXCEPT ![c] = "wait_remove"]
         /\ id[mine[c]] \in 1 .. capacity /\ mine[c] \in Objects \ {control}
<1>1. mine[c] \in Objects \ {control} /\ id[mine[c]] # undefined_qid /\ id \in [Objects -> Qids]
  BY ThreadFacts, MemberFacts DEF Release, QInv, Owners, Ids
<1>2. id[mine[c]] \in Slots /\ id[mine[c]] # 0
  BY <1>1 DEF Qids, QInv, Ids
<1>3. handler[id[mine[c]]] # nullptr
  BY <1>1, <1>2 DEF QInv, Ids
<1> QED
  BY <1>1, <1>2, <1>3, PoolAssumption DEF Release, wait_for_answer, Slots

\* _mqs changes when the worker adds or removes a queue, and a client learns of it.
LEMMA MembersKept == QInv /\ [Next]_vars => Members'
<1> SUFFICES ASSUME QInv, [Next]_vars PROVE Members'
  OBVIOUS
<1>0. /\ Requests /\ Types /\ Owners /\ Ids /\ Members /\ cpc \in [Clients -> ClientStates]
      /\ mine \in [Clients -> Objects \cup {nullptr}] /\ sem \in [Clients -> 0 .. 1]
      /\ mqs \in Seq(Objects)
  BY ThreadFacts DEF QInv
<1>1. ASSUME UNCHANGED mqs, \A c \in Clients : InPool(c) => mine'[c] = mine[c] /\ InPool(c)'
      PROVE  Members'
  BY <1>0, <1>1 DEF Members
<1>2. ASSUME UNCHANGED mqs, NEW c \in Clients,
             \A d \in Clients \ {c} : mine'[d] = mine[d] /\ cpc'[d] = cpc[d] /\ sem'[d] = sem[d],
             InPool(c) => mine'[c] = mine[c] /\ InPool(c)'
      PROVE  Members'
  <2>1. \A d \in Clients \ {c} : InPool(d) => mine'[d] = mine[d] /\ InPool(d)'
    BY <1>2 DEF InPool
  <2> QED
    BY <2>1, <1>1, <1>2
<1>3. ASSUME UNCHANGED <<mqs, mine, sem, cpc>> PROVE Members'
  BY <1>1, <1>3 DEF InPool
<1>4. CASE Quiet
  <2>1. ASSUME NEW c \in Clients, NEW s \in ClientStates \ Changes, cpc' = [cpc EXCEPT ![c] = s],
               cpc[c] \notin Changes
        PROVE  Members'
    <3>1. InPool(c) => mine'[c] = mine[c] /\ InPool(c)'
      BY <2>1, <1>0, <1>4 DEF Quiet, InPool, Changes
    <3> QED
      BY <3>1, <2>1, <1>0, <1>2, <1>4 DEF Quiet
  <2> QED
    BY <2>1, <1>3, <1>4 DEF Quiet
<1>5. CASE TakesMessage
  BY <1>3, <1>5 DEF TakesMessage
<1>6. CASE HandleControl
  <2>1. UNCHANGED <<cpc, mine>>
    BY <1>6, ControlHandled DEF clientvars
  <2>2. CASE Stops \/ GoesOn
    BY <2>1, <2>2, <1>3 DEF Stops, GoesOn
  <2>3. ASSUME NEW c \in Clients, Adds(c) \/ Removes(c)
        PROVE  /\ mine[c] \in Objects \ {control} /\ sem[c] = 0 /\ sem' = [sem EXCEPT ![c] = 1]
               /\ \A d \in Clients : d # c /\ InPool(d) => mine'[d] = mine[d] /\ InPool(d)'
    BY <2>1, <2>3, <1>0 DEF Adds, Removes, AskedBy, InPool
  <2>4. ASSUME NEW c \in Clients, Adds(c) PROVE Members'
    <3>1. mqs' = InsertAt(mqs, insert_position(mine[c]), mine[c]) /\ cpc[c] = "wait_add"
      BY <2>4 DEF Adds
    <3>2. \A i \in 1 .. Len(mqs) : mqs[i] # mine[c]
      BY <2>3, <2>4, <3>1, NotInPool, PoolAssumption DEF InPool, Changes
    <3>3. /\ mqs' # <<>> /\ mqs'[1] = control
          /\ \A i \in 2 .. Len(mqs') : mqs'[i] = mine[c] \/ \E j \in 2 .. Len(mqs) : mqs'[i] = mqs[j]
          /\ \A i, j \in 1 .. Len(mqs') : mqs'[i] = mqs'[j] => i = j
      <4>1. PICK o \in Objects : o = mine[c]
        BY <2>3, <2>4
      <4>2. PICK s : s = InsertAt(mqs, insert_position(o), o)
        OBVIOUS
      <4>3. Types /\ Members /\ \A i \in 1 .. Len(mqs) : mqs[i] # o
        BY <4>1, <1>0, <3>2
      <4>4. /\ s # <<>> /\ s[1] = control
        BY <4>2, <4>3, QueueInserted
      <4>5. \A i \in 2 .. Len(s) : s[i] = o \/ \E j \in 2 .. Len(mqs) : s[i] = mqs[j]
        BY <4>2, <4>3, QueueInserted
      <4>6. Distinct(s)
        BY <4>2, <4>3, QueueInserted
      <4> QED
        BY <4>1, <4>2, <4>4, <4>5, <4>6, <3>1 DEF Distinct
    <3>4. InPool(c)' /\ mine'[c] = mine[c]
      BY <1>0, <2>1, <2>3, <2>4, <3>1, PoolAssumption DEF InPool
    <3>5. \A i \in 2 .. Len(mqs) : mqs[i] # mine[c] => \E d \in Clients : d # c /\ mqs[i] = mine[d] /\ InPool(d)
      BY <1>0 DEF Members
    <3>6. \A i \in 2 .. Len(mqs) : \E d \in Clients : mqs[i] = mine'[d] /\ InPool(d)'
      <4> SUFFICES ASSUME NEW i \in 2 .. Len(mqs)
                   PROVE  \E d \in Clients : mqs[i] = mine'[d] /\ InPool(d)'
        OBVIOUS
      <4>1. i \in 1 .. Len(mqs)
        BY <1>0
      <4>2. PICK d \in Clients : d # c /\ mqs[i] = mine[d] /\ InPool(d)
        BY <4>1, <3>2, <3>5
      <4> QED
        BY <4>2, <2>3, <2>4
    <3> QED
      BY <3>3, <3>4, <3>6 DEF Members
  <2>5. ASSUME NEW c \in Clients, Removes(c) PROVE Members'
    <3>1. mqs' = RemoveFirst(mqs, mine[c])
      BY <2>5 DEF Removes
    <3>2. /\ mqs' # <<>> /\ mqs'[1] = control
          /\ \A i \in 2 .. Len(mqs') : mqs'[i] # mine[c] /\ \E j \in 2 .. Len(mqs) : mqs'[i] = mqs[j]
          /\ \A i, j \in 1 .. Len(mqs') : mqs'[i] = mqs'[j] => i = j
      BY <1>0, <2>3, <2>5, <3>1, QueueErased
    <3>3. ASSUME NEW i \in 2 .. Len(mqs') PROVE \E d \in Clients : mqs'[i] = mine'[d] /\ InPool(d)'
      <4>1. PICK j \in 2 .. Len(mqs) : mqs'[i] = mqs[j] /\ mqs[j] # mine[c]
        BY <3>2, <3>3
      <4>2. PICK d \in Clients : mqs[j] = mine[d] /\ InPool(d)
        BY <1>0 DEF Members
      <4> QED
        BY <4>1, <4>2, <2>3, <2>5
    <3> QED
      BY <3>2, <3>3 DEF Members
  <2> QED
    BY <2>2, <2>4, <2>5, <1>6, ControlHandled
<1>7. ASSUME NEW c \in Clients,
             Delete(c) \/ AllocateAdd(c) \/ \E o \in Objects : AllocateStore(c, o)
      PROVE  Members'
  <2>1. /\ ~InPool(c) /\ UNCHANGED <<mqs, sem>>
        /\ \E s : cpc' = [cpc EXCEPT ![c] = s]
        /\ \E o : mine' = [mine EXCEPT ![c] = o]
    <3>1. ~InPool(c)
      BY <1>0, <1>7 DEF Delete, AllocateAdd, AllocateStore, InPool, Changes, Owners
    <3>2. mine = [mine EXCEPT ![c] = mine[c]]
      BY <1>0
    <3> QED
      BY <3>1, <3>2, <1>7 DEF Delete, AllocateAdd, AllocateStore, semaphores
  <2> QED
    BY <2>1, <1>0, <1>2
<1>8. ASSUME NEW c \in Clients, WaitAnswer(c) PROVE Members'
  <2>1. UNCHANGED <<mqs, mine>> /\ sem[c] # 0 /\ \E x : sem' = [sem EXCEPT ![c] = x]
    <3>1. sem[c] \in 0 .. 1 /\ sem[c] > 0
      BY <1>8, <1>0 DEF WaitAnswer
    <3>2. sem[c] # 0
      BY <3>1
    <3> QED
      BY <3>2, <1>8 DEF WaitAnswer
  <2>2. CASE cpc[c] = "wait_add"
    <3>1. cpc' = [cpc EXCEPT ![c] = "out"]
      BY <1>8, <2>2, <1>0 DEF WaitAnswer
    <3>2. InPool(c) => InPool(c)'
      BY <2>1, <3>1, <1>0 DEF InPool, Changes
    <3> QED
      BY <2>1, <3>1, <3>2, <1>0, <1>2
  <2>3. CASE cpc[c] # "wait_add"
    <3>1. cpc' = [cpc EXCEPT ![c] = "delete"] /\ cpc[c] = "wait_remove"
      BY <1>8, <2>3, <1>0 DEF WaitAnswer
    <3>2. ~InPool(c)
      BY <2>1, <3>1 DEF InPool, Changes
    <3> QED
      BY <2>1, <3>1, <3>2, <1>0, <1>2
  <2> QED
    BY <2>2, <2>3
<1>9. ASSUME NEW c \in Clients, Enqueue(c) \/ \E o \in Objects : MoveOut(c, o) PROVE Members'
  BY <1>3, <1>9 DEF Enqueue, MoveOut, semaphores, clientvars
<1>10. ASSUME NEW c \in Clients, Release(c) PROVE Members'
  <2>1. UNCHANGED <<mqs, mine, sem>> /\ cpc[c] = "out" /\ cpc' = [cpc EXCEPT ![c] = "wait_remove"]
    BY <1>10, ReleaseAsks DEF Release, semaphores
  <2>2. sem[c] = 0
    BY <2>1, <1>0 DEF Requests, Waits
  <2>3. InPool(c) => InPool(c)'
    BY <2>1, <2>2, <1>0 DEF InPool
  <2> QED
    BY <2>1, <2>3, <1>0, <1>2
<1>11. ASSUME NEW c \in Clients, IdlePause(c) PROVE Members'
  <2>1. UNCHANGED <<mqs, mine, sem>> /\ cpc[c] = "out" /\ cpc' = [cpc EXCEPT ![c] = "wait_pause"]
    BY <1>11 DEF IdlePause, semaphores
  <2>2. InPool(c) => InPool(c)'
    BY <2>1, <1>0 DEF InPool, Changes
  <2> QED
    BY <2>1, <2>2, <1>0, <1>2
<1>12. ASSUME NEW c \in Clients, Terminate(c) PROVE Members'
  <2>1. UNCHANGED mqs /\ \A d \in Clients : ~InPool(d)
    BY <1>12 DEF Terminate, InPool
  <2> QED
    BY <2>1, <1>1
<1> QED
  BY <1>4, <1>5, <1>6, <1>7, <1>8, <1>9, <1>10, <1>11, <1>12, StepKinds
-----------------------------------------------------------------------------
\* What a push does with the queues, if it is accepted.
LEMMA Pushed ==
  ASSUME NEW o, NEW m, push(o, m)
  PROVE  /\ UNCHANGED <<alive, id, listener>>
         /\ \/ queue' = [queue EXCEPT ![o] = Append(queue[o], m)] /\ id[o] # undefined_qid /\ m.qid = id[o]
            \/ UNCHANGED queue
  BY DEF push, push_back, accepts, mqvars

\* The steps that ask the worker for something.
LEMMA ControlIsAsked ==
  ASSUME QInv, NEW c \in Clients, AllocateAdd(c) \/ Release(c) \/ IdlePause(c) \/ Terminate(c)
  PROVE  \E m \in ControlMessages : enqueue_control(m)
<1>1. CASE AllocateAdd(c)
  BY <1>1, ThreadFacts DEF AllocateAdd, ControlMessages, QInv, Owners, Changes
<1>2. CASE Release(c)
  BY <1>2, ReleaseAsks DEF ControlMessages
<1>3. CASE IdlePause(c) \/ Terminate(c)
  BY <1>3 DEF IdlePause, Terminate, ControlMessages
<1> QED
  BY <1>1, <1>2, <1>3

\* The queues that each step of a kind changes.
LEMMA QueuesPushed ==
  ASSUME QInv, NEW c \in Clients,
         AllocateAdd(c) \/ Enqueue(c) \/ Release(c) \/ IdlePause(c) \/ Terminate(c)
  PROVE  /\ UNCHANGED <<alive, id, listener, mine, handler>>
         /\ \/ UNCHANGED queue
            \/ \E o \in Objects, m \in Messages :
                 /\ queue' = [queue EXCEPT ![o] = Append(queue[o], m)]
                 /\ id[o] # undefined_qid /\ m.qid = id[o]
                 /\ o # control => m.mid \in DataMessages
<1>0. /\ mine \in [Clients -> Objects \cup {nullptr}] /\ control \in Objects /\ nullptr \notin Objects
      /\ id[control] = 0 /\ undefined_qid # 0 /\ id \in [Objects -> Qids] /\ Owners
  BY ThreadFacts, MemberFacts, PoolAssumption DEF QInv, Ids
<1>1. UNCHANGED <<mine, handler>>
  BY DEF AllocateAdd, Enqueue, Release, IdlePause, Terminate, clientvars
<1>2. ASSUME NEW m \in ControlMessages, enqueue_control(m)
      PROVE  /\ UNCHANGED <<alive, id, listener>>
             /\ \E n \in Messages : /\ queue' = [queue EXCEPT ![control] = Append(queue[control], n)]
                                    /\ id[control] # undefined_qid /\ n.qid = id[control]
  <2>1. message(0, m).qid = 0
    BY DEF message
  <2> QED
    BY <2>1, <1>0, <1>2, ControlPushed
<1>3. CASE AllocateAdd(c) \/ Release(c) \/ IdlePause(c) \/ Terminate(c)
  <2>1. \E m \in ControlMessages : enqueue_control(m)
    BY <1>3, ControlIsAsked
  <2> QED
    BY <2>1, <1>0, <1>1, <1>2
<1>4. CASE Enqueue(c)
  <2>1. /\ mine[c] \in Objects /\ id[mine[c]] # undefined_qid
        /\ \E n \in 1 .. MaxMessages : push(mine[c], message(id[mine[c]], data_message(n)))
    BY <1>0, <1>4 DEF Enqueue
  <2>2. PICK n \in 1 .. MaxMessages : push(mine[c], message(id[mine[c]], data_message(n)))
    BY <2>1
  <2>3. PICK m : m = message(id[mine[c]], data_message(n))
    OBVIOUS
  <2>4. m \in Messages /\ m.qid = id[mine[c]] /\ m.mid \in DataMessages
    BY <2>1, <2>3, <1>0 DEF message, Messages, DataMessages, Qids
  <2> QED
    BY <2>1, <2>2, <2>3, <2>4, <1>1, Pushed
<1> QED
  BY <1>3, <1>4

\* The IDs are given when a queue is allocated, moved and destroyed.
LEMMA IdsKept == QInv /\ [Next]_vars => Ids'
<1> SUFFICES ASSUME QInv, [Next]_vars PROVE Ids'
  OBVIOUS
<1>0. /\ Types /\ Owners /\ Ids /\ cpc \in [Clients -> ClientStates]
      /\ mine \in [Clients -> Objects \cup {nullptr}] /\ nullptr \notin Objects
      /\ handler \in [Slots -> Listeners \cup {nullptr}] /\ nullptr \notin Listeners
      /\ id \in [Objects -> Qids] /\ queue \in [Objects -> Seq(Messages)] /\ control \in Objects
      /\ undefined_qid \notin Slots /\ undefined_qid # 0 /\ alive \subseteq Objects
  BY ThreadFacts, MemberFacts, PoolAssumption DEF QInv, Slots
<1>1. ASSUME UNCHANGED <<alive, id, handler, mine>>, \A o \in Objects \ alive : queue'[o] = <<>>,
             \A c \in Clients : cpc'[c] \in {"add", "wait_add", "wait_remove"} =>
               cpc[c] \in {"add", "wait_add", "wait_remove"} \/ id[mine[c]] \in 1 .. capacity
      PROVE  Ids'
  BY <1>0, <1>1 DEF Ids
<1>2. ASSUME UNCHANGED <<alive, id, handler, mine>>, \A o \in Objects \ alive : queue'[o] = <<>>,
             NEW c \in Clients, NEW s, cpc' = [cpc EXCEPT ![c] = s],
             s \in {"add", "wait_add", "wait_remove"} =>
               cpc[c] \in {"add", "wait_add", "wait_remove"} \/ id[mine[c]] \in 1 .. capacity
      PROVE  Ids'
  <2>1. \A d \in Clients : cpc'[d] = IF d = c THEN s ELSE cpc[d]
    BY <1>0, <1>2
  <2> QED
    BY <2>1, <1>1, <1>2
<1>3. ASSUME UNCHANGED queue PROVE \A o \in Objects \ alive : queue'[o] = <<>>
  BY <1>0, <1>3 DEF Ids
<1>4. CASE Quiet
  <2>1. UNCHANGED <<alive, id, handler, mine, queue>>
    BY <1>4 DEF Quiet
  <2>2. CASE UNCHANGED cpc
    BY <2>1, <2>2, <1>1, <1>3
  <2>3. ASSUME NEW c \in Clients, NEW s \in ClientStates \ Changes, cpc' = [cpc EXCEPT ![c] = s]
        PROVE  Ids'
    BY <2>1, <2>3, <1>2, <1>3 DEF Changes
  <2> QED
    BY <2>2, <2>3, <1>4 DEF Quiet
<1>5. CASE TakesMessage
  <2>1. PICK o \in Objects : queue[o] # <<>> /\ queue' = [queue EXCEPT ![o] = Tail(queue[o])]
    BY <1>5 DEF TakesMessage
  <2>2. \A p \in Objects \ alive : queue'[p] = <<>>
    BY <2>1, <1>0 DEF Ids
  <2> QED
    BY <2>2, <1>1, <1>5 DEF TakesMessage
<1>6. CASE HandleControl
  <2>1. UNCHANGED <<cpc, mine, handler>>
    BY <1>6, ControlHandled DEF clientvars
  <2>2. CASE UNCHANGED mqvars
    BY <2>1, <2>2, <1>1, <1>3 DEF mqvars
  <2>3. CASE Taken
    <3>1. \A p \in Objects \ alive : queue'[p] = <<>>
      BY <2>3, <1>0 DEF Taken, Ids
    <3> QED
      BY <2>1, <2>3, <3>1, <1>1 DEF Taken
  <2> QED
    BY <2>2, <2>3, <1>6, ControlHandled DEF Stops, GoesOn, Adds, Removes, AskedBy
<1>7. ASSUME NEW c \in Clients,
             AllocateAdd(c) \/ Enqueue(c) \/ Release(c) \/ IdlePause(c) \/ Terminate(c)
      PROVE  Ids'
  <2>1. UNCHANGED <<alive, id, handler, mine>> /\ \A o \in Objects \ alive : queue'[o] = <<>>
    <3>1. CASE UNCHANGED queue
      BY <3>1, <1>3, <1>7, QueuesPushed
    <3>2. ASSUME NEW o \in Objects, NEW m, id[o] # undefined_qid,
                 queue' = [queue EXCEPT ![o] = Append(queue[o], m)]
          PROVE  \A p \in Objects \ alive : queue'[p] = <<>>
      BY <3>2, <1>0 DEF Ids
    <3> QED
      BY <3>1, <3>2, <1>7, QueuesPushed
  <2>2. CASE Release(c)
    BY <2>1, <2>2, <1>2, ReleaseAsks
  <2>3. CASE AllocateAdd(c) \/ IdlePause(c)
    BY <2>1, <2>3, <1>2 DEF AllocateAdd, IdlePause
  <2>4. CASE Enqueue(c)
    BY <2>1, <2>4, <1>1 DEF Enqueue, clientvars
  <2>5. CASE Terminate(c)
    <3>1. \A d \in Clients : cpc'[d] \in {"join", "gone"}
      BY <2>5 DEF Terminate
    <3> QED
      BY <2>1, <3>1, <1>1
  <2> QED
    BY <2>2, <2>3, <2>4, <2>5, <1>7
<1>8. ASSUME NEW c \in Clients, WaitAnswer(c) PROVE Ids'
  <2>1. UNCHANGED <<alive, id, handler, mine, queue>> /\ \E s \in {"out", "delete"} : cpc' = [cpc EXCEPT ![c] = s]
    BY <1>8 DEF WaitAnswer, mqvars
  <2> QED
    BY <2>1, <1>2, <1>3
<1>9. ASSUME NEW c \in Clients, NEW o \in Objects, AllocateStore(c, o) PROVE Ids'
  <2>1. /\ o \notin alive /\ alive' = alive \cup {o} /\ id' = [id EXCEPT ![o] = slot[c]]
        /\ UNCHANGED queue /\ mine' = [mine EXCEPT ![c] = o]
        /\ handler' = [handler EXCEPT ![slot[c]] = c]
        /\ cpc' = [cpc EXCEPT ![c] = "add"] /\ cpc[c] = "allocate" /\ slot[c] \in Slots
    BY <1>9 DEF AllocateStore, construct
  <2>2. slot[c] \in 1 .. capacity
    <3>1. slot[c] # 0
      BY <2>1, <1>0 DEF Types, ThreadTypes
    <3> QED
      BY <2>1, <3>1, PoolAssumption DEF Slots
  <2>3. slot[c] # 0 /\ slot[c] # undefined_qid /\ c # nullptr
    BY <2>2, <1>0, PoolAssumption DEF Types, ThreadTypes
  <2>4. \A d \in Clients : mine[d] # nullptr => mine[d] \in Objects /\ mine[d] # o
    BY <2>1, <1>0 DEF Owners
  <2>5. \A d \in Clients : d # c => mine'[d] = mine[d] /\ cpc'[d] = cpc[d]
    BY <2>1, <1>0
  <2>6. mine'[c] = o /\ id'[o] = slot[c] /\ \A p \in Objects : p # o => id'[p] = id[p]
    BY <2>1, <1>0
  <2>7. control \in alive' /\ id'[control] = 0
    BY <2>1, <2>6, <1>0 DEF Ids
  <2>8. \A p \in Objects \ {control} : id'[p] # 0
    BY <2>3, <2>6, <1>0 DEF Ids
  <2>9. \A p \in Objects \ alive' : id'[p] = undefined_qid /\ queue'[p] = <<>>
    BY <2>1, <2>6, <1>0 DEF Ids
  <2>10. \A q \in Slots : handler'[q] = nullptr => \A p \in Objects : id'[p] # q
    <3>1. \A q \in Slots : handler'[q] = nullptr => q # slot[c] /\ handler[q] = nullptr
      BY <2>1, <2>3, <1>0
    <3> QED
      BY <2>6, <3>1, <1>0 DEF Ids
  <2>11. \A d \in Clients : cpc'[d] \in {"add", "wait_add", "wait_remove"} => id'[mine'[d]] \in 1 .. capacity
    <3> SUFFICES ASSUME NEW d \in Clients \ {c}, cpc[d] \in {"add", "wait_add", "wait_remove"}
                 PROVE  id'[mine[d]] \in 1 .. capacity
      BY <2>2, <2>5, <2>6
    <3>1. mine[d] \in Objects /\ mine[d] # o
      BY <2>4, <1>0 DEF Owners, Changes
    <3> QED
      BY <3>1, <2>6, <1>0 DEF Ids
  <2>12. AllowMove \/ \A d \in Clients : mine'[d] # nullptr => id'[mine'[d]] # undefined_qid
    <3> SUFFICES ASSUME ~AllowMove, NEW d \in Clients \ {c}, mine[d] # nullptr
                 PROVE  id'[mine[d]] # undefined_qid
      BY <2>3, <2>5, <2>6
    <3> QED
      BY <2>4, <2>6, <1>0 DEF Ids
  <2> QED
    BY <2>7, <2>8, <2>9, <2>10, <2>11, <2>12 DEF Ids
<1>10. ASSUME NEW c \in Clients, NEW o \in Objects, MoveOut(c, o) PROVE Ids'
  <2>1. PICK p \in Objects \ {control} : p = mine[c]
    BY <1>10, <1>0 DEF MoveOut, Owners
  <2>2. /\ o \notin alive /\ o # control /\ p # o /\ AllowMove /\ UNCHANGED <<mine, cpc, handler>>
        /\ alive' = alive \cup {o} /\ cpc[c] = "out"
        /\ id' = [id EXCEPT ![o] = id[p], ![p] = undefined_qid]
        /\ queue' = [queue EXCEPT ![o] = queue[p], ![p] = <<>>]
    BY <2>1, <1>10 DEF MoveOut, move_construct, move, move_id, move_queue, clientvars
  <2>3. \A r \in Objects : /\ id'[r] = IF r = p THEN undefined_qid ELSE IF r = o THEN id[p] ELSE id[r]
                           /\ queue'[r] = IF r = p THEN <<>> ELSE IF r = o THEN queue[p] ELSE queue[r]
    BY <2>2, <1>0
  <2>4. /\ control \in alive' /\ id'[control] = 0
        /\ \A r \in Objects \ {control} : id'[r] # 0
        /\ \A r \in Objects \ alive' : id'[r] = undefined_qid /\ queue'[r] = <<>>
    BY <2>1, <2>2, <2>3, <1>0 DEF Ids
  <2>5. \A q \in Slots : handler'[q] = nullptr => \A r \in Objects : id'[r] # q
    BY <2>1, <2>2, <2>3, <1>0 DEF Ids
  <2>6. \A d \in Clients : cpc'[d] \in {"add", "wait_add", "wait_remove"} => id'[mine'[d]] \in 1 .. capacity
    <3> SUFFICES ASSUME NEW d \in Clients, cpc[d] \in {"add", "wait_add", "wait_remove"}
                 PROVE  id'[mine[d]] \in 1 .. capacity
      BY <2>2
    <3>1. d # c /\ mine[d] \in alive /\ mine[d] # nullptr
      BY <2>2, <1>0 DEF Owners, Changes
    <3>2. mine[d] \in Objects /\ mine[d] # o /\ mine[d] # p
      BY <3>1, <2>1, <2>2, <1>0 DEF Owners
    <3> QED
      BY <3>2, <2>3, <1>0 DEF Ids
  <2> QED
    BY <2>2, <2>4, <2>5, <2>6 DEF Ids
<1>11. ASSUME NEW c \in Clients, Delete(c) PROVE Ids'
  <2>1. PICK p \in Objects \ {control} : p = mine[c]
    BY <1>11, <1>0 DEF Delete, Owners, Changes
  <2>2. /\ UNCHANGED handler /\ alive' = alive \ {p} /\ mine' = [mine EXCEPT ![c] = nullptr]
        /\ cpc' = [cpc EXCEPT ![c] = "out"]
        /\ id' = [id EXCEPT ![p] = undefined_qid] /\ queue' = [queue EXCEPT ![p] = <<>>]
    BY <2>1, <1>11 DEF Delete, destroy
  <2>3. \A r \in Objects : /\ id'[r] = IF r = p THEN undefined_qid ELSE id[r]
                           /\ queue'[r] = IF r = p THEN <<>> ELSE queue[r]
    BY <2>2, <1>0
  <2>4. /\ control \in alive' /\ id'[control] = 0
        /\ \A r \in Objects \ {control} : id'[r] # 0
        /\ \A r \in Objects \ alive' : id'[r] = undefined_qid /\ queue'[r] = <<>>
    BY <2>1, <2>2, <2>3, <1>0 DEF Ids
  <2>5. \A q \in Slots : handler'[q] = nullptr => \A r \in Objects : id'[r] # q
    BY <2>1, <2>2, <2>3, <1>0 DEF Ids
  <2>6. \A d \in Clients : d # c => mine[d] # p
    BY <2>1, <1>0 DEF Owners
  <2>7. \A d \in Clients : /\ d # c => mine'[d] = mine[d] /\ cpc'[d] = cpc[d]
                           /\ d = c => mine'[d] = nullptr /\ cpc'[d] = "out"
    BY <2>2, <1>0
  <2>8. \A d \in Clients : cpc'[d] \in {"add", "wait_add", "wait_remove"} => id'[mine'[d]] \in 1 .. capacity
    <3> SUFFICES ASSUME NEW d \in Clients \ {c}, cpc[d] \in {"add", "wait_add", "wait_remove"}
                 PROVE  id'[mine[d]] \in 1 .. capacity
      BY <2>7
    <3>1. mine[d] \in Objects
      BY <1>0 DEF Owners, Changes
    <3> QED
      BY <3>1, <2>3, <2>6, <1>0 DEF Ids
  <2>9. AllowMove \/ \A d \in Clients : mine'[d] # nullptr => id'[mine'[d]] # undefined_qid
    <3> SUFFICES ASSUME ~AllowMove, NEW d \in Clients \ {c}, mine[d] # nullptr
                 PROVE  id'[mine[d]] # undefined_qid
      BY <2>7
    <3>1. mine[d] \in Objects
      BY <1>0
    <3> QED
      BY <3>1, <2>3, <2>6, <1>0 DEF Ids
  <2> QED
    BY <2>4, <2>5, <2>8, <2>9 DEF Ids
<1> QED
  BY <1>4, <1>5, <1>6, <1>7, <1>8, <1>9, <1>10, <1>11, StepKinds
-----------------------------------------------------------------------------
\* A queue with the ID q, of the control queue or of a client, that holds s.
OwnContent(o, q, s) ==
  \A i \in 1 .. Len(s) : s[i].qid = q /\ (o # control => s[i].mid \in DataMessages)

LEMMA OwnContentKept ==
  ASSUME NEW o, NEW q, NEW s \in Seq(Messages), OwnContent(o, q, s)
  PROVE  /\ s # <<>> => OwnContent(o, q, Tail(s))
         /\ \A m \in Messages : m.qid = q /\ (o # control => m.mid \in DataMessages) =>
              OwnContent(o, q, Append(s, m))
         /\ \A p : p # control /\ o # control => OwnContent(p, q, s)
<1>1. ASSUME s # <<>> PROVE OwnContent(o, q, Tail(s))
  <2>1. Len(Tail(s)) = Len(s) - 1 /\ \A i \in 1 .. Len(s) - 1 : Tail(s)[i] = s[i + 1]
    BY <1>1, HeadTailProperties
  <2>2. \A i \in 1 .. Len(s) - 1 : i + 1 \in 1 .. Len(s)
    OBVIOUS
  <2> QED
    BY <2>1, <2>2 DEF OwnContent
<1>2. ASSUME NEW m \in Messages, m.qid = q, o # control => m.mid \in DataMessages
      PROVE  OwnContent(o, q, Append(s, m))
  BY <1>2 DEF OwnContent
<1> QED
  BY <1>1, <1>2 DEF OwnContent

\* The control queue has the messages of the pool, and a queue its own.
LEMMA OwnMessagesKept == QInv /\ [Next]_vars => OwnMessages'
<1> SUFFICES ASSUME QInv, [Next]_vars PROVE OwnMessages'
  OBVIOUS
<1>0. /\ Types /\ Owners /\ Ids /\ mine \in [Clients -> Objects \cup {nullptr}]
      /\ id \in [Objects -> Qids] /\ queue \in [Objects -> Seq(Messages)] /\ control \in Objects
      /\ \A o \in Objects : OwnContent(o, id[o], queue[o])
      /\ \A o, q : OwnContent(o, q, <<>>)
  BY ThreadFacts, MemberFacts DEF QInv, OwnMessages, OwnContent
<1>1. ASSUME \A o \in Objects : OwnContent(o, id'[o], queue'[o]) PROVE OwnMessages'
  BY <1>1 DEF OwnMessages, OwnContent
<1>2. CASE UNCHANGED <<id, queue>>
  BY <1>0, <1>1, <1>2
<1>3. ASSUME UNCHANGED id, NEW o \in Objects, queue[o] # <<>>,
             queue' = [queue EXCEPT ![o] = Tail(queue[o])]
      PROVE  OwnMessages'
  <2>1. OwnContent(o, id[o], Tail(queue[o]))
    BY <1>0, <1>3, OwnContentKept
  <2> QED
    BY <2>1, <1>0, <1>1, <1>3
<1>4. CASE Quiet \/ TakesMessage
  BY <1>2, <1>3, <1>4 DEF Quiet, TakesMessage
<1>5. CASE HandleControl
  BY <1>0, <1>2, <1>3, <1>5, ControlHandled DEF Stops, GoesOn, Adds, Removes, AskedBy, Taken, mqvars
<1>6. ASSUME NEW c \in Clients,
             AllocateAdd(c) \/ Enqueue(c) \/ Release(c) \/ IdlePause(c) \/ Terminate(c)
      PROVE  OwnMessages'
  <2>1. ASSUME UNCHANGED id, NEW o \in Objects, NEW m \in Messages,
               queue' = [queue EXCEPT ![o] = Append(queue[o], m)], m.qid = id[o],
               o # control => m.mid \in DataMessages
        PROVE  OwnMessages'
    <3>1. OwnContent(o, id[o], Append(queue[o], m))
      BY <1>0, <2>1, OwnContentKept
    <3> QED
      BY <3>1, <1>0, <1>1, <2>1
  <2> QED
    BY <2>1, <1>2, <1>6, QueuesPushed
<1>7. ASSUME NEW c \in Clients, WaitAnswer(c) PROVE OwnMessages'
  BY <1>2, <1>7 DEF WaitAnswer, mqvars
<1>8. ASSUME NEW c \in Clients, NEW o \in Objects, AllocateStore(c, o) PROVE OwnMessages'
  <2>1. queue[o] = <<>> /\ UNCHANGED queue /\ \A p \in Objects : p # o => id'[p] = id[p]
    BY <1>8, <1>0 DEF AllocateStore, construct, Ids
  <2> QED
    BY <2>1, <1>0, <1>1
<1>9. ASSUME NEW c \in Clients, NEW o \in Objects, MoveOut(c, o) PROVE OwnMessages'
  <2>1. PICK p \in Objects \ {control} : p = mine[c]
    BY <1>9, <1>0 DEF MoveOut, Owners
  <2>2. /\ o # control /\ p # o
        /\ id' = [id EXCEPT ![o] = id[p], ![p] = undefined_qid]
        /\ queue' = [queue EXCEPT ![o] = queue[p], ![p] = <<>>]
    BY <2>1, <1>9 DEF MoveOut, move_construct, move, move_id, move_queue
  <2>3. OwnContent(o, id[p], queue[p])
    BY <2>1, <2>2, <1>0, OwnContentKept
  <2> QED
    BY <2>2, <2>3, <1>0, <1>1
<1>10. ASSUME NEW c \in Clients, Delete(c) PROVE OwnMessages'
  <2>1. \E p \in Objects : /\ queue' = [queue EXCEPT ![p] = <<>>]
                           /\ id' = [id EXCEPT ![p] = undefined_qid]
    BY <1>10, <1>0 DEF Delete, destroy, Owners, Changes
  <2> QED
    BY <2>1, <1>0, <1>1
<1> QED
  BY <1>4, <1>5, <1>6, <1>7, <1>8, <1>9, <1>10, StepKinds
-----------------------------------------------------------------------------
\* Every listener that a queue has is that of a call that has set it.
LEMMA ListenersHeldKept == QInv /\ [Next]_vars => ListenersHeld'
<1> SUFFICES ASSUME QInv, ListenersHeld, [Next]_vars PROVE ListenersHeld'
  BY DEF QInv
<1>0. /\ listener \in [Objects -> Listeners \cup {nullptr}] /\ nullptr \notin Listeners
      /\ phase \in [Listeners -> Phases]
      /\ pos \in [Listeners -> Nat] /\ range \in [Listeners -> Seq(Objects)]
      /\ \A l \in Listeners :
           /\ Len(range[l]) \in Nat
           /\ \A i \in 1 .. Len(range[l]) : range[l][i] \in Objects
           /\ phase[l] \in {"set", "clear"} => pos[l] \in 1 .. Len(range[l])
           /\ phase[l] \notin {"set", "clear"} => pos[l] = 1
      /\ worker \in Listeners /\ Clients \subseteq Listeners
      /\ mine \in [Clients -> Objects \cup {nullptr}]
  BY CallFacts, MemberFacts, ThreadFacts DEF QInv
<1> DEFINE After(o, l) == \E i \in 1 .. Len(range'[l]) :
                            range'[l][i] = o /\ SetFor(phase'[l], pos'[l], i)
\* A queue that has the same listener after the step, whose call is the same.
<1>1. ASSUME NEW o \in Objects, NEW l \in Listeners, listener[o] = l,
             phase'[l] = phase[l], pos'[l] = pos[l], range'[l] = range[l]
      PROVE  After(o, l)
  BY <1>0, <1>1 DEF ListenersHeld, HeldBy
<1>2. (\A o \in Objects : listener'[o] # nullptr => After(o, listener'[o])) => ListenersHeld'
  BY DEF ListenersHeld, HeldBy
<1>12. \A o \in Objects : listener[o] # nullptr => listener[o] \in Listeners
  BY <1>0
<1> HIDE DEF After
<1>3. ASSUME \A o \in Objects : listener'[o] = listener[o] \/ listener'[o] = nullptr,
             UNCHANGED <<phase, range, pos>>
      PROVE  ListenersHeld'
  BY <1>1, <1>2, <1>3, <1>12
<1>4. ASSUME NEW l \in Listeners, poll_end(l) \/ \E r, w : poll_begin(l, r, w) PROVE ListenersHeld'
  <2>1. /\ phase[l] \in {"out", "end"} /\ listener' = listener /\ pos' = pos
        /\ \A k \in Listeners : k # l => phase'[k] = phase[k] /\ range'[k] = range[k]
    BY <1>0, <1>4 DEF poll_begin, poll_end, enter, mqvars
  <2>2. ~SetFor(phase[l], pos[l], 1) /\ \A i \in Nat : ~SetFor(phase[l], pos[l], i)
    BY <2>1 DEF SetFor
  <2>3. \A o \in Objects : listener[o] # l
    <3> SUFFICES ASSUME NEW o \in Objects, listener[o] = l PROVE FALSE
      OBVIOUS
    <3>1. PICK i \in 1 .. Len(range[l]) : SetFor(phase[l], pos[l], i)
      BY <1>0 DEF ListenersHeld, HeldBy
    <3>2. i \in Nat
      BY <1>0
    <3> QED
      BY <2>2, <3>1, <3>2
  <2> QED
    BY <2>1, <2>3, <1>12, <1>1, <1>2
<1>5. ASSUME NEW l \in Listeners, poll_set(l) PROVE ListenersHeld'
  <2>1. PICK p : p = range[l][pos[l]]
    OBVIOUS
  <2>2. phase[l] = "set" /\ pos[l] \in 1 .. Len(range[l]) /\ p \in Objects /\ range' = range
    BY <2>1, <1>0, <1>5 DEF poll_set
  <2>3. listener' = listener \/ listener' = [listener EXCEPT ![p] = l]
    BY <2>1, <1>5 DEF poll_set, set_listener, mqvars
  <2>4. /\ \A k \in Listeners : k # l => phase'[k] = phase[k] /\ pos'[k] = pos[k]
        /\ \/ pos'[l] = pos[l] + 1 /\ phase'[l] = "set"
           \/ phase'[l] = "wait"
    BY <1>0, <1>5 DEF poll_set, next_queue
  <2>5. \A i \in 1 .. Len(range[l]) :
          i = pos[l] \/ SetFor(phase[l], pos[l], i) => SetFor(phase'[l], pos'[l], i)
    BY <2>2, <2>4, <1>0 DEF SetFor
  <2>6. ASSUME NEW o \in Objects, listener'[o] # nullptr PROVE After(o, listener'[o])
    <3>1. CASE listener'[o] = l /\ o = p
      BY <3>1, <2>1, <2>2, <2>5 DEF After
    <3>2. CASE listener'[o] = listener[o] /\ listener[o] = l
      BY <3>2, <2>2, <2>5, <2>6 DEF ListenersHeld, HeldBy, After
    <3>3. CASE listener'[o] = listener[o] /\ listener[o] # l
      BY <3>3, <2>2, <2>4, <2>6, <1>12, <1>1
    <3> QED
      BY <3>1, <3>2, <3>3, <2>2, <2>3, <1>0
  <2> QED
    BY <2>6, <1>2
<1>6. ASSUME NEW l \in Listeners, phase[l] = "wait", poll_copy(l), listener' = listener
      PROVE  ListenersHeld'
  <2>1. /\ UNCHANGED <<range, pos>>
        /\ \A k \in Listeners : k # l => phase'[k] = phase[k]
        /\ phase'[l] = IF range[l] = <<>> THEN "end" ELSE "clear"
    BY <1>0, <1>6 DEF poll_copy, enter
  <2>2. \A i \in 1 .. Len(range[l]) : SetFor(phase'[l], pos'[l], i)
    <3>1. range[l] = <<>> => Len(range[l]) = 0
      BY EmptySeq
    <3>2. pos'[l] = 1 /\ Len(range[l]) \in Nat
      BY <2>1, <1>0, <1>6
    <3> QED
      BY <3>1, <3>2, <2>1 DEF SetFor
  <2>3. ASSUME NEW o \in Objects, listener[o] # nullptr PROVE After(o, listener[o])
    <3>1. CASE listener[o] = l
      BY <3>1, <2>1, <2>2, <2>3 DEF ListenersHeld, HeldBy, After
    <3>2. CASE listener[o] # l
      BY <3>2, <2>1, <2>3, <1>12, <1>1
    <3> QED
      BY <3>1, <3>2
  <2> QED
    BY <2>3, <1>2, <1>6
<1>7. ASSUME NEW l \in Listeners, poll_clear(l) PROVE ListenersHeld'
  <2>1. PICK p : p = range[l][pos[l]]
    OBVIOUS
  <2>2. phase[l] = "clear" /\ pos[l] \in 1 .. Len(range[l]) /\ p \in Objects /\ range' = range
    BY <2>1, <1>0, <1>7 DEF poll_clear
  <2>3. listener' = [listener EXCEPT ![p] = nullptr]
    BY <2>1, <1>7 DEF poll_clear, clear_listener
  <2>4. /\ \A k \in Listeners : k # l => phase'[k] = phase[k] /\ pos'[k] = pos[k]
        /\ \/ pos'[l] = pos[l] + 1 /\ phase'[l] = "clear"
           \/ pos[l] = Len(range[l])
    BY <2>2, <1>0, <1>7 DEF poll_clear, next_queue, more_queues
  <2>5. \A i \in 1 .. Len(range[l]) :
          i # pos[l] /\ SetFor(phase[l], pos[l], i) => SetFor(phase'[l], pos'[l], i)
    BY <2>2, <2>4, <1>0 DEF SetFor
  <2>6. ASSUME NEW o \in Objects, listener'[o] # nullptr PROVE After(o, listener'[o])
    <3>1. o # p /\ listener'[o] = listener[o] /\ listener[o] # nullptr
      BY <2>2, <2>3, <2>6, <1>0
    <3>2. CASE listener[o] = l
      BY <3>1, <3>2, <2>1, <2>2, <2>5 DEF ListenersHeld, HeldBy, After
    <3>3. CASE listener[o] # l
      BY <3>1, <3>3, <2>2, <2>4, <1>12, <1>1
    <3> QED
      BY <3>2, <3>3
  <2> QED
    BY <2>6, <1>2
<1>8. ASSUME NEW l \in Listeners, poll_step(l) \/ poll_spurious_wakeup(l) PROVE ListenersHeld'
  <2>1. CASE poll_sleep(l) \/ poll_spurious_wakeup(l)
    BY <2>1, <1>3 DEF poll_sleep, poll_spurious_wakeup, pollvars, callvars
  <2> QED
    BY <2>1, <1>4, <1>5, <1>6, <1>7, <1>8 DEF poll_step, poll_return, mqvars
<1>9. CASE PollBegin \/ PollStep \/ SpuriousWakeup \/ \E c \in Clients : IdleWaitPause(c) \/ IdlePoll(c)
  BY <1>0, <1>4, <1>8, <1>9 DEF PollBegin, PollStep, SpuriousWakeup, IdleWaitPause, IdlePoll
<1>10. CASE UNCHANGED <<listener, phase, range, pos>>
  BY <1>3, <1>10
<1>11. CASE PostPause \/ WaitResume \/ HandlerReturns \/ UNCHANGED vars
  BY <1>10, <1>11 DEF PostPause, WaitResume, HandlerReturns, vars, mqvars, pollvars, callvars
<1>17. CASE HandleControl
  BY <1>10, <1>17, ControlHandled
     DEF Stops, GoesOn, Adds, Removes, AskedBy, Taken, mqvars, pollvars, callvars
<1>13. CASE HandleRecord
  BY <1>10, <1>13, RecordHandled DEF Serves, Skips, pop, mqvars, pollvars, callvars
<1>14. ASSUME NEW c \in Clients,
              AllocateAdd(c) \/ Enqueue(c) \/ Release(c) \/ IdlePause(c) \/ Terminate(c)
       PROVE  ListenersHeld'
  <2>1. UNCHANGED <<phase, range, pos>>
    BY <1>14 DEF AllocateAdd, Enqueue, Release, IdlePause, Terminate, pollvars, callvars
  <2> QED
    BY <2>1, <1>10, <1>14, QueuesPushed
<1>15. ASSUME NEW c \in Clients, AllocateScan(c) \/ WaitAnswer(c) \/ IdleResume(c) \/ Join(c)
       PROVE  ListenersHeld'
  BY <1>10, <1>15 DEF AllocateScan, WaitAnswer, IdleResume, Join, mqvars, pollvars, callvars
<1>16. ASSUME NEW c \in Clients, Delete(c) \/ \E o \in Objects : AllocateStore(c, o) \/ MoveOut(c, o)
       PROVE  ListenersHeld'
  <2>1. UNCHANGED <<phase, range, pos>>
    BY <1>16 DEF Delete, AllocateStore, MoveOut, pollvars, callvars
  <2>2. \A o \in Objects : listener'[o] = listener[o] \/ listener'[o] = nullptr
    BY <1>0, <1>16
       DEF Delete, destroy, AllocateStore, construct, MoveOut, move_construct, move, drop_listeners
  <2> QED
    BY <2>1, <2>2, <1>3
<1> QED
  BY <1>9, <1>11, <1>17, <1>13, <1>14, <1>15, <1>16 DEF Next, Worker, Call, Choice
-----------------------------------------------------------------------------
\* A notification of data names a queue of s; the other ones are not usable.
LEMMA ToldNotified ==
  ASSUME NEW s, NEW list \in Seq(Records), Ascending(list), ToldOf(s, list),
         NEW q \in Qids, NEW mq \in Objects \cup {nullptr}, NEW flag \in notification_flag,
         flag = "data" => IsIn(s, mq) /\ (mq = control => q = 0)
  PROVE  ToldOf(s, notified(list, q, mq, flag))
<1> DEFINE new == notified(list, q, mq, flag)
<1> SUFFICES ASSUME NEW i \in 1 .. Len(new), usable(new[i])
             PROVE  IsIn(s, new[i].mq) /\ (new[i].mq = control => new[i].qid = 0)
  BY DEF ToldOf
<1>1. PICK r : r = new[i]
  OBVIOUS
<1>2. \/ r = notification_rec(q, mq, flag)
      \/ \E j \in 1 .. Len(list) : r = list[j] \/ r = [list[j] EXCEPT !.flags = @ \cup {flag}]
  <2>1. Qids \subseteq Nat /\ list \in Seq(notification_rec_type(Qids, Objects \cup {nullptr}))
    BY QidsInNat DEF Records
  <2>2. \/ new[i] = notification_rec(q, mq, flag)
        \/ \E j \in 1 .. Len(list) :
             new[i] = list[j] \/ new[i] = [list[j] EXCEPT !.flags = @ \cup {flag}]
    BY <2>1, NotifiedRecords
  <2> QED
    BY <1>1, <2>2
<1> HIDE DEF new
<1>3. CASE r = notification_rec(q, mq, flag)
  <2>1. r.qid = q /\ r.mq = mq /\ r.flags = {flag}
    BY <1>3 DEF notification_rec
  <2>2. flag = "data"
    BY <2>1, <1>1 DEF usable, notification_flag
  <2> QED
    BY <2>1, <2>2, <1>1
<1>4. ASSUME NEW j \in 1 .. Len(list), r = list[j] \/ r = [list[j] EXCEPT !.flags = @ \cup {flag}]
      PROVE  IsIn(s, r.mq) /\ (r.mq = control => r.qid = 0)
  <2>1. list[j] \in Records
    OBVIOUS
  <2>2. r.qid = list[j].qid /\ r.mq = list[j].mq /\ list[j].flags \subseteq r.flags
    BY <2>1, <1>4 DEF Records, notification_rec_type
  <2>3. usable(list[j])
    BY <2>2, <1>1 DEF usable
  <2> QED
    BY <2>2, <2>3 DEF ToldOf
<1> QED
  BY <1>1, <1>2, <1>3, <1>4

\* The lists ns of all the listeners: those that are not polling have none.
AllTold(ns) ==
  /\ Lists(ns, Qids)
  /\ \A l \in Listeners : (phase[l] = "out" => ns[l] = <<>>) /\ ToldOf(mqs, ns[l])

LEMMA OneIsTold ==
  ASSUME Types, NEW ns, AllTold(ns), NEW l \in Listeners \cup {nullptr},
         NEW q \in Qids, NEW mq \in Objects \cup {nullptr}, NEW flag \in notification_flag,
         l # nullptr => phase[l] # "out",
         l # nullptr /\ flag = "data" => InMqs(mq) /\ (mq = control => q = 0)
  PROVE  AllTold(notify(ns, l, q, mq, flag))
<1>0. nullptr \notin Listeners /\ Qids \subseteq Nat /\ Lists(ns, Qids)
  BY MemberFacts, QidsInNat DEF AllTold
<1>1. CASE l = nullptr
  BY <1>1 DEF notify
<1>2. CASE l # nullptr
  <2> DEFINE new == notified(ns[l], q, mq, flag)
  <2>1. /\ l \in Listeners /\ Ascending(ns[l]) /\ ns[l] \in Seq(Records) /\ ToldOf(mqs, ns[l])
        /\ ns \in [Listeners -> Seq(Records)]
    BY <1>0, <1>2 DEF Lists, AllTold, Records
  <2>2. ToldOf(mqs, new)
    BY <2>1, <1>2, ToldNotified DEF InMqs
  <2>3. Lists(notify(ns, l, q, mq, flag), Qids)
    BY <1>0, ListsNotified
  <2>4. notify(ns, l, q, mq, flag) = [ns EXCEPT ![l] = new]
    BY <1>2 DEF notify
  <2> HIDE DEF new
  <2> QED
    BY <2>1, <2>2, <2>3, <2>4, <1>2 DEF AllTold
<1> QED
  BY <1>1, <1>2

\* The queue of a listener is one of the pool, and its thread polls.
LEMMA HeardQueues ==
  ASSUME QInv, NEW o \in Objects, listener[o] # nullptr
  PROVE  /\ listener[o] \in Listeners /\ phase[listener[o]] # "out" /\ InMqs(o)
         /\ o = control => id[o] = 0
<1>1. PICK l \in Listeners : l = listener[o]
  BY MemberFacts DEF QInv
<1>2. HeldBy(o, l)
  BY <1>1 DEF QInv, ListenersHeld
<1>3. PICK i \in 1 .. Len(range[l]) : range[l][i] = o /\ SetFor(phase[l], pos[l], i)
  BY <1>2 DEF HeldBy
<1>4. phase[l] # "out"
  BY <1>3 DEF SetFor
<1>5. range[l] = mqs
  BY <1>4 DEF QInv, IInv, RangesStable
<1> QED
  BY <1>1, <1>3, <1>4, <1>5 DEF InMqs, IsIn, QInv, Ids

\* Nobody polls unless the worker does, or waits while a client does.
LEMMA NobodyPolls ==
  ASSUME QInv, wpc \notin {"poll", "resume"}
  PROVE  \A l \in Listeners : phase[l] = "out" /\ notifications[l] = <<>>
<1>1. PausedBy = {}
  BY TokenHolders DEF QInv, IInv
<1>2. \A l \in Listeners : phase[l] = "out"
  BY <1>1, PoolAssumption DEF QInv, IInv, PollersPolling, PausedBy
<1> QED
  BY <1>2 DEF QInv, ReportsInv

LEMMA NowTold == QInv => AllTold(notifications)
  BY MemberFacts DEF QInv, ReportsInv, Told, AllTold
-----------------------------------------------------------------------------
\* What the listeners have and return, which every step but a poll leaves alone.
ListenersTold ==
  \A l \in Listeners : /\ phase[l] = "out" => notifications[l] = <<>>
                       /\ Told(notifications[l])
                       /\ phase[l] \in {"clear", "end"} => Told(result[l])

LEMMA NotesTold ==
  ASSUME QInv, UNCHANGED <<mqs, phase, result>>, AllTold(notifications')
  PROVE  ListenersTold'
  BY DEF QInv, ReportsInv, AllTold, ListenersTold, Told

LEMMA TellsData ==
  ASSUME QInv, NEW o \in Objects,
         \/ \E m : push(o, m)
         \/ \E l \in Listeners : phase[l] # "out" /\ range[l] = mqs /\ InMqs(o) /\ set_listener(o, l)
  PROVE  AllTold(notifications')
<1>0. /\ AllTold(notifications) /\ Types /\ id[o] \in Qids /\ (o = control => id[o] = 0)
      /\ listener[o] \in Listeners \cup {nullptr} /\ "data" \in notification_flag
      /\ nullptr \notin Listeners
  BY NowTold, MemberFacts DEF QInv, Ids, notification_flag
<1>1. CASE UNCHANGED notifications
  BY <1>0, <1>1
<1>2. ASSUME NEW m, push(o, m), ~UNCHANGED notifications PROVE AllTold(notifications')
  <2>1. notifications' = notify(notifications, listener[o], id[o], o, "data")
    BY <1>2 DEF push, tell, mqvars
  <2>2. listener[o] # nullptr => phase[listener[o]] # "out" /\ InMqs(o)
    BY HeardQueues
  <2> QED
    BY <2>1, <2>2, <1>0, OneIsTold
<1>3. ASSUME NEW l \in Listeners, phase[l] # "out", InMqs(o), set_listener(o, l),
             ~UNCHANGED notifications
      PROVE  AllTold(notifications')
  <2>1. notifications' = notify(notifications, l, id[o], o, "data")
    BY <1>3 DEF set_listener, tell, mqvars
  <2> QED
    BY <2>1, <1>0, <1>3, OneIsTold
<1> QED
  BY <1>1, <1>2, <1>3

LEMMA TellsEnd ==
  ASSUME QInv, NEW o \in Objects, destroy(o) \/ \E p \in Objects : move_construct(p, o)
  PROVE  AllTold(notifications')
<1>0. /\ AllTold(notifications) /\ Types /\ id \in [Objects -> Qids]
      /\ listener \in [Objects -> Listeners \cup {nullptr}]
      /\ {"detached", "closed"} \subseteq notification_flag
      /\ nullptr \notin Listeners
      /\ \A p \in Objects : listener[p] # nullptr => phase[listener[p]] # "out"
  BY NowTold, MemberFacts, HeardQueues DEF QInv, notification_flag
<1>1. CASE destroy(o)
  <2>1. notifications' = notify(notifications, listener[o], id[o], nullptr, "closed")
    BY <1>1 DEF destroy, tell
  <2> QED
    BY <2>1, <1>0, OneIsTold
<1>2. ASSUME NEW p \in Objects, move_construct(p, o) PROVE AllTold(notifications')
  <2>1. PICK ns : ns = notify(notifications, listener[p], id[p], p, "detached")
    OBVIOUS
  <2>2. AllTold(ns)
    BY <2>1, <1>0, OneIsTold
  <2>3. notifications' = notify(ns, listener[o], id[o], o, "detached")
    BY <2>1, <1>2 DEF move_construct, move, tell_both
  <2> QED
    BY <2>2, <2>3, <1>0, OneIsTold
<1> QED
  BY <1>1, <1>2

\* The steps of a poll.
LEMMA PollTold ==
  ASSUME QInv, NEW l \in Listeners, UNCHANGED mqs,
         poll_step(l) \/ poll_spurious_wakeup(l) \/ \E w : poll_begin(l, mqs, w)
  PROVE  /\ ListenersTold'
         /\ \A k \in Listeners : k # l => result'[k] = result[k]
         /\ poll_step(l) /\ phase'[l] = "out" => UNCHANGED result /\ Told(result[l])
<1>0. /\ phase \in [Listeners -> Phases] /\ result \in [Listeners -> Seq(Records)]
      /\ notifications \in [Listeners -> Seq(Records)] /\ range \in [Listeners -> Seq(Objects)]
      /\ AllTold(notifications) /\ ListenersTold /\ ToldOf(mqs, <<>>)
  BY NowTold, MemberFacts, CallFacts DEF QInv, ReportsInv, ListenersTold, ToldOf
<1>1. ASSUME AllTold(notifications'), UNCHANGED result, NEW p, phase' = [phase EXCEPT ![l] = p],
             phase[l] # "out" /\ p # "out", p \in {"clear", "end"} => phase[l] \in {"clear", "end"}
      PROVE  ListenersTold'
  BY <1>0, <1>1 DEF ListenersTold, AllTold, Told
<1>2. phase = [phase EXCEPT ![l] = phase[l]]
  BY <1>0
<1>3. CASE poll_set(l)
  <2>1. PICK o : o = range[l][pos[l]]
    OBVIOUS
  <2>2. phase[l] = "set" /\ set_listener(o, l) /\ UNCHANGED <<range, result>> /\ next_queue(l, "wait")
    BY <2>1, <1>3 DEF poll_set
  <2>3. range[l] = mqs /\ o \in Objects /\ pos[l] \in 1 .. Len(range[l])
    BY <2>1, <2>2, CallFacts DEF QInv, IInv, RangesStable
  <2>4. AllTold(notifications')
    BY <2>1, <2>2, <2>3, TellsData DEF InMqs, IsIn
  <2>5. \E p \in {"set", "wait"} : phase' = [phase EXCEPT ![l] = p]
    BY <2>2, <1>2 DEF next_queue
  <2>6. phase'[l] # "out"
    BY <2>5, <1>0
  <2> QED
    BY <2>2, <2>4, <2>5, <2>6, <1>1
<1>4. CASE poll_clear(l)
  <2>1. phase[l] = "clear" /\ UNCHANGED <<notifications, result>> /\ next_queue(l, "end")
    BY <1>4 DEF poll_clear, clear_listener
  <2>2. \E p \in {"clear", "end"} : phase' = [phase EXCEPT ![l] = p]
    BY <2>1, <1>2 DEF next_queue
  <2>3. phase'[l] # "out"
    BY <2>2, <1>0
  <2> QED
    BY <2>1, <2>2, <2>3, <1>0, <1>1
<1>5. CASE poll_return(l)
  <2>1. /\ phase[l] = "wait" /\ UNCHANGED notifications
        /\ result' = [result EXCEPT ![l] = notifications[l]]
        /\ \E p \in {"clear", "end"} : phase' = [phase EXCEPT ![l] = p]
    BY <1>5 DEF poll_return, poll_copy, enter, mqvars
  <2>2. phase'[l] # "out"
    BY <2>1, <1>0
  <2> QED
    BY <2>1, <2>2, <1>0 DEF ListenersTold, Told
<1>6. CASE poll_sleep(l)
  <2>1. phase[l] = "wait" /\ UNCHANGED <<phase, notifications, result>>
    BY <1>6 DEF poll_sleep
  <2> QED
    BY <2>1, <1>0 DEF ListenersTold, Told
<1>7. CASE poll_end(l)
  <2>1. /\ phase[l] = "end" /\ UNCHANGED result
        /\ phase' = [phase EXCEPT ![l] = "out"] /\ notifications' = [notifications EXCEPT ![l] = <<>>]
    BY <1>7 DEF poll_end
  <2> QED
    BY <2>1, <1>0 DEF ListenersTold, Told
<1>8. ASSUME poll_spurious_wakeup(l) PROVE ListenersTold' /\ UNCHANGED result
  <2>1. UNCHANGED <<phase, notifications, result>>
    BY <1>8 DEF poll_spurious_wakeup, pollvars, callvars
  <2> QED
    BY <2>1, <1>0 DEF ListenersTold, Told
<1>9. ASSUME NEW w, poll_begin(l, mqs, w) PROVE ListenersTold'
  <2>1. /\ phase[l] = "out" /\ UNCHANGED notifications /\ result' = [result EXCEPT ![l] = <<>>]
        /\ \E p \in {"set", "wait"} : phase' = [phase EXCEPT ![l] = p]
    BY <1>9 DEF poll_begin, enter, mqvars
  <2> QED
    BY <2>1, <1>0 DEF ListenersTold, Told
<1>10. ASSUME NEW w, poll_begin(l, mqs, w)
       PROVE  (\A k \in Listeners : k # l => result'[k] = result[k]) /\ phase'[l] # "out"
  BY <1>0, <1>10 DEF poll_begin, enter
<1> QED
  BY <1>3, <1>4, <1>5, <1>6, <1>7, <1>8, <1>9, <1>10 DEF poll_step
-----------------------------------------------------------------------------
\* What the listeners are told of, after each step.
LEMMA ListenersToldKept == QInv /\ [Next]_vars => ListenersTold'
<1> SUFFICES ASSUME QInv, [Next]_vars PROVE ListenersTold'
  OBVIOUS
<1>0. /\ ListenersTold /\ AllTold(notifications) /\ Types /\ Owners
      /\ worker \in Listeners /\ Clients \subseteq Listeners /\ control \in Objects
      /\ mine \in [Clients -> Objects \cup {nullptr}]
  BY NowTold, MemberFacts, ThreadFacts DEF QInv, ReportsInv, ListenersTold
<1>1. CASE UNCHANGED <<mqs, phase, result, notifications>>
  BY <1>0, <1>1, NotesTold
<1>2. CASE PollBegin \/ PollStep \/ SpuriousWakeup \/ \E c \in Clients : IdleWaitPause(c) \/ IdlePoll(c)
  BY <1>0, <1>2, PollTold DEF PollBegin, PollStep, SpuriousWakeup, IdleWaitPause, IdlePoll
<1>3. CASE PostPause \/ WaitResume \/ HandlerReturns \/ UNCHANGED vars
  BY <1>1, <1>3 DEF PostPause, WaitResume, HandlerReturns, vars, mqvars, pollvars, callvars
<1>4. CASE HandleControl
  <2>1. wpc = "control" /\ UNCHANGED <<phase, notifications>>
    BY <1>4, ControlHandled
       DEF Stops, GoesOn, Adds, Removes, AskedBy, Taken, mqvars, pollvars, callvars
  <2>2. \A l \in Listeners : phase[l] = "out" /\ notifications[l] = <<>>
    BY <2>1, NobodyPolls
  <2> QED
    BY <2>1, <2>2 DEF ListenersTold, Told, ToldOf
<1>5. CASE HandleRecord
  BY <1>1, <1>5, RecordHandled DEF Serves, Skips, pop, mqvars, pollvars, callvars
<1>6. ASSUME NEW c \in Clients, AllocateScan(c) \/ WaitAnswer(c) \/ IdleResume(c) \/ Join(c)
      PROVE  ListenersTold'
  BY <1>1, <1>6 DEF AllocateScan, WaitAnswer, IdleResume, Join, mqvars, pollvars, callvars
<1>7. ASSUME NEW c \in Clients,
             AllocateAdd(c) \/ Enqueue(c) \/ Release(c) \/ IdlePause(c) \/ Terminate(c)
      PROVE  ListenersTold'
  <2>1. UNCHANGED <<mqs, phase, result>>
    BY <1>7 DEF AllocateAdd, Enqueue, Release, IdlePause, Terminate, pollvars, callvars
  <2>2. CASE UNCHANGED notifications
    BY <2>1, <2>2, <1>1
  <2>3. CASE \E o \in Objects : \E m : push(o, m)
    BY <2>1, <2>3, TellsData, NotesTold
  <2>4. (\E o \in Objects : \E m : push(o, m)) \/ UNCHANGED notifications
    BY <1>0, <1>7
       DEF AllocateAdd, Enqueue, Release, IdlePause, Terminate, enqueue_control, mqvars
  <2> QED
    BY <2>2, <2>3, <2>4
<1>8. ASSUME NEW c \in Clients, Delete(c) \/ \E o \in Objects : AllocateStore(c, o) \/ MoveOut(c, o)
      PROVE  ListenersTold'
  <2>1. UNCHANGED <<mqs, phase, result>>
    BY <1>8 DEF Delete, AllocateStore, MoveOut, pollvars, callvars
  <2>2. CASE UNCHANGED notifications
    BY <2>1, <2>2, <1>1
  <2>3. CASE \E o \in Objects : destroy(o) \/ \E p \in Objects : move_construct(p, o)
    BY <2>1, <2>3, TellsEnd, NotesTold
  <2>4. \/ UNCHANGED notifications
        \/ \E o \in Objects : destroy(o) \/ \E p \in Objects : move_construct(p, o)
    BY <1>0, <1>8 DEF Delete, AllocateStore, MoveOut, construct, Owners, Changes
  <2> QED
    BY <2>2, <2>3, <2>4
<1> QED
  BY <1>2, <1>3, <1>4, <1>5, <1>6, <1>7, <1>8 DEF Next, Worker, Call, Choice

\* What the worker goes by, with its place in the list.
WorkerTold ==
  /\ wpc \in {"control", "records"} => Told(result[worker])
  /\ wpc = "records" /\ wi = 1 => Head(result[worker]).qid # 0
  /\ wpc = "control" => wi = 1

LEMMA WorkerToldKept == QInv /\ [Next]_vars => WorkerTold'
<1> SUFFICES ASSUME QInv, [Next]_vars PROVE WorkerTold'
  OBVIOUS
<1>0. /\ WorkerTold /\ worker \in Listeners /\ Clients \subseteq Listeners /\ worker \notin Clients
      /\ Types /\ wi \in Nat \ {0} /\ id[control] = 0
  BY MemberFacts, ThreadFacts DEF QInv, ReportsInv, WorkerTold, Ids
<1>1. CASE UNCHANGED <<mqs, wpc, wi>> /\ result'[worker] = result[worker]
  BY <1>0, <1>1 DEF WorkerTold, Told
<1>2. ASSUME wpc' \notin {"control", "records"} PROVE WorkerTold'
  BY <1>2 DEF WorkerTold
<1>3. CASE PollBegin \/ PostPause \/ WaitResume
  BY <1>2, <1>3 DEF PollBegin, PostPause, stay_paused, WaitResume, workervars
<1>4. CASE PollStep
  <2>1. wpc = "poll" /\ poll_step(worker) /\ UNCHANGED mqs
    BY <1>4 DEF PollStep
  <2>2. CASE phase'[worker] = "out"
    <3>1. wpc' = (IF Head(result[worker]).qid = 0 THEN "control" ELSE "records") /\ wi' = 1
      BY <2>2, <1>0, <1>4 DEF PollStep
    <3>2. UNCHANGED result /\ Told(result[worker])
      BY <2>1, <2>2, <1>0, PollTold
    <3> QED
      BY <2>1, <3>1, <3>2 DEF WorkerTold, Told
  <2>3. CASE phase'[worker] # "out"
    BY <2>1, <2>3, <1>2, <1>4 DEF PollStep
  <2> QED
    BY <2>2, <2>3
<1>5. CASE SpuriousWakeup \/ UNCHANGED vars
  BY <1>1, <1>5
     DEF SpuriousWakeup, poll_spurious_wakeup, workervars, vars, pollvars, callvars
<1>6. CASE HandleControl
  <2>0. wpc = "control" /\ UNCHANGED result
    BY <1>6, ControlHandled DEF pollvars, callvars
  <2>1. CASE Stops \/ \E c \in Clients : Removes(c)
    BY <2>1, <1>2 DEF Stops, Removes
  <2>2. CASE GoesOn
    BY <2>0, <2>2, <1>0 DEF GoesOn, WorkerTold, Told
  <2>3. ASSUME NEW c \in Clients, Adds(c) PROVE WorkerTold'
    <3>1. PICK o \in Objects : o = mine[c]
      BY <2>3 DEF Adds, AskedBy
    <3>2. UNCHANGED <<wpc, wi>> /\ mqs' = InsertAt(mqs, insert_position(o), o)
      BY <2>3, <3>1 DEF Adds, AskedBy
    <3>3. PICK s : s = InsertAt(mqs, insert_position(o), o)
      OBVIOUS
    <3>4. \A p : IsIn(mqs, p) => IsIn(s, p)
      BY <3>3, <1>0, QueueInserted DEF QInv
    <3>5. ToldOf(mqs, result[worker]) => ToldOf(mqs', result[worker])
      BY <3>2, <3>3, <3>4 DEF ToldOf
    <3> QED
      BY <2>0, <3>2, <3>5, <1>0 DEF WorkerTold, Told
  <2> QED
    BY <2>1, <2>2, <2>3, <1>6, ControlHandled
<1>7. CASE HandleRecord
  <2>0. wpc = "records" /\ UNCHANGED <<result, mqs>>
    BY <1>7, RecordHandled DEF pollvars, callvars
  <2>1. CASE Serves
    BY <2>0, <2>1, <1>1 DEF Serves
  <2>2. CASE Skips
    <3>1. wi' = 1 => wi = 1
      BY <2>2, <1>0 DEF Skips
    <3>2. wpc' \in {"poll", "records"}
      BY <2>2 DEF Skips
    <3> QED
      BY <2>0, <3>1, <3>2, <1>0 DEF WorkerTold, Told
  <2> QED
    BY <2>1, <2>2, <1>7, RecordHandled
<1>8. CASE HandlerReturns
  <2>1. wpc = "records" /\ UNCHANGED <<wpc, result, mqs>> /\ wi' \in {wi, wi + 1}
    BY <1>8 DEF HandlerReturns, pollvars, callvars
  <2>2. wi' = 1 => wi = 1
    BY <2>1, <1>0
  <2> QED
    BY <2>1, <2>2, <1>0 DEF WorkerTold, Told
<1>9. ASSUME NEW c \in Clients, IdleWaitPause(c) \/ IdlePoll(c) PROVE WorkerTold'
  <2>1. UNCHANGED <<mqs, wpc, wi>>
    BY <1>9 DEF IdleWaitPause, IdlePoll, workervars
  <2>2. result'[worker] = result[worker]
    BY <2>1, <1>0, <1>9, PollTold DEF IdleWaitPause, IdlePoll
  <2> QED
    BY <2>1, <2>2, <1>1
<1>10. ASSUME NEW c \in Clients,
              \/ \E o \in Objects : AllocateStore(c, o) \/ MoveOut(c, o)
              \/ AllocateScan(c) \/ AllocateAdd(c) \/ WaitAnswer(c) \/ Delete(c) \/ Enqueue(c)
              \/ Release(c) \/ IdlePause(c) \/ IdleResume(c) \/ Terminate(c) \/ Join(c)
       PROVE  UNCHANGED <<mqs, wpc, wi, result>>
  BY <1>10 DEF AllocateStore, MoveOut, AllocateScan, AllocateAdd, WaitAnswer, Delete, Enqueue,
               Release, IdlePause, IdleResume, Terminate, Join, workervars, pollvars, callvars
<1> QED
  BY <1>1, <1>3, <1>4, <1>5, <1>6, <1>7, <1>8, <1>9, <1>10 DEF Next, Worker, Call, Choice

LEMMA QInvariant == Spec => []QInv
<1>1. QInv /\ [Next]_vars => QInv'
  <2> SUFFICES ASSUME QInv, [Next]_vars PROVE QInv'
    OBVIOUS
  <2>1. IInv' /\ Types' /\ Owners' /\ Requests' /\ Members'
    BY PauseStep, TypesKept, OwnersKept, RequestsKept, MembersKept DEF QInv
  <2>2. Ids' /\ OwnMessages' /\ ListenersHeld'
    BY IdsKept, OwnMessagesKept, ListenersHeldKept
  <2>3. ReportsInv'
    BY ListenersToldKept, WorkerToldKept DEF ListenersTold, WorkerTold, ReportsInv
  <2> QED
    BY <2>1, <2>2, <2>3 DEF QInv
<1> QED
  BY <1>1, InitQInv, PTL DEF Spec
-----------------------------------------------------------------------------
\* The vector, the slots and the members of the queues keep their types,
\* whatever the clients do with their queues.
THEOREM PoolTypesHold == Spec => []TypeOK
<1>1. QInv => TypeOK
  BY DEF QInv, Types
<1> QED
  BY <1>1, QInvariant, PTL

\* The queues of the pool are those of clients that wait for the worker before
\* they delete them, so that the worker and is_poll_idle use none that is gone.
THEOREM NothingFreedIsUsed == Spec => []NoUseAfterFree
<1>1. QInv => NoUseAfterFree
  <2> SUFFICES ASSUME QInv PROVE NoUseAfterFree
    OBVIOUS
  <2>1. ASSUME NEW o, InMqs(o) PROVE o \in alive
    <3>1. PICK i \in 1 .. Len(mqs) : mqs[i] = o
      BY <2>1 DEF InMqs, IsIn
    <3>2. CASE i = 1
      BY <3>1, <3>2 DEF QInv, Members, Ids
    <3>3. CASE i # 1
      <4>1. i \in 2 .. Len(mqs)
        BY <3>3, ThreadFacts
      <4>2. PICK c \in Clients : mqs[i] = mine[c] /\ InPool(c)
        BY <4>1 DEF QInv, Members
      <4> QED
        BY <3>1, <4>2 DEF QInv, Owners, InPool
    <3> QED
      BY <3>2, <3>3
  <2>2. \A i \in 1 .. Len(mqs) : mqs[i] \in alive
    BY <2>1 DEF InMqs, IsIn
  <2>3. ASSUME wpc \in {"control", "records"}, NEW i \in wi .. Len(result[worker]),
               usable(result[worker][i])
        PROVE  result[worker][i].mq \in alive
    <3>1. Told(result[worker]) /\ wi \in Nat \ {0}
      BY <2>3, ThreadFacts DEF QInv, ReportsInv
    <3>2. i \in 1 .. Len(result[worker])
      BY <3>1, MemberFacts
    <3>3. InMqs(result[worker][i].mq)
      BY <2>3, <3>1, <3>2 DEF Told, ToldOf, InMqs
    <3> QED
      BY <3>3, <2>1
  <2> QED
    BY <2>2, <2>3 DEF NoUseAfterFree, QInv, IInv
<1> QED
  BY <1>1, QInvariant, PTL

\* A client deletes its queue when the pool has it no more, and what is not in
\* the pool has no listener: nobody notifies or clears one during its end.
THEOREM NobodyHearsTheDeleted == Spec => []DeletedUnheard
<1>1. QInv => DeletedUnheard
  <2> SUFFICES ASSUME QInv, NEW c \in Clients, cpc[c] = "delete" PROVE listener[mine[c]] = nullptr
    BY DEF DeletedUnheard
  <2>1. mine[c] # nullptr /\ mine[c] \in Objects /\ ~InPool(c)
    BY ThreadFacts DEF QInv, Owners, Changes, InPool
  <2>2. ~InMqs(mine[c])
    BY <2>1, NotInPool DEF InMqs, IsIn
  <2> QED
    BY <2>1, <2>2, HeardQueues
<1> QED
  BY <1>1, QInvariant, PTL
-----------------------------------------------------------------------------
\* When one thread at a time allocates, IDs are unique, the slot that a call
\* has found stays free, and the handler of a queue's slot is its owner's.
Serial ==
  /\ \A o, p \in Objects : id[o] = id[p] /\ id[o] # undefined_qid => o = p
  /\ \A c \in Clients : cpc[c] = "allocate" /\ slot[c] \in Slots => handler[slot[c]] = nullptr
  /\ \A c, d \in Clients :
       cpc[c] \in {"allocate", "add"} /\ cpc[d] \in {"allocate", "add"} => c = d
  /\ \A c \in Clients :
       mine[c] # nullptr /\ id[mine[c]] # undefined_qid => handler[id[mine[c]]] = c

LEMMA SerialKept == SerializeAlloc /\ QInv /\ Serial /\ [Next]_vars => Serial'
<1> SUFFICES ASSUME SerializeAlloc, QInv, Serial, [Next]_vars PROVE Serial'
  OBVIOUS
<1>0. /\ Owners /\ Ids /\ cpc \in [Clients -> ClientStates] /\ id \in [Objects -> Qids]
      /\ mine \in [Clients -> Objects \cup {nullptr}] /\ nullptr \notin Objects
      /\ slot \in [Clients -> 0 .. capacity + 1]
      /\ handler \in [Slots -> Listeners \cup {nullptr}] /\ control \in Objects
      /\ undefined_qid \notin Slots /\ Clients \subseteq Listeners /\ nullptr \notin Listeners
  BY ThreadFacts, MemberFacts, PoolAssumption DEF QInv, Slots
<1>1. ASSUME UNCHANGED <<id, mine, slot, handler>>,
             \A c \in Clients : cpc'[c] \in {"allocate", "add"} => cpc'[c] = cpc[c]
      PROVE  Serial'
  <2>1. \A c \in Clients : cpc'[c] = "allocate" => cpc[c] = "allocate"
    BY <1>1
  <2>2. \A c \in Clients : cpc'[c] \in {"allocate", "add"} => cpc[c] \in {"allocate", "add"}
    BY <1>1
  <2> QED
    BY <2>1, <2>2, <1>1 DEF Serial
<1>2. ASSUME NEW c \in Clients, AllocateScan(c) PROVE Serial'
  <2>1. /\ UNCHANGED <<id, mine, handler>> /\ slot' = [slot EXCEPT ![c] = free_slot]
        /\ cpc' = [cpc EXCEPT ![c] = "allocate"]
        /\ \A d \in Clients : cpc[d] \notin {"allocate", "add"}
    BY <1>2 DEF AllocateScan, mqvars
  <2>2. free_slot \in Slots => handler[free_slot] = nullptr
    BY FreeSlot, PoolAssumption DEF Slots
  <2>3. \A d \in Clients : /\ d # c => cpc'[d] \notin {"allocate", "add"}
                           /\ d = c => slot'[d] = free_slot
    BY <2>1, <1>0
  <2> QED
    BY <2>1, <2>2, <2>3 DEF Serial
<1>3. ASSUME NEW c \in Clients, NEW o \in Objects, AllocateStore(c, o) PROVE Serial'
  <2>1. PICK q \in Slots : q = slot[c]
    BY <1>3 DEF AllocateStore
  <2>2. /\ o \notin alive /\ id' = [id EXCEPT ![o] = q] /\ mine' = [mine EXCEPT ![c] = o]
        /\ handler' = [handler EXCEPT ![q] = c] /\ UNCHANGED slot
        /\ cpc' = [cpc EXCEPT ![c] = "add"] /\ cpc[c] = "allocate"
    BY <2>1, <1>3 DEF AllocateStore, construct
  <2>3. handler[q] = nullptr
    BY <2>1, <2>2 DEF Serial
  <2>4. \A p \in Objects : id[p] # q
    BY <2>3, <1>0 DEF Ids
  <2>5. \A p \in Objects : id'[p] = IF p = o THEN q ELSE id[p]
    BY <2>2, <1>0
  <2>6. \A d \in Clients : /\ d # c => mine'[d] = mine[d] /\ cpc'[d] = cpc[d] /\ mine[d] # o
                                       /\ cpc[d] \notin {"allocate", "add"}
                           /\ d = c => mine'[d] = o /\ cpc'[d] = "add"
    <3>1. \A d \in Clients : mine[d] # nullptr => mine[d] \in alive
      BY <1>0 DEF Owners
    <3>2. \A d \in Clients : mine[d] # o
      BY <3>1, <2>2, <1>0
    <3> QED
      BY <3>2, <2>2, <1>0 DEF Serial
  <2>7. \A p, r \in Objects : id'[p] = id'[r] /\ id'[p] # undefined_qid => p = r
    BY <2>4, <2>5 DEF Serial
  <2>8. ASSUME NEW d \in Clients, mine'[d] # nullptr, id'[mine'[d]] # undefined_qid
        PROVE  handler'[id'[mine'[d]]] = d
    <3>1. CASE d = c
      BY <3>1, <2>2, <2>5, <2>6, <1>0
    <3>2. CASE d # c
      <4>1. mine[d] \in Objects /\ id'[mine'[d]] = id[mine[d]] /\ id[mine[d]] # q
        BY <3>2, <2>4, <2>5, <2>6, <2>8, <1>0
      <4>2. handler[id[mine[d]]] = d /\ id[mine[d]] \in Slots
        BY <4>1, <2>6, <2>8, <3>2, <1>0 DEF Serial, Qids
      <4> QED
        BY <4>1, <4>2, <2>2, <1>0
    <3> QED
      BY <3>1, <3>2
  <2> QED
    BY <2>6, <2>7, <2>8 DEF Serial
<1>4. ASSUME NEW c \in Clients, NEW o \in Objects, MoveOut(c, o) PROVE Serial'
  <2>1. PICK p \in Objects : p = mine[c]
    BY <1>4, <1>0 DEF MoveOut
  <2>2. /\ o \notin alive /\ p # o /\ UNCHANGED <<mine, cpc, handler, slot>>
        /\ id' = [id EXCEPT ![o] = id[p], ![p] = undefined_qid]
    BY <2>1, <1>4 DEF MoveOut, move_construct, move, move_id, clientvars
  <2>3. \A r \in Objects : id'[r] = IF r = p THEN undefined_qid ELSE IF r = o THEN id[p] ELSE id[r]
    BY <2>2, <1>0
  <2>4. id[o] = undefined_qid
    BY <2>2, <1>0 DEF Ids
  <2>5. \A r, t \in Objects : id'[r] = id'[t] /\ id'[r] # undefined_qid => r = t
    BY <2>3, <2>4, <2>2 DEF Serial
  <2>6. \A d \in Clients : mine[d] # nullptr => mine[d] \in Objects /\ mine[d] # o
    BY <2>2, <1>0 DEF Owners
  <2>7. \A d \in Clients : mine'[d] # nullptr /\ id'[mine'[d]] # undefined_qid => handler'[id'[mine'[d]]] = d
    <3>1. \A d \in Clients : mine[d] # nullptr /\ id'[mine[d]] # undefined_qid =>
            id'[mine[d]] = id[mine[d]]
      BY <2>3, <2>6
    <3>2. UNCHANGED <<mine, handler>>
      BY <2>2
    <3> SUFFICES ASSUME NEW d \in Clients, mine[d] # nullptr, id'[mine[d]] # undefined_qid
                 PROVE  handler[id'[mine[d]]] = d
      BY <3>2
    <3> QED
      BY <3>1 DEF Serial
  <2> QED
    BY <2>2, <2>5, <2>7 DEF Serial
<1>5. ASSUME NEW c \in Clients, Delete(c) PROVE Serial'
  <2>1. PICK p \in Objects : p = mine[c]
    BY <1>5, <1>0 DEF Delete, Owners, Changes
  <2>2. /\ id' = [id EXCEPT ![p] = undefined_qid] /\ mine' = [mine EXCEPT ![c] = nullptr]
        /\ cpc' = [cpc EXCEPT ![c] = "out"] /\ UNCHANGED <<handler, slot>>
    BY <2>1, <1>5 DEF Delete, destroy
  <2>3. \A r \in Objects : id'[r] = IF r = p THEN undefined_qid ELSE id[r]
    BY <2>2, <1>0
  <2>4. \A d \in Clients : /\ d # c => mine'[d] = mine[d] /\ cpc'[d] = cpc[d]
                           /\ d = c => mine'[d] = nullptr /\ cpc'[d] = "out"
    BY <2>2, <1>0
  <2>5. \A r, t \in Objects : id'[r] = id'[t] /\ id'[r] # undefined_qid => r = t
    BY <2>3 DEF Serial
  <2>6. ASSUME NEW d \in Clients, mine'[d] # nullptr, id'[mine'[d]] # undefined_qid
        PROVE  handler'[id'[mine'[d]]] = d
    BY <2>2, <2>3, <2>4, <2>6, <1>0 DEF Serial
  <2> QED
    BY <2>2, <2>4, <2>5, <2>6 DEF Serial
<1>6. ASSUME NEW c \in Clients,
             \/ AllocateAdd(c) \/ Enqueue(c) \/ Release(c) \/ IdlePause(c) \/ Terminate(c)
             \/ WaitAnswer(c) \/ IdleWaitPause(c) \/ IdlePoll(c) \/ IdleResume(c) \/ Join(c)
      PROVE  Serial'
  <2>1. UNCHANGED <<mine, slot, handler>>
    BY <1>6 DEF AllocateAdd, Enqueue, Release, IdlePause, Terminate, WaitAnswer, IdleWaitPause,
                IdlePoll, IdleResume, Join, clientvars
  <2>2. UNCHANGED id
    <3>1. CASE AllocateAdd(c) \/ Enqueue(c) \/ Release(c) \/ IdlePause(c) \/ Terminate(c)
      BY <3>1, QueuesPushed
    <3>2. CASE WaitAnswer(c) \/ IdleWaitPause(c) \/ IdleResume(c) \/ Join(c)
      BY <3>2 DEF WaitAnswer, IdleWaitPause, poll_begin, IdleResume, Join, mqvars
    <3>3. CASE IdlePoll(c)
      BY <3>3 DEF IdlePoll, poll_step, poll_set, poll_return, poll_sleep, poll_clear, poll_end,
                  set_listener, clear_listener, mqvars
    <3> QED
      BY <1>6, <3>1, <3>2, <3>3
  <2>3. \A d \in Clients : cpc'[d] \in {"allocate", "add"} => cpc'[d] = cpc[d]
    <3>1. ASSUME NEW s, s \notin {"allocate", "add"}, cpc' = [cpc EXCEPT ![c] = s]
          PROVE  \A d \in Clients : cpc'[d] \in {"allocate", "add"} => cpc'[d] = cpc[d]
      BY <3>1, <1>0
    <3>2. CASE AllocateAdd(c) \/ Release(c) \/ IdlePause(c) \/ WaitAnswer(c)
      BY <3>1, <3>2 DEF AllocateAdd, Release, wait_for_answer, IdlePause, WaitAnswer
    <3>3. CASE IdleWaitPause(c) \/ IdlePoll(c) \/ IdleResume(c) \/ Join(c)
      BY <3>1, <3>3 DEF IdleWaitPause, IdlePoll, IdleResume, Join
    <3>4. CASE Enqueue(c)
      BY <3>4 DEF Enqueue, clientvars
    <3>5. CASE Terminate(c)
      BY <3>5 DEF Terminate
    <3> QED
      BY <1>6, <3>2, <3>3, <3>4, <3>5
  <2> QED
    BY <2>1, <2>2, <2>3, <1>1
<1>7. CASE Worker \/ SpuriousWakeup \/ UNCHANGED vars
  <2>1. UNCHANGED <<id, mine, slot, cpc, handler>>
    <3>1. CASE PollBegin \/ PostPause \/ WaitResume \/ HandlerReturns \/ UNCHANGED vars
      BY <3>1 DEF PollBegin, poll_begin, PostPause, WaitResume, HandlerReturns, vars, mqvars, clientvars
    <3>2. CASE PollStep \/ SpuriousWakeup
      BY <3>2 DEF PollStep, SpuriousWakeup, poll_step, poll_set, poll_return, poll_sleep, poll_clear,
                  poll_end, poll_spurious_wakeup, set_listener, clear_listener, mqvars, clientvars
    <3>3. CASE HandleControl
      BY <3>3, ControlHandled DEF Stops, GoesOn, Adds, Removes, AskedBy, Taken, mqvars, clientvars
    <3>4. CASE HandleRecord
      BY <3>4, RecordHandled DEF Serves, Skips, pop, mqvars, clientvars
    <3> QED
      BY <1>7, <3>1, <3>2, <3>3, <3>4 DEF Worker
  <2> QED
    BY <2>1, <1>1
<1> QED
  BY <1>2, <1>3, <1>4, <1>5, <1>6, <1>7 DEF Next, Call, Choice

LEMMA SerialInvariant == SerializeAlloc /\ Spec => [](QInv /\ Serial)
<1>1. Init => Serial
  BY PoolAssumption DEF Init, Serial, Slots, CONTROL_MESSAGE_QUEUE_ID
<1>2. SerializeAlloc => (QInv /\ Serial /\ [Next]_vars => Serial')
  BY SerialKept
<1>3. ASSUME SerializeAlloc PROVE Spec => [](QInv /\ Serial)
  <2>1. QInv /\ Serial /\ [Next]_vars => Serial'
    BY <1>2, <1>3
  <2> QED
    BY <1>1, <2>1, QInvariant, PTL DEF Spec
<1> QED
  BY <1>3

\* When one thread at a time allocates queues, a queue is added to _mqs before
\* one of a greater ID: the assert of control_queue_handler never fails.
THEOREM QueuesAreAddedInOrder == SerializeAlloc /\ Spec => []AddedInOrder
<1>1. QInv /\ Serial => AddedInOrder
  <2> SUFFICES ASSUME QInv, Serial, has_message(control), Head(queue[control]).mid.type = "add",
                      insert_position(Head(queue[control]).mid.mq) <= Len(mqs)
               PROVE  LET o == Head(queue[control]).mid.mq
                      IN  id[o] < id[mqs[insert_position(o)]]
    BY DEF AddedInOrder
  <2>1. /\ queue[control] # <<>> /\ queue[control] \in Seq(Messages) /\ id \in [Objects -> Qids]
        /\ Types /\ Members
    BY MemberFacts DEF has_message, QInv
  <2>2. 1 \in 1 .. Len(queue[control]) /\ Head(queue[control]).mid = Asked(1)
    BY <2>1, HeadTailProperties, EmptySeq DEF Asked
  <2>3. PICK c \in Clients : /\ cpc[c] = "wait_add" /\ sem[c] = 0 /\ Asked(1).mq = mine[c]
    BY <2>2, RequestFacts DEF QInv, Asks
  <2>4. PICK o \in Objects : o = mine[c] /\ mine[c] # nullptr
    BY <2>3, ThreadFacts DEF QInv, Owners, Changes
  <2>5. id[o] \in Nat /\ id[o] # undefined_qid
    BY <2>3, <2>4, PoolAssumption DEF QInv, Ids
  <2>6. ~InPool(c)
    BY <2>3 DEF InPool, Changes
  <2>7. PICK i : i = insert_position(o)
    OBVIOUS
  <2>8. i \in 1 .. Len(mqs) /\ ~(id[mqs[i]] < id[o])
    <3>1. i \in 2 .. Len(mqs) + 1 /\ (i <= Len(mqs) => ~(id[mqs[i]] < id[o]))
      BY <2>1, <2>7, InsertPosition
    <3>2. i <= Len(mqs) /\ Len(mqs) \in Nat
      BY <2>2, <2>3, <2>4, <2>7, ThreadFacts
    <3> QED
      BY <3>1, <3>2
  <2>9. mqs[i] # o /\ mqs[i] \in Objects
    BY <2>4, <2>6, <2>8, NotInPool, ThreadFacts
  <2>10. id[mqs[i]] # id[o] /\ id[mqs[i]] \in Nat
    BY <2>1, <2>5, <2>9, QidsInNat DEF Serial
  <2>11. id[o] < id[mqs[i]]
    BY <2>5, <2>8, <2>10
  <2> QED
    BY <2>2, <2>3, <2>4, <2>7, <2>11
<1> QED
  BY <1>1, SerialInvariant, PTL

\* Then a message of a queue is given to the function of the client that owns
\* the queue, also when its slot was used before.
THEOREM HandlersAreOwn == SerializeAlloc /\ Spec => []OwnHandler
<1>1. QInv /\ Serial => OwnHandler
  <2> SUFFICES ASSUME QInv, Serial, NEW m \in current, NEW c \in Clients,
                      mine[c] # nullptr, id[mine[c]] = m.qid
               PROVE  handler[m.qid] = c
    BY DEF OwnHandler
  <2>1. m.qid \in 1 .. capacity
    BY DEF QInv, Types, ThreadTypes, Served
  <2>2. m.qid # undefined_qid
    BY <2>1, PoolAssumption
  <2> QED
    BY <2>2 DEF Serial
<1> QED
  BY <1>1, SerialInvariant, PTL
-----------------------------------------------------------------------------
\* A handler runs only where the worker handles records, for a queue whose owner,
\* if it still has the ID, is not about to delete it.
Busy == current # {} => wpc = "records"
Serving ==
  \A m \in current :
    /\ handler[m.qid] # nullptr
    /\ \A c \in Clients : mine[c] # nullptr /\ id[mine[c]] = m.qid => InPool(c)

\* The message in the handler is the same or none, or the worker serves a queue.
LEMMA CurrentKept ==
  ASSUME QInv, Busy, [Next]_vars
  PROVE  /\ Busy'
         /\ \/ current' \in {current, {}}
            \/ /\ Serves /\ wpc = "records" /\ current = {}
               /\ UNCHANGED <<handler, mqs, semaphores, clientvars>>
<1>1. CASE HandleRecord
  <2>1. /\ wpc = "records" /\ current = {} /\ UNCHANGED <<handler, mqs, semaphores, clientvars>>
        /\ (Serves \/ Skips)
    BY <1>1, RecordHandled
  <2>2. Serves => wpc' = "records"
    BY <2>1 DEF Serves
  <2>3. Skips => current' = {}
    BY <2>1 DEF Skips
  <2> QED
    BY <2>1, <2>2, <2>3 DEF Busy
<1>2. ASSUME current' = {} \/ (current' = current /\ (wpc' = wpc \/ wpc # "records"))
      PROVE  Busy' /\ current' \in {current, {}}
  BY <1>2 DEF Busy
<1>3. CASE UNCHANGED vars
  BY <1>2, <1>3 DEF vars, workervars
<1>4. CASE PollBegin \/ PollStep \/ HandleControl \/ PostPause \/ WaitResume \/ HandlerReturns
  <2>1. current' = {} \/ (current' = current /\ wpc # "records")
    BY <1>4 DEF PollBegin, PollStep, HandleControl, PostPause, WaitResume, HandlerReturns, workervars
  <2> QED
    BY <2>1, <1>2
<1>5. ASSUME UNCHANGED workervars PROVE Busy' /\ current' \in {current, {}}
  BY <1>5, <1>2 DEF workervars
<1>6. CASE SpuriousWakeup
  BY <1>6, <1>5 DEF SpuriousWakeup
<1>7. ASSUME NEW c \in Clients, Call(c) \/ Choice(c) PROVE UNCHANGED workervars
  BY <1>7 DEF Call, Choice, AllocateStore, AllocateAdd, WaitAnswer, Delete, IdleWaitPause, IdlePoll,
     IdleResume, Join, AllocateScan, Enqueue, Release, IdlePause, Terminate, MoveOut
<1> QED
  BY <1>1, <1>3, <1>4, <1>5, <1>6, <1>7 DEF Next, Worker

LEMMA ServingKept ==
  SerializeAlloc /\ QInv /\ Serial /\ Busy /\ Serving /\ [Next]_vars => Serving'
<1> SUFFICES ASSUME SerializeAlloc, QInv, Serial, Busy, Serving, [Next]_vars PROVE Serving'
  OBVIOUS
<1>0. /\ Owners /\ Ids /\ cpc \in [Clients -> ClientStates] /\ id \in [Objects -> Qids]
      /\ mine \in [Clients -> Objects \cup {nullptr}] /\ nullptr \notin Objects
      /\ sem \in [Clients -> 0 .. 1] /\ current \subseteq Served
      /\ handler \in [Slots -> Listeners \cup {nullptr}] /\ control \in Objects
      /\ undefined_qid \notin 1 .. capacity /\ Clients \subseteq Listeners /\ nullptr \notin Listeners
  BY ThreadFacts, MemberFacts, PoolAssumption DEF QInv, Slots, Types, ThreadTypes
<1>1. CASE Serves /\ UNCHANGED <<handler, mqs, semaphores, clientvars>>
  <2>1. PICK o \in Objects \ {control} :
          /\ InMqs(o) /\ has_message(o) /\ pop(o) /\ current' = {Head(queue[o])}
          /\ Head(queue[o]).qid = id[o]
    BY <1>1 DEF Serves
  <2>2. PICK d \in Clients : o = mine[d] /\ InPool(d)
    <3>1. PICK i \in 1 .. Len(mqs) : mqs[i] = o
      BY <2>1 DEF InMqs, IsIn
    <3>2. i \in 2 .. Len(mqs)
      BY <3>1 DEF QInv, Members
    <3> QED
      BY <3>1, <3>2 DEF QInv, Members
  <2>3. id[o] \in Slots /\ handler[id[o]] # nullptr
    <3>1. id[o] \in Slots
      BY <2>1, <1>0 DEF has_message, Qids
    <3> QED
      BY <3>1, <1>0 DEF Ids
  <2>4. \A c \in Clients : mine[c] # nullptr /\ id[mine[c]] = id[o] => InPool(c)
    <3> SUFFICES ASSUME NEW c \in Clients, mine[c] # nullptr, id[mine[c]] = id[o] PROVE InPool(c)
      OBVIOUS
    <3>1. mine[c] \in Objects /\ id[o] # undefined_qid
      BY <2>1, <1>0 DEF has_message
    <3>2. mine[c] = o
      BY <3>1 DEF Serial
    <3>3. c = d
      BY <3>2, <2>2, <1>0 DEF Owners
    <3> QED
      BY <3>3, <2>2
  <2>5. UNCHANGED <<id, mine, cpc, sem, handler>>
    BY <2>1, <1>1 DEF pop, clientvars, semaphores
  <2> QED
    BY <2>1, <2>3, <2>4, <2>5 DEF Serving, InPool
<1> SUFFICES ASSUME NEW m \in current, m \in current',
                    current' \subseteq current
             PROVE  /\ handler'[m.qid] # nullptr
                    /\ \A c \in Clients : mine'[c] # nullptr /\ id'[mine'[c]] = m.qid => InPool(c)'
  BY <1>1, CurrentKept DEF Serving
<1>2. /\ m.qid \in 1 .. capacity /\ m.qid \in Slots /\ handler[m.qid] # nullptr /\ wpc = "records"
      /\ \A c \in Clients : mine[c] # nullptr /\ id[mine[c]] = m.qid => InPool(c)
  BY <1>0 DEF Served, Serving, Busy, Slots
<1>3. ASSUME NEW c \in Clients, UNCHANGED handler,
             \A d \in Clients : d # c => mine'[d] = mine[d] /\ cpc'[d] = cpc[d] /\ sem'[d] = sem[d]
                                         /\ (mine[d] # nullptr => id'[mine[d]] = id[mine[d]]),
             mine'[c] # nullptr /\ id'[mine'[c]] = m.qid => InPool(c)'
      PROVE  /\ handler'[m.qid] # nullptr
             /\ \A d \in Clients : mine'[d] # nullptr /\ id'[mine'[d]] = m.qid => InPool(d)'
  BY <1>2, <1>3 DEF InPool
<1>4. ASSUME UNCHANGED <<id, mine, sem, handler>>,
             \A c \in Clients : cpc'[c] = cpc[c] \/ cpc'[c] \notin Changes
      PROVE  /\ handler'[m.qid] # nullptr
             /\ \A d \in Clients : mine'[d] # nullptr /\ id'[mine'[d]] = m.qid => InPool(d)'
  BY <1>2, <1>4 DEF InPool
<1>5. CASE Quiet \/ TakesMessage
  <2>1. UNCHANGED <<id, mine, sem, handler>>
    BY <1>5 DEF Quiet, TakesMessage
  <2>2. \A c \in Clients : cpc'[c] = cpc[c] \/ cpc'[c] \notin Changes
    BY <1>5, <1>0 DEF Quiet, TakesMessage
  <2> QED
    BY <2>1, <2>2, <1>4
<1>6. ~HandleControl
  BY <1>2 DEF HandleControl
<1>7. ASSUME NEW c \in Clients, NEW o \in Objects, AllocateStore(c, o)
      PROVE  /\ handler'[m.qid] # nullptr
             /\ \A d \in Clients : mine'[d] # nullptr /\ id'[mine'[d]] = m.qid => InPool(d)'
  <2>1. PICK q \in Slots : q = slot[c]
    BY <1>7 DEF AllocateStore
  <2>2. /\ o \notin alive /\ id' = [id EXCEPT ![o] = q] /\ mine' = [mine EXCEPT ![c] = o]
        /\ handler' = [handler EXCEPT ![q] = c] /\ UNCHANGED sem
        /\ cpc' = [cpc EXCEPT ![c] = "add"] /\ cpc[c] = "allocate"
    BY <2>1, <1>7 DEF AllocateStore, construct, semaphores
  <2>3. q # m.qid
    BY <2>1, <2>2, <1>2 DEF Serial
  <2>4. handler'[m.qid] = handler[m.qid]
    BY <2>2, <2>3, <1>2, <1>0
  <2>5. id'[o] = q /\ mine'[c] = o
    BY <2>2, <1>0
  <2>6. ASSUME NEW d \in Clients, d # c, mine'[d] # nullptr, id'[mine'[d]] = m.qid PROVE InPool(d)'
    <3>1. mine'[d] = mine[d] /\ cpc'[d] = cpc[d] /\ sem'[d] = sem[d]
      BY <2>2, <2>6, <1>0
    <3>2. mine[d] \in alive /\ mine[d] \in Objects /\ mine[d] # o
      BY <3>1, <2>2, <2>6, <1>0 DEF Owners
    <3>3. id'[mine[d]] = id[mine[d]]
      BY <3>2, <2>2, <1>0
    <3> QED
      BY <3>1, <3>3, <2>6, <1>2 DEF InPool
  <2> QED
    BY <2>3, <2>4, <2>5, <2>6, <1>2
<1>8. ASSUME NEW c \in Clients, NEW o \in Objects, MoveOut(c, o)
      PROVE  /\ handler'[m.qid] # nullptr
             /\ \A d \in Clients : mine'[d] # nullptr /\ id'[mine'[d]] = m.qid => InPool(d)'
  <2>1. PICK p \in Objects : p = mine[c]
    BY <1>8, <1>0 DEF MoveOut
  <2>2. /\ o \notin alive /\ p # o /\ UNCHANGED <<mine, cpc, handler, sem>>
        /\ id' = [id EXCEPT ![o] = id[p], ![p] = undefined_qid]
    BY <2>1, <1>8 DEF MoveOut, move_construct, move, move_id, clientvars, semaphores
  <2>3. id'[p] = undefined_qid /\ \A r \in Objects : r # p /\ r # o => id'[r] = id[r]
    BY <2>2, <1>0
  <2>4. \A d \in Clients : d # c /\ mine[d] # nullptr => mine[d] \in Objects /\ mine[d] # p /\ mine[d] # o
    BY <2>1, <2>2, <1>0 DEF Owners
  <2> QED
    BY <2>1, <2>2, <2>3, <2>4, <1>0, <1>2, <1>3
<1>9. ASSUME NEW c \in Clients, Delete(c)
      PROVE  /\ handler'[m.qid] # nullptr
             /\ \A d \in Clients : mine'[d] # nullptr /\ id'[mine'[d]] = m.qid => InPool(d)'
  <2>1. PICK p \in Objects : p = mine[c]
    BY <1>9, <1>0 DEF Delete, Owners, Changes
  <2>2. /\ id' = [id EXCEPT ![p] = undefined_qid] /\ mine' = [mine EXCEPT ![c] = nullptr]
        /\ cpc' = [cpc EXCEPT ![c] = "out"] /\ UNCHANGED <<handler, sem>>
    BY <2>1, <1>9 DEF Delete, destroy, semaphores
  <2>3. \A d \in Clients : d # c /\ mine[d] # nullptr => mine[d] \in Objects /\ mine[d] # p
    BY <2>1, <1>0 DEF Owners
  <2>4. \A d \in Clients : d # c => mine'[d] = mine[d] /\ cpc'[d] = cpc[d] /\ sem'[d] = sem[d]
                                    /\ (mine[d] # nullptr => id'[mine[d]] = id[mine[d]])
    BY <2>2, <2>3, <1>0
  <2>5. mine'[c] = nullptr
    BY <2>2, <1>0
  <2> QED
    BY <2>2, <2>4, <2>5, <1>3
<1>10. ASSUME NEW c \in Clients,
              AllocateAdd(c) \/ Release(c) \/ WaitAnswer(c) \/ IdlePause(c)
       PROVE  /\ handler'[m.qid] # nullptr
              /\ \A d \in Clients : mine'[d] # nullptr /\ id'[mine'[d]] = m.qid => InPool(d)'
  <2>1. UNCHANGED <<mine, handler>>
    BY <1>10 DEF AllocateAdd, Release, WaitAnswer, IdlePause, clientvars
  <2>2. UNCHANGED id
    <3>1. CASE WaitAnswer(c)
      BY <3>1 DEF WaitAnswer, mqvars
    <3> QED
      BY <3>1, <1>10, QueuesPushed
  <2>3. sem[c] # 0 => cpc[c] \in Waits
    BY DEF QInv, Requests
  <2>4. /\ \A d \in Clients : d # c => cpc'[d] = cpc[d] /\ sem'[d] = sem[d]
        /\ mine[c] # nullptr /\ InPool(c) => InPool(c)'
    <3>1. CASE AllocateAdd(c)
      <4>1. cpc[c] = "add" /\ cpc' = [cpc EXCEPT ![c] = "wait_add"] /\ UNCHANGED sem
        BY <3>1 DEF AllocateAdd, semaphores
      <4> QED
        BY <4>1, <1>0 DEF InPool, Changes
    <3>2. CASE Release(c)
      <4>1. cpc[c] = "out" /\ cpc' = [cpc EXCEPT ![c] = "wait_remove"] /\ UNCHANGED sem
        BY <3>2, ReleaseAsks DEF Release, semaphores
      <4>2. sem[c] = 0
        BY <4>1, <2>3 DEF Waits
      <4> QED
        BY <4>1, <4>2, <2>1, <1>0 DEF InPool
    <3>3. CASE IdlePause(c)
      <4>1. cpc' = [cpc EXCEPT ![c] = "wait_pause"] /\ UNCHANGED sem
        BY <3>3 DEF IdlePause, semaphores
      <4> QED
        BY <4>1, <2>1, <1>0 DEF InPool, Changes
    <3>4. CASE WaitAnswer(c)
      <4>1. /\ cpc[c] \in Waits /\ sem[c] > 0 /\ sem' = [sem EXCEPT ![c] = sem[c] - 1]
            /\ cpc' = [cpc EXCEPT ![c] = IF cpc[c] = "wait_add" THEN "out" ELSE "delete"]
        BY <3>4 DEF WaitAnswer, Waits
      <4>2. \A d \in Clients : d # c => cpc'[d] = cpc[d] /\ sem'[d] = sem[d]
        BY <4>1, <1>0
      <4>3. cpc'[c] = IF cpc[c] = "wait_add" THEN "out" ELSE "delete"
        BY <4>1, <1>0
      <4>4. sem[c] # 0
        BY <4>1, <1>0
      <4> QED
        BY <4>1, <4>2, <4>3, <4>4, <2>1 DEF InPool, Changes, Waits
    <3> QED
      BY <1>10, <3>1, <3>2, <3>3, <3>4
  <2> QED
    BY <2>1, <2>2, <2>4, <1>2, <1>3
<1>11. ASSUME NEW c \in Clients, Enqueue(c) \/ Terminate(c)
       PROVE  /\ handler'[m.qid] # nullptr
              /\ \A d \in Clients : mine'[d] # nullptr /\ id'[mine'[d]] = m.qid => InPool(d)'
  <2>1. UNCHANGED <<id, mine, sem, handler>>
    BY <1>11, QueuesPushed DEF Enqueue, Terminate, semaphores
  <2>2. \A d \in Clients : cpc'[d] = cpc[d] \/ cpc'[d] \notin Changes
    BY <1>11 DEF Enqueue, Terminate, clientvars, Changes
  <2> QED
    BY <2>1, <2>2, <1>4
<1> QED
  BY <1>5, <1>6, <1>7, <1>8, <1>9, <1>10, <1>11, StepKinds
-----------------------------------------------------------------------------
\* The channel of a slot is the queue of the only object that has its ID.
ChannelIds == 1 .. capacity
Owner(ids, o, q) == ids[o] = q /\ \A p \in Objects : p # o => ids[p] # q

LEMMA OwnedChannel ==
  ASSUME NEW ids, NEW queues, NEW o \in Objects, NEW q \in ChannelIds, Owner(ids, o, q)
  PROVE  channel_of(ids, queues)[q] = queues[o]
<1>1. (CHOOSE p \in Objects : ids[p] = q) = o
  BY DEF Owner
<1> QED
  BY <1>1 DEF channel_of, Owner, ChannelIds

LEMMA OwnedState ==
  ASSUME NEW ids, NEW functions, NEW o \in Objects, NEW q \in ChannelIds, Owner(ids, o, q)
  PROVE  state_of(ids, functions)[q] = "open"
  BY DEF state_of, Owner, ChannelIds

LEMMA UnownedChannel ==
  ASSUME NEW ids, NEW queues, NEW q \in ChannelIds, \A p \in Objects : ids[p] # q
  PROVE  channel_of(ids, queues)[q] = <<>>
  BY DEF channel_of, ChannelIds

LEMMA UnownedState ==
  ASSUME NEW ids, NEW functions, NEW q \in ChannelIds, \A p \in Objects : ids[p] # q
  PROVE  state_of(ids, functions)[q] = IF functions[q] # nullptr THEN "closed" ELSE "unused"
  BY DEF state_of, ChannelIds

\* Two functions of the channels that differ in one channel at most.
LEMMA OneChannelChanged ==
  ASSUME NEW f, NEW g, NEW q \in ChannelIds, NEW v,
         f = [r \in ChannelIds |-> f[r]], g = [r \in ChannelIds |-> g[r]],
         g[q] = v, \A r \in ChannelIds : r # q => g[r] = f[r]
  PROVE  g = [f EXCEPT ![q] = v]
  OBVIOUS

LEMMA ChannelFunctions ==
  ASSUME NEW ids, NEW queues
  PROVE  channel_of(ids, queues) = [r \in ChannelIds |-> channel_of(ids, queues)[r]]
  BY DEF channel_of, ChannelIds

LEMMA StateFunctions ==
  ASSUME NEW ids, NEW functions
  PROVE  state_of(ids, functions) = [r \in ChannelIds |-> state_of(ids, functions)[r]]
  BY DEF state_of, ChannelIds

\* What the channels are before and after a step, IDs being unique in both.
Unique(ids) == \A o, p \in Objects : ids[o] = ids[p] /\ ids[o] # undefined_qid => o = p

\* The channel q stays as it is: nobody has its ID, or some object has it and some
\* object has it afterwards, with the same messages.
LEMMA SameChannel ==
  ASSUME NEW q \in ChannelIds, Unique(id), Unique(id'),
         \/ /\ \A p \in Objects : id[p] # q /\ id'[p] # q
            /\ handler'[q] = handler[q]
         \/ \E p, r \in Objects : id[p] = q /\ id'[r] = q /\ queue'[r] = queue[p]
  PROVE  /\ channel_of(id', queue')[q] = channel_of(id, queue)[q]
         /\ state_of(id', handler')[q] = state_of(id, handler)[q]
<1>1. CASE \A p \in Objects : id[p] # q /\ id'[p] # q
  <2>1. handler'[q] = handler[q]
    BY <1>1
  <2> QED
    BY <1>1, <2>1, UnownedChannel, UnownedState
<1>2. ASSUME NEW p \in Objects, NEW r \in Objects, id[p] = q, id'[r] = q, queue'[r] = queue[p]
      PROVE  /\ channel_of(id', queue')[q] = channel_of(id, queue)[q]
             /\ state_of(id', handler')[q] = state_of(id, handler)[q]
  <2>1. q # undefined_qid
    BY PoolAssumption DEF ChannelIds
  <2>2. Owner(id, p, q) /\ Owner(id', r, q)
    BY <1>2, <2>1 DEF Unique, Owner
  <2>3. channel_of(id, queue)[q] = queue[p]
    BY <2>2, OwnedChannel
  <2>4. channel_of(id', queue')[q] = queue'[r]
    BY <2>2, OwnedChannel
  <2>5. state_of(id, handler)[q] = "open" /\ state_of(id', handler')[q] = "open"
    BY <2>2, OwnedState
  <2> QED
    BY <1>2, <2>3, <2>4, <2>5
<1> QED
  BY <1>1, <1>2

LEMMA UniqueIds == Serial => Unique(id)
  BY DEF Serial, Unique

\* A step that changes the queue of one object changes one channel, if the object
\* has the ID of one, and none otherwise.
LEMMA OneQueueChanged ==
  ASSUME Types, Unique(id), NEW o \in Objects, NEW s, UNCHANGED <<id, handler>>,
         queue' = [queue EXCEPT ![o] = s]
  PROVE  /\ state_of(id', handler') = state_of(id, handler)
         /\ id[o] \in ChannelIds =>
              /\ channel_of(id', queue') = [channel_of(id, queue) EXCEPT ![id[o]] = s]
              /\ state_of(id, handler)[id[o]] = "open" /\ channel_of(id, queue)[id[o]] = queue[o]
         /\ id[o] \notin ChannelIds => channel_of(id', queue') = channel_of(id, queue)
<1> DEFINE ch == channel_of(id, queue)
           ch2 == channel_of(id', queue')
<1>0. id \in [Objects -> Qids] /\ queue \in [Objects -> Seq(Messages)] /\ Unique(id')
  BY MemberFacts
<1>1. ASSUME NEW q \in ChannelIds, q # id[o] PROVE ch2[q] = ch[q]
  <2>1. CASE \A p \in Objects : id[p] # q
    <3>1. handler'[q] = handler[q] /\ \A p \in Objects : id[p] # q /\ id'[p] # q
      BY <2>1
    <3> QED
      BY <3>1, <1>0, SameChannel
  <2>2. ASSUME NEW p \in Objects, id[p] = q PROVE ch2[q] = ch[q]
    <3>1. id'[p] = q /\ queue'[p] = queue[p]
      BY <1>0, <1>1, <2>2
    <3> QED
      BY <2>2, <3>1, <1>0, SameChannel
  <2> QED
    BY <2>1, <2>2
<1>2. ch = [r \in ChannelIds |-> ch[r]] /\ ch2 = [r \in ChannelIds |-> ch2[r]]
  BY ChannelFunctions
<1>3. ASSUME id[o] \in ChannelIds
      PROVE  /\ ch2 = [ch EXCEPT ![id[o]] = s]
             /\ state_of(id, handler)[id[o]] = "open" /\ ch[id[o]] = queue[o]
  <2>1. PICK q \in ChannelIds : q = id[o]
    BY <1>3
  <2>2. q # undefined_qid
    BY PoolAssumption DEF ChannelIds
  <2>3. Owner(id, o, q) /\ Owner(id', o, q)
    BY <2>1, <2>2 DEF Unique, Owner
  <2>4. state_of(id, handler)[q] = "open"
    BY <2>3, OwnedState
  <2>8. ch[q] = queue[o]
    BY <2>3, OwnedChannel
  <2>5. ch2[q] = queue'[o]
    <3>1. \A queues : channel_of(id', queues)[q] = queues[o]
      BY <2>3, OwnedChannel
    <3> QED
      BY <3>1
  <2>6. ch2[q] = s /\ \A r \in ChannelIds : r # q => ch2[r] = ch[r]
    BY <1>0, <1>1, <2>1, <2>5
  <2> HIDE DEF ch, ch2
  <2>7. ch2 = [ch EXCEPT ![q] = s]
    BY <1>2, <2>6, OneChannelChanged
  <2> QED
    BY <2>1, <2>4, <2>7, <2>8
<1>4. ASSUME id[o] \notin ChannelIds PROVE ch2 = ch
  <2>1. \A r \in ChannelIds : ch2[r] = ch[r]
    BY <1>1, <1>4
  <2> HIDE DEF ch, ch2
  <2> QED
    BY <1>2, <2>1
<1>5. state_of(id', handler') = state_of(id, handler)
  OBVIOUS
<1> QED
  BY <1>3, <1>4, <1>5
-----------------------------------------------------------------------------
\* The steps of the pool as steps of the channels.
ChannelStep == [S!Next]_<<state_of(id, handler), channel_of(id, queue), current>>

\* The messages of the abstract specification are those that handlers get.
LEMMA StepsOfServed ==
  /\ \A m \in Served : S!Send(m) => ChannelStep
  /\ \A q \in ChannelIds : S!Open(q) \/ S!Serve(q) \/ S!Close(q) => ChannelStep
  /\ S!Return => ChannelStep
  BY DEF ChannelStep, S!Next, Served, ChannelIds

\* A call of allocate_queue opens the channel of its slot.
LEMMA AllocateOpens ==
  ASSUME QInv, Serial, Serial', NEW c \in Clients, NEW o \in Objects, AllocateStore(c, o)
  PROVE  ChannelStep
<1> DEFINE st == state_of(id, handler)
           ch == channel_of(id, queue)
           st2 == state_of(id', handler')
           ch2 == channel_of(id', queue')
<1>0. /\ Ids /\ Owners /\ id \in [Objects -> Qids]
      /\ handler \in [Slots -> Listeners \cup {nullptr}]
      /\ nullptr \notin Listeners /\ Clients \subseteq Listeners
      /\ slot \in [Clients -> 0 .. capacity + 1] /\ Unique(id) /\ Unique(id')
  <2>1. Unique(id) /\ Unique(id')
    BY DEF Serial, Unique
  <2> QED
    BY <2>1, ThreadFacts, MemberFacts DEF QInv
<1>1. PICK q \in ChannelIds : q = slot[c]
  BY <1>0 DEF AllocateStore, QInv, Types, ThreadTypes, Slots, ChannelIds
<1>2. /\ o \notin alive /\ id' = [id EXCEPT ![o] = q] /\ UNCHANGED <<queue, current>>
      /\ handler' = [handler EXCEPT ![q] = c] /\ cpc[c] = "allocate" /\ q \in Slots
  BY <1>1, PoolAssumption DEF AllocateStore, construct, workervars, ChannelIds, Slots
<1>3. handler[q] = nullptr /\ \A p \in Objects : id[p] # q
  BY <1>0, <1>1, <1>2 DEF Serial, Ids
<1>4. id[o] = undefined_qid /\ queue[o] = <<>>
  BY <1>0, <1>2 DEF Ids
<1>5. st[q] = "unused" /\ ch[q] = <<>>
  BY <1>3, UnownedChannel, UnownedState
<1>6. st2[q] = "open" /\ ch2[q] = <<>>
  <2>1. q # undefined_qid
    BY PoolAssumption DEF ChannelIds
  <2>2. Owner(id', o, q)
    BY <1>0, <1>2, <2>1 DEF Unique, Owner
  <2>3. st2[q] = "open"
    BY <2>2, OwnedState
  <2>4. ch2[q] = queue'[o]
    BY <2>2, OwnedChannel
  <2> QED
    BY <2>3, <2>4, <1>2, <1>4
<1>7. ASSUME NEW r \in ChannelIds, r # q PROVE st2[r] = st[r] /\ ch2[r] = ch[r]
  <2>1. r \in Slots /\ r # undefined_qid
    BY PoolAssumption DEF Slots, ChannelIds
  <2>2. \A p \in Objects : id'[p] = r <=> id[p] = r
    BY <1>0, <1>2, <1>4, <1>7, <2>1
  <2>3. CASE \A p \in Objects : id[p] # r
    <3>1. handler'[r] = handler[r]
      BY <1>0, <1>2, <1>7, <2>1
    <3> QED
      BY <2>2, <2>3, <3>1, <1>0, SameChannel
  <2>4. ASSUME NEW p \in Objects, id[p] = r PROVE st2[r] = st[r] /\ ch2[r] = ch[r]
    <3>1. id'[p] = r /\ queue'[p] = queue[p]
      BY <1>2, <2>2, <2>4
    <3> QED
      BY <2>4, <3>1, <1>0, SameChannel
  <2> QED
    BY <2>3, <2>4
<1>8. st2 = [st EXCEPT ![q] = "open"]
  BY <1>6, <1>7, StateFunctions, OneChannelChanged
<1>9. ch2 = ch
  BY <1>5, <1>6, <1>7, ChannelFunctions
<1>10. S!Open(q)
  BY <1>2, <1>5, <1>8, <1>9 DEF S!Open, S!Channel!Open
<1> QED
  BY <1>10, StepsOfServed

\* A move takes the content of a channel to another object, and a queue that is
\* deleted closes its channel, whose handler does not run.
LEMMA DeleteCloses ==
  ASSUME QInv, Serial, Serial', Serving, NEW p \in Objects, NEW o \in Objects,
         UNCHANGED <<handler, current>>,
         \/ /\ p # o /\ id[o] = undefined_qid
            /\ id' = [id EXCEPT ![o] = id[p], ![p] = undefined_qid]
            /\ queue' = [queue EXCEPT ![o] = queue[p], ![p] = <<>>]
         \/ /\ id' = [id EXCEPT ![p] = undefined_qid]
            /\ queue' = [queue EXCEPT ![p] = <<>>]
            /\ p # control /\ \E c \in Clients : mine[c] = p /\ ~InPool(c)
  PROVE  ChannelStep
<1> DEFINE st == state_of(id, handler)
           ch == channel_of(id, queue)
           st2 == state_of(id', handler')
           ch2 == channel_of(id', queue')
           Moves == /\ p # o /\ id[o] = undefined_qid
                    /\ id' = [id EXCEPT ![o] = id[p], ![p] = undefined_qid]
                    /\ queue' = [queue EXCEPT ![o] = queue[p], ![p] = <<>>]
           Deletes == /\ id' = [id EXCEPT ![p] = undefined_qid]
                      /\ queue' = [queue EXCEPT ![p] = <<>>]
                      /\ p # control /\ \E c \in Clients : mine[c] = p /\ ~InPool(c)
<1>0. /\ Ids /\ id \in [Objects -> Qids] /\ queue \in [Objects -> Seq(Messages)]
      /\ Unique(id) /\ Unique(id') /\ undefined_qid \notin ChannelIds /\ nullptr \notin Objects
  <2>1. Unique(id) /\ Unique(id')
    BY DEF Serial, Unique
  <2> QED
    BY <2>1, MemberFacts, PoolAssumption DEF QInv, ChannelIds
<1>1. ASSUME NEW q \in ChannelIds, Moves \/ q # id[p] PROVE st2[q] = st[q] /\ ch2[q] = ch[q]
  <2>1. CASE \A r \in Objects : id[r] # q
    <3>1. \A r \in Objects : id'[r] # q
      BY <1>0, <1>1, <2>1
    <3>2. handler'[q] = handler[q] /\ \A r \in Objects : id[r] # q /\ id'[r] # q
      BY <2>1, <3>1
    <3> QED
      BY <3>2, <1>0, SameChannel
  <2>2. ASSUME NEW r \in Objects, id[r] = q PROVE st2[q] = st[q] /\ ch2[q] = ch[q]
    <3>1. \E t \in Objects : id'[t] = q /\ queue'[t] = queue[r]
      BY <1>0, <1>1, <2>2
    <3> QED
      BY <2>2, <3>1, <1>0, SameChannel
  <2> QED
    BY <2>1, <2>2
<1>2. CASE Moves \/ id[p] \notin ChannelIds
  <2>1. st2 = st /\ ch2 = ch
    BY <1>1, <1>2, StateFunctions, ChannelFunctions
  <2> QED
    BY <2>1 DEF ChannelStep
<1>3. ASSUME Deletes, id[p] \in ChannelIds PROVE ChannelStep
  <2>1. PICK q \in ChannelIds : q = id[p]
    BY <1>3
  <2>2. \A r \in Objects : id'[r] # q
    BY <1>0, <1>3, <2>1 DEF Unique
  <2>3. handler[q] # nullptr
    BY <1>0, <2>1 DEF Ids, ChannelIds, Slots
  <2>4. ch2[q] = <<>>
    BY <2>2, UnownedChannel
  <2>5. st2[q] = "closed"
    BY <2>2, <2>3, UnownedState
  <2>6. st[q] = "open"
    <3>1. Owner(id, p, q)
      BY <2>1, <1>0 DEF Unique, Owner
    <3> QED
      BY <3>1, OwnedState
  <2>7. \A m \in current : m.qid # q
    BY <1>0, <1>3, <2>1 DEF Serving
  <2>8. \A r \in ChannelIds : r # q => st2[r] = st[r] /\ ch2[r] = ch[r]
    BY <1>1, <2>1
  <2>9. st2 = [st EXCEPT ![q] = "closed"]
    BY <2>5, <2>8, StateFunctions, OneChannelChanged
  <2>10. ch2 = [ch EXCEPT ![q] = <<>>]
    BY <2>4, <2>8, ChannelFunctions, OneChannelChanged
  <2>11. S!Close(q)
    BY <2>6, <2>7, <2>9, <2>10 DEF S!Close, S!Channel!Close
  <2> QED
    BY <2>11, StepsOfServed
<1> QED
  BY <1>2, <1>3
-----------------------------------------------------------------------------
\* Every step of the pool is a step of the channels, or none.
LEMMA StepOfChannels ==
  ASSUME QInv, Serial, Busy, Serving, Serial', [Next]_vars
  PROVE  ChannelStep
<1>0. /\ Types /\ Ids /\ Owners /\ id \in [Objects -> Qids] /\ Unique(id) /\ nullptr \notin Objects
      /\ cpc \in [Clients -> ClientStates] /\ mine \in [Clients -> Objects \cup {nullptr}]
      /\ queue \in [Objects -> Seq(Messages)] /\ control \in Objects /\ undefined_qid \notin ChannelIds
  BY ThreadFacts, MemberFacts, UniqueIds, PoolAssumption DEF QInv, ChannelIds
<1>1. ASSUME UNCHANGED <<id, queue, handler>>, current' \in {current, {}} PROVE ChannelStep
  <2>1. CASE current' = current
    BY <1>1, <2>1 DEF ChannelStep
  <2>2. CASE current' # current
    <3>1. S!Return
      BY <1>1, <2>2 DEF S!Return
    <3> QED
      BY <3>1, StepsOfServed
  <2> QED
    BY <2>1, <2>2
<1>2. CASE HandleRecord
  <2>1. UNCHANGED handler /\ current = {} /\ (Serves \/ Skips)
    BY <1>2, RecordHandled
  <2>2. CASE Skips
    <3>1. UNCHANGED <<id, queue, handler>> /\ current' = current
      BY <2>1, <2>2 DEF Skips, mqvars
    <3> QED
      BY <3>1, <1>1
  <2>3. CASE Serves
    <3>1. PICK o \in Objects \ {control} :
            /\ has_message(o) /\ pop(o) /\ current' = {Head(queue[o])}
            /\ Head(queue[o]) \in Served /\ Head(queue[o]).qid = id[o]
      BY <2>3 DEF Serves
    <3>2. PICK q \in ChannelIds : q = id[o]
      BY <3>1 DEF Served, ChannelIds
    <3>3. /\ UNCHANGED <<id, handler>> /\ queue[o] # <<>>
          /\ queue' = [queue EXCEPT ![o] = Tail(queue[o])]
      BY <2>1, <3>1 DEF pop, has_message
    <3>4. /\ state_of(id', handler') = state_of(id, handler)
          /\ channel_of(id', queue') = [channel_of(id, queue) EXCEPT ![q] = Tail(queue[o])]
          /\ state_of(id, handler)[q] = "open" /\ channel_of(id, queue)[q] = queue[o]
      BY <3>2, <3>3, <1>0, OneQueueChanged
    <3>5. S!Serve(q)
      BY <2>1, <3>1, <3>3, <3>4 DEF S!Serve, S!Channel!Receive
    <3> QED
      BY <3>5, StepsOfServed
  <2> QED
    BY <2>1, <2>2, <2>3
<1> SUFFICES ASSUME ~HandleRecord PROVE ChannelStep
  BY <1>2
<1>3. current' \in {current, {}}
  <2>1. wpc # "records" \/ current # {} \/ current' \in {current, {}}
    <3>1. CASE HandlerReturns
      BY <3>1 DEF HandlerReturns
    <3>2. CASE PollBegin \/ PollStep \/ HandleControl \/ PostPause \/ WaitResume
      BY <3>2 DEF PollBegin, PollStep, HandleControl, PostPause, WaitResume, workervars
    <3>3. CASE SpuriousWakeup \/ UNCHANGED vars
      BY <3>3 DEF SpuriousWakeup, vars, workervars
    <3>4. ASSUME NEW c \in Clients, Call(c) \/ Choice(c) PROVE current' = current
      BY <3>4 DEF Call, Choice, AllocateStore, AllocateAdd, WaitAnswer, Delete, IdleWaitPause, IdlePoll,
         IdleResume, Join, AllocateScan, Enqueue, Release, IdlePause, Terminate, MoveOut, workervars
    <3> QED
      BY <3>1, <3>2, <3>3, <3>4 DEF Next, Worker
  <2> QED
    BY <2>1, CurrentKept
<1>4. CASE Quiet
  BY <1>1, <1>3, <1>4 DEF Quiet
<1>5. CASE HandleControl
  <2>1. UNCHANGED <<handler, current>>
    BY <1>5 DEF HandleControl
  <2>2. UNCHANGED <<id, queue>>
        \/ (Taken /\ queue' = [queue EXCEPT ![control] = Tail(queue[control])] /\ UNCHANGED id)
    BY <1>5, ControlHandled DEF Stops, GoesOn, Adds, Removes, AskedBy, Taken, mqvars
  <2>3. id[control] \notin ChannelIds
    BY <1>0 DEF Ids, ChannelIds
  <2>4. CASE Taken /\ queue' = [queue EXCEPT ![control] = Tail(queue[control])] /\ UNCHANGED id
    <3>1. /\ state_of(id', handler') = state_of(id, handler)
          /\ channel_of(id', queue') = channel_of(id, queue)
      BY <2>1, <2>3, <2>4, <1>0, OneQueueChanged
    <3> QED
      BY <2>1, <3>1 DEF ChannelStep
  <2> QED
    BY <2>1, <2>2, <2>4, <1>1
<1>6. ASSUME NEW c \in Clients,
             AllocateAdd(c) \/ Enqueue(c) \/ Release(c) \/ IdlePause(c) \/ Terminate(c)
      PROVE  ChannelStep
  <2>1. UNCHANGED <<id, handler>>
    BY <1>6, QueuesPushed
  <2>2. UNCHANGED current
    BY <1>6 DEF AllocateAdd, Enqueue, Release, IdlePause, Terminate, workervars
  <2>3. ASSUME NEW o \in Objects, NEW m \in Messages,
               queue' = [queue EXCEPT ![o] = Append(queue[o], m)],
               id[o] # undefined_qid, m.qid = id[o], o # control => m.mid \in DataMessages
        PROVE  ChannelStep
    <3>1. CASE id[o] \notin ChannelIds
      <4>1. /\ state_of(id', handler') = state_of(id, handler)
            /\ channel_of(id', queue') = channel_of(id, queue)
        BY <2>1, <2>3, <3>1, <1>0, OneQueueChanged
      <4> QED
        BY <2>2, <4>1 DEF ChannelStep
    <3>2. CASE id[o] \in ChannelIds
      <4>1. PICK q \in ChannelIds : q = id[o]
        BY <3>2
      <4>2. /\ state_of(id', handler') = state_of(id, handler)
            /\ channel_of(id', queue') = [channel_of(id, queue) EXCEPT ![q] = Append(queue[o], m)]
            /\ state_of(id, handler)[q] = "open" /\ channel_of(id, queue)[q] = queue[o]
        BY <2>1, <2>3, <4>1, <1>0, OneQueueChanged
      <4>3. o # control
        BY <3>2, <1>0 DEF Ids, ChannelIds
      <4>4. m \in Served /\ m.qid = q
        BY <2>3, <4>1, <4>3 DEF Messages, Served, ChannelIds
      <4>5. S!Send(m)
        BY <2>2, <4>2, <4>4 DEF S!Send, S!Channel!Send
      <4> QED
        BY <4>4, <4>5, StepsOfServed
    <3> QED
      BY <3>1, <3>2
  <2>4. UNCHANGED queue \/ \E o \in Objects, m \in Messages :
                             /\ queue' = [queue EXCEPT ![o] = Append(queue[o], m)]
                             /\ id[o] # undefined_qid /\ m.qid = id[o]
                             /\ o # control => m.mid \in DataMessages
    BY <1>6, QueuesPushed
  <2>5. CASE UNCHANGED queue
    BY <2>1, <2>2, <2>5, <1>1
  <2> QED
    BY <2>3, <2>4, <2>5
<1>7. ASSUME NEW c \in Clients, WaitAnswer(c) PROVE ChannelStep
  BY <1>1, <1>7 DEF WaitAnswer, mqvars, workervars
<1>8. ASSUME NEW c \in Clients, NEW o \in Objects, AllocateStore(c, o) PROVE ChannelStep
  BY <1>8, AllocateOpens
<1>9. ASSUME NEW c \in Clients, NEW o \in Objects, MoveOut(c, o) PROVE ChannelStep
  <2>1. PICK p \in Objects : p = mine[c]
    BY <1>9, <1>0 DEF MoveOut
  <2>2. /\ o \notin alive /\ p # o /\ UNCHANGED <<handler, current>>
        /\ id' = [id EXCEPT ![o] = id[p], ![p] = undefined_qid]
        /\ queue' = [queue EXCEPT ![o] = queue[p], ![p] = <<>>]
    BY <2>1, <1>9 DEF MoveOut, move_construct, move, move_id, move_queue, workervars
  <2>3. id[o] = undefined_qid
    BY <2>2, <1>0 DEF Ids
  <2> QED
    BY <2>2, <2>3, DeleteCloses
<1>10. ASSUME NEW c \in Clients, Delete(c) PROVE ChannelStep
  <2>1. PICK p \in Objects : p = mine[c]
    BY <1>10, <1>0 DEF Delete, Owners, Changes
  <2>2. /\ UNCHANGED <<handler, current>>
        /\ id' = [id EXCEPT ![p] = undefined_qid] /\ queue' = [queue EXCEPT ![p] = <<>>]
    BY <2>1, <1>10 DEF Delete, destroy, workervars
  <2>3. p # control /\ mine[c] = p /\ ~InPool(c)
    BY <2>1, <1>10, <1>0 DEF Delete, Owners, InPool, Changes
  <2> QED
    BY <2>2, <2>3, DeleteCloses
<1> QED
  BY <1>4, <1>5, <1>6, <1>7, <1>8, <1>9, <1>10, StepKinds

\* When one thread at a time allocates queues, the messages that a client pushes to
\* its queue are handled in their order, each once and one at a time, wherever the
\* queue is moved, and it is not deleted while its handler runs.
THEOREM PoolServesChannels == SerializeAlloc /\ Spec => ImplementsServedChannels
<1>1. ASSUME SerializeAlloc PROVE Spec => ImplementsServedChannels
  <2>1. Init => Busy /\ Serving /\ S!Init
    <3> SUFFICES ASSUME Init PROVE Busy /\ Serving /\ S!Init
      OBVIOUS
    <3>1. Busy /\ Serving
      BY DEF Init, Busy, Serving
    <3>2. /\ \A o \in Objects, q \in 1 .. capacity : id[o] # q
          /\ \A q \in 1 .. capacity : handler[q] = nullptr
      BY PoolAssumption DEF Init, Slots, CONTROL_MESSAGE_QUEUE_ID
    <3>3. S!Channel!Init
      BY <3>2 DEF S!Channel!Init, state_of, channel_of
    <3> QED
      BY <3>1, <3>3 DEF Init, S!Init
  <2>2. QInv /\ Serial /\ Busy /\ Serving /\ [Next]_vars => Busy' /\ Serving'
    BY <1>1, CurrentKept, ServingKept
  <2>3. QInv /\ Serial /\ Serial' /\ Busy /\ Serving /\ [Next]_vars =>
          [S!Next]_<<state_of(id, handler), channel_of(id, queue), current>>
    BY StepOfChannels DEF ChannelStep
  <2>4. Spec => [](QInv /\ Serial)
    BY <1>1, SerialInvariant
  <2> QED
    BY <2>1, <2>2, <2>3, <2>4, PTL DEF Spec, ImplementsServedChannels, S!Spec
<1> QED
  BY <1>1
-----------------------------------------------------------------------------
\* A call of poll that has heard nothing is the listener of its queues, from
\* their turn on, and they are empty.
QuietUntilTold(l) ==
  phase[l] \in {"set", "wait"} /\ notifications[l] = <<>> =>
    \A i \in 1 .. Len(range[l]) : SetFor(phase[l], pos[l], i) =>
      listener[range[l][i]] = l /\ queue[range[l][i]] = <<>>

\* What a step of no call does: a listener hears of it, or the step neither
\* takes an empty queue from it nor puts a message into one.
Unheard(l) ==
  /\ notifications'[l] = notifications[l]
  /\ \A o \in Objects : listener[o] = l /\ queue[o] = <<>> => listener'[o] = l /\ queue'[o] = <<>>

LEMMA ItsListenerHears ==
  ASSUME Types, NEW ns, Lists(ns, Qids), NEW o \in Objects, NEW mq \in Objects \cup {nullptr},
         NEW flag \in notification_flag
  PROVE  /\ Lists(notify(ns, listener[o], id[o], mq, flag), Qids)
         /\ Hears(listener[o], ns, notify(ns, listener[o], id[o], mq, flag))
<1>1. /\ listener[o] \in Listeners \cup {nullptr} /\ id[o] \in Qids
      /\ nullptr \notin Listeners /\ Qids \subseteq Nat
  BY MemberFacts, QidsInNat
<1> QED
  BY <1>1, ListenerHears

LEMMA PushIsHeard ==
  ASSUME QInv, NEW o \in Objects, NEW m, push(o, m), NEW l \in Listeners
  PROVE  notifications'[l] # <<>> \/ Unheard(l)
<1>0. /\ Lists(notifications, Qids) /\ queue \in [Objects -> Seq(Messages)] /\ Types
      /\ "data" \in notification_flag
  BY MemberFacts DEF QInv, notification_flag
<1>1. CASE UNCHANGED mqvars
  BY <1>1 DEF mqvars, Unheard
<1>2. CASE queue' = [queue EXCEPT ![o] = Append(queue[o], m)] /\ UNCHANGED listener
           /\ IF queue[o] = <<>>
              THEN notifications' = notify(notifications, listener[o], id[o], o, "data")
              ELSE UNCHANGED notifications
  <2>1. CASE queue[o] = <<>>
    <3>1. Hears(listener[o], notifications, notifications')
      BY <2>1, <1>0, <1>2, ItsListenerHears
    <3> QED
      BY <3>1, <2>1, <1>0, <1>2 DEF Hears, Unheard
  <2>2. CASE queue[o] # <<>>
    BY <2>2, <1>0, <1>2 DEF Unheard
  <2> QED
    BY <2>1, <2>2
<1> QED
  BY <1>1, <1>2 DEF push, push_back, first_message, tell

LEMMA EndIsHeard ==
  ASSUME QInv, NEW o \in Objects, destroy(o) \/ \E d \in Objects : move_construct(d, o),
         NEW l \in Listeners
  PROVE  notifications'[l] # <<>> \/ Unheard(l)
<1>0. /\ Lists(notifications, Qids) /\ queue \in [Objects -> Seq(Messages)] /\ Types
      /\ {"detached", "closed"} \subseteq notification_flag /\ nullptr \notin Listeners
      /\ listener \in [Objects -> Listeners \cup {nullptr}]
  BY MemberFacts DEF QInv, notification_flag
<1>1. CASE destroy(o)
  <2>1. /\ queue' = [queue EXCEPT ![o] = <<>>] /\ listener' = [listener EXCEPT ![o] = nullptr]
        /\ notifications' = notify(notifications, listener[o], id[o], nullptr, "closed")
    BY <1>1 DEF destroy, tell
  <2>2. Hears(listener[o], notifications, notifications')
    BY <2>1, <1>0, ItsListenerHears
  <2> QED
    BY <2>1, <2>2, <1>0 DEF Hears, Unheard
<1>2. ASSUME NEW d \in Objects, move_construct(d, o) PROVE notifications'[l] # <<>> \/ Unheard(l)
  <2>1. PICK ns : ns = notify(notifications, listener[d], id[d], d, "detached")
    OBVIOUS
  <2>2. /\ queue' = [queue EXCEPT ![d] = queue[o], ![o] = <<>>]
        /\ listener' = [listener EXCEPT ![d] = nullptr, ![o] = nullptr]
        /\ notifications' = notify(ns, listener[o], id[o], o, "detached")
    BY <2>1, <1>2 DEF move_construct, move, move_queue, drop_listeners, tell_both
  <2>3. Lists(ns, Qids) /\ Hears(listener[d], notifications, ns)
    BY <2>1, <1>0, ItsListenerHears
  <2>4. Hears(listener[o], ns, notifications')
    BY <2>2, <2>3, <1>0, ItsListenerHears
  <2>5. CASE l = listener[o] \/ l = listener[d]
    BY <2>5, <2>3, <2>4 DEF Hears
  <2>6. CASE l # listener[o] /\ l # listener[d]
    <3>1. notifications'[l] = notifications[l]
      BY <2>6, <2>3, <2>4 DEF Hears
    <3>2. \A p \in Objects : listener[p] = l => p # o /\ p # d
      BY <2>6
    <3> QED
      BY <3>1, <3>2, <2>2, <1>0 DEF Unheard
  <2> QED
    BY <2>5, <2>6
<1> QED
  BY <1>1, <1>2
LEMMA OthersAreHeard ==
  ASSUME QInv, NEW l \in Listeners,
         \/ PostPause \/ WaitResume \/ HandlerReturns \/ HandleControl \/ HandleRecord
         \/ UNCHANGED vars
         \/ \E c \in Clients :
              \/ AllocateScan(c) \/ AllocateAdd(c) \/ WaitAnswer(c) \/ Enqueue(c) \/ Release(c)
              \/ Delete(c) \/ IdlePause(c) \/ IdleResume(c) \/ Terminate(c) \/ Join(c)
              \/ \E o \in Objects : AllocateStore(c, o) \/ MoveOut(c, o)
  PROVE  UNCHANGED <<phase, pos, range>> /\ (notifications'[l] # <<>> \/ Unheard(l))
<1>0. /\ mine \in [Clients -> Objects \cup {nullptr}] /\ control \in Objects /\ Owners
      /\ queue \in [Objects -> Seq(Messages)]
  BY ThreadFacts, MemberFacts DEF QInv
<1>1. CASE UNCHANGED <<listener, notifications, queue, phase, pos, range>>
  BY <1>1 DEF Unheard
<1>2. CASE PostPause \/ WaitResume \/ HandlerReturns \/ UNCHANGED vars
  BY <1>1, <1>2 DEF PostPause, WaitResume, HandlerReturns, vars, mqvars, pollvars, callvars
<1>3. ASSUME UNCHANGED <<listener, notifications, phase, pos, range>>, NEW o \in Objects,
             queue[o] # <<>>, queue' = [queue EXCEPT ![o] = Tail(queue[o])]
      PROVE  UNCHANGED <<phase, pos, range>> /\ Unheard(l)
  BY <1>0, <1>3 DEF Unheard
<1>4. CASE HandleControl
  <2>1. UNCHANGED <<phase, pos, range>> /\ (Taken \/ UNCHANGED mqvars)
    BY <1>4, ControlHandled DEF Stops, GoesOn, Adds, Removes, AskedBy, pollvars, callvars
  <2> QED
    BY <2>1, <1>0, <1>1, <1>3 DEF Taken, mqvars
<1>5. CASE HandleRecord
  <2>1. UNCHANGED <<phase, pos, range>> /\ (Serves \/ UNCHANGED mqvars)
    BY <1>5, RecordHandled DEF Skips, pollvars, callvars
  <2> QED
    BY <2>1, <1>0, <1>1, <1>3 DEF Serves, pop, has_message, mqvars
<1>6. ASSUME NEW c \in Clients, AllocateScan(c) \/ WaitAnswer(c) \/ IdleResume(c) \/ Join(c)
      PROVE  UNCHANGED <<phase, pos, range>> /\ (notifications'[l] # <<>> \/ Unheard(l))
  BY <1>1, <1>6 DEF AllocateScan, WaitAnswer, IdleResume, Join, mqvars, pollvars, callvars
<1>7. ASSUME NEW c \in Clients,
             AllocateAdd(c) \/ Enqueue(c) \/ Release(c) \/ IdlePause(c) \/ Terminate(c)
      PROVE  UNCHANGED <<phase, pos, range>> /\ (notifications'[l] # <<>> \/ Unheard(l))
  <2>1. UNCHANGED <<phase, pos, range>>
    BY <1>7 DEF AllocateAdd, Enqueue, Release, IdlePause, Terminate, pollvars, callvars
  <2>2. (\E o \in Objects : \E m : push(o, m)) \/ UNCHANGED mqvars
    BY <1>0, <1>7 DEF AllocateAdd, Enqueue, Release, IdlePause, Terminate, enqueue_control
  <2>3. CASE \E o \in Objects : \E m : push(o, m)
    BY <2>1, <2>3, PushIsHeard
  <2> QED
    BY <2>1, <2>2, <2>3, <1>1 DEF mqvars
<1>8. ASSUME NEW c \in Clients, Delete(c) \/ \E o \in Objects : AllocateStore(c, o) \/ MoveOut(c, o)
      PROVE  UNCHANGED <<phase, pos, range>> /\ (notifications'[l] # <<>> \/ Unheard(l))
  <2>1. UNCHANGED <<phase, pos, range>>
    BY <1>8 DEF Delete, AllocateStore, MoveOut, pollvars, callvars
  <2>2. \/ UNCHANGED <<listener, notifications, queue>>
        \/ \E o \in Objects : destroy(o) \/ \E d \in Objects : move_construct(d, o)
    BY <1>0, <1>8 DEF Delete, AllocateStore, MoveOut, construct, Owners, Changes
  <2>3. CASE \E o \in Objects : destroy(o) \/ \E d \in Objects : move_construct(d, o)
    BY <2>1, <2>3, EndIsHeard
  <2> QED
    BY <2>1, <2>2, <2>3, <1>1
<1> QED
  BY <1>2, <1>4, <1>5, <1>6, <1>7, <1>8

\* A step of poll sets the listener of one queue, which hears if it has data.
LEMMA SetIsHeard ==
  ASSUME QInv, NEW l \in Listeners, poll_set(l), NEW p, p = range[l][pos[l]]
  PROVE  /\ UNCHANGED queue /\ p \in Objects
         /\ \A o \in Objects : o # p \/ listener[p] # nullptr => listener'[o] = listener[o]
         /\ notifications'[l] = <<>> => notifications[l] = <<>>
         /\ listener[p] = nullptr => /\ listener'[p] = l
                                     /\ notifications'[l] = <<>> => queue[p] = <<>>
<1>0. /\ Lists(notifications, Qids) /\ listener \in [Objects -> Listeners \cup {nullptr}]
      /\ p \in Objects /\ p \in Objects \cup {nullptr} /\ l \in Listeners \cup {nullptr}
      /\ id[p] \in Qids /\ "data" \in notification_flag
      /\ nullptr \notin Listeners /\ Qids \subseteq Nat
  BY MemberFacts, CallFacts, QidsInNat DEF QInv, notification_flag, poll_set
<1>1. CASE listener[p] # nullptr
  BY <1>0, <1>1 DEF poll_set, set_listener, mqvars
<1>2. CASE listener[p] = nullptr
  <2>1. /\ UNCHANGED queue /\ listener' = [listener EXCEPT ![p] = l]
        /\ IF queue[p] # <<>>
           THEN notifications' = notify(notifications, l, id[p], p, "data")
           ELSE UNCHANGED notifications
    BY <1>2 DEF poll_set, set_listener, reports, tell
  <2>2. Hears(l, notifications, notify(notifications, l, id[p], p, "data"))
    BY <1>0, ListenerHears
  <2>3. queue[p] # <<>> => notifications'[l] # <<>>
    BY <2>1, <2>2 DEF Hears
  <2> QED
    BY <2>1, <2>3, <1>0, <1>2
<1> QED
  BY <1>1, <1>2
\* A step that is not the call's own leaves what is said of it true.
LEMMA OthersKeepQuiet ==
  ASSUME NEW l \in Listeners, QuietUntilTold(l), UNCHANGED <<phase, pos, range>>,
         notifications'[l] # <<>> \/ Unheard(l),
         \A i \in 1 .. Len(range[l]) : range[l][i] \in Objects
  PROVE  QuietUntilTold(l)'
  BY DEF QuietUntilTold, Unheard

LEMMA QuietKept ==
  ASSUME QInv, NEW l \in Listeners, QuietUntilTold(l), [Next]_vars
  PROVE  QuietUntilTold(l)'
<1>0. /\ phase \in [Listeners -> Phases] /\ pos \in [Listeners -> Nat] /\ ListenersHeld
      /\ range \in [Listeners -> Seq(Objects)] /\ PollExclusive
      /\ Len(range[l]) \in Nat /\ \A i \in 1 .. Len(range[l]) : range[l][i] \in Objects
      /\ phase[l] \in {"set", "clear"} => pos[l] \in 1 .. Len(range[l])
      /\ phase[l] \notin {"set", "clear"} => pos[l] = 1
      /\ listener \in [Objects -> Listeners \cup {nullptr}]
      /\ worker \in Listeners /\ Clients \subseteq Listeners
  BY CallFacts, MemberFacts, Exclusive DEF QInv
\* Before and after its loops no queue is set for a call.
<1>1. ASSUME phase'[l] \notin {"set", "wait"} PROVE QuietUntilTold(l)'
  BY <1>1 DEF QuietUntilTold
<1>2. ASSUME NEW k \in Listeners, \E w : poll_begin(k, mqs, w) PROVE QuietUntilTold(l)'
  <2>1. /\ phase[k] = "out" /\ UNCHANGED <<listener, queue, notifications, pos>>
        /\ range' = [range EXCEPT ![k] = mqs]
        /\ phase' = [phase EXCEPT ![k] = IF mqs = <<>> THEN "wait" ELSE "set"]
    BY <1>2 DEF poll_begin, enter, mqvars
  <2>2. CASE k = l
    <3>1. range'[l] = mqs /\ pos'[l] = 1 /\ phase'[l] = IF mqs = <<>> THEN "wait" ELSE "set"
      BY <2>1, <2>2, <1>0
    <3>2. mqs = <<>> => Len(mqs) = 0
      BY EmptySeq
    <3> QED
      BY <3>1, <3>2 DEF QuietUntilTold, SetFor
  <2>3. CASE k # l
    <3>1. phase'[l] = phase[l] /\ range'[l] = range[l]
      BY <2>1, <2>3
    <3> QED
      BY <3>1, <2>1 DEF QuietUntilTold
  <2> QED
    BY <2>2, <2>3
<1>3. ASSUME NEW k \in Listeners, k # l, poll_step(k) PROVE QuietUntilTold(l)'
  <2>1. phase[k] # "out"
    BY <1>3 DEF poll_step, poll_set, poll_return, poll_sleep, poll_clear, poll_end
  <2>2. phase[l] = "out"
    BY <2>1, <1>0, <1>3 DEF PollExclusive
  <2>3. phase'[l] = phase[l]
    <3>1. PauseTypes
      BY DEF QInv, IInv
    <3>2. \E p \in Phases : phase' = [phase EXCEPT ![k] = p]
      BY <3>1, <1>3, PollMovesOn
    <3> QED
      BY <3>2, <1>3, <1>0
  <2> QED
    BY <2>2, <2>3, <1>1
<1>4. ASSUME poll_set(l) PROVE QuietUntilTold(l)'
  <2>1. PICK p : p = range[l][pos[l]]
    OBVIOUS
  <2>2. /\ UNCHANGED queue /\ p \in Objects
        /\ \A o \in Objects : o # p \/ listener[p] # nullptr => listener'[o] = listener[o]
        /\ notifications'[l] = <<>> => notifications[l] = <<>>
        /\ listener[p] = nullptr => listener'[p] = l /\ (notifications'[l] = <<>> => queue[p] = <<>>)
    BY <2>1, <1>4, SetIsHeard
  <2>3. /\ phase[l] = "set" /\ pos[l] \in 1 .. Len(range[l]) /\ range' = range
        /\ \/ pos'[l] = pos[l] + 1 /\ phase'[l] = "set"
           \/ phase'[l] = "wait" /\ pos[l] = Len(range[l])
    BY <1>0, <1>4 DEF poll_set, next_queue, more_queues
  <2>4. SUFFICES ASSUME notifications'[l] = <<>>, NEW i \in 1 .. Len(range[l]),
                        SetFor(phase'[l], pos'[l], i)
                 PROVE  listener'[range[l][i]] = l /\ queue'[range[l][i]] = <<>>
    BY <2>3 DEF QuietUntilTold
  <2>5. i = pos[l] \/ SetFor(phase[l], pos[l], i)
    BY <2>3, <2>4, <1>0 DEF SetFor
  <2>6. \A j \in 1 .. Len(range[l]) : SetFor(phase[l], pos[l], j) =>
          listener[range[l][j]] = l /\ queue[range[l][j]] = <<>>
    BY <2>2, <2>3, <2>4 DEF QuietUntilTold
  <2>7. CASE listener[p] = nullptr
    BY <2>1, <2>2, <2>4, <2>5, <2>6, <2>7, <1>0
  <2>8. CASE listener[p] # nullptr
    <3>1. listener[p] \in Listeners /\ HeldBy(p, listener[p])
      BY <2>2, <2>8, <1>0 DEF ListenersHeld
    <3>2. phase[listener[p]] # "out"
      BY <3>1 DEF HeldBy, SetFor
    <3>3. listener[p] = l
      BY <3>1, <3>2, <2>3, <1>0 DEF PollExclusive
    <3>4. queue[p] = <<>>
      BY <3>1, <3>3, <2>6 DEF HeldBy
    <3> QED
      BY <3>3, <3>4, <2>1, <2>2, <2>5, <2>6, <2>8, <1>0
  <2> QED
    BY <2>7, <2>8
<1>5. ASSUME poll_return(l) \/ poll_clear(l) \/ poll_end(l) PROVE QuietUntilTold(l)'
  <2>1. \/ \E p \in {"clear", "end", "out"} : phase' = [phase EXCEPT ![l] = p]
        \/ UNCHANGED phase /\ phase[l] = "clear"
    BY <1>5 DEF poll_return, poll_copy, enter, poll_clear, next_queue, poll_end
  <2> QED
    BY <2>1, <1>0, <1>1
<1>6. ASSUME NEW k \in Listeners, poll_sleep(k) \/ poll_spurious_wakeup(k) PROVE QuietUntilTold(l)'
  <2>1. UNCHANGED <<phase, pos, range, listener, queue, notifications>>
    BY <1>6 DEF poll_sleep, poll_spurious_wakeup, pollvars, callvars
  <2> QED
    BY <2>1, <1>0, OthersKeepQuiet DEF Unheard
<1>7. ASSUME NEW k \in Listeners, poll_step(k) PROVE QuietUntilTold(l)'
  BY <1>3, <1>4, <1>5, <1>6, <1>7 DEF poll_step
<1>8. CASE PollBegin \/ PollStep \/ SpuriousWakeup \/ \E c \in Clients : IdleWaitPause(c) \/ IdlePoll(c)
  BY <1>0, <1>2, <1>6, <1>7, <1>8 DEF PollBegin, PollStep, SpuriousWakeup, IdleWaitPause, IdlePoll
<1>9. CASE \/ PostPause \/ WaitResume \/ HandlerReturns \/ HandleControl \/ HandleRecord
           \/ UNCHANGED vars
           \/ \E c \in Clients :
                \/ AllocateScan(c) \/ AllocateAdd(c) \/ WaitAnswer(c) \/ Enqueue(c) \/ Release(c)
                \/ Delete(c) \/ IdlePause(c) \/ IdleResume(c) \/ Terminate(c) \/ Join(c)
                \/ \E o \in Objects : AllocateStore(c, o) \/ MoveOut(c, o)
  <2>1. UNCHANGED <<phase, pos, range>> /\ (notifications'[l] # <<>> \/ Unheard(l))
    BY <1>9, OthersAreHeard
  <2> QED
    BY <2>1, <1>0, OthersKeepQuiet
<1> QED
  BY <1>8, <1>9 DEF Next, Worker, Call, Choice
-----------------------------------------------------------------------------
\* Where the messages of the queues come from.
SentIn(s, m) == \E q \in Slots : m \in Range(s[q])
SentTypes == sent \in [Slots -> Seq(DataMessages)] /\ DOMAIN before = Clients

\* The messages queued for the handlers of clients, and those that is_poll_idle
\* asks about, have been pushed.
SentFirst ==
  /\ \A o \in Objects \ {control} : \A i \in 1 .. Len(queue[o]) : SentIn(sent, queue[o][i].mid)
  /\ \A c \in Clients : \A m \in before[c] : SentIn(sent, m)

\* A message is in a queue because it was there, or its content was moved to a
\* new object, or the message was pushed for the first time.
Comes(o, m) ==
  \/ \E i \in 1 .. Len(queue[o]) : queue[o][i] = m
  \/ o \notin alive /\ \E p \in Objects \ {control} : \E i \in 1 .. Len(queue[p]) : queue[p][i] = m
  \/ ~SentIn(sent, m.mid) /\ SentIn(sent', m.mid)

LEMMA EnqueueSends ==
  ASSUME QInv, SentTypes, NEW c \in Clients, Enqueue(c)
  PROVE  \E m \in Messages, o \in Objects \ {control}, q \in Slots :
           /\ m.mid \in DataMessages /\ ~SentIn(sent, m.mid)
           /\ sent' = [sent EXCEPT ![q] = Append(sent[q], m.mid)]
           /\ queue' = [queue EXCEPT ![o] = Append(queue[o], m)] \/ UNCHANGED queue
<1>1. PICK o \in Objects \ {control} : o = mine[c]
  BY ThreadFacts DEF Enqueue, QInv, Owners
<1>2. id[o] \in Slots
  BY <1>1, MemberFacts DEF QInv, Enqueue, Qids
<1>3. PICK n \in 1 .. MaxMessages :
        /\ ~was_sent(n) /\ push(o, message(id[o], data_message(n)))
        /\ sent' = [sent EXCEPT ![id[o]] = Append(@, data_message(n))]
  BY <1>1 DEF Enqueue
<1>4. PICK m : m = message(id[o], data_message(n))
  OBVIOUS
<1>5. m \in Messages /\ m.mid = data_message(n) /\ m.mid \in DataMessages
  BY <1>2, <1>4 DEF message, Messages, DataMessages
<1>6. queue' = [queue EXCEPT ![o] = Append(queue[o], m)] \/ UNCHANGED queue
  BY <1>3, <1>4, Pushed
<1> QED
  BY <1>2, <1>3, <1>5, <1>6 DEF was_sent, SentIn

\* Messages stay pushed.
LEMMA SentGrows ==
  ASSUME QInv, SentTypes, [Next]_vars
  PROVE  SentTypes' /\ \A m : SentIn(sent, m) => SentIn(sent', m)
<1>1. ASSUME NEW c \in Clients, Enqueue(c)
      PROVE  sent' \in [Slots -> Seq(DataMessages)] /\ \A m : SentIn(sent, m) => SentIn(sent', m)
  <2>1. PICK n \in DataMessages, q \in Slots : sent' = [sent EXCEPT ![q] = Append(sent[q], n)]
    BY <1>1, EnqueueSends
  <2>2. sent[q] \in Seq(DataMessages) /\ Range(sent[q]) \subseteq Range(Append(sent[q], n))
    BY DEF SentTypes, Range
  <2>3. sent' \in [Slots -> Seq(DataMessages)]
    BY <2>1, <2>2 DEF SentTypes
  <2>4. \A r \in Slots : Range(sent[r]) \subseteq Range(sent'[r])
    BY <2>1, <2>2 DEF SentTypes
  <2> QED
    BY <2>3, <2>4 DEF SentIn
<1>2. (\E c \in Clients : Enqueue(c)) \/ UNCHANGED sent
  BY DEF Next, Worker, Call, Choice, PollBegin, PollStep, HandleControl, PostPause, WaitResume,
     HandleRecord, HandlerReturns, SpuriousWakeup, AllocateStore, AllocateAdd, WaitAnswer, Delete,
     IdleWaitPause, IdlePoll, IdleResume, Join, AllocateScan, Release, IdlePause, Terminate,
     MoveOut, vars, history
<1>3. (\E c \in Clients : IdlePause(c) \/ IdleResume(c)) \/ UNCHANGED before
  BY DEF Next, Worker, Call, Choice, PollBegin, PollStep, HandleControl, PostPause, WaitResume,
     HandleRecord, HandlerReturns, SpuriousWakeup, AllocateStore, AllocateAdd, WaitAnswer, Delete,
     IdleWaitPause, IdlePoll, Join, AllocateScan, Enqueue, Release, Terminate, MoveOut, vars, history
<1>4. DOMAIN before' = Clients
  BY <1>3 DEF SentTypes, IdlePause, IdleResume
<1> QED
  BY <1>1, <1>2, <1>4 DEF SentTypes

LEMMA MessagesCome ==
  ASSUME QInv, SentTypes, [Next]_vars, NEW o \in Objects \ {control},
         NEW j \in 1 .. Len(queue'[o])
  PROVE  Comes(o, queue'[o][j])
<1>0. /\ queue \in [Objects -> Seq(Messages)] /\ control \in Objects /\ Owners
      /\ mine \in [Clients -> Objects \cup {nullptr}]
  BY MemberFacts, ThreadFacts DEF QInv
<1>1. CASE queue'[o] = queue[o]
  BY <1>1 DEF Comes
<1>2. CASE queue[o] # <<>> /\ queue'[o] = Tail(queue[o])
  <2>1. queue[o] \in Seq(Messages)
    BY <1>0
  <2>2. j + 1 \in 1 .. Len(queue[o]) /\ queue[o][j + 1] = queue'[o][j]
    BY <2>1, <1>2, HeadTailProperties, EmptySeq
  <2> QED
    BY <2>2 DEF Comes
<1>3. CASE Quiet \/ TakesMessage \/ HandleControl
  <2>1. queue' = queue \/ \E p \in Objects : queue[p] # <<>> /\ queue' = [queue EXCEPT ![p] = Tail(queue[p])]
    BY <1>0, <1>3, ControlHandled
       DEF Quiet, TakesMessage, Stops, GoesOn, Adds, Removes, AskedBy, Taken, mqvars
  <2> QED
    BY <2>1, <1>0, <1>1, <1>2
<1>4. ASSUME NEW c \in Clients,
             WaitAnswer(c) \/ \E p \in Objects : AllocateStore(c, p)
      PROVE  Comes(o, queue'[o][j])
  <2>1. queue' = queue
    BY <1>4 DEF WaitAnswer, AllocateStore, construct, mqvars
  <2> QED
    BY <2>1, <1>1
<1>5. ASSUME NEW c \in Clients, NEW d \in Objects, MoveOut(c, d) PROVE Comes(o, queue'[o][j])
  <2>1. PICK p \in Objects \ {control} : p = mine[c]
    BY <1>0, <1>5 DEF MoveOut, Owners
  <2>2. d \notin alive /\ queue' = [queue EXCEPT ![d] = queue[p], ![p] = <<>>]
    BY <2>1, <1>5 DEF MoveOut, move_construct, move, move_queue
  <2>3. o # p
    BY <2>2, <1>0
  <2>4. queue'[o] = IF o = d THEN queue[p] ELSE queue[o]
    BY <2>2, <2>3, <1>0
  <2> QED
    BY <2>2, <2>4, <1>1 DEF Comes
<1>6. ASSUME NEW c \in Clients, Delete(c) PROVE Comes(o, queue'[o][j])
  <2>1. PICK p \in Objects : p = mine[c]
    BY <1>0, <1>6 DEF Delete, Owners, Changes
  <2>2. queue' = [queue EXCEPT ![p] = <<>>]
    BY <2>1, <1>6 DEF Delete, destroy
  <2>3. o # p
    BY <2>2, <1>0
  <2> QED
    BY <2>2, <2>3, <1>0, <1>1
<1>7. ASSUME NEW c \in Clients, Enqueue(c) PROVE Comes(o, queue'[o][j])
  <2>1. PICK m \in Messages, p \in Objects \ {control}, q \in Slots :
          /\ m.mid \in DataMessages /\ ~SentIn(sent, m.mid)
          /\ sent' = [sent EXCEPT ![q] = Append(sent[q], m.mid)]
          /\ queue' = [queue EXCEPT ![p] = Append(queue[p], m)] \/ UNCHANGED queue
    BY <1>7, EnqueueSends
  <2>2. CASE p = o /\ queue' = [queue EXCEPT ![p] = Append(queue[p], m)]
    <3>1. queue[o] \in Seq(Messages) /\ queue'[o] = Append(queue[o], m)
      BY <2>2, <1>0
    <3>2. CASE j = Len(queue[o]) + 1
      <4>1. queue'[o][j] = m
        BY <3>1, <3>2
      <4>2. m.mid \in Range(sent'[q])
        <5>1. sent[q] \in Seq(DataMessages) /\ sent'[q] = Append(sent[q], m.mid)
          BY <2>1 DEF SentTypes
        <5> QED
          BY <5>1, <2>1 DEF Range
      <4> QED
        BY <4>1, <4>2, <2>1 DEF Comes, SentIn
    <3>3. CASE j # Len(queue[o]) + 1
      <4>1. j \in 1 .. Len(queue[o]) /\ queue'[o][j] = queue[o][j]
        BY <3>1, <3>3
      <4> QED
        BY <4>1 DEF Comes
    <3> QED
      BY <3>2, <3>3
  <2>3. CASE ~(p = o /\ queue' = [queue EXCEPT ![p] = Append(queue[p], m)])
    BY <2>1, <2>3, <1>0, <1>1
  <2> QED
    BY <2>2, <2>3
<1>8. ASSUME NEW c \in Clients, AllocateAdd(c) \/ Release(c) \/ IdlePause(c) \/ Terminate(c)
      PROVE  Comes(o, queue'[o][j])
  <2>1. \E m \in ControlMessages : enqueue_control(m)
    BY <1>8, ControlIsAsked
  <2>2. queue'[o] = queue[o]
    BY <2>1, <1>0, ControlPushed
  <2> QED
    BY <2>2, <1>1
<1> QED
  BY <1>3, <1>4, <1>5, <1>6, <1>7, <1>8, StepKinds
LEMMA SentFirstKept == QInv /\ SentTypes /\ SentFirst /\ [Next]_vars => SentFirst'
<1> SUFFICES ASSUME QInv, SentTypes, SentFirst, [Next]_vars PROVE SentFirst'
  OBVIOUS
<1>0. \A m : SentIn(sent, m) => SentIn(sent', m)
  BY SentGrows
<1>1. ASSUME NEW o \in Objects \ {control}, NEW j \in 1 .. Len(queue'[o])
      PROVE  SentIn(sent', queue'[o][j].mid)
  <2>1. Comes(o, queue'[o][j])
    BY <1>1, MessagesCome
  <2> QED
    BY <2>1, <1>0, <1>1 DEF Comes, SentFirst
<1>2. \A m \in queued : SentIn(sent, m)
  <2> SUFFICES ASSUME NEW i \in 2 .. Len(mqs), NEW j \in 1 .. Len(queue[mqs[i]])
               PROVE  SentIn(sent, queue[mqs[i]][j].mid)
    BY DEF queued
  <2>1. mqs[i] \in Objects \ {control}
    BY ThreadFacts DEF QInv, Members, InPool, Owners
  <2> QED
    BY <2>1 DEF SentFirst
<1>3. ASSUME NEW c \in Clients, NEW m \in before'[c] PROVE SentIn(sent', m)
  <2>1. before'[c] \in {before[c], {}, queued}
    BY DEF Next, Worker, Call, Choice, PollBegin, PollStep, HandleControl, PostPause, WaitResume,
       HandleRecord, HandlerReturns, SpuriousWakeup, AllocateStore, AllocateAdd, WaitAnswer, Delete,
       IdleWaitPause, IdlePoll, IdleResume, Join, AllocateScan, Enqueue, Release, IdlePause, Terminate,
       MoveOut, vars, history, SentTypes
  <2> QED
    BY <2>1, <1>0, <1>2, <1>3 DEF SentFirst
<1> QED
  BY <1>1, <1>3 DEF SentFirst
-----------------------------------------------------------------------------
\* A call of is_poll_idle whose poll has returned, with an empty list.
HeardNothing(c) ==
  (phase[c] \in {"clear", "end"} \/ cpc[c] = "post_resume") /\ result[c] = <<>>

\* Then none of the messages that it asks about is queued.
FoundNothing(c) ==
  HeardNothing(c) =>
    \A i \in 2 .. Len(mqs) : \A j \in 1 .. Len(queue[mqs[i]]) : queue[mqs[i]][j].mid \notin before[c]

LEMMA HearsNothing ==
  ASSUME QInv, SentTypes, [Next]_vars, NEW c \in Clients, HeardNothing(c)'
  PROVE  \/ HeardNothing(c) /\ before'[c] = before[c] /\ mqs' = mqs
         \/ poll_return(c) /\ before' = before /\ mqs' = mqs
<1>0. /\ phase \in [Listeners -> Phases] /\ cpc \in [Clients -> ClientStates] /\ PauseTypes
      /\ result \in [Listeners -> Seq(Records)] /\ worker \in Listeners /\ worker \notin Clients
      /\ Clients \subseteq Listeners
      /\ phase[c] # "out" => cpc[c] = "polling"
      /\ cpc[c] \in {"polling", "post_resume"} => wpc = "resume"
      /\ result'[c] = <<>> /\ (phase'[c] \in {"clear", "end"} \/ cpc'[c] = "post_resume")
  BY CallFacts, ThreadFacts, MemberFacts, TokenHolders
     DEF QInv, IInv, PollersPolling, PausedBy, HeardNothing
<1>1. ASSUME phase'[c] = phase[c], cpc'[c] = cpc[c], result'[c] = result[c],
             before'[c] = before[c], mqs' = mqs
      PROVE  HeardNothing(c) /\ before'[c] = before[c] /\ mqs' = mqs
  BY <1>0, <1>1 DEF HeardNothing
\* A client that is elsewhere does not come to post its resume by such a step.
<1>2. ASSUME phase'[c] = phase[c], cpc[c] # "polling", cpc'[c] # "post_resume" PROVE FALSE
  BY <1>0, <1>2
<1>3. ASSUME NEW l \in Listeners, l # c, poll_step(l) \/ poll_spurious_wakeup(l), UNCHANGED mqs
      PROVE  phase'[c] = phase[c] /\ result'[c] = result[c]
  <2>1. \E p \in Phases : phase' = [phase EXCEPT ![l] = p]
    BY <1>0, <1>3, PollMovesOn
  <2>2. result'[c] = result[c]
    BY <1>0, <1>3, PollTold
  <2> QED
    BY <2>1, <2>2, <1>0, <1>3
<1>4. CASE PollBegin
  BY <1>0, <1>2, <1>4 DEF PollBegin, poll_begin, enter, clientvars
<1>5. CASE PollStep
  <2>1. wpc = "poll" /\ poll_step(worker) /\ UNCHANGED <<mqs, cpc>>
    BY <1>5 DEF PollStep, clientvars
  <2> QED
    BY <2>1, <1>0, <1>2, <1>3
<1>6. CASE SpuriousWakeup
  BY <1>1, <1>6 DEF SpuriousWakeup, poll_spurious_wakeup, pollvars, callvars, clientvars, history
<1>7. CASE HandleControl
  BY <1>0, <1>2, <1>7 DEF HandleControl, pollvars, callvars, clientvars
<1>8. CASE PostPause \/ WaitResume \/ HandleRecord \/ HandlerReturns \/ UNCHANGED vars
  BY <1>1, <1>8
     DEF PostPause, WaitResume, HandleRecord, HandlerReturns, vars, pollvars, callvars, clientvars, history
<1>9. ASSUME NEW d \in Clients,
             \/ AllocateScan(d) \/ AllocateAdd(d) \/ WaitAnswer(d) \/ Enqueue(d) \/ Release(d)
             \/ Delete(d) \/ Join(d) \/ IdlePause(d) \/ IdleResume(d)
             \/ \E o \in Objects : AllocateStore(d, o) \/ MoveOut(d, o)
      PROVE  HeardNothing(c) /\ before'[c] = before[c] /\ mqs' = mqs
  <2>1. UNCHANGED <<phase, result, mqs>>
    BY <1>9 DEF AllocateScan, AllocateAdd, WaitAnswer, Enqueue, Release, Delete, Join, IdlePause,
                IdleResume, AllocateStore, MoveOut, pollvars, callvars
  <2>2. cpc[d] # "polling" /\ \E s \in ClientStates \ {"post_resume"} : cpc' = [cpc EXCEPT ![d] = s]
    <3>1. CASE Enqueue(d) \/ \E o \in Objects : MoveOut(d, o)
      <4>1. cpc[d] = "out" /\ cpc' = cpc
        BY <3>1 DEF Enqueue, MoveOut, clientvars
      <4> QED
        BY <4>1, <1>0 DEF ClientStates
    <3>2. CASE WaitAnswer(d) \/ Release(d)
      BY <3>2 DEF WaitAnswer, Release, wait_for_answer, ClientStates
    <3>3. CASE AllocateScan(d) \/ AllocateAdd(d) \/ \E o \in Objects : AllocateStore(d, o)
      BY <3>3 DEF AllocateScan, AllocateAdd, AllocateStore, ClientStates
    <3>4. CASE Delete(d) \/ Join(d) \/ IdlePause(d) \/ IdleResume(d)
      BY <3>4 DEF Delete, Join, IdlePause, IdleResume, ClientStates
    <3> QED
      BY <1>9, <3>1, <3>2, <3>3, <3>4
  <2>3. before' = before \/ \E B : before' = [before EXCEPT ![d] = B]
    BY <1>9 DEF AllocateScan, AllocateAdd, WaitAnswer, Enqueue, Release, Delete, Join,
       IdlePause, IdleResume, AllocateStore, MoveOut, history
  <2>4. CASE d # c
    <3>1. cpc'[c] = cpc[c] /\ before'[c] = before[c]
      BY <2>2, <2>3, <2>4, <1>0 DEF SentTypes
    <3> QED
      BY <3>1, <2>1, <1>1
  <2>5. CASE d = c
    BY <2>1, <2>2, <2>5, <1>0, <1>2
  <2> QED
    BY <2>4, <2>5
<1>10. ASSUME NEW d \in Clients, Terminate(d) PROVE FALSE
  <2>1. UNCHANGED phase /\ cpc[c] = "out" /\ cpc'[c] \in {"join", "gone"}
    BY <1>10 DEF Terminate, pollvars, callvars
  <2> QED
    BY <2>1, <1>2
<1>11. ASSUME NEW d \in Clients, IdleWaitPause(d)
       PROVE  HeardNothing(c) /\ before'[c] = before[c] /\ mqs' = mqs
  <2>1. /\ phase' = [phase EXCEPT ![d] = IF mqs = <<>> THEN "wait" ELSE "set"]
        /\ result' = [result EXCEPT ![d] = <<>>] /\ cpc' = [cpc EXCEPT ![d] = "polling"]
        /\ UNCHANGED <<mqs, before>>
    BY <1>11 DEF IdleWaitPause, poll_begin, enter, history
  <2>2. d # c
    BY <2>1, <1>0
  <2> QED
    BY <2>1, <2>2, <1>1
<1>12. ASSUME NEW d \in Clients, IdlePoll(d)
       PROVE  \/ HeardNothing(c) /\ before'[c] = before[c] /\ mqs' = mqs
              \/ poll_return(c) /\ before' = before /\ mqs' = mqs
  <2>1. /\ cpc[d] = "polling" /\ poll_step(d) /\ UNCHANGED <<mqs, before>>
        /\ cpc' = IF phase'[d] = "out" THEN [cpc EXCEPT ![d] = "post_resume"] ELSE cpc
    BY <1>12 DEF IdlePoll, history
  <2>2. CASE d # c
    <3>1. phase'[c] = phase[c] /\ result'[c] = result[c]
      BY <2>1, <2>2, <1>0, <1>3
    <3> QED
      BY <3>1, <2>1, <2>2, <1>1
  <2>3. ASSUME d = c, poll_clear(c) \/ poll_end(c) PROVE HeardNothing(c)
    BY <2>3, <1>0 DEF poll_clear, poll_end, HeardNothing
  <2>4. ASSUME d = c, poll_set(c) \/ poll_sleep(c) PROVE FALSE
    <3>1. phase'[c] \in {"set", "wait"}
      BY <2>4, <1>0 DEF poll_set, next_queue, poll_sleep
    <3> QED
      BY <3>1, <2>1, <2>4, <1>0
  <2> QED
    BY <2>1, <2>2, <2>3, <2>4 DEF poll_step
<1> QED
  BY <1>4, <1>5, <1>6, <1>7, <1>8, <1>9, <1>10, <1>11, <1>12 DEF Next, Worker, Call, Choice
\* Until the worker is resumed nothing that was asked about is queued.
LEMMA FoundKept ==
  ASSUME QInv, SentTypes, SentFirst, [Next]_vars, NEW c \in Clients,
         QuietUntilTold(c), FoundNothing(c)
  PROVE  FoundNothing(c)'
<1> SUFFICES ASSUME HeardNothing(c)', NEW i \in 2 .. Len(mqs'), NEW j \in 1 .. Len(queue'[mqs'[i]])
             PROVE  queue'[mqs'[i]][j].mid \notin before'[c]
  BY DEF FoundNothing
<1>0. /\ c \in Listeners /\ mqs \in Seq(Objects) /\ queue \in [Objects -> Seq(Messages)]
      /\ notifications \in [Listeners -> Seq(Records)] /\ result \in [Listeners -> Seq(Records)]
  BY MemberFacts, ThreadFacts, CallFacts DEF QInv
<1>1. CASE HeardNothing(c) /\ before'[c] = before[c] /\ mqs' = mqs
  <2>1. PICK o : o = mqs[i]
    OBVIOUS
  <2>2. o \in Objects \ {control} /\ o \in alive
    <3>1. i \in 2 .. Len(mqs)
      BY <1>1
    <3>2. PICK d \in Clients : mqs[i] = mine[d] /\ InPool(d)
      BY <3>1 DEF QInv, Members
    <3>3. mine[d] \in alive \ {control}
      BY <3>2 DEF QInv, Owners, InPool
    <3> QED
      BY <2>1, <3>2, <3>3, MemberFacts DEF QInv
  <2>3. Comes(o, queue'[o][j])
    BY <2>1, <2>2, <1>1, MessagesCome
  <2>4. CASE ~SentIn(sent, queue'[o][j].mid)
    BY <2>1, <2>4, <1>1 DEF SentFirst
  <2>5. CASE \E k \in 1 .. Len(queue[o]) : queue[o][k] = queue'[o][j]
    BY <2>1, <2>5, <1>1 DEF FoundNothing
  <2> QED
    BY <2>2, <2>3, <2>4, <2>5 DEF Comes
<1>2. CASE poll_return(c) /\ mqs' = mqs
  <2>1. phase[c] = "wait" /\ notifications[c] = <<>> /\ UNCHANGED queue
    BY <1>0, <1>2 DEF poll_return, poll_copy, mqvars, HeardNothing
  <2>2. range[c] = mqs
    BY <2>1, <1>0 DEF QInv, IInv, RangesStable
  <2>3. queue[mqs[i]] = <<>>
    BY <2>1, <2>2, <1>2 DEF QuietUntilTold, SetFor
  <2>4. Len(queue'[mqs'[i]]) = 0
    BY <2>1, <2>3, <1>2, EmptySeq
  <2> QED
    BY <2>4
<1> QED
  BY <1>1, <1>2, HearsNothing

IdleInv ==
  /\ Busy /\ SentTypes /\ SentFirst
  /\ \A c \in Clients : QuietUntilTold(c) /\ FoundNothing(c)

LEMMA IdleInvariant == Spec => [](QInv /\ IdleInv)
<1>1. Init => IdleInv
  BY PoolAssumption
     DEF Init, PollInit, IdleInv, Busy, SentTypes, SentFirst, QuietUntilTold, FoundNothing, HeardNothing
<1>2. QInv /\ IdleInv /\ [Next]_vars => IdleInv'
  <2> SUFFICES ASSUME QInv, IdleInv, [Next]_vars PROVE IdleInv'
    OBVIOUS
  <2>1. Busy' /\ SentTypes' /\ SentFirst'
    BY CurrentKept, SentGrows, SentFirstKept DEF IdleInv
  <2>2. \A c \in Clients : QuietUntilTold(c)' /\ FoundNothing(c)'
    BY QuietKept, FoundKept, PoolAssumption DEF IdleInv
  <2> QED
    BY <2>1, <2>2 DEF IdleInv
<1> QED
  BY <1>1, <1>2, QInvariant, PTL DEF Spec

\* is_poll_idle returns true only when what was queued has been handled: while
\* the worker is paused no handler runs, and a poll without a wait, that finds
\* every queue empty, is not followed by messages that were there before.
THEOREM IdleIsTrue == Spec => IdleIsIdle
<1>1. QInv /\ IdleInv =>
        \A c \in Clients : cpc[c] = "post_resume" /\ result[c] = <<>> =>
          current = {} /\ before[c] \cap queued = {}
  <2> SUFFICES ASSUME QInv, IdleInv, NEW c \in Clients, cpc[c] = "post_resume", result[c] = <<>>
               PROVE  current = {} /\ before[c] \cap queued = {}
    OBVIOUS
  <2>1. wpc = "resume"
    BY TokenHolders DEF QInv, IInv, PausedBy
  <2>2. current = {}
    BY <2>1 DEF IdleInv, Busy
  <2> QED
    BY <2>2 DEF IdleInv, FoundNothing, HeardNothing, queued
<1>2. QInv /\ IdleInv =>
        [\A c \in Clients : cpc[c] = "post_resume" /\ cpc'[c] = "out" /\ result[c] = <<>> =>
           current = {} /\ before[c] \cap queued = {}]_vars
  BY <1>1
<1> QED
  BY <1>2, IdleInvariant, PTL DEF IdleIsIdle
=============================================================================
