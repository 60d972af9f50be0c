-------------------------- MODULE MessageQueuePoll --------------------------
(***************************************************************************)
(* The function poll (src/mqmx/message_queue_poll.h).  Each call has a     *)
(* listener of its own on the stack, by which the call is identified here: *)
(* it sets the listener for every queue of its range, one queue at a time, *)
(* waits for notifications, and clears the listeners one at a time.        *)
(***************************************************************************)
EXTENDS MessageQueue, WaitTime

VARIABLES
  phase,   \* where each call is: "out", "set", "wait", "clear" or "end"
  range,   \* the queues [first, last) of each call
  pos,     \* the next queue of the range to set or to clear
  wtp,     \* the wait_time_provider of each call
  until,   \* abs_time of each wait that has begun, the empty one otherwise
  result,  \* the list that wait_for_notifications returned
  clock    \* what steady_clock::now () returns

callvars == <<phase, range, pos, wtp, until, result>>
pollvars == <<callvars, clock>>

PollInit ==
  /\ phase = [l \in Listeners |-> "out"]
  /\ range = [l \in Listeners |-> <<>>]
  /\ pos = [l \in Listeners |-> 1]
  /\ wtp = [l \in Listeners |-> no_wait]
  /\ until = [l \in Listeners |-> EMPTY_TIME_POINT]
  /\ result = [l \in Listeners |-> <<>>]
  /\ clock = 1

PollTypeOK ==
  /\ phase \in [Listeners -> {"out", "set", "wait", "clear", "end"}]
  /\ wtp \in [Listeners -> [rel_time : Int, abs_time : Int, wait_infinitely : BOOLEAN]]
  /\ until \in [Listeners -> Int] /\ clock \in Int
  /\ \A l \in Listeners :
       /\ range[l] \in Seq(Objects)
       /\ pos[l] \in 1 .. Len(range[l]) + 1
       /\ phase[l] \in {"set", "clear"} => pos[l] \in 1 .. Len(range[l])

\* The call enters the loop of phase ph over the queues r, or skips it to the
\* phase after it when there are none.
enter(l, r, ph, after) == phase' = [phase EXCEPT ![l] = IF r = <<>> THEN after ELSE ph]

\* Are there queues of the range left after this one?
one_more_queue(l) == pos[l] <= Len(range[l])  \* fault: the loop goes on past the end
more_queues(l) == pos[l] < Len(range[l])

\* One turn of the loop of for_each, and the phase after the last one.
next_queue(l, after) ==
  IF more_queues(l)
  THEN pos' = [pos EXCEPT ![l] = @ + 1] /\ UNCHANGED phase
  ELSE pos' = [pos EXCEPT ![l] = 1] /\ phase' = [phase EXCEPT ![l] = after]

\* poll is called for the queues r: the listener is constructed.
poll_begin(l, r, w) ==
  /\ phase[l] = "out"
  /\ range' = [range EXCEPT ![l] = r]
  /\ wtp' = [wtp EXCEPT ![l] = w]
  /\ result' = [result EXCEPT ![l] = <<>>]
  /\ enter(l, r, "set", "wait")
  /\ UNCHANGED <<mqvars, pos, until, clock>>

\* set_listener_for_each_queue (): the result of set_listener is ignored.
poll_set(l) ==
  /\ phase[l] = "set"
  /\ set_listener(range[l][pos[l]], l)
  /\ next_queue(l, "wait")
  /\ UNCHANGED <<range, wtp, until, result, clock>>

\* wait_for_notifications returns a copy of the list.
poll_copy(l) ==
  /\ result' = [result EXCEPT ![l] = notifications[l]]
  /\ enter(l, range[l], "clear", "end")
  /\ until' = [until EXCEPT ![l] = EMPTY_TIME_POINT]
  /\ UNCHANGED <<range, pos, wtp, clock>>

\* The time point until which the call waits is computed when the wait begins,
\* and stays the same if the thread wakes up for no reason.
abs_time(l) == IF is_time_point_empty(until[l]) THEN get_time_point(wtp[l], clock) ELSE until[l]

\* Does the wait end with the list as it is, without blocking?
never_wait_if(l) == wtp[l] = no_wait  \* fault: the predicate is not looked at
nothing_to_wait_for(l) ==
  \/ notifications[l] # <<>>
  \/ ~wtp[l].wait_infinitely /\ is_time_point_empty(abs_time(l))

\* The predicate holds, or the empty time point says not to wait for it.
poll_return(l) ==
  /\ phase[l] = "wait" /\ l \notin asleep /\ nothing_to_wait_for(l)
  /\ poll_copy(l)
  /\ UNCHANGED mqvars

\* _condition.wait or wait_until: the predicate is false, the thread blocks.
poll_sleep(l) ==
  /\ phase[l] = "wait" /\ l \notin asleep /\ ~nothing_to_wait_for(l)
  /\ asleep' = asleep \cup {l}
  /\ until' = IF wtp[l].wait_infinitely THEN until ELSE [until EXCEPT ![l] = abs_time(l)]
  /\ UNCHANGED <<alive, id, queue, listener, notifications, phase, range, pos, wtp, result, clock>>

\* Is the thread in wait_until, with its time point reached?
never(l) == FALSE  \* fault: it waits infinitely
time_is_up(l) == ~is_time_point_empty(until[l]) /\ until[l] <= clock

\* wait_until gives up; the list may have become non-empty at that moment.
poll_timeout(l) ==
  /\ phase[l] = "wait" /\ time_is_up(l)
  /\ poll_copy(l)
  /\ asleep' = asleep \ {l}
  /\ UNCHANGED <<alive, id, queue, listener, notifications>>

\* A condition variable may wake its waiter for no reason.
poll_spurious_wakeup(l) ==
  /\ l \in asleep
  /\ asleep' = asleep \ {l}
  /\ UNCHANGED <<alive, id, queue, listener, notifications, pollvars>>

\* ~set_listener_for_each_queue (), whosever listener the queue has.
poll_clear(l) ==
  /\ phase[l] = "clear"
  /\ clear_listener(range[l][pos[l]])
  /\ next_queue(l, "end")
  /\ UNCHANGED <<range, wtp, until, result, clock>>

\* poll returns: the listener is destroyed, and the arguments are gone.
poll_end(l) ==
  /\ phase[l] = "end"
  /\ phase' = [phase EXCEPT ![l] = "out"]
  /\ notifications' = [notifications EXCEPT ![l] = <<>>]
  /\ range' = [range EXCEPT ![l] = <<>>]
  /\ wtp' = [wtp EXCEPT ![l] = no_wait]
  /\ UNCHANGED <<alive, id, queue, listener, asleep, pos, until, result, clock>>

\* What the thread of a call does by itself; no step of it is a choice.
poll_step(l) == poll_set(l) \/ poll_return(l) \/ poll_sleep(l) \/ poll_clear(l) \/ poll_end(l)
=============================================================================
