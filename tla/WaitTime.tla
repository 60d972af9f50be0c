------------------------------- MODULE WaitTime -------------------------------
(***************************************************************************)
(* The class wait_time_provider (src/mqmx/wait_time_provider.h): how long  *)
(* a poll may wait, and the time point until which it then waits.  Time    *)
(* points and durations are numbers of ticks of the steady clock.          *)
(***************************************************************************)
EXTENDS Integers

\* time_point_type (), the epoch: it stands for no time point.
EMPTY_TIME_POINT == 0
is_time_point_empty(t) == t = EMPTY_TIME_POINT

\* The constructors: no wait, an infinite one, a duration, a time point.
wait_time_provider(rel_time, abs_time, infinitely) ==
  [rel_time |-> rel_time, abs_time |-> abs_time, wait_infinitely |-> infinitely]
no_wait == wait_time_provider(0, EMPTY_TIME_POINT, FALSE)
WAIT_INFINITELY == wait_time_provider(0, EMPTY_TIME_POINT, TRUE)
wait_for(d) == wait_time_provider(d, EMPTY_TIME_POINT, FALSE)
wait_until(t) == wait_time_provider(0, t, FALSE)

\* Fault: the duration is not added to the current time.
get_time_point_from_epoch(w, now) ==
  IF is_time_point_empty(w.abs_time) THEN w.rel_time ELSE w.abs_time

\* get_time_point, when the reference clock shows the time now.
get_time_point(w, now) ==
  IF is_time_point_empty(w.abs_time)
  THEN IF w.rel_time = 0 THEN EMPTY_TIME_POINT ELSE now + w.rel_time
  ELSE w.abs_time
=============================================================================
