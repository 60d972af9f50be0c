----------------------------- MODULE WorkSchedule -----------------------------
(***************************************************************************)
(* What a work queue promises, without the heap, the change flag, the      *)
(* condition variable and the records that stop the worker: works run one  *)
(* at a time, never early and the earliest first, and a work that has been *)
(* replaced or cancelled never runs as it was.                             *)
(***************************************************************************)
EXTENDS Naturals

CONSTANTS Times, Periods, Owners, Calls  \* the fields of a work

VARIABLES
  works,    \* the works that are to run
  running,  \* the work that runs, or none
  open,     \* may works be scheduled?
  clock     \* the time

schedulevars == <<works, running, open, clock>>

Work == [time : Times, owner : Owners, period : Periods, call : Calls]

Init == works = {} /\ running = {} /\ open = FALSE /\ clock = 1

Unlocked == running = {} /\ open /\ UNCHANGED <<running, open, clock>>

\* A work that is new in works is one of works', whatever its fields are.
Schedule == Unlocked /\ \E w \in works' \ works :
  /\ w \in Work
  /\ \A v \in works : w.call > v.call
  /\ works' = works \cup {w}

Replace == Unlocked /\ \E v \in works, w \in works' :
  /\ w \in Work /\ w.call = v.call
  /\ works' = (works \ {v}) \cup {w}

Cancel == Unlocked /\ \E v \in works : works' = works \ {v}

CancelOwner == Unlocked /\ \E o \in Owners : works' = {w \in works : w.owner # o}

Begin == \E w \in works :
  /\ running = {}
  /\ w.time <= clock
  /\ \A v \in works : w.time <= v.time
  /\ running' = {w} /\ works' = works \ {w}
  /\ UNCHANGED <<open, clock>>

\* A periodic work that ends is due one period after it was due.
End == \E w \in running :
  /\ running' = {}
  /\ \/ works' = works
     \/ w.period > 0 /\ works' = works \cup {[w EXCEPT !.time = @ + w.period]}
  /\ UNCHANGED <<open, clock>>

Stop == open /\ running = {} /\ open' = FALSE /\ works' = {} /\ UNCHANGED <<running, clock>>

Start == ~open /\ open' = TRUE /\ UNCHANGED <<works, running, clock>>

Tick == clock' > clock /\ UNCHANGED <<works, running, open>>

Next ==
  \/ Schedule \/ Replace \/ Cancel \/ CancelOwner \/ Begin \/ End \/ Stop \/ Start \/ Tick

Spec == Init /\ [][Next]_schedulevars
=============================================================================
