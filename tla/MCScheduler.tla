---- MODULE MCScheduler ----
(* Small instances of Scheduler: a main thread, the idle thread and two workers. *)
EXTENDS Scheduler
CONSTANTS main, idle, w1, w2

MCThread   == {main, idle, w1, w2}
\* One thread above two of equal priority.
MCInitPrio == (main :> 1) @@ (idle :> 2) @@ (w1 :> 0) @@ (w2 :> 1)
MCInitTick == [t \in MCThread |-> 1]
\* The main thread has a longer slice.
MCInitTickMixed == [t \in MCThread |-> IF t = main THEN 2 ELSE 1]
====
