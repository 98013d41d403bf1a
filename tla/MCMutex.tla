---- MODULE MCMutex ----
(* Small instances of Mutex: three application threads and the idle thread. *)
EXTENDS Mutex
CONSTANTS main, idle, w1, w2

MCThread   == {main, idle, w1, w2}
MCInitPrio == (main :> 2) @@ (idle :> 3) @@ (w1 :> 0) @@ (w2 :> 1)
MCInitTick == [t \in MCThread |-> 1]
MCTimes    == {-1, 0, 1, 2}
====
