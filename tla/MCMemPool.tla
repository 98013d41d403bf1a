---- MODULE MCMemPool ----
(* Small instances of MemPool: three application threads and the idle thread. *)
EXTENDS MemPool
CONSTANTS main, idle, w1, w2

MCThread   == {main, idle, w1, w2}
MCInitPrio == (main :> 1) @@ (idle :> 2) @@ (w1 :> 0) @@ (w2 :> 1)
MCInitTick == [t \in MCThread |-> 1]
MCTimes    == {-1, 0, 2}
MCTimed    == {2}
====
