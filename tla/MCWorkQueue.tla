---- MODULE MCWorkQueue ----
(* Small instances of WorkQueue: two threads, at first above the worker. *)
EXTENDS WorkQueue
CONSTANTS main, idle, w1, wq

MCThread   == {main, idle, w1, wq}
MCInitPrio == (main :> 1) @@ (idle :> 3) @@ (w1 :> 0) @@ (wq :> 2)
MCInitTick == [t \in MCThread |-> 1]
====
