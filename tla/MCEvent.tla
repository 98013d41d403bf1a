---- MODULE MCEvent ----
(* A small instance of Event: three application threads and the idle thread. *)
EXTENDS Event
CONSTANTS main, idle, w1, w2

MCThread   == {main, idle, w1, w2}
\* One thread above two of equal priority.
MCInitPrio == (main :> 1) @@ (idle :> 2) @@ (w1 :> 0) @@ (w2 :> 1)
MCInitTick == [t \in MCThread |-> 1]
MCTimes    == {0, 1}
MCOption   == [all : BOOLEAN, clear : BOOLEAN]
\* Both bits or one of both, to be cleared; bit 0, to be left.
MCRequest  == {<<{0, 1}, [all |-> TRUE, clear |-> TRUE]>>,
               <<{0, 1}, [all |-> FALSE, clear |-> TRUE]>>,
               <<{0}, [all |-> FALSE, clear |-> FALSE]>>}
====
