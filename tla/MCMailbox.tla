---- MODULE MCMailbox ----
(* A small instance of Mailbox: three application threads and the idle thread. *)
EXTENDS Mailbox
CONSTANTS main, idle, w1, w2

MCThread   == {main, idle, w1, w2}
\* One thread above two of equal priority.
MCInitPrio == (main :> 1) @@ (idle :> 2) @@ (w1 :> 0) @@ (w2 :> 1)
MCInitTick == [t \in MCThread |-> 1]
MCTimes    == {-1, 0, 1}
====
