---- MODULE MCTimer ----
(* Small instances of Timer: a tick counter that wraps around after a few ticks. *)
EXTENDS Timer, TLC
Symmetric == Permutations(Timer)
====
