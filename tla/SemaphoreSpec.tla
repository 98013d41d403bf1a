--------------------------- MODULE SemaphoreSpec ---------------------------
(***************************************************************************)
(* What a counting semaphore promises its callers, with no scheduler, no   *)
(* lists and no timers: every release serves one call that waits or, when  *)
(* nobody waits, is kept; a call that had to wait succeeds only because a  *)
(* release served it; and nobody waits while the semaphore is available.   *)
(***************************************************************************)
EXTENDS Integers

CONSTANTS Thread, MaxAvail

VARIABLES
  avail,    \* how many takes would succeed now
  call,     \* where the take of each thread is
  releases  \* how many releases there were, modulo 2: a release cannot pass for
            \* a step in which nothing happens, nor anything else for a release

vars == <<avail, call, releases>>

Init == avail \in 0 .. MaxAvail /\ call = [t \in Thread |-> "out"] /\ releases = 0

Blocked == {t \in Thread : call[t] = "waiting"}

TakeNow == avail > 0 /\ avail' = avail - 1 /\ UNCHANGED <<call, releases>>

Wait(t) ==
  /\ avail = 0 /\ call[t] = "out"
  /\ call' = [call EXCEPT ![t] = "waiting"]
  /\ UNCHANGED <<avail, releases>>

\* A release serves one waiting thread if there is one, else it is kept.
Release ==
  /\ releases' = 1 - releases
  /\ \/ Blocked = {} /\ avail < MaxAvail /\ avail' = avail + 1 /\ UNCHANGED call
     \/ \E t \in Blocked : call' = [call EXCEPT ![t] = "granted"] /\ UNCHANGED avail

\* The waiting time is over, or the semaphore is deleted.
GiveUp(t) ==
  /\ call[t] = "waiting"
  /\ call' = [call EXCEPT ![t] = "failed"]
  /\ UNCHANGED <<avail, releases>>

Reset ==
  /\ avail' \in 0 .. MaxAvail
  /\ call' = [t \in Thread |-> IF call[t] = "waiting" THEN "failed" ELSE call[t]]
  /\ UNCHANGED releases

\* The take returns success or failure to its caller.
Return(t) ==
  /\ call[t] \in {"granted", "failed"}
  /\ call' = [call EXCEPT ![t] = "out"]
  /\ UNCHANGED <<avail, releases>>

Next == TakeNow \/ Release \/ Reset \/ \E t \in Thread : Wait(t) \/ GiveUp(t) \/ Return(t)

Spec == Init /\ [][Next]_vars

=============================================================================
