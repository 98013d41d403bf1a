------------------------------ MODULE LockSpec ------------------------------
(***************************************************************************)
(* What a set of recursive locks promises: a lock has one holder, which    *)
(* may take it again; a thread that waits gets the lock from the release   *)
(* that frees it, or gives up; a free lock has nobody waiting.             *)
(***************************************************************************)
EXTENDS Integers

CONSTANTS Thread, Lock, Nobody, MaxDepth

VARIABLES
  holder,   \* holder of each lock, or Nobody
  depth,    \* how often its holder has taken it
  call      \* the lock a thread waits for or was granted, and which of the two

vars == <<holder, depth, call>>

Out == <<"out">>

Init ==
  /\ holder = [l \in Lock |-> Nobody]
  /\ depth = [l \in Lock |-> 0]
  /\ call = [t \in Thread |-> Out]

WaitingFor(l) == {t \in Thread : call[t] = <<"waiting", l>>}

\* A thread takes a free lock, or one that it holds.
Take(t, l) ==
  /\ call[t] = Out
  /\ holder[l] \in {Nobody, t}
  /\ depth[l] < MaxDepth
  /\ holder' = [holder EXCEPT ![l] = t]
  /\ depth' = [depth EXCEPT ![l] = @ + 1]
  /\ UNCHANGED call

Wait(t, l) ==
  /\ call[t] = Out
  /\ holder[l] \notin {Nobody, t}
  /\ call' = [call EXCEPT ![t] = <<"waiting", l>>]
  /\ UNCHANGED <<holder, depth>>

\* The last release passes the lock to one that waits, if there is one.
Release(t, l) ==
  /\ call[t] = Out
  /\ holder[l] = t
  /\ \/ /\ depth[l] > 1
        /\ depth' = [depth EXCEPT ![l] = @ - 1]
        /\ UNCHANGED <<holder, call>>
     \/ /\ depth[l] = 1 /\ WaitingFor(l) = {}
        /\ holder' = [holder EXCEPT ![l] = Nobody]
        /\ depth' = [depth EXCEPT ![l] = 0]
        /\ UNCHANGED call
     \/ /\ depth[l] = 1
        /\ \E w \in WaitingFor(l) :
             /\ holder' = [holder EXCEPT ![l] = w]
             /\ call' = [call EXCEPT ![w] = <<"granted", l>>]
        /\ UNCHANGED depth

GiveUp(t, l) ==
  /\ call[t] = <<"waiting", l>>
  /\ call' = [call EXCEPT ![t] = <<"failed", l>>]
  /\ UNCHANGED <<holder, depth>>

\* A take returns success to the holder, and only to it.
Return(t, l) ==
  /\ \/ call[t] = <<"granted", l>> /\ holder[l] = t /\ depth[l] = 1
     \/ call[t] = <<"failed", l>> /\ holder[l] # t
  /\ call' = [call EXCEPT ![t] = Out]
  /\ UNCHANGED <<holder, depth>>

Next ==
  \E t \in Thread, l \in Lock :
    Take(t, l) \/ Wait(t, l) \/ Release(t, l) \/ GiveUp(t, l) \/ Return(t, l)

Spec == Init /\ [][Next]_vars

=============================================================================
