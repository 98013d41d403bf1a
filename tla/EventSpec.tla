----------------------------- MODULE EventSpec -----------------------------
(***************************************************************************)
(* What an event object promises, with no list, no order of waiters and no *)
(* interrupts: a receive gets bits that are set, in the combination it     *)
(* asked for; bits that are cleared by a receive go to that receive alone; *)
(* and no receive waits for what is there.                                 *)
(***************************************************************************)
EXTENDS Integers

CONSTANTS Thread, Bit, Option

VARIABLES
  flags,      \* the bits that are set
  call        \* the receive of each thread

vars == <<flags, call>>

Out == [at |-> "out"]
Wait(want, option) == [at |-> "wait", want |-> want, option |-> option]
Got(bits) == [at |-> "got", bits |-> bits]
Failed == [at |-> "failed"]

\* The combination of bits that a receive asks for is among the bits S.
Satisfied(S, want, option) == IF option.all THEN want \subseteq S ELSE want \cap S # {}

\* What it may be given then.
Given(S, want, option) == {B \in SUBSET (want \cap S) : Satisfied(B, want, option)}

Init == flags = {} /\ call = [t \in Thread |-> Out]

Waiters == {t \in Thread : call[t].at = "wait"}

\* The bits S are sent: some waiters, W, are given bits.
Send(S, W) ==
  LET F == flags \union S
      gets(t) == call'[t].bits
      clearing == {t \in W : call[t].option.clear}
  IN  /\ \A t \in W : \E B \in Given(F, call[t].want, call[t].option) : call'[t] = Got(B)
      /\ \A t \in Thread \ W : call'[t] = call[t]
      /\ \A t, u \in clearing : t # u => gets(t) \cap gets(u) = {}
      /\ flags' = F \ UNION {gets(t) : t \in clearing}
      /\ \A t \in Waiters \ W : ~Satisfied(flags', call[t].want, call[t].option)

\* A receive that needs not wait is given every bit it asked for that is set.
Receive(t, want, option) ==
  /\ call[t] = Out /\ Satisfied(flags, want, option)
  /\ call' = [call EXCEPT ![t] = Got(flags \cap want)]
  /\ flags' = IF option.clear THEN flags \ want ELSE flags

Block(t, want, option) ==
  /\ call[t] = Out /\ ~Satisfied(flags, want, option)
  /\ call' = [call EXCEPT ![t] = Wait(want, option)]
  /\ UNCHANGED flags

\* A timeout, or the object goes away.
Fail(t) ==
  /\ call[t].at = "wait"
  /\ call' = [call EXCEPT ![t] = Failed]
  /\ UNCHANGED flags

Reset ==
  /\ flags' = {}
  /\ call' = [t \in Thread |-> IF t \in Waiters THEN Failed ELSE call[t]]

Return(t) ==
  /\ call[t].at \in {"got", "failed"}
  /\ call' = [call EXCEPT ![t] = Out]
  /\ UNCHANGED flags

Next ==
  \/ \E S \in SUBSET Bit, W \in SUBSET Waiters : Send(S, W)
  \/ \E t \in Thread :
       \/ \E want \in SUBSET Bit, option \in Option :
            Receive(t, want, option) \/ Block(t, want, option)
       \/ Fail(t) \/ Return(t)
  \/ Reset

Spec == Init /\ [][Next]_vars

=============================================================================
