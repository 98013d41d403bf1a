---------------------------- MODULE KernelProofs ----------------------------
(***************************************************************************)
(* What the routines of RtKernel do, the properties of Scheduler, and what *)
(* the steps of RtIpc preserve, for any number of threads and priorities,  *)
(* any time slices and any sleeping times.                                 *)
(*                                                                         *)
(* The first part has facts about lists and about the routines of the      *)
(* kernel, from any state h of the kernel.                                 *)
(*                                                                         *)
(* The second part has the theorems on Scheduler, as long as no thread is  *)
(* suspended, resumed or deleted by another one (NoHandles): those three   *)
(* calls act on a status they read before disabling interrupts, and        *)
(* several of the properties are false with them.                          *)
(*                                                                         *)
(* The third part is for the proofs of the services, whose threads call    *)
(* the kernel for themselves only (Ordinary).  With the scheduler locked a *)
(* service call that has to wait would return while its thread is still on *)
(* the suspend list, and a thread that is being started is suspended       *)
(* without being on a list; the other calls that are left out are those    *)
(* the second part leaves out.                                             *)
(***************************************************************************)
EXTENDS RtIpc, SequenceTheorems, WellFoundedInduction, FiniteSetTheorems, TLAPS

(***************************************************************************)
(* Part 1: the kernel                                                      *)
(***************************************************************************)

-----------------------------------------------------------------------------
(* Lists.                                                                   *)

\* A node removed from a list: what remains, and that the rest is as it was.
LEMMA UnlinkedAbsent ==
  ASSUME NEW s, NEW t, ~Contains(s, t)
  PROVE  Unlinked(s, t) = s
BY DEF Unlinked

\* rt_list_remove of a node that is on the list: one node fewer, the nodes before
\* it stay and the nodes behind it move up.
LEMMA UnlinkedPresent ==
  ASSUME NEW S, NEW s \in Seq(S), NEW t, Contains(s, t)
  PROVE  /\ Place(s, t) \in 1 .. Len(s) /\ s[Place(s, t)] = t
         /\ Unlinked(s, t) \in Seq(S)
         /\ Len(Unlinked(s, t)) = Len(s) - 1
         /\ \A j \in 1 .. Len(s) - 1 :
              Unlinked(s, t)[j] = IF j < Place(s, t) THEN s[j] ELSE s[j + 1]
<1>1. Place(s, t) \in 1 .. Len(s) /\ s[Place(s, t)] = t
  BY DEF Contains, Place
<1> DEFINE n == Len(s) - 1
           u == [i \in 1 .. n |-> IF i < Place(s, t) THEN s[i] ELSE s[i + 1]]
<1>2. n \in Nat
  BY <1>1
<1>3. \A j \in 1 .. n : (IF j < Place(s, t) THEN s[j] ELSE s[j + 1]) \in S
  BY <1>1
<1>4. u \in Seq(S) /\ Len(u) = n
  <2> HIDE DEF n
  <2>1. u \in [1 .. n -> S]
    BY <1>3
  <2> QED BY <1>2, <2>1, SeqDef
<1>5. Unlinked(s, t) = u
  BY DEF Unlinked
<1> HIDE DEF n
<1> QED BY <1>1, <1>4, <1>5 DEF n

\* rt_list_remove leaves a list of threads a list of threads.
LEMMA UnlinkedType ==
  ASSUME NEW S, NEW s \in Seq(S), NEW t
  PROVE  Unlinked(s, t) \in Seq(S)
BY UnlinkedAbsent, UnlinkedPresent

\* rt_list_remove takes off no other node.
LEMMA UnlinkedKeeps ==
  ASSUME NEW S, NEW s \in Seq(S), NEW t, NEW x, Contains(s, x), x # t
  PROVE  Contains(Unlinked(s, t), x)
<1>1. CASE Contains(s, t)
  <2> DEFINE i == Place(s, t)
             u == Unlinked(s, t)
  <2>1. /\ i \in 1 .. Len(s) /\ s[i] = t
        /\ u \in Seq(S)
        /\ Len(u) = Len(s) - 1
        /\ \A j \in 1 .. Len(s) - 1 : u[j] = IF j < i THEN s[j] ELSE s[j + 1]
    BY <1>1, UnlinkedPresent
  <2>2. PICK j \in 1 .. Len(s) : s[j] = x
    BY DEF Contains
  <2> HIDE DEF i, u
  <2>3. CASE j < i
    BY <2>1, <2>2, <2>3 DEF Contains, u
  <2>4. CASE j > i
    <3>1. j - 1 \in 1 .. Len(u) /\ u[j - 1] = x
      BY <2>1, <2>2, <2>4
    <3> QED BY <3>1 DEF Contains, u
  <2> QED BY <2>1, <2>2, <2>3, <2>4
<1>2. CASE ~Contains(s, t)
  BY <1>2, UnlinkedAbsent
<1> QED BY <1>1, <1>2

\* A node is on a list after rt_list_remove exactly when it was and is not the
\* removed one, and no node becomes linked twice.
LEMMA UnlinkedElements ==
  ASSUME NEW S, NEW s \in Seq(S), NEW t, IsInjective(s)
  PROVE  /\ IsInjective(Unlinked(s, t))
         /\ \A x : Contains(Unlinked(s, t), x) <=> Contains(s, x) /\ x # t
<1>1. CASE Contains(s, t)
  <2> DEFINE i == Place(s, t)
             u == Unlinked(s, t)
  <2>1. /\ i \in 1 .. Len(s) /\ s[i] = t
        /\ u \in Seq(S)
        /\ Len(u) = Len(s) - 1
        /\ \A j \in 1 .. Len(s) - 1 : u[j] = IF j < i THEN s[j] ELSE s[j + 1]
    BY <1>1, UnlinkedPresent
  <2>2. \A j, l \in 1 .. Len(s) : s[j] = s[l] => j = l
    BY DEF IsInjective
  <2> HIDE DEF i, u
  <2>3. IsInjective(u)
    <3> SUFFICES ASSUME NEW m \in 1 .. Len(u), NEW n \in 1 .. Len(u), u[m] = u[n]
                 PROVE  m = n
      BY <2>1 DEF IsInjective
    <3> QED BY <2>1, <2>2
  <2>4. ASSUME NEW x
        PROVE  Contains(u, x) <=> Contains(s, x) /\ x # t
    <3>1. ASSUME Contains(u, x) PROVE Contains(s, x) /\ x # t
      <4>1. PICK j \in 1 .. Len(u) : u[j] = x
        BY <3>1 DEF Contains
      <4>2. CASE j < i
        BY <4>1, <4>2, <2>1, <2>2 DEF Contains
      <4>3. CASE ~(j < i)
        <5>1. j + 1 \in 1 .. Len(s) /\ s[j + 1] = x /\ j + 1 # i
          BY <4>1, <4>3, <2>1
        <5> QED BY <5>1, <2>1, <2>2 DEF Contains
      <4> QED BY <4>2, <4>3
    <3>2. ASSUME Contains(s, x), x # t PROVE Contains(u, x)
      BY <3>2, UnlinkedKeeps DEF u
    <3> QED BY <3>1, <3>2
  <2> QED BY <2>3, <2>4 DEF u
<1>2. CASE ~Contains(s, t)
  BY <1>2, UnlinkedAbsent
<1> QED BY <1>1, <1>2

\* A node appended to a list it is not on (rt_list_insert_before the head).
LEMMA AppendElements ==
  ASSUME NEW S, NEW s \in Seq(S), NEW t \in S, IsInjective(s), ~Contains(s, t)
  PROVE  /\ Append(s, t) \in Seq(S)
         /\ Append(s, t) # << >>
         /\ IsInjective(Append(s, t))
         /\ \A x : Contains(Append(s, t), x) <=> Contains(s, x) \/ x = t
<1>1. /\ Append(s, t) \in Seq(S)
      /\ Len(Append(s, t)) = Len(s) + 1
      /\ \A j \in 1 .. Len(s) : Append(s, t)[j] = s[j]
      /\ Append(s, t)[Len(s) + 1] = t
  OBVIOUS
<1>2. IsInjective(Append(s, t))
  BY <1>1 DEF IsInjective, Contains
<1>3. \A x : Contains(Append(s, t), x) <=> Contains(s, x) \/ x = t
  BY <1>1 DEF Contains
<1> QED BY <1>1, <1>2, <1>3

\* A node put at the head of a list it is not on (rt_list_insert_after).
LEMMA PrependElements ==
  ASSUME NEW S, NEW s \in Seq(S), NEW t \in S, IsInjective(s), ~Contains(s, t)
  PROVE  /\ <<t>> \o s \in Seq(S)
         /\ IsInjective(<<t>> \o s)
         /\ \A x : Contains(<<t>> \o s, x) <=> Contains(s, x) \/ x = t
<1> DEFINE u == <<t>> \o s
<1>1. /\ u \in Seq(S) /\ Len(u) = Len(s) + 1
      /\ u[1] = t /\ \A j \in 2 .. Len(s) + 1 : u[j] = s[j - 1]
  OBVIOUS
<1> HIDE DEF u
<1>2. IsInjective(u)
  <2>1. \A i, j \in 1 .. Len(s) : s[i] = s[j] => i = j
    BY DEF IsInjective
  <2>2. \A j \in 1 .. Len(s) : s[j] # t
    BY DEF Contains
  <2> SUFFICES ASSUME NEW i \in 1 .. Len(u), NEW j \in 1 .. Len(u), u[i] = u[j]
               PROVE  i = j
    BY DEF IsInjective
  <2>3. i = 1 \/ (i - 1 \in 1 .. Len(s) /\ u[i] = s[i - 1])
    BY <1>1
  <2>4. j = 1 \/ (j - 1 \in 1 .. Len(s) /\ u[j] = s[j - 1])
    BY <1>1
  <2> QED BY <1>1, <2>1, <2>2, <2>3, <2>4
<1>3. \A x : Contains(u, x) => Contains(s, x) \/ x = t
  BY <1>1 DEF Contains
<1>4. ASSUME NEW x, Contains(s, x) PROVE Contains(u, x)
  <2>1. PICK j \in 1 .. Len(s) : s[j] = x
    BY <1>4 DEF Contains
  <2>2. j + 1 \in 1 .. Len(u) /\ u[j + 1] = x
    BY <1>1, <2>1
  <2> QED BY <2>2 DEF Contains
<1>5. Contains(u, t)
  BY <1>1 DEF Contains
<1> QED BY <1>1, <1>2, <1>3, <1>4, <1>5 DEF u

\* The first node of a list that is not empty is on the list.
LEMMA HeadElement ==
  ASSUME NEW S, NEW s \in Seq(S), s # << >>
  PROVE  Head(s) \in S /\ Contains(s, Head(s))
BY DEF Contains

\* A list is empty (rt_list_isempty) exactly when no node is on it.
LEMMA EmptyHasNone ==
  ASSUME NEW S, NEW s \in Seq(S)
  PROVE  s = << >> <=> \A x : ~Contains(s, x)
BY DEF Contains

\* What is on a list after rt_list_remove was on it before.
LEMMA UnlinkedSubset ==
  ASSUME NEW S, NEW s \in Seq(S), NEW t, NEW x, Contains(Unlinked(s, t), x)
  PROVE  Contains(s, x)
<1>1. CASE Contains(s, t)
  <2>1. PICK j \in 1 .. Len(s) - 1 : Unlinked(s, t)[j] = x
    BY <1>1, UnlinkedPresent DEF Contains
  <2>2. s[j] = x \/ s[j + 1] = x
    BY <1>1, <2>1, UnlinkedPresent
  <2> QED BY <2>2 DEF Contains
<1>2. CASE ~Contains(s, t)
  BY <1>2, UnlinkedAbsent
<1> QED BY <1>1, <1>2

\* The set of the elements of a list.
LEMMA ListSet == ASSUME NEW s, NEW x PROVE x \in ToSet(s) <=> Contains(s, x)
BY DEF ToSet, Contains

-----------------------------------------------------------------------------
(* The ready table.                                                         *)

\* The bitmap says which lists are not empty, and no list holds a thread twice.
ListsOK(h) ==
  /\ h.group = {p \in Prio : h.ready[p] # << >>}
  /\ \A p \in Prio : IsInjective(h.ready[p])

\* The fields the scheduler never changes.
SameButQueues(h, u) ==
  /\ u.prio = h.prio /\ u.slice = h.slice /\ u.error = h.error /\ u.nest = h.nest
  /\ u.timers = h.timers /\ u.left = h.left
  /\ \A x : Contains(u.defunct, x) => Contains(h.defunct, x)
  /\ IsInjective(h.defunct) => IsInjective(u.defunct)

\* Unlinking a thread from whatever list it is on.
LEMMA ListRemoveFacts ==
  ASSUME NEW h \in Kernel, NEW t \in Thread, \A p \in Prio : IsInjective(h.ready[p])
  PROVE  LET u == rt_list_remove(h, t) IN
         /\ u \in Kernel
         /\ SameButQueues(h, u) /\ u.cur = h.cur /\ u.stat = h.stat /\ u.group = h.group
         /\ u.defunct = Unlinked(h.defunct, t)
         /\ u.ready = [p \in Prio |-> Unlinked(h.ready[p], t)]
         /\ \A p \in Prio : IsInjective(u.ready[p])
         /\ \A p \in Prio, x \in Thread :
              Contains(u.ready[p], x) <=> Contains(h.ready[p], x) /\ x # t
<1> DEFINE u == rt_list_remove(h, t)
<1>1. /\ h.ready \in [Prio -> Seq(Thread)] /\ h.wait \in [WaitList -> Seq(Thread)]
      /\ h.defunct \in Seq(Thread)
  BY DEF Kernel
<1>2. /\ [p \in Prio |-> Unlinked(h.ready[p], t)] \in [Prio -> Seq(Thread)]
      /\ [w \in WaitList |-> Unlinked(h.wait[w], t)] \in [WaitList -> Seq(Thread)]
      /\ Unlinked(h.defunct, t) \in Seq(Thread)
  BY <1>1, UnlinkedType
<1>3. u \in Kernel
  BY <1>2 DEF Kernel, rt_list_remove
<1>4. /\ u.prio = h.prio /\ u.slice = h.slice /\ u.error = h.error /\ u.nest = h.nest
      /\ u.timers = h.timers /\ u.left = h.left
      /\ u.cur = h.cur /\ u.stat = h.stat /\ u.group = h.group
      /\ u.defunct = Unlinked(h.defunct, t)
      /\ u.ready = [p \in Prio |-> Unlinked(h.ready[p], t)]
  BY DEF Kernel, rt_list_remove
<1>5. \A x : Contains(u.defunct, x) => Contains(h.defunct, x)
  BY <1>1, <1>4, UnlinkedSubset
<1>6. IsInjective(h.defunct) => IsInjective(u.defunct)
  BY <1>1, <1>4, UnlinkedElements
<1>7. ASSUME NEW p \in Prio
      PROVE  /\ IsInjective(u.ready[p])
             /\ \A x \in Thread : Contains(u.ready[p], x) <=> Contains(h.ready[p], x) /\ x # t
  <2>1. u.ready[p] = Unlinked(h.ready[p], t) /\ h.ready[p] \in Seq(Thread)
    BY <1>1, <1>4
  <2> QED BY <2>1, UnlinkedElements
<1> QED BY <1>3, <1>4, <1>5, <1>6, <1>7 DEF SameButQueues

\* rt_schedule_remove_thread keeps the bitmap right as long as the thread is on
\* no list but that of its own priority.
LEMMA RemoveFacts ==
  ASSUME NEW h \in Kernel, NEW t \in Thread, ListsOK(h),
         \A p \in Prio : Contains(h.ready[p], t) => p = h.prio[t]
  PROVE  LET u == rt_schedule_remove_thread(h, t) IN
         /\ u \in Kernel /\ ListsOK(u)
         /\ SameButQueues(h, u) /\ u.cur = h.cur /\ u.stat = h.stat
         /\ u.defunct = Unlinked(h.defunct, t)
         /\ \A p \in Prio, x \in Thread :
              Contains(u.ready[p], x) <=> Contains(h.ready[p], x) /\ x # t
<1> DEFINE v == rt_list_remove(h, t)
           u == rt_schedule_remove_thread(h, t)
           q == h.prio[t]
<1>1. /\ v \in Kernel
      /\ SameButQueues(h, v) /\ v.cur = h.cur /\ v.stat = h.stat /\ v.group = h.group
      /\ v.defunct = Unlinked(h.defunct, t)
      /\ v.ready = [p \in Prio |-> Unlinked(h.ready[p], t)]
      /\ \A p \in Prio : IsInjective(v.ready[p])
      /\ \A p \in Prio, x \in Thread :
           Contains(v.ready[p], x) <=> Contains(h.ready[p], x) /\ x # t
  BY ListRemoveFacts DEF ListsOK
<1>2. u = IF v.ready[q] = << >> THEN [v EXCEPT !.group = @ \ {q}] ELSE v
  BY DEF rt_schedule_remove_thread
<1>3. \A p \in Prio \ {q} : v.ready[p] = h.ready[p]
  BY <1>1, UnlinkedAbsent DEF Kernel
<1>4. q \in Prio /\ v.group \in SUBSET Prio
  BY <1>1 DEF Kernel
<1>5. v.ready[q] # << >> => h.ready[q] # << >>
  <2>1. CASE Contains(h.ready[q], t)
    BY <2>1, EmptyHasNone, <1>4 DEF Kernel
  <2>2. CASE ~Contains(h.ready[q], t)
    BY <2>2, <1>1, <1>4, UnlinkedAbsent
  <2> QED BY <2>1, <2>2
<1> HIDE DEF v, u, q
<1>6. /\ u \in Kernel /\ u.ready = v.ready
      /\ u.prio = v.prio /\ u.slice = v.slice /\ u.error = v.error /\ u.nest = v.nest
      /\ u.timers = v.timers /\ u.left = v.left /\ u.cur = v.cur /\ u.stat = v.stat
      /\ u.defunct = v.defunct
      /\ u.group = IF v.ready[q] = << >> THEN v.group \ {q} ELSE v.group
  BY <1>1, <1>2, <1>4 DEF Kernel
<1>7. u.group = {p \in Prio : u.ready[p] # << >>}
  BY <1>1, <1>3, <1>4, <1>5, <1>6 DEF ListsOK
<1> QED BY <1>1, <1>6, <1>7 DEF ListsOK, SameButQueues, v, u

\* rt_schedule_insert_thread of a thread that is not current and on no list.
LEMMA InsertFacts ==
  ASSUME NEW h \in Kernel, NEW t \in Thread, ListsOK(h), t # h.cur,
         \A p \in Prio : ~Contains(h.ready[p], t)
  PROVE  LET u == rt_schedule_insert_thread(h, t) IN
         /\ u \in Kernel /\ ListsOK(u)
         /\ SameButQueues(h, u) /\ u.cur = h.cur /\ u.defunct = h.defunct
         /\ u.stat = [h.stat EXCEPT ![t] = "READY"]
         /\ \A p \in Prio, x \in Thread :
              Contains(u.ready[p], x) <=> Contains(h.ready[p], x) \/ (x = t /\ p = h.prio[t])
<1> DEFINE u == rt_schedule_insert_thread(h, t)
           q == h.prio[t]
           l == Append(h.ready[q], t)
<1>1. q \in Prio /\ h.ready[q] \in Seq(Thread) /\ h.ready \in [Prio -> Seq(Thread)]
  BY DEF Kernel
<1>2. /\ l \in Seq(Thread) /\ l # << >> /\ IsInjective(l)
      /\ \A x : Contains(l, x) <=> Contains(h.ready[q], x) \/ x = t
  BY <1>1, AppendElements DEF ListsOK
<1>3. u = [h EXCEPT !.stat[t] = "READY", !.ready[q] = l, !.group = @ \union {q}]
  BY DEF rt_schedule_insert_thread, SetStat, Kernel
<1> HIDE DEF u, l, q
<1>4. /\ u \in Kernel
      /\ u.prio = h.prio /\ u.slice = h.slice /\ u.error = h.error /\ u.nest = h.nest
      /\ u.timers = h.timers /\ u.left = h.left /\ u.cur = h.cur /\ u.defunct = h.defunct
      /\ u.stat = [h.stat EXCEPT ![t] = "READY"]
      /\ u.group = h.group \union {q}
      /\ u.ready = [h.ready EXCEPT ![q] = l]
  BY <1>1, <1>2, <1>3 DEF Kernel, Stat
<1>5. ListsOK(u)
  BY <1>1, <1>2, <1>4 DEF ListsOK
<1>6. \A p \in Prio, x \in Thread :
        Contains(u.ready[p], x) <=> Contains(h.ready[p], x) \/ (x = t /\ p = q)
  BY <1>1, <1>2, <1>4
<1> QED BY <1>4, <1>5, <1>6 DEF SameButQueues, u, q

-----------------------------------------------------------------------------
(* The scheduler.                                                           *)

\* The ready table agrees with the status words.
TableOK(h) ==
  /\ ListsOK(h)
  /\ \A t \in Thread, p \in Prio :
       Contains(h.ready[p], t) <=> (h.stat[t] = "READY" /\ p = h.prio[t])

\* Only the current thread is RUNNING, and it is a started thread that is not
\* in the ready table.
CurrentOK(h) ==
  /\ \A t \in Thread : h.stat[t] = "RUNNING" => t = h.cur
  /\ h.stat[h.cur] \in {"RUNNING", "SUSPEND", "CLOSE"}

\* No READY thread has a higher priority than the current one.
IsHighest(h) ==
  \A t \in Thread : h.stat[t] = "READY" => h.prio[h.cur] <= h.prio[t]

\* A set of naturals has a least element, and Min is it.
LEMMA NatLeast ==
  ASSUME NEW S, S \subseteq Nat, S # {}
  PROVE  Min(S) \in S /\ \A m \in S : Min(S) <= m
<1>1. PICK n \in S : \A m \in S : ~(<<m, n>> \in OpToRel(<, Nat))
  BY NatLessThanWellFounded, WFMin
<1>2. ASSUME NEW m \in S PROVE n <= m
  <2>1. m \in Nat /\ n \in Nat
    OBVIOUS
  <2>2. m < n => <<m, n>> \in {ss \in Nat \X Nat : ss[1] < ss[2]}
    BY <2>1
  <2>3. OpToRel(<, Nat) = {ss \in Nat \X Nat : ss[1] < ss[2]}
    BY DEF OpToRel
  <2>4. ~(m < n)
    BY <1>1, <2>2, <2>3, Zenon
  <2> QED BY <2>1, <2>4
<1> QED BY <1>2 DEF Min

\* The first bit of a bitmap that is not empty.
LEMMA HighestReadyFacts ==
  ASSUME NEW h \in Kernel, h.group # {}
  PROVE  HighestReady(h) \in h.group /\ \A p \in h.group : HighestReady(h) <= p
<1>1. h.group \subseteq Nat
  BY PrioAssumption DEF Kernel, Prio
<1> QED BY <1>1, NatLeast DEF HighestReady

\* An assignment to thread->stat touches no list and no other status.
LEMMA SetStatFacts ==
  ASSUME NEW h \in Kernel, NEW t \in Thread, NEW s \in Stat
  PROVE  LET u == SetStat(h, t, s) IN
         /\ u \in Kernel
         /\ SameButQueues(h, u) /\ u.cur = h.cur /\ u.defunct = h.defunct
         /\ u.ready = h.ready /\ u.group = h.group
         /\ u.stat = [h.stat EXCEPT ![t] = s]
BY DEF SetStat, Kernel, SameButQueues

\* What rt_schedule guarantees when it is not locked and some thread is ready:
\* the table stays consistent, the highest thread runs, and a thread that is
\* neither READY nor RUNNING is not touched.
ScheduleEffect(h, u) ==
  /\ u \in Kernel /\ TableOK(u) /\ CurrentOK(u)
  /\ SameButQueues(h, u)
  /\ u.cur = h.cur \/ h.stat[u.cur] = "READY"
  /\ \A t \in Thread :
       IF h.stat[t] \in {"READY", "RUNNING"}
       THEN u.stat[t] \in {"READY", "RUNNING"}
       ELSE u.stat[t] = h.stat[t] /\ (Contains(h.defunct, t) => Contains(u.defunct, t))

\* rt_schedule with a thread ready: the ready table stays right, and the highest
\* thread is current, RUNNING and off the table afterwards.
LEMMA DispatchFacts ==
  ASSUME NEW h \in Kernel, TableOK(h), CurrentOK(h), h.group # {}
  PROVE  LET u == Dispatch(h) IN
         /\ ScheduleEffect(h, u)
         /\ u.stat[u.cur] = "RUNNING" /\ IsHighest(u)
<1> DEFINE from == h.cur
           to   == HighestThread(h)
           hp   == HighestReady(h)
           u    == Dispatch(h)
<1>1. hp \in h.group /\ (\A p \in h.group : hp <= p) /\ hp \in Prio
  BY HighestReadyFacts DEF Kernel
<1>2. h.ready[hp] # << >> /\ h.ready[hp] \in Seq(Thread)
  BY <1>1 DEF TableOK, ListsOK, Kernel
<1>3. to \in Thread /\ Contains(h.ready[hp], to)
  BY <1>2, HeadElement DEF HighestThread
<1>4. h.stat[to] = "READY" /\ h.prio[to] = hp /\ to # from /\ from \in Thread
  BY <1>1, <1>3 DEF TableOK, CurrentOK, Kernel
<1>5. \A x \in Thread : h.stat[x] = "READY" => hp <= h.prio[x]
  <2> SUFFICES ASSUME NEW x \in Thread, h.stat[x] = "READY" PROVE hp <= h.prio[x]
    OBVIOUS
  <2>1. h.prio[x] \in Prio /\ h.ready[h.prio[x]] \in Seq(Thread)
    BY DEF Kernel
  <2>2. Contains(h.ready[h.prio[x]], x)
    BY <2>1 DEF TableOK
  <2>3. h.ready[h.prio[x]] # << >>
    BY <2>1, <2>2, EmptyHasNone
  <2> QED BY <1>1, <2>1, <2>3 DEF TableOK, ListsOK
<1>6. hp \in Int /\ \A x \in Thread : h.prio[x] \in Int
  BY <1>1, PrioAssumption DEF Prio, Kernel
<1> HIDE DEF from, to, hp, u
<1>7. CASE h.stat[from] = "RUNNING" /\ h.prio[from] < hp
  <2> DEFINE v == rt_schedule_remove_thread(h, from)
  <2>1. u = SetStat(v, from, "RUNNING")
    BY <1>7 DEF u, Dispatch, from, hp
  <2>2. /\ v \in Kernel /\ ListsOK(v)
        /\ SameButQueues(h, v) /\ v.cur = h.cur /\ v.stat = h.stat
        /\ v.defunct = Unlinked(h.defunct, from)
        /\ \A p \in Prio, x \in Thread :
             Contains(v.ready[p], x) <=> Contains(h.ready[p], x) /\ x # from
    BY <1>4, RemoveFacts DEF TableOK
  <2> HIDE DEF v
  <2>3. /\ u \in Kernel
        /\ SameButQueues(v, u) /\ u.cur = v.cur /\ u.defunct = v.defunct
        /\ u.ready = v.ready /\ u.group = v.group
        /\ u.stat = [v.stat EXCEPT ![from] = "RUNNING"]
    <3>1. "RUNNING" \in Stat
      BY DEF Stat
    <3> QED BY <1>4, <2>1, <2>2, <3>1, SetStatFacts
  <2>4. u.stat = h.stat
    BY <1>4, <1>7, <2>2, <2>3 DEF Kernel
  <2>5. TableOK(u)
    BY <1>4, <1>7, <2>2, <2>3, <2>4 DEF TableOK, ListsOK, SameButQueues
  <2>6. SameButQueues(h, u) /\ u.cur = h.cur
    BY <2>2, <2>3 DEF SameButQueues
  <2>7. CurrentOK(u) /\ u.stat[u.cur] = "RUNNING"
    BY <1>7, <2>4, <2>6 DEF CurrentOK, from
  <2>8. IsHighest(u)
    BY <1>4, <1>5, <1>6, <1>7, <2>4, <2>6 DEF IsHighest, SameButQueues, from
  <2>9. \A x \in Thread \ {from} : Contains(h.defunct, x) => Contains(u.defunct, x)
    BY <2>2, <2>3, UnlinkedKeeps DEF Kernel
  <2> QED BY <1>7, <2>3, <2>4, <2>5, <2>6, <2>7, <2>8, <2>9 DEF ScheduleEffect, u
<1>8. CASE ~(h.stat[from] = "RUNNING" /\ h.prio[from] < hp)
  <2> DEFINE m == [h EXCEPT !.cur = to]
             q == IF h.stat[from] = "RUNNING" THEN rt_schedule_insert_thread(m, from) ELSE m
             v == rt_schedule_remove_thread(q, to)
  <2>1. u = SetStat(v, to, "RUNNING")
    BY <1>4, <1>8 DEF u, Dispatch, from, to, hp
  <2>2. /\ m \in Kernel /\ ListsOK(m) /\ SameButQueues(h, m) /\ m.cur = to
        /\ m.defunct = h.defunct
        /\ m.stat = h.stat /\ m.ready = h.ready
    BY <1>3 DEF Kernel, TableOK, ListsOK, SameButQueues
  <2>3. \A p \in Prio : ~Contains(m.ready[p], from)
    BY <1>4, <2>2 DEF TableOK, CurrentOK, from
  <2> HIDE DEF m
  <2>4. /\ q \in Kernel /\ ListsOK(q) /\ SameButQueues(h, q) /\ q.cur = to
        /\ q.defunct = h.defunct
        /\ q.stat = IF h.stat[from] = "RUNNING" THEN [h.stat EXCEPT ![from] = "READY"] ELSE h.stat
        /\ \A p \in Prio, x \in Thread :
             Contains(q.ready[p], x) <=>
               (Contains(h.ready[p], x) \/ (h.stat[from] = "RUNNING" /\ x = from /\ p = h.prio[from]))
    <3>1. CASE h.stat[from] = "RUNNING"
      <4>1. q = rt_schedule_insert_thread(m, from)
        BY <3>1
      <4>2. from # m.cur
        BY <1>4, <2>2
      <4> HIDE DEF q
      <4> QED BY <1>4, <2>2, <2>3, <3>1, <4>1, <4>2, InsertFacts, SMTT(30) DEF SameButQueues
    <3>2. CASE h.stat[from] # "RUNNING"
      BY <2>2, <3>2
    <3> QED BY <3>1, <3>2
  <2> HIDE DEF q
  <2>5. q.prio = h.prio /\ \A p \in Prio : Contains(q.ready[p], to) => p = q.prio[to]
    BY <1>3, <1>4, <2>4 DEF TableOK, SameButQueues
  <2>6. /\ v \in Kernel /\ ListsOK(v) /\ SameButQueues(q, v) /\ v.cur = q.cur /\ v.stat = q.stat
        /\ v.defunct = Unlinked(q.defunct, to)
        /\ \A p \in Prio, x \in Thread :
             Contains(v.ready[p], x) <=> Contains(q.ready[p], x) /\ x # to
    BY <1>3, <2>4, <2>5, RemoveFacts
  <2> HIDE DEF v
  <2>7. /\ u \in Kernel /\ SameButQueues(v, u) /\ u.cur = v.cur /\ u.defunct = v.defunct
        /\ u.ready = v.ready /\ u.group = v.group
        /\ u.stat = [v.stat EXCEPT ![to] = "RUNNING"]
    BY <1>3, <2>1, <2>6, SetStatFacts DEF Stat
  <2>8. SameButQueues(h, u) /\ u.cur = to
    BY <2>4, <2>6, <2>7 DEF SameButQueues
  <2>9. \A x \in Thread :
          u.stat[x] = IF x = to THEN "RUNNING"
                      ELSE IF x = from /\ h.stat[from] = "RUNNING" THEN "READY" ELSE h.stat[x]
    <3>1. h.stat \in [Thread -> Stat] /\ v.stat \in [Thread -> Stat]
      BY <2>6 DEF Kernel
    <3>2. \A x \in Thread : u.stat[x] = IF x = to THEN "RUNNING" ELSE v.stat[x]
      BY <1>3, <2>7, <3>1
    <3>3. \A x \in Thread :
            v.stat[x] = IF x = from /\ h.stat[from] = "RUNNING" THEN "READY" ELSE h.stat[x]
      BY <1>4, <2>4, <2>6, <3>1
    <3> QED BY <3>2, <3>3
  <2>10. TableOK(u)
    <3>1. ListsOK(u)
      BY <2>6, <2>7 DEF ListsOK
    <3>2. ASSUME NEW x \in Thread, NEW p \in Prio
          PROVE  Contains(u.ready[p], x) <=> (u.stat[x] = "READY" /\ p = u.prio[x])
      BY <1>3, <1>4, <2>4, <2>6, <2>7, <2>8, <2>9 DEF TableOK, SameButQueues
    <3> QED BY <3>1, <3>2 DEF TableOK
  <2>11. CurrentOK(u) /\ u.stat[u.cur] = "RUNNING"
    BY <1>3, <1>4, <2>8, <2>9 DEF CurrentOK, from
  <2>12. IsHighest(u)
    BY <1>3, <1>4, <1>5, <1>6, <1>8, <2>8, <2>9 DEF IsHighest, SameButQueues
  <2>13. \A x \in Thread \ {to} : Contains(h.defunct, x) => Contains(u.defunct, x)
    BY <2>4, <2>6, <2>7, UnlinkedKeeps DEF Kernel
  <2> QED BY <1>3, <1>4, <2>7, <2>8, <2>9, <2>10, <2>11, <2>12, <2>13 DEF ScheduleEffect, u, from
<1> QED BY <1>7, <1>8 DEF u

\* rt_schedule in any state: locked or with nothing ready it does nothing.
LEMMA ScheduleFacts ==
  ASSUME NEW h \in Kernel, TableOK(h), CurrentOK(h)
  PROVE  LET u == rt_schedule(h) IN
         /\ ScheduleEffect(h, u)
         /\ h.nest # 0 => u = h
         /\ h.nest = 0 /\ h.group # {} => u.stat[u.cur] = "RUNNING" /\ IsHighest(u)
<1>1. CASE h.nest = 0 /\ h.group # {}
  BY <1>1, DispatchFacts DEF rt_schedule
<1>2. CASE ~(h.nest = 0 /\ h.group # {})
  <2>1. rt_schedule(h) = h
    BY <1>2 DEF rt_schedule
  <2>2. ScheduleEffect(h, h)
    BY DEF ScheduleEffect, SameButQueues
  <2> QED BY <1>2, <2>1, <2>2
<1> QED BY <1>1, <1>2

-----------------------------------------------------------------------------
(* The kernel invariant and the routines that preserve it.                  *)

\* Only suspended threads have a timer, and none has two.
TimersOK(h) ==
  /\ IsInjective(h.timers)
  /\ \A t \in Thread : TimerActive(h, t) => h.stat[t] = "SUSPEND"

KernelOK(h) ==
  /\ h \in Kernel /\ TableOK(h) /\ CurrentOK(h) /\ TimersOK(h)
  /\ h.stat[Idle] \in {"READY", "RUNNING"}

\* The current thread is the right one.
Preempts(h) == h.stat[h.cur] = "RUNNING" /\ IsHighest(h)

\* What a reschedule or an interrupt may do to threads that do not take part:
\* ended, new and indefinitely suspended threads stay as they are.
Harmless(h, u) ==
  /\ u.cur = h.cur \/ h.stat[u.cur] = "READY" \/ TimerActive(h, u.cur)
  /\ \A t \in Thread :
       /\ h.stat[t] \in {"NONE", "INIT", "CLOSE"} =>
            u.stat[t] = h.stat[t] /\ (Contains(h.defunct, t) => Contains(u.defunct, t))
       /\ h.stat[t] \notin {"NONE", "INIT", "CLOSE"} =>
            u.stat[t] \notin {"NONE", "INIT", "CLOSE"}
       /\ h.stat[t] # "SUSPEND" => u.stat[t] # "SUSPEND"
       /\ h.stat[t] = "SUSPEND" /\ ~TimerActive(h, t) => u.stat[t] = "SUSPEND"
       /\ TimerActive(u, t) => TimerActive(h, t)
       /\ TimerActive(h, t) /\ u.stat[t] = "SUSPEND" => TimerActive(u, t)
  /\ \A x : Contains(u.defunct, x) => Contains(h.defunct, x)
  /\ IsInjective(h.defunct) => IsInjective(u.defunct)

\* The same with the scheduler's lock respected.
Undisturbed(h, u) ==
  /\ u.nest = h.nest /\ (h.nest # 0 => u.cur = h.cur)
  /\ Harmless(h, u)

\* A READY thread has its bit set: rt_schedule finds somebody to switch to.
LEMMA GroupNotEmpty ==
  ASSUME NEW h \in Kernel, TableOK(h), NEW t \in Thread, h.stat[t] = "READY"
  PROVE  h.group # {}
<1>1. h.prio[t] \in Prio /\ h.ready[h.prio[t]] \in Seq(Thread)
  BY DEF Kernel
<1>2. Contains(h.ready[h.prio[t]], t)
  BY <1>1 DEF TableOK
<1>3. h.ready[h.prio[t]] # << >>
  BY <1>1, <1>2, EmptyHasNone
<1> QED BY <1>1, <1>3 DEF TableOK, ListsOK

\* rt_schedule preserves the kernel invariant, and unless it is locked the
\* highest thread runs afterwards: the idle thread is always there to run.
LEMMA ScheduleOK ==
  ASSUME NEW h, KernelOK(h)
  PROVE  LET u == rt_schedule(h) IN
         /\ KernelOK(u) /\ Undisturbed(h, u)
         /\ h.nest = 0 => Preempts(u)
         /\ u.timers = h.timers /\ u.left = h.left
<1> DEFINE u == rt_schedule(h)
<1>1. /\ ScheduleEffect(h, u)
      /\ h.nest # 0 => u = h
      /\ h.nest = 0 /\ h.group # {} => u.stat[u.cur] = "RUNNING" /\ IsHighest(u)
  BY ScheduleFacts DEF KernelOK
<1>2. h.nest = 0 /\ h.group = {} => u = h
  BY DEF u, rt_schedule
<1> HIDE DEF u
<1>3. u.timers = h.timers /\ u.left = h.left /\ u.nest = h.nest
  BY <1>1 DEF ScheduleEffect, SameButQueues
<1>4. \A t \in Thread : TimerActive(u, t) <=> TimerActive(h, t)
  BY <1>3 DEF TimerActive
<1>5. TimersOK(u)
  BY <1>1, <1>3, <1>4 DEF KernelOK, TimersOK, ScheduleEffect
<1>6. KernelOK(u)
  BY <1>1, <1>5, ThreadAssumption DEF KernelOK, ScheduleEffect
<1>7. Undisturbed(h, u)
  BY <1>1, <1>3, <1>4 DEF Undisturbed, Harmless, ScheduleEffect, SameButQueues, KernelOK, TimersOK
<1>8. ASSUME h.nest = 0 PROVE Preempts(u)
  <2>1. CASE h.group # {}
    BY <1>1, <1>8, <2>1 DEF Preempts
  <2>2. CASE h.group = {}
    <3>1. u = h
      BY <1>2, <1>8, <2>2
    <3>2. \A t \in Thread : h.stat[t] # "READY"
      BY <2>2, GroupNotEmpty DEF KernelOK
    <3>3. h.stat[Idle] = "RUNNING" /\ Idle = h.cur
      BY <3>2, ThreadAssumption DEF KernelOK, CurrentOK
    <3> QED BY <3>1, <3>2, <3>3 DEF Preempts, IsHighest
  <2> QED BY <2>1, <2>2
<1> QED BY <1>3, <1>6, <1>7, <1>8 DEF u

\* Stopping a timer.
LEMMA TimerStopOK ==
  ASSUME NEW h, KernelOK(h), NEW t \in Thread
  PROVE  LET u == rt_timer_stop(h, t) IN
         /\ KernelOK(u)
         /\ u.stat = h.stat /\ u.prio = h.prio /\ u.cur = h.cur /\ u.nest = h.nest
         /\ u.ready = h.ready /\ u.group = h.group /\ u.defunct = h.defunct
         /\ u.slice = h.slice /\ u.error = h.error
         /\ \A x \in Thread : TimerActive(u, x) <=> (TimerActive(h, x) /\ x # t)
<1> DEFINE u == rt_timer_stop(h, t)
<1>1. h \in Kernel /\ h.timers \in Seq(Thread) /\ IsInjective(h.timers)
  BY DEF KernelOK, TimersOK, Kernel
<1>2. Unlinked(h.timers, t) \in Seq(Thread)
  BY <1>1, UnlinkedType
<1>3. /\ u \in Kernel
      /\ u.stat = h.stat /\ u.prio = h.prio /\ u.cur = h.cur /\ u.nest = h.nest
      /\ u.ready = h.ready /\ u.group = h.group /\ u.defunct = h.defunct
      /\ u.slice = h.slice /\ u.error = h.error
      /\ u.timers = Unlinked(h.timers, t)
  <2> DEFINE l == [h.left EXCEPT ![t] = 0]
  <2>1. l \in [Thread -> Int]
    BY <1>1 DEF Kernel
  <2>2. u = [h EXCEPT !.timers = Unlinked(h.timers, t), !.left = l]
    BY <1>1 DEF rt_timer_stop, Kernel
  <2> HIDE DEF u, l
  <2> QED BY <1>1, <1>2, <2>1, <2>2 DEF Kernel
<1> HIDE DEF u
<1>4. /\ IsInjective(u.timers)
      /\ \A x \in Thread : TimerActive(u, x) <=> (TimerActive(h, x) /\ x # t)
  BY <1>1, <1>3, UnlinkedElements DEF TimerActive
<1>5. TableOK(u) /\ CurrentOK(u)
  BY <1>3 DEF KernelOK, TableOK, ListsOK, CurrentOK
<1>6. TimersOK(u)
  BY <1>3, <1>4 DEF KernelOK, TimersOK
<1>7. KernelOK(u)
  BY <1>3, <1>5, <1>6 DEF KernelOK
<1> QED BY <1>3, <1>4, <1>7 DEF u

\* Taking a thread that is not READY off the list it waits on.
LEMMA ListRemoveOK ==
  ASSUME NEW h, KernelOK(h), NEW t \in Thread, h.stat[t] # "READY"
  PROVE  LET u == rt_list_remove(h, t) IN
         /\ KernelOK(u) /\ SameButQueues(h, u) /\ u.cur = h.cur /\ u.stat = h.stat
         /\ u.defunct = Unlinked(h.defunct, t) /\ u.ready = h.ready
<1> DEFINE u == rt_list_remove(h, t)
<1>1. /\ u \in Kernel
      /\ SameButQueues(h, u) /\ u.cur = h.cur /\ u.stat = h.stat /\ u.group = h.group
      /\ u.defunct = Unlinked(h.defunct, t)
      /\ u.ready = [p \in Prio |-> Unlinked(h.ready[p], t)]
  BY ListRemoveFacts DEF KernelOK, TableOK, ListsOK
<1>2. h.ready \in [Prio -> Seq(Thread)] /\ \A p \in Prio : ~Contains(h.ready[p], t)
  BY DEF KernelOK, TableOK, Kernel
<1>3. u.ready = h.ready
  BY <1>1, <1>2, UnlinkedAbsent
<1> HIDE DEF u
<1>4. TableOK(u) /\ CurrentOK(u)
  BY <1>1, <1>3 DEF KernelOK, TableOK, ListsOK, CurrentOK, SameButQueues
<1>5. TimersOK(u)
  BY <1>1 DEF KernelOK, TimersOK, TimerActive, SameButQueues
<1> QED BY <1>1, <1>3, <1>4, <1>5 DEF KernelOK, u

\* Putting a suspended thread whose timer is stopped back into the ready table.
LEMMA InsertOK ==
  ASSUME NEW h, KernelOK(h), NEW t \in Thread, h.stat[t] = "SUSPEND", ~TimerActive(h, t)
  PROVE  LET u == rt_schedule_insert_thread(h, t) IN
         /\ KernelOK(u) /\ SameButQueues(h, u) /\ u.cur = h.cur /\ u.defunct = h.defunct
         /\ u.stat = [h.stat EXCEPT ![t] = IF t = h.cur THEN "RUNNING" ELSE "READY"]
<1> DEFINE u == rt_schedule_insert_thread(h, t)
<1>1. h \in Kernel /\ h.stat \in [Thread -> Stat]
  BY DEF KernelOK, Kernel
<1>2. \A p \in Prio : ~Contains(h.ready[p], t)
  BY DEF KernelOK, TableOK
<1>3. /\ u \in Kernel /\ ListsOK(u) /\ SameButQueues(h, u) /\ u.cur = h.cur /\ u.defunct = h.defunct
      /\ u.stat = [h.stat EXCEPT ![t] = IF t = h.cur THEN "RUNNING" ELSE "READY"]
      /\ \A p \in Prio, x \in Thread :
           Contains(u.ready[p], x) <=>
             (Contains(h.ready[p], x) \/ (t # h.cur /\ x = t /\ p = h.prio[t]))
  <2>1. CASE t = h.cur
    <3>1. u = SetStat(h, t, "RUNNING") /\ "RUNNING" \in Stat
      BY <2>1 DEF rt_schedule_insert_thread, Stat
    <3> QED BY <1>1, <2>1, <3>1, SetStatFacts DEF KernelOK, TableOK, ListsOK
  <2>2. CASE t # h.cur
    BY <1>1, <1>2, <2>2, InsertFacts DEF KernelOK, TableOK
  <2> QED BY <2>1, <2>2
<1> HIDE DEF u
<1>4. \A x \in Thread : u.stat[x] = IF x # t THEN h.stat[x]
                                    ELSE IF t = h.cur THEN "RUNNING" ELSE "READY"
  BY <1>1, <1>3
<1>5. TableOK(u)
  <2> SUFFICES ASSUME NEW x \in Thread, NEW p \in Prio
               PROVE  Contains(u.ready[p], x) <=> (u.stat[x] = "READY" /\ p = u.prio[x])
    BY <1>3 DEF TableOK
  <2> QED BY <1>2, <1>3, <1>4 DEF KernelOK, TableOK, SameButQueues
<1>6. CurrentOK(u)
  <2>1. h.cur \in Thread
    BY <1>1 DEF Kernel
  <2> QED BY <1>3, <1>4, <2>1 DEF KernelOK, CurrentOK
<1>7. TimersOK(u)
  BY <1>3, <1>4 DEF KernelOK, TimersOK, TimerActive, SameButQueues
<1> QED BY <1>3, <1>4, <1>5, <1>6, <1>7, ThreadAssumption DEF KernelOK, u

\* The fields the kernel invariant talks about.
SameCore(h, u) ==
  /\ u.cur = h.cur /\ u.stat = h.stat /\ u.prio = h.prio
  /\ u.ready = h.ready /\ u.group = h.group /\ u.timers = h.timers

\* Every other field may change freely.
LEMMA SameCoreOK ==
  ASSUME NEW h, NEW u \in Kernel, KernelOK(h), SameCore(h, u)
  PROVE  KernelOK(u)
BY DEF SameCore, KernelOK, TableOK, ListsOK, CurrentOK, TimersOK, TimerActive

\* The timers of all threads one tick later, with another slice.
LEMMA AgedOK ==
  ASSUME NEW h, KernelOK(h), NEW n \in Nat \ {0}
  PROVE  LET v == [Aged(h) EXCEPT !.slice[h.cur] = n] IN
         KernelOK(v) /\ SameCore(h, v) /\ v.nest = h.nest /\ v.defunct = h.defunct
<1> DEFINE l == [t \in Thread |-> IF TimerActive(h, t) THEN h.left[t] - 1 ELSE h.left[t]]
           s == [h.slice EXCEPT ![h.cur] = n]
           v == [Aged(h) EXCEPT !.slice[h.cur] = n]
<1>1. h \in Kernel /\ l \in [Thread -> Int] /\ s \in [Thread -> Nat \ {0}]
  BY DEF KernelOK, Kernel
<1>2. v = [h EXCEPT !.left = l, !.slice = s]
  BY <1>1 DEF Aged, Kernel
<1> HIDE DEF l, s, v
<1>3. v \in Kernel /\ SameCore(h, v) /\ v.nest = h.nest /\ v.defunct = h.defunct
  BY <1>1, <1>2 DEF Kernel, SameCore
<1> QED BY <1>3, SameCoreOK DEF v

\* A tick: time passes for the timers, and the current thread's slice may end.
LEMMA TickOK ==
  ASSUME NEW h, KernelOK(h)
  PROVE  LET u == TickIncrease(h) IN
         /\ KernelOK(u) /\ Undisturbed(h, u)
         /\ \/ h.nest = 0 /\ Preempts(u)
            \/ u.cur = h.cur /\ u.stat = h.stat /\ u.prio = h.prio
<1> DEFINE u == TickIncrease(h)
           c == h.cur
<1>1. h \in Kernel /\ c \in Thread
  BY DEF KernelOK, Kernel
<1>3. CASE h.slice[c] = 1
  <2> DEFINE v == [Aged(h) EXCEPT !.slice[c] = InitTick[c]]
  <2>1. u = rt_schedule(v)
    BY <1>3 DEF TickIncrease
  <2>2. InitTick[c] \in Nat \ {0}
    BY <1>1, InitTickAssumption
  <2>3. KernelOK(v) /\ SameCore(h, v) /\ v.nest = h.nest /\ v.defunct = h.defunct
    BY <2>2, AgedOK
  <2> HIDE DEF v, u
  <2>5. /\ KernelOK(u) /\ Undisturbed(v, u) /\ (v.nest = 0 => Preempts(u))
    BY <2>1, <2>3, ScheduleOK
  <2>6. Undisturbed(h, u)
    BY <2>3, <2>5 DEF Undisturbed, Harmless, SameCore, TimerActive
  <2>7. h.nest # 0 => u = v
    BY <2>1, <2>3 DEF rt_schedule
  <2> QED BY <2>3, <2>5, <2>6, <2>7 DEF SameCore, u
<1>4. CASE h.slice[c] # 1
  <2> DEFINE n == h.slice[c] - 1
             v == [Aged(h) EXCEPT !.slice[c] = n]
  <2>1. u = v
    BY <1>1, <1>4 DEF TickIncrease, Aged, Kernel
  <2>2. n \in Nat \ {0}
    BY <1>1, <1>4 DEF Kernel
  <2> HIDE DEF n
  <2>3. KernelOK(v) /\ SameCore(h, v) /\ v.nest = h.nest /\ v.defunct = h.defunct
    BY <2>2, AgedOK
  <2> HIDE DEF v, u
  <2>5. Undisturbed(h, u)
    BY <2>1, <2>3 DEF Undisturbed, Harmless, SameCore, TimerActive
  <2> QED BY <2>1, <2>3, <2>5 DEF SameCore, u
<1> QED BY <1>3, <1>4

\* The timer that rt_timer_check takes from the list is one that is due.
LEMMA FirstDueFacts ==
  ASSUME NEW h \in Kernel, TimerDue(h)
  PROVE  FirstDue(h) \in Thread /\ TimerActive(h, FirstDue(h)) /\ h.left[FirstDue(h)] <= 0
<1> DEFINE D == {i \in 1 .. Len(h.timers) : h.left[h.timers[i]] <= 0}
<1>1. h.timers \in Seq(Thread)
  BY DEF Kernel
<1>2. D # {} /\ D \subseteq Nat
  BY <1>1 DEF TimerDue
<1>3. PICK n \in D : \A m \in D : ~(<<m, n>> \in OpToRel(<, Nat))
  BY <1>2, NatLessThanWellFounded, WFMin
<1>4. ASSUME NEW m \in D PROVE ~(m < n)
  <2>1. m \in Nat /\ n \in Nat
    BY <1>2
  <2>2. m < n => <<m, n>> \in {ss \in Nat \X Nat : ss[1] < ss[2]}
    BY <2>1
  <2>3. OpToRel(<, Nat) = {ss \in Nat \X Nat : ss[1] < ss[2]}
    BY DEF OpToRel
  <2> QED BY <1>3, <2>2, <2>3, Zenon
<1>5. \A j \in 1 .. n - 1 : h.left[h.timers[j]] > 0
  <2> SUFFICES ASSUME NEW j \in 1 .. n - 1 PROVE h.left[h.timers[j]] > 0
    OBVIOUS
  <2>1. n \in 1 .. Len(h.timers) /\ j \in 1 .. Len(h.timers) /\ j < n
    BY <1>1
  <2>2. h.timers[j] \in Thread /\ h.left[h.timers[j]] \in Int
    <3> HIDE DEF D
    <3>1. h.timers[j] \in Thread
      BY <1>1, <2>1
    <3>2. h.left \in [Thread -> Int]
      BY DEF Kernel
    <3> QED BY <3>1, <3>2
  <2>3. ~(h.left[h.timers[j]] <= 0)
    BY <1>4, <2>1
  <2> QED BY <2>2, <2>3
<1> DEFINE P(i) == h.left[h.timers[i]] <= 0 /\ \A j \in 1 .. i - 1 : h.left[h.timers[j]] > 0
           f == CHOOSE i \in 1 .. Len(h.timers) : P(i)
<1>6. n \in 1 .. Len(h.timers) /\ P(n)
  BY <1>5
<1>7. f \in 1 .. Len(h.timers) /\ P(f)
  BY <1>6
<1>8. FirstDue(h) = h.timers[f]
  BY DEF FirstDue
<1> HIDE DEF f
<1> QED BY <1>1, <1>7, <1>8 DEF TimerActive, Contains

\* The kernel after rt_timer_check has unlinked the first timer that is due, and its
\* thread has been taken off the suspend list with the error RT_ETIMEOUT.
Expired(h) ==
  [rt_list_remove(rt_timer_stop(h, FirstDue(h)), FirstDue(h))
     EXCEPT !.error[FirstDue(h)] = "ETIMEOUT"]

LEMMA ExpiredOK ==
  ASSUME NEW h, KernelOK(h), TimerDue(h)
  PROVE  LET t == FirstDue(h)
             e == Expired(h)
         IN  /\ TimerCheckOne(h) = rt_schedule(rt_schedule_insert_thread(e, t))
             /\ h \in Kernel /\ t \in Thread /\ TimerActive(h, t) /\ h.stat[t] = "SUSPEND"
             /\ KernelOK(e) /\ e.stat = h.stat /\ e.cur = h.cur /\ e.nest = h.nest
             /\ e.ready = h.ready /\ e.defunct = Unlinked(h.defunct, t)
             /\ \A x \in Thread : TimerActive(e, x) <=> (TimerActive(h, x) /\ x # t)
<1> DEFINE t == FirstDue(h)
           a == rt_timer_stop(h, t)
           b == rt_list_remove(a, t)
           e == [b EXCEPT !.error[t] = "ETIMEOUT"]
<1>0. /\ TimerCheckOne(h) = rt_schedule(rt_schedule_insert_thread(e, t))
      /\ Expired(h) = e
  BY DEF TimerCheckOne, rt_thread_timeout, Expired
<1>1. h \in Kernel /\ t \in Thread /\ TimerActive(h, t) /\ h.stat[t] = "SUSPEND"
  BY FirstDueFacts DEF KernelOK, TimersOK
<1> HIDE DEF t
<1>2. /\ KernelOK(a)
      /\ a.stat = h.stat /\ a.prio = h.prio /\ a.cur = h.cur /\ a.nest = h.nest
      /\ a.defunct = h.defunct /\ a.ready = h.ready
      /\ \A x \in Thread : TimerActive(a, x) <=> (TimerActive(h, x) /\ x # t)
  <2>1. a.ready = h.ready
    BY <1>1 DEF rt_timer_stop, Kernel
  <2> QED BY <1>1, <2>1, TimerStopOK
<1> HIDE DEF a
<1>3. /\ KernelOK(b) /\ SameButQueues(a, b) /\ b.cur = a.cur /\ b.stat = a.stat
      /\ b.defunct = Unlinked(a.defunct, t) /\ b.ready = a.ready
  BY <1>1, <1>2, ListRemoveOK
<1> HIDE DEF b
<1>4. e \in Kernel /\ SameCore(b, e) /\ e.nest = b.nest /\ e.defunct = b.defunct
  <2> DEFINE r == [b.error EXCEPT ![t] = "ETIMEOUT"]
  <2>1. r \in [Thread -> Error] /\ b \in Kernel
    BY <1>1, <1>3 DEF KernelOK, Kernel, Error
  <2>2. e = [b EXCEPT !.error = r]
    BY <2>1 DEF Kernel
  <2> HIDE DEF r, e
  <2> QED BY <2>1, <2>2 DEF Kernel, SameCore
<1> HIDE DEF e
<1>5. KernelOK(e)
  BY <1>3, <1>4, SameCoreOK
<1> QED BY <1>0, <1>1, <1>2, <1>3, <1>4, <1>5 DEF SameCore, SameButQueues, TimerActive, t

\* rt_thread_timeout of a suspended thread whose timer has just been taken off
\* the list: it becomes ready, and unless the scheduler is locked the highest
\* thread runs.
LEMMA TimerCheckOK ==
  ASSUME NEW h, KernelOK(h), TimerDue(h)
  PROVE  LET u == TimerCheckOne(h) IN
         /\ KernelOK(u) /\ Undisturbed(h, u)
         /\ h.nest = 0 => Preempts(u)
<1> DEFINE u == TimerCheckOne(h)
           t == FirstDue(h)
           e == Expired(h)
           i == rt_schedule_insert_thread(e, t)
<1>1. /\ u = rt_schedule(i)
      /\ h \in Kernel /\ t \in Thread /\ TimerActive(h, t) /\ h.stat[t] = "SUSPEND"
      /\ KernelOK(e) /\ e.stat = h.stat /\ e.cur = h.cur /\ e.nest = h.nest
      /\ e.defunct = Unlinked(h.defunct, t)
      /\ \A x \in Thread : TimerActive(e, x) <=> (TimerActive(h, x) /\ x # t)
  BY ExpiredOK
<1> HIDE DEF u, t, e
<1>7. /\ KernelOK(i) /\ SameButQueues(e, i) /\ i.cur = e.cur /\ i.defunct = e.defunct
      /\ i.stat = [e.stat EXCEPT ![t] = IF t = e.cur THEN "RUNNING" ELSE "READY"]
  BY <1>1, InsertOK
<1> HIDE DEF i
<1>8. KernelOK(u) /\ Undisturbed(i, u) /\ (i.nest = 0 => Preempts(u))
  BY <1>1, <1>7, ScheduleOK
<1>9. /\ i.nest = h.nest /\ i.cur = h.cur
      /\ i.defunct = Unlinked(h.defunct, t)
      /\ \A x \in Thread : TimerActive(i, x) <=> (TimerActive(h, x) /\ x # t)
      /\ i.stat = [h.stat EXCEPT ![t] = IF t = h.cur THEN "RUNNING" ELSE "READY"]
  BY <1>1, <1>7 DEF SameButQueues, TimerActive
<1>10. /\ h.defunct \in Seq(Thread) /\ h.stat \in [Thread -> Stat]
  BY <1>1 DEF Kernel
<1>11. /\ \A x : Contains(i.defunct, x) => Contains(h.defunct, x)
       /\ IsInjective(h.defunct) => IsInjective(i.defunct)
       /\ \A x : Contains(h.defunct, x) /\ x # t => Contains(i.defunct, x)
  BY <1>9, <1>10, UnlinkedSubset, UnlinkedElements, UnlinkedKeeps
<1>12. \A x \in Thread : i.stat[x] = IF x # t THEN h.stat[x]
                                     ELSE IF t = h.cur THEN "RUNNING" ELSE "READY"
  BY <1>1, <1>9, <1>10
<1>13. Undisturbed(h, u)
  <2>1. u.nest = h.nest /\ (h.nest # 0 => u.cur = h.cur)
    BY <1>8, <1>9 DEF Undisturbed, Harmless
  <2>2. u.cur = h.cur \/ h.stat[u.cur] = "READY" \/ TimerActive(h, u.cur)
    <3>1. u.cur \in Thread
      BY <1>8 DEF KernelOK, Kernel
    <3> QED BY <1>1, <1>8, <1>9, <1>12, <3>1 DEF Undisturbed, Harmless
  <2>3. ASSUME NEW x \in Thread
        PROVE  /\ h.stat[x] \in {"NONE", "INIT", "CLOSE"} =>
                    u.stat[x] = h.stat[x] /\ (Contains(h.defunct, x) => Contains(u.defunct, x))
               /\ h.stat[x] \notin {"NONE", "INIT", "CLOSE"} =>
                    u.stat[x] \notin {"NONE", "INIT", "CLOSE"}
               /\ h.stat[x] # "SUSPEND" => u.stat[x] # "SUSPEND"
               /\ h.stat[x] = "SUSPEND" /\ ~TimerActive(h, x) => u.stat[x] = "SUSPEND"
               /\ TimerActive(u, x) => TimerActive(h, x)
               /\ TimerActive(h, x) /\ u.stat[x] = "SUSPEND" => TimerActive(u, x)
    <3>1. CASE x = t
      BY <1>1, <1>8, <1>9, <1>12, <3>1 DEF Undisturbed, Harmless
    <3>2. CASE x # t
      BY <1>8, <1>9, <1>11, <1>12, <3>2 DEF Undisturbed, Harmless
    <3> QED BY <3>1, <3>2
  <2>4. /\ \A x : Contains(u.defunct, x) => Contains(h.defunct, x)
        /\ IsInjective(h.defunct) => IsInjective(u.defunct)
    BY <1>8, <1>11 DEF Undisturbed, Harmless
  <2> QED BY <2>1, <2>2, <2>3, <2>4 DEF Undisturbed, Harmless
<1> QED BY <1>8, <1>9, <1>13 DEF u

\* The current thread takes itself off the scheduler with the status s: it is on
\* no list of the ready table anyway.
LEMMA LeaveOK ==
  ASSUME NEW h, KernelOK(h), h.cur # Idle, NEW s \in {"SUSPEND", "CLOSE"},
         s = "CLOSE" => ~TimerActive(h, h.cur)
  PROVE  LET u == SetStat(rt_schedule_remove_thread(h, h.cur), h.cur, s) IN
         /\ KernelOK(u) /\ SameButQueues(h, u) /\ u.cur = h.cur
         /\ u.stat = [h.stat EXCEPT ![h.cur] = s]
         /\ u.defunct = Unlinked(h.defunct, h.cur)
<1> DEFINE c == h.cur
           v == rt_schedule_remove_thread(h, c)
           u == SetStat(v, c, s)
<1>1. h \in Kernel /\ c \in Thread /\ h.stat \in [Thread -> Stat]
  BY DEF KernelOK, Kernel
<1>2. \A p \in Prio : ~Contains(h.ready[p], c)
  BY <1>1 DEF KernelOK, TableOK, CurrentOK
<1>3. /\ v \in Kernel /\ ListsOK(v) /\ SameButQueues(h, v) /\ v.cur = h.cur /\ v.stat = h.stat
      /\ v.defunct = Unlinked(h.defunct, c)
      /\ \A p \in Prio, x \in Thread : Contains(v.ready[p], x) <=> Contains(h.ready[p], x) /\ x # c
  BY <1>1, <1>2, RemoveFacts DEF KernelOK, TableOK
<1>4. s \in Stat
  BY DEF Stat
<1> HIDE DEF v
<1>5. /\ u \in Kernel /\ SameButQueues(v, u) /\ u.cur = v.cur /\ u.defunct = v.defunct
      /\ u.ready = v.ready /\ u.group = v.group
      /\ u.stat = [v.stat EXCEPT ![c] = s]
  BY <1>1, <1>3, <1>4, SetStatFacts
<1> HIDE DEF u
<1>6. \A x \in Thread : u.stat[x] = IF x = c THEN s ELSE h.stat[x]
  BY <1>1, <1>3, <1>5
<1>7. u.prio = h.prio /\ u.timers = h.timers
  BY <1>3, <1>5 DEF SameButQueues
<1>8. TableOK(u)
  <2>1. ListsOK(u)
    BY <1>3, <1>5 DEF ListsOK
  <2>2. ASSUME NEW x \in Thread, NEW p \in Prio
        PROVE  Contains(u.ready[p], x) <=> (u.stat[x] = "READY" /\ p = u.prio[x])
    BY <1>2, <1>3, <1>5, <1>6, <1>7 DEF KernelOK, TableOK
  <2> QED BY <2>1, <2>2 DEF TableOK
<1>9. CurrentOK(u)
  BY <1>1, <1>3, <1>5, <1>6 DEF KernelOK, CurrentOK
<1>10. TimersOK(u)
  BY <1>1, <1>6, <1>7 DEF KernelOK, TimersOK, TimerActive
<1>11. SameButQueues(h, u)
  BY <1>3, <1>5 DEF SameButQueues
<1> QED BY <1>3, <1>5, <1>6, <1>8, <1>9, <1>10, <1>11, ThreadAssumption DEF KernelOK, u, v, c

\* rt_thread_sleep: after its section with interrupts disabled the thread is
\* suspended and its timer runs.
LEMMA SleepOK ==
  ASSUME NEW h, KernelOK(h), h.cur # Idle, h.stat[h.cur] # "CLOSE", NEW n \in Int
  PROVE  LET u == rt_timer_start(rt_thread_suspend(h, h.cur), h.cur, n) IN
         /\ KernelOK(u) /\ u.cur = h.cur /\ u.nest = h.nest
         /\ u.stat = [h.stat EXCEPT ![h.cur] = "SUSPEND"]
         /\ \A x \in Thread : TimerActive(u, x) <=> (TimerActive(h, x) \/ x = h.cur)
         /\ \A x : x # h.cur /\ Contains(h.defunct, x) => Contains(u.defunct, x)
         /\ \A x : Contains(u.defunct, x) => Contains(h.defunct, x)
         /\ IsInjective(h.defunct) => IsInjective(u.defunct)
<1> DEFINE c == h.cur
           w == SetStat(rt_schedule_remove_thread(h, c), c, "SUSPEND")
           v == rt_thread_suspend(h, c)
           u == rt_timer_start(v, c, n)
<1>1. h \in Kernel /\ c \in Thread /\ h.stat \in [Thread -> Stat] /\ h.defunct \in Seq(Thread)
  BY DEF KernelOK, Kernel
<1>2. /\ KernelOK(v) /\ v.cur = c /\ v.nest = h.nest
      /\ v.stat = [h.stat EXCEPT ![c] = "SUSPEND"]
      /\ \A x \in Thread : x # c => (TimerActive(v, x) <=> TimerActive(h, x))
      /\ v.defunct = h.defunct \/ v.defunct = Unlinked(h.defunct, c)
  <2>1. CASE h.stat[c] = "RUNNING"
    <3>1. v = rt_timer_stop(w, c)
      BY <2>1 DEF rt_thread_suspend, SuspendThread
    <3>2. /\ KernelOK(w) /\ SameButQueues(h, w) /\ w.cur = c
          /\ w.stat = [h.stat EXCEPT ![c] = "SUSPEND"]
          /\ w.defunct = Unlinked(h.defunct, c)
      BY LeaveOK
    <3> HIDE DEF w, v
    <3>3. /\ KernelOK(v) /\ v.stat = w.stat /\ v.cur = w.cur /\ v.nest = w.nest
          /\ v.defunct = w.defunct
          /\ \A x \in Thread : TimerActive(v, x) <=> (TimerActive(w, x) /\ x # c)
      BY <1>1, <3>1, <3>2, TimerStopOK
    <3>4. w.timers = h.timers /\ w.nest = h.nest
      BY <3>2 DEF SameButQueues
    <3> QED BY <3>2, <3>3, <3>4 DEF TimerActive
  <2>2. CASE h.stat[c] # "RUNNING"
    <3>1. h.stat[c] = "SUSPEND"
      BY <2>2 DEF KernelOK, CurrentOK
    <3>2. v = h
      BY <3>1 DEF rt_thread_suspend
    <3>3. h.stat = [h.stat EXCEPT ![c] = "SUSPEND"]
      BY <1>1, <3>1
    <3> QED BY <3>2, <3>3
  <2> QED BY <2>1, <2>2
<1> DEFINE l == [v.left EXCEPT ![c] = n]
           q == Append(Unlinked(v.timers, c), c)
<1>3. v \in Kernel /\ v.timers \in Seq(Thread) /\ IsInjective(v.timers)
  BY <1>2 DEF KernelOK, Kernel, TimersOK
<1>4. l \in [Thread -> Int]
  BY <1>3 DEF Kernel
<1>5. /\ Unlinked(v.timers, c) \in Seq(Thread) /\ IsInjective(Unlinked(v.timers, c))
      /\ \A x : Contains(Unlinked(v.timers, c), x) <=> Contains(v.timers, x) /\ x # c
  BY <1>3, UnlinkedType, UnlinkedElements
<1>6. /\ q \in Seq(Thread) /\ IsInjective(q)
      /\ \A x : Contains(q, x) <=> Contains(v.timers, x) \/ x = c
  BY <1>1, <1>5, AppendElements
<1>7. u = [v EXCEPT !.timers = q, !.left = l]
  BY <1>3 DEF rt_timer_start, Kernel
<1> HIDE DEF l, q, u, v
<1>8. /\ u \in Kernel /\ u.cur = v.cur /\ u.stat = v.stat /\ u.prio = v.prio /\ u.nest = v.nest
      /\ u.ready = v.ready /\ u.group = v.group /\ u.defunct = v.defunct /\ u.timers = q
  BY <1>3, <1>4, <1>6, <1>7 DEF Kernel
<1>9. \A x \in Thread : TimerActive(u, x) <=> (TimerActive(h, x) \/ x = c)
  BY <1>2, <1>6, <1>8 DEF TimerActive
<1>10. KernelOK(u)
  <2>1. TableOK(u) /\ CurrentOK(u) /\ u.stat[Idle] \in {"READY", "RUNNING"}
    BY <1>2, <1>8 DEF KernelOK, TableOK, ListsOK, CurrentOK
  <2>2. v.stat[c] = "SUSPEND"
    BY <1>1, <1>2
  <2>3. TimersOK(u)
    BY <1>2, <1>6, <1>8, <2>2 DEF KernelOK, TimersOK, TimerActive
  <2> QED BY <1>8, <2>1, <2>3 DEF KernelOK
<1>11. /\ \A x : x # c /\ Contains(h.defunct, x) => Contains(u.defunct, x)
       /\ \A x : Contains(u.defunct, x) => Contains(h.defunct, x)
       /\ IsInjective(h.defunct) => IsInjective(u.defunct)
  BY <1>1, <1>2, <1>8, UnlinkedKeeps, UnlinkedSubset, UnlinkedElements
<1> QED BY <1>2, <1>8, <1>9, <1>10, <1>11 DEF u, v, c

\* RT_THREAD_CTRL_CHANGE_PRIORITY moves a READY thread between lists and leaves
\* all others where they are.
LEMMA ChangePriorityOK ==
  ASSUME NEW h, KernelOK(h), NEW t \in Thread, NEW p \in Prio
  PROVE  LET u == ChangePriority(h, t, p) IN
         /\ KernelOK(u) /\ u.cur = h.cur /\ u.stat = h.stat /\ u.nest = h.nest
         /\ u.timers = h.timers /\ u.left = h.left
         /\ u.defunct = h.defunct \/ (h.stat[t] = "READY" /\ u.defunct = Unlinked(h.defunct, t))
<1> DEFINE u == ChangePriority(h, t, p)
           pr == [h.prio EXCEPT ![t] = p]
<1>1. h \in Kernel /\ h.stat \in [Thread -> Stat] /\ pr \in [Thread -> Prio]
  BY DEF KernelOK, Kernel
<1>2. CASE h.stat[t] = "READY"
  <2> DEFINE v == rt_schedule_remove_thread(h, t)
             w == [v EXCEPT !.prio[t] = p]
  <2>1. u = rt_schedule_insert_thread(w, t)
    BY <1>2 DEF ChangePriority
  <2>2. /\ v \in Kernel /\ ListsOK(v) /\ SameButQueues(h, v) /\ v.cur = h.cur /\ v.stat = h.stat
        /\ v.defunct = Unlinked(h.defunct, t)
        /\ \A q \in Prio, x \in Thread : Contains(v.ready[q], x) <=> Contains(h.ready[q], x) /\ x # t
    BY <1>1, RemoveFacts DEF KernelOK, TableOK
  <2> HIDE DEF v
  <2>3. w = [v EXCEPT !.prio = pr]
    BY <2>2 DEF Kernel, SameButQueues
  <2> HIDE DEF w, pr
  <2>4. /\ w \in Kernel /\ w.prio = pr /\ w.cur = v.cur /\ w.stat = v.stat /\ w.nest = v.nest
        /\ w.timers = v.timers /\ w.left = v.left /\ w.defunct = v.defunct
        /\ w.ready = v.ready /\ w.group = v.group
    BY <1>1, <2>2, <2>3 DEF Kernel
  <2>5. ListsOK(w) /\ t # w.cur /\ \A q \in Prio : ~Contains(w.ready[q], t)
    BY <1>2, <2>2, <2>4 DEF ListsOK, KernelOK, CurrentOK
  <2> HIDE DEF u
  <2>6. /\ u \in Kernel /\ ListsOK(u) /\ SameButQueues(w, u) /\ u.cur = w.cur /\ u.defunct = w.defunct
        /\ u.stat = [w.stat EXCEPT ![t] = "READY"]
        /\ \A q \in Prio, x \in Thread :
             Contains(u.ready[q], x) <=> Contains(w.ready[q], x) \/ (x = t /\ q = w.prio[t])
    BY <2>1, <2>4, <2>5, InsertFacts
  <2>7. u.stat = h.stat
    BY <1>1, <1>2, <2>2, <2>4, <2>6
  <2>8. u.prio = pr /\ u.timers = h.timers /\ u.left = h.left /\ u.nest = h.nest
    BY <2>2, <2>4, <2>6 DEF SameButQueues
  <2>9. TableOK(u)
    <3>1. ASSUME NEW x \in Thread, NEW q \in Prio
          PROVE  Contains(u.ready[q], x) <=> (u.stat[x] = "READY" /\ q = u.prio[x])
      <4>1. CASE x = t
        BY <1>2, <2>2, <2>4, <2>6, <2>7, <2>8, <4>1
      <4>2. CASE x # t
        <5>1. pr[x] = h.prio[x]
          BY <1>1, <4>2 DEF pr, Kernel
        <5> QED BY <2>2, <2>4, <2>6, <2>7, <2>8, <4>2, <5>1 DEF KernelOK, TableOK
      <4> QED BY <4>1, <4>2
    <3> QED BY <2>6, <3>1 DEF TableOK
  <2>10. KernelOK(u)
    BY <2>2, <2>4, <2>6, <2>7, <2>8, <2>9 DEF KernelOK, CurrentOK, TimersOK, TimerActive
  <2> QED BY <1>2, <2>2, <2>4, <2>6, <2>7, <2>8, <2>10 DEF u
<1>3. CASE h.stat[t] # "READY"
  <2>1. u = [h EXCEPT !.prio = pr]
    BY <1>1, <1>3 DEF ChangePriority, Kernel
  <2> HIDE DEF u
  <2>2. /\ u \in Kernel /\ u.prio = pr /\ u.cur = h.cur /\ u.stat = h.stat /\ u.nest = h.nest
        /\ u.timers = h.timers /\ u.left = h.left /\ u.defunct = h.defunct
        /\ u.ready = h.ready /\ u.group = h.group
    BY <1>1, <2>1 DEF Kernel
  <2>3. \A x \in Thread : x # t => u.prio[x] = h.prio[x]
    BY <1>1, <2>2 DEF Kernel
  <2>4. TableOK(u)
    BY <1>3, <2>2, <2>3 DEF KernelOK, TableOK, ListsOK
  <2>5. KernelOK(u)
    BY <2>2, <2>4 DEF KernelOK, CurrentOK, TimersOK, TimerActive
  <2> QED BY <2>2, <2>5 DEF u
<1> QED BY <1>2, <1>3

\* A control block that is in no list of the scheduler changes its status among
\* those that are in none: a thread is created, prepared for its start, or freed.
LEMMA OffTableOK ==
  ASSUME NEW h, KernelOK(h), NEW u \in Kernel, NEW t \in Thread,
         t # h.cur, h.stat[t] \in {"NONE", "INIT", "CLOSE"},
         u.stat[t] \in {"NONE", "INIT", "SUSPEND"},
         \A x \in Thread \ {t} : u.stat[x] = h.stat[x] /\ u.prio[x] = h.prio[x],
         u.cur = h.cur, u.ready = h.ready, u.group = h.group, u.timers = h.timers
  PROVE  KernelOK(u)
<1>1. ASSUME NEW x \in Thread, NEW p \in Prio
      PROVE  Contains(u.ready[p], x) <=> (u.stat[x] = "READY" /\ p = u.prio[x])
  BY DEF KernelOK, TableOK
<1>2. TableOK(u)
  BY <1>1 DEF KernelOK, TableOK, ListsOK
<1>3. CurrentOK(u)
  <2>1. h.cur \in Thread
    BY DEF KernelOK, Kernel
  <2> QED BY <2>1 DEF KernelOK, CurrentOK
<1>4. TimersOK(u)
  BY DEF KernelOK, TimersOK, TimerActive
<1> QED BY <1>2, <1>3, <1>4, ThreadAssumption DEF KernelOK

-----------------------------------------------------------------------------
(* Suspend lists.                                                           *)

\* A thread on a suspend list is suspended, and on that list only, once.
WaitsOK(h) ==
  \A w \in WaitList :
    /\ IsInjective(h.wait[w])
    /\ \A t \in Thread : Contains(h.wait[w], t) =>
         h.stat[t] = "SUSPEND" /\ \A v \in WaitList \ {w} : ~Contains(h.wait[v], t)

\* The thread is on some suspend list.
Listed(h, t) == \E w \in WaitList : Contains(h.wait[w], t)

\* All suspend lists without the thread t.
WaitWithout(h, t) == [w \in WaitList |-> Unlinked(h.wait[w], t)]

\* What the routines of the scheduler do to the suspend lists: only rt_list_remove
\* touches them.
LEMMA WaitField ==
  ASSUME NEW h \in Kernel, NEW t \in Thread
  PROVE  /\ rt_list_remove(h, t).wait = WaitWithout(h, t)
         /\ rt_schedule_remove_thread(h, t).wait = WaitWithout(h, t)
         /\ rt_schedule_insert_thread(h, t).wait = h.wait
         /\ rt_timer_stop(h, t).wait = h.wait
         /\ \A s : SetStat(h, t, s).wait = h.wait
<1>1. rt_list_remove(h, t).wait = WaitWithout(h, t)
  BY DEF rt_list_remove, WaitWithout, Kernel
<1>2. rt_schedule_remove_thread(h, t).wait = WaitWithout(h, t)
  <2> DEFINE u == rt_list_remove(h, t)
             g == u.group \ {h.prio[t]}
  <2>1. DOMAIN u = DOMAIN h /\ "wait" \in DOMAIN h
    BY DEF rt_list_remove, Kernel
  <2>2. [u EXCEPT !.group = g].wait = u.wait
    BY <2>1
  <2> HIDE DEF u
  <2> QED BY <1>1, <2>2 DEF rt_schedule_remove_thread, u
<1>3. rt_schedule_insert_thread(h, t).wait = h.wait
  BY DEF rt_schedule_insert_thread, SetStat, Kernel
<1>4. rt_timer_stop(h, t).wait = h.wait
  BY DEF rt_timer_stop, Kernel
<1>5. \A s : SetStat(h, t, s).wait = h.wait
  BY DEF SetStat, Kernel
<1> QED BY <1>1, <1>2, <1>3, <1>4, <1>5

\* A thread that is not suspended is on no list, and unlinking it changes none.
LEMMA NotListed ==
  ASSUME NEW h \in Kernel, WaitsOK(h), NEW t \in Thread, h.stat[t] # "SUSPEND"
  PROVE  ~Listed(h, t) /\ WaitWithout(h, t) = h.wait
<1>1. ~Listed(h, t)
  BY DEF Listed, WaitsOK
<1>2. h.wait \in [WaitList -> Seq(Thread)]
  BY DEF Kernel
<1>3. \A w \in WaitList : Unlinked(h.wait[w], t) = h.wait[w]
  BY <1>1, UnlinkedAbsent DEF Listed
<1> QED BY <1>1, <1>2, <1>3 DEF WaitWithout

\* What the blocking services see of a kernel step that concerns none of their
\* waiting threads.
SameWaits(h, u) ==
  /\ u.wait = h.wait /\ u.error = h.error /\ u.prio = h.prio
  /\ \A t \in Thread : /\ u.stat[t] = "SUSPEND" <=> h.stat[t] = "SUSPEND"
                       /\ TimerActive(u, t) <=> TimerActive(h, t)

\* rt_schedule leaves the suspend lists alone.
LEMMA ScheduleWaits ==
  ASSUME NEW h, KernelOK(h), WaitsOK(h)
  PROVE  SameWaits(h, rt_schedule(h)) /\ WaitsOK(rt_schedule(h))
<1> DEFINE u == rt_schedule(h)
<1>1. h \in Kernel /\ TableOK(h) /\ CurrentOK(h)
  BY DEF KernelOK
<1>2. ScheduleEffect(h, u)
  BY <1>1, ScheduleFacts
<1>3. u.wait = h.wait
  <2>1. CASE h.nest = 0 /\ h.group # {}
    <3> DEFINE from == h.cur
               to   == HighestThread(h)
               m == [h EXCEPT !.cur = to]
               q == IF h.stat[from] = "RUNNING" THEN rt_schedule_insert_thread(m, from) ELSE m
    <3>1. u = Dispatch(h)
      BY <2>1 DEF rt_schedule
    <3>2. from \in Thread /\ h.stat \in [Thread -> Stat]
      BY <1>1 DEF Kernel
    <3>3. to \in Thread /\ h.stat[to] = "READY"
      <4>1. HighestReady(h) \in h.group /\ HighestReady(h) \in Prio
        BY <1>1, <2>1, HighestReadyFacts DEF Kernel
      <4>2. h.ready[HighestReady(h)] # << >> /\ h.ready[HighestReady(h)] \in Seq(Thread)
        BY <1>1, <4>1 DEF TableOK, ListsOK, Kernel
      <4>3. to \in Thread /\ Contains(h.ready[HighestReady(h)], to)
        BY <4>2, HeadElement DEF HighestThread
      <4> QED BY <1>1, <4>1, <4>3 DEF TableOK
    <3>4. \/ /\ h.stat[from] = "RUNNING"
             /\ u = SetStat(rt_schedule_remove_thread(h, from), from, "RUNNING")
          \/ u = SetStat(rt_schedule_remove_thread(q, to), to, "RUNNING")
      BY <1>1, <3>1, <3>3 DEF Dispatch, CurrentOK
    <3>5. m \in Kernel /\ m.wait = h.wait /\ m.stat = h.stat /\ m.ready = h.ready
          /\ m.prio = h.prio /\ m.cur = to /\ m.group = h.group
      BY <1>1, <3>3 DEF Kernel
    <3>6. q \in Kernel /\ q.wait = h.wait
      <4>1. CASE h.stat[from] # "RUNNING"
        BY <3>5, <4>1
      <4>2. CASE h.stat[from] = "RUNNING"
        <5>1. ListsOK(m) /\ from # m.cur /\ \A p \in Prio : ~Contains(m.ready[p], from)
          BY <1>1, <3>2, <3>3, <3>5, <4>2 DEF TableOK, ListsOK
        <5>2. rt_schedule_insert_thread(m, from) \in Kernel
          BY <3>2, <3>5, <5>1, InsertFacts
        <5> QED BY <3>2, <3>5, <4>2, <5>2, WaitField
      <4> QED BY <4>1, <4>2
    <3> HIDE DEF q, m, from, to, u
    <3>7. ASSUME NEW r \in Kernel, NEW t \in Thread, r.wait = h.wait, h.stat[t] # "SUSPEND"
          PROVE  /\ rt_schedule_remove_thread(r, t).wait = h.wait
                 /\ SetStat(rt_schedule_remove_thread(r, t), t, "RUNNING").wait = h.wait
      <4>1. WaitWithout(r, t) = h.wait
        BY <1>1, <3>7, NotListed DEF WaitWithout
      <4>2. rt_schedule_remove_thread(r, t).wait = h.wait
        BY <3>7, <4>1, WaitField
      <4>3. "wait" \in DOMAIN rt_schedule_remove_thread(r, t)
        BY DEF rt_schedule_remove_thread, rt_list_remove, Kernel
      <4>4. SetStat(rt_schedule_remove_thread(r, t), t, "RUNNING").wait
              = rt_schedule_remove_thread(r, t).wait
        BY <4>3 DEF SetStat
      <4> QED BY <4>2, <4>4
    <3> QED BY <1>1, <3>2, <3>3, <3>4, <3>6, <3>7
  <2>2. CASE ~(h.nest = 0 /\ h.group # {})
    BY <2>2 DEF rt_schedule
  <2> QED BY <2>1, <2>2
<1> HIDE DEF u
<1>4. SameWaits(h, u)
  BY <1>2, <1>3 DEF ScheduleEffect, SameButQueues, SameWaits, TimerActive
<1>5. WaitsOK(u)
  BY <1>4 DEF SameWaits, WaitsOK
<1> QED BY <1>4, <1>5 DEF u

\* A tick leaves the suspend lists alone.
LEMMA TickWaits ==
  ASSUME NEW h, KernelOK(h), WaitsOK(h)
  PROVE  SameWaits(h, TickIncrease(h)) /\ WaitsOK(TickIncrease(h))
<1> DEFINE c == h.cur
           n == IF h.slice[c] = 1 THEN InitTick[c] ELSE h.slice[c] - 1
           l == [t \in Thread |-> IF TimerActive(h, t) THEN h.left[t] - 1 ELSE h.left[t]]
           s == [h.slice EXCEPT ![c] = n]
           v == [h EXCEPT !.left = l, !.slice = s]
<1>1. h \in Kernel /\ c \in Thread
  BY DEF KernelOK, Kernel
<1>2. n \in Nat \ {0}
  BY <1>1, InitTickAssumption DEF Kernel
<1>3. l \in [Thread -> Int] /\ s \in [Thread -> Nat \ {0}]
  BY <1>1, <1>2 DEF Kernel
<1>4. TickIncrease(h) = IF h.slice[c] = 1 THEN rt_schedule(v) ELSE v
  BY <1>1 DEF TickIncrease, Aged, Kernel
<1> HIDE DEF l, s, n
<1>5. v \in Kernel /\ SameCore(h, v) /\ v.wait = h.wait /\ v.error = h.error
  BY <1>1, <1>3 DEF Kernel, SameCore
<1> HIDE DEF v, c
<1>6. KernelOK(v) /\ WaitsOK(v) /\ SameWaits(h, v)
  BY <1>5, SameCoreOK DEF WaitsOK, SameCore, SameWaits, TimerActive
<1>7. SameWaits(v, rt_schedule(v)) /\ WaitsOK(rt_schedule(v))
  BY <1>6, ScheduleWaits
<1>8. SameWaits(h, rt_schedule(v))
  BY <1>6, <1>7 DEF SameWaits
<1> QED BY <1>4, <1>6, <1>7, <1>8

\* Thread t leaves its list and is no longer suspended, and its error number is e:
\* what a timeout and a resume look like to the blocking services.
TakenOff(h, u, t, e) ==
  /\ u.wait = WaitWithout(h, t) /\ u.prio = h.prio
  /\ u.error = [h.error EXCEPT ![t] = e]
  /\ \A x \in Thread : /\ u.stat[x] = "SUSPEND" <=> h.stat[x] = "SUSPEND" /\ x # t
                       /\ TimerActive(u, x) <=> TimerActive(h, x) /\ x # t

\* The suspend lists are in order again after t has left.
LEMMA TakenOffWaits ==
  ASSUME NEW h \in Kernel, WaitsOK(h), NEW t \in Thread, NEW u, NEW e, TakenOff(h, u, t, e)
  PROVE  /\ WaitsOK(u)
         /\ \A w \in WaitList, x \in Thread :
              Contains(u.wait[w], x) <=> Contains(h.wait[w], x) /\ x # t
<1>1. \A w \in WaitList : h.wait[w] \in Seq(Thread) /\ IsInjective(h.wait[w])
                          /\ u.wait[w] = Unlinked(h.wait[w], t)
  BY DEF Kernel, WaitsOK, TakenOff, WaitWithout
<1>2. \A w \in WaitList : /\ IsInjective(u.wait[w])
                          /\ \A x : Contains(u.wait[w], x) <=> Contains(h.wait[w], x) /\ x # t
  BY <1>1, UnlinkedElements
<1>3. WaitsOK(u)
  BY <1>2 DEF WaitsOK, TakenOff
<1> QED BY <1>2, <1>3

\* rt_thread_timeout takes exactly the thread of the expired timer off its list.
LEMMA TimerCheckWaits ==
  ASSUME NEW h, KernelOK(h), WaitsOK(h), TimerDue(h)
  PROVE  TakenOff(h, TimerCheckOne(h), FirstDue(h), "ETIMEOUT")
<1> DEFINE u == TimerCheckOne(h)
           t == FirstDue(h)
           a == rt_timer_stop(h, t)
           b == rt_list_remove(a, t)
           e == [b EXCEPT !.error[t] = "ETIMEOUT"]
           i == rt_schedule_insert_thread(e, t)
<1>0. u = rt_schedule(i)
  BY DEF TimerCheckOne, rt_thread_timeout
<1>1. h \in Kernel /\ t \in Thread /\ TimerActive(h, t) /\ h.stat[t] = "SUSPEND"
      /\ h.stat \in [Thread -> Stat]
  BY FirstDueFacts DEF KernelOK, TimersOK, Kernel
<1> HIDE DEF u, t
<1>2. /\ KernelOK(a) /\ a \in Kernel /\ a.wait = h.wait /\ a.error = h.error /\ a.cur = h.cur
      /\ a.stat = h.stat /\ a.prio = h.prio
      /\ \A x \in Thread : TimerActive(a, x) <=> (TimerActive(h, x) /\ x # t)
  BY <1>1, TimerStopOK, WaitField DEF KernelOK
<1> HIDE DEF a
<1>3. /\ KernelOK(b) /\ b \in Kernel /\ SameButQueues(a, b) /\ b.cur = a.cur /\ b.stat = a.stat
      /\ b.wait = WaitWithout(h, t)
  BY <1>1, <1>2, ListRemoveOK, WaitField DEF WaitWithout, KernelOK
<1> HIDE DEF b
<1>4. /\ e \in Kernel /\ SameCore(b, e) /\ e.wait = b.wait
      /\ e.error = [h.error EXCEPT ![t] = "ETIMEOUT"]
  <2> DEFINE r == [b.error EXCEPT ![t] = "ETIMEOUT"]
  <2>1. r \in [Thread -> Error] /\ b \in Kernel
    BY <1>1, <1>3 DEF KernelOK, Kernel, Error
  <2>2. e = [b EXCEPT !.error = r]
    BY <2>1 DEF Kernel
  <2>3. r = [h.error EXCEPT ![t] = "ETIMEOUT"]
    BY <1>2, <1>3 DEF SameButQueues
  <2> HIDE DEF r, e
  <2> QED BY <2>1, <2>2, <2>3 DEF Kernel, SameCore
<1> HIDE DEF e
<1>5. KernelOK(e)
  BY <1>3, <1>4, SameCoreOK
<1>6. e.stat[t] = "SUSPEND" /\ ~TimerActive(e, t) /\ e.stat = h.stat /\ e.prio = h.prio
      /\ e.cur = h.cur
      /\ \A x \in Thread : TimerActive(e, x) <=> (TimerActive(h, x) /\ x # t)
  BY <1>1, <1>2, <1>3, <1>4 DEF SameCore, SameButQueues, TimerActive
<1>7. /\ KernelOK(i) /\ SameButQueues(e, i) /\ i.wait = e.wait
      /\ i.stat = [e.stat EXCEPT ![t] = IF t = e.cur THEN "RUNNING" ELSE "READY"]
  BY <1>1, <1>4, <1>5, <1>6, InsertOK, WaitField
<1> HIDE DEF i
<1>8. TakenOff(h, i, t, "ETIMEOUT")
  <2>1. i.wait = WaitWithout(h, t) /\ i.prio = h.prio
        /\ i.error = [h.error EXCEPT ![t] = "ETIMEOUT"]
    BY <1>3, <1>4, <1>6, <1>7 DEF SameButQueues
  <2>2. \A x \in Thread : i.stat[x] = "SUSPEND" <=> h.stat[x] = "SUSPEND" /\ x # t
    BY <1>1, <1>6, <1>7
  <2>3. \A x \in Thread : TimerActive(i, x) <=> TimerActive(h, x) /\ x # t
    BY <1>6, <1>7 DEF SameButQueues, TimerActive
  <2> QED BY <2>1, <2>2, <2>3 DEF TakenOff
<1>9. WaitsOK(i)
  BY <1>1, <1>8, TakenOffWaits
<1>10. SameWaits(i, u)
  BY <1>0, <1>7, <1>9, ScheduleWaits
<1> QED BY <1>8, <1>10 DEF TakenOff, SameWaits, u, t

\* rt_thread_resume of a suspended thread: off its list, its timer stopped, ready.
LEMMA ResumeOK ==
  ASSUME NEW h, KernelOK(h), NEW t \in Thread, h.stat[t] = "SUSPEND"
  PROVE  LET u == rt_thread_resume(h, t) IN
         /\ KernelOK(u) /\ u.cur = h.cur /\ u.nest = h.nest
         /\ u.stat = [h.stat EXCEPT ![t] = IF t = h.cur THEN "RUNNING" ELSE "READY"]
         /\ u.defunct = Unlinked(h.defunct, t)
         /\ TakenOff(h, u, t, h.error[t])
<1> DEFINE u == rt_thread_resume(h, t)
           b == rt_list_remove(h, t)
           a == rt_timer_stop(b, t)
<1>0. u = rt_schedule_insert_thread(a, t)
  BY DEF rt_thread_resume, ResumeUnlink
<1>1. h \in Kernel /\ h.stat \in [Thread -> Stat] /\ h.error \in [Thread -> Error]
  BY DEF KernelOK, Kernel
<1>2. /\ KernelOK(b) /\ b \in Kernel /\ SameButQueues(h, b) /\ b.cur = h.cur /\ b.stat = h.stat
      /\ b.wait = WaitWithout(h, t) /\ b.defunct = Unlinked(h.defunct, t)
  BY <1>1, ListRemoveOK, WaitField DEF KernelOK
<1> HIDE DEF b
<1>3. /\ KernelOK(a) /\ a \in Kernel /\ a.wait = b.wait /\ a.error = b.error /\ a.cur = b.cur
      /\ a.stat = b.stat /\ a.prio = b.prio /\ a.nest = b.nest /\ a.defunct = b.defunct
      /\ \A x \in Thread : TimerActive(a, x) <=> (TimerActive(b, x) /\ x # t)
  BY <1>2, TimerStopOK, WaitField DEF KernelOK
<1> HIDE DEF a
<1>4. /\ KernelOK(u) /\ SameButQueues(a, u) /\ u.wait = a.wait /\ u.cur = a.cur
      /\ u.defunct = a.defunct
      /\ u.stat = [a.stat EXCEPT ![t] = IF t = a.cur THEN "RUNNING" ELSE "READY"]
  <2>1. a.stat[t] = "SUSPEND" /\ ~TimerActive(a, t)
    BY <1>2, <1>3
  <2> QED BY <1>0, <1>3, <2>1, InsertOK, WaitField
<1> HIDE DEF u
<1>5. u.stat = [h.stat EXCEPT ![t] = IF t = h.cur THEN "RUNNING" ELSE "READY"]
  BY <1>2, <1>3, <1>4
<1>6. /\ u.wait = WaitWithout(h, t) /\ u.prio = h.prio /\ u.error = h.error /\ u.nest = h.nest
      /\ u.cur = h.cur /\ u.defunct = Unlinked(h.defunct, t)
  BY <1>2, <1>3, <1>4 DEF SameButQueues
<1>7. u.error = [h.error EXCEPT ![t] = h.error[t]]
  BY <1>1, <1>6
<1>8. \A x \in Thread : u.stat[x] = "SUSPEND" <=> h.stat[x] = "SUSPEND" /\ x # t
  BY <1>1, <1>5
<1>9. \A x \in Thread : TimerActive(u, x) <=> TimerActive(h, x) /\ x # t
  BY <1>2, <1>3, <1>4 DEF SameButQueues, TimerActive
<1>10. TakenOff(h, u, t, h.error[t])
  BY <1>6, <1>7, <1>8, <1>9 DEF TakenOff
<1> QED BY <1>4, <1>5, <1>6, <1>10 DEF u

\* A new error number of a thread.
LEMMA ErrorOK ==
  ASSUME NEW h, KernelOK(h), NEW t \in Thread, NEW e \in Error
  PROVE  LET u == [h EXCEPT !.error[t] = e] IN
         /\ KernelOK(u) /\ SameCore(h, u) /\ u.nest = h.nest /\ u.defunct = h.defunct
         /\ u.wait = h.wait /\ u.error = [h.error EXCEPT ![t] = e]
<1> DEFINE u == [h EXCEPT !.error[t] = e]
           r == [h.error EXCEPT ![t] = e]
<1>1. h \in Kernel /\ r \in [Thread -> Error]
  BY DEF KernelOK, Kernel
<1>2. u = [h EXCEPT !.error = r]
  BY <1>1 DEF Kernel
<1> HIDE DEF r, u
<1>3. /\ u \in Kernel /\ SameCore(h, u) /\ u.nest = h.nest /\ u.defunct = h.defunct
      /\ u.wait = h.wait /\ u.error = r
  BY <1>1, <1>2 DEF Kernel, SameCore
<1> QED BY <1>3, SameCoreOK DEF u, r

\* One suspend list gets other contents.
LEMMA SetWaitOK ==
  ASSUME NEW h, KernelOK(h), NEW w \in WaitList, NEW s \in Seq(Thread)
  PROVE  LET u == [h EXCEPT !.wait[w] = s] IN
         /\ KernelOK(u) /\ SameCore(h, u) /\ u.nest = h.nest /\ u.defunct = h.defunct
         /\ u.error = h.error /\ u.wait = [h.wait EXCEPT ![w] = s]
<1> DEFINE u == [h EXCEPT !.wait[w] = s]
           r == [h.wait EXCEPT ![w] = s]
<1>1. h \in Kernel /\ r \in [WaitList -> Seq(Thread)]
  BY DEF KernelOK, Kernel
<1>2. u = [h EXCEPT !.wait = r]
  BY <1>1 DEF Kernel
<1> HIDE DEF r, u
<1>3. /\ u \in Kernel /\ SameCore(h, u) /\ u.nest = h.nest /\ u.defunct = h.defunct
      /\ u.error = h.error /\ u.wait = r
  BY <1>1, <1>2 DEF Kernel, SameCore
<1> QED BY <1>3, SameCoreOK DEF u, r

\* rt_timer_start of the timer of a suspended thread.
LEMMA TimerStartOK ==
  ASSUME NEW h, KernelOK(h), NEW t \in Thread, h.stat[t] = "SUSPEND", NEW n \in Int
  PROVE  LET u == rt_timer_start(h, t, n) IN
         /\ KernelOK(u)
         /\ u.stat = h.stat /\ u.prio = h.prio /\ u.cur = h.cur /\ u.nest = h.nest
         /\ u.defunct = h.defunct /\ u.error = h.error /\ u.wait = h.wait
         /\ \A x \in Thread : TimerActive(u, x) <=> TimerActive(h, x) \/ x = t
<1> DEFINE u == rt_timer_start(h, t, n)
           l == [h.left EXCEPT ![t] = n]
           q == Append(Unlinked(h.timers, t), t)
<1>1. h \in Kernel /\ h.timers \in Seq(Thread) /\ IsInjective(h.timers) /\ l \in [Thread -> Int]
  BY DEF KernelOK, Kernel, TimersOK
<1>2. /\ Unlinked(h.timers, t) \in Seq(Thread) /\ IsInjective(Unlinked(h.timers, t))
      /\ \A x : Contains(Unlinked(h.timers, t), x) <=> Contains(h.timers, x) /\ x # t
  BY <1>1, UnlinkedType, UnlinkedElements
<1>3. /\ q \in Seq(Thread) /\ IsInjective(q)
      /\ \A x : Contains(q, x) <=> Contains(h.timers, x) \/ x = t
  BY <1>2, AppendElements
<1>4. u = [h EXCEPT !.timers = q, !.left = l]
  BY <1>1 DEF rt_timer_start, Kernel
<1> HIDE DEF l, q, u
<1>5. /\ u \in Kernel /\ u.cur = h.cur /\ u.stat = h.stat /\ u.prio = h.prio /\ u.nest = h.nest
      /\ u.ready = h.ready /\ u.group = h.group /\ u.defunct = h.defunct /\ u.timers = q
      /\ u.error = h.error /\ u.wait = h.wait
  BY <1>1, <1>3, <1>4 DEF Kernel
<1>6. \A x \in Thread : TimerActive(u, x) <=> TimerActive(h, x) \/ x = t
  BY <1>3, <1>5 DEF TimerActive
<1>7. TableOK(u) /\ CurrentOK(u)
  BY <1>5 DEF KernelOK, TableOK, ListsOK, CurrentOK
<1>8. TimersOK(u)
  BY <1>3, <1>5, <1>6 DEF KernelOK, TimersOK
<1> QED BY <1>5, <1>6, <1>7, <1>8 DEF KernelOK, u

\* rt_thread_suspend of the running thread by itself.
LEMMA SuspendSelfOK ==
  ASSUME NEW h, KernelOK(h), WaitsOK(h), h.cur # Idle, h.stat[h.cur] = "RUNNING"
  PROVE  LET u == rt_thread_suspend(h, h.cur) IN
         /\ KernelOK(u) /\ u.cur = h.cur /\ u.nest = h.nest
         /\ u.stat = [h.stat EXCEPT ![h.cur] = "SUSPEND"]
         /\ u.defunct = Unlinked(h.defunct, h.cur)
         /\ u.wait = h.wait /\ u.error = h.error /\ u.prio = h.prio
         /\ \A x \in Thread : TimerActive(u, x) <=> TimerActive(h, x)
<1> DEFINE c == h.cur
           r == rt_schedule_remove_thread(h, c)
           w == SetStat(r, c, "SUSPEND")
           u == rt_thread_suspend(h, c)
<1>1. h \in Kernel /\ c \in Thread /\ h.stat \in [Thread -> Stat] /\ ~TimerActive(h, c)
  BY DEF KernelOK, Kernel, TimersOK
<1>2. u = rt_timer_stop(w, c)
  BY DEF rt_thread_suspend, SuspendThread
<1>3. /\ KernelOK(w) /\ w \in Kernel /\ SameButQueues(h, w) /\ w.cur = c
      /\ w.stat = [h.stat EXCEPT ![c] = "SUSPEND"]
      /\ w.defunct = Unlinked(h.defunct, c)
  BY LeaveOK DEF KernelOK
<1>4. w.wait = h.wait
  <2>1. r \in Kernel
    BY <1>1, RemoveFacts DEF KernelOK, TableOK
  <2>2. w.wait = r.wait
    BY <1>1, <2>1, WaitField
  <2>3. r.wait = h.wait
    BY <1>1, WaitField, NotListed
  <2> QED BY <2>2, <2>3
<1> HIDE DEF w, u, r
<1>5. /\ KernelOK(u) /\ u.stat = w.stat /\ u.cur = w.cur /\ u.nest = w.nest /\ u.prio = w.prio
      /\ u.error = w.error /\ u.defunct = w.defunct /\ u.wait = w.wait
      /\ \A x \in Thread : TimerActive(u, x) <=> (TimerActive(w, x) /\ x # c)
  BY <1>1, <1>2, <1>3, TimerStopOK, WaitField
<1>6. w.timers = h.timers /\ w.nest = h.nest /\ w.error = h.error /\ w.prio = h.prio
  BY <1>3 DEF SameButQueues
<1> QED BY <1>1, <1>3, <1>4, <1>5, <1>6 DEF TimerActive, u, c

\* A change of priority leaves the suspend lists alone, also that of a waiter.
LEMMA ChangePriorityWaits ==
  ASSUME NEW h, KernelOK(h), WaitsOK(h), NEW t \in Thread, NEW p \in Prio
  PROVE  LET u == ChangePriority(h, t, p) IN
         u.wait = h.wait /\ u.error = h.error /\ u.prio = [h.prio EXCEPT ![t] = p]
<1> DEFINE u == ChangePriority(h, t, p)
           pr == [h.prio EXCEPT ![t] = p]
<1>1. h \in Kernel /\ pr \in [Thread -> Prio]
  BY DEF KernelOK, Kernel
<1>2. CASE h.stat[t] = "READY"
  <2> DEFINE v == rt_schedule_remove_thread(h, t)
             w == [v EXCEPT !.prio = pr]
  <2>1. v \in Kernel /\ v.prio = h.prio /\ v.error = h.error /\ v.wait = h.wait /\ v.cur = h.cur
    <3>1. v \in Kernel /\ SameButQueues(h, v) /\ v.cur = h.cur
      BY <1>1, RemoveFacts DEF KernelOK, TableOK
    <3>2. v.wait = h.wait
      BY <1>1, <1>2, WaitField, NotListed
    <3> QED BY <3>1, <3>2 DEF SameButQueues
  <2>2. u = rt_schedule_insert_thread(w, t)
    <3>1. [v EXCEPT !.prio[t] = p] = w
      BY <2>1 DEF Kernel
    <3> QED BY <1>2, <3>1 DEF ChangePriority
  <2> HIDE DEF v, pr
  <2>3. w \in Kernel /\ w.prio = pr /\ w.error = h.error /\ w.wait = h.wait
    BY <1>1, <2>1 DEF Kernel
  <2> HIDE DEF w
  <2>4. u.wait = w.wait
    BY <2>2, <2>3, WaitField
  <2>5. u.error = w.error /\ u.prio = w.prio
    BY <2>2, <2>3 DEF rt_schedule_insert_thread, SetStat, Kernel
  <2> QED BY <2>3, <2>4, <2>5 DEF pr
<1>3. CASE h.stat[t] # "READY"
  <2>1. u = [h EXCEPT !.prio = pr]
    BY <1>1, <1>3 DEF ChangePriority, Kernel
  <2> HIDE DEF pr, u
  <2>2. u.wait = h.wait /\ u.error = h.error /\ u.prio = pr
    BY <1>1, <2>1 DEF Kernel
  <2> QED BY <2>2 DEF u, pr
<1> QED BY <1>2, <1>3

\* List r is list s with t put at place i.
Enlisted(s, r, t, i) ==
  /\ i \in 1 .. Len(s) + 1 /\ Len(r) = Len(s) + 1 /\ r[i] = t
  /\ \A j \in 1 .. i - 1 : r[j] = s[j]
  /\ \A j \in i + 1 .. Len(s) + 1 : r[j] = s[j - 1]

\* A node that joins a list it is not on.
LEMMA EnlistedElements ==
  ASSUME NEW S, NEW s \in Seq(S), NEW r \in Seq(S), NEW t, NEW i, Enlisted(s, r, t, i),
         IsInjective(s), ~Contains(s, t)
  PROVE  IsInjective(r) /\ \A x : Contains(r, x) <=> Contains(s, x) \/ x = t
<1>1. i \in 1 .. Len(s) + 1 /\ Len(r) = Len(s) + 1 /\ r[i] = t /\ Len(s) \in Nat
  BY DEF Enlisted
<1>2. \A j \in 1 .. Len(r) : r[j] = IF j < i THEN s[j] ELSE IF j = i THEN t ELSE s[j - 1]
  BY <1>1 DEF Enlisted
<1>3. \A j, l \in 1 .. Len(s) : s[j] = s[l] => j = l
  BY DEF IsInjective
<1>4. \A j \in 1 .. Len(s) : s[j] # t
  BY DEF Contains
<1>5. IsInjective(r)
  <2> SUFFICES ASSUME NEW j \in 1 .. Len(r), NEW l \in 1 .. Len(r), r[j] = r[l] PROVE j = l
    BY DEF IsInjective
  <2>1. j = i \/ (j < i /\ j \in 1 .. Len(s) /\ r[j] = s[j])
              \/ (j > i /\ j - 1 \in 1 .. Len(s) /\ r[j] = s[j - 1])
    BY <1>1, <1>2
  <2>2. l = i \/ (l < i /\ l \in 1 .. Len(s) /\ r[l] = s[l])
              \/ (l > i /\ l - 1 \in 1 .. Len(s) /\ r[l] = s[l - 1])
    BY <1>1, <1>2
  <2> QED BY <1>1, <1>3, <1>4, <2>1, <2>2
<1>6. ASSUME NEW x, Contains(r, x) PROVE Contains(s, x) \/ x = t
  <2>1. PICK j \in 1 .. Len(r) : r[j] = x
    BY <1>6 DEF Contains
  <2>2. j = i \/ (j < i /\ j \in 1 .. Len(s) /\ r[j] = s[j])
              \/ (j > i /\ j - 1 \in 1 .. Len(s) /\ r[j] = s[j - 1])
    BY <1>1, <1>2
  <2> QED BY <1>1, <2>1, <2>2 DEF Contains
<1>7. ASSUME NEW x, Contains(s, x) PROVE Contains(r, x)
  <2>1. PICK j \in 1 .. Len(s) : s[j] = x
    BY <1>7 DEF Contains
  <2>2. CASE j < i
    BY <1>1, <1>2, <2>1, <2>2 DEF Contains
  <2>3. CASE ~(j < i)
    <3>1. j + 1 \in 1 .. Len(r) /\ r[j + 1] = x
      BY <1>1, <1>2, <2>1, <2>3
    <3> QED BY <3>1 DEF Contains
  <2> QED BY <2>2, <2>3
<1>8. Contains(r, t)
  BY <1>1 DEF Contains
<1> QED BY <1>5, <1>6, <1>7, <1>8

\* A thread joins a list at the tail (RT_IPC_FLAG_FIFO).
LEMMA EnlistTail ==
  ASSUME NEW S, NEW s \in Seq(S), NEW t \in S
  PROVE  Append(s, t) \in Seq(S) /\ Enlisted(s, Append(s, t), t, Len(s) + 1)
BY DEF Enlisted

\* A thread joins a list at the head (rt_list_insert_after, as rt_mp_alloc does).
LEMMA EnlistHead ==
  ASSUME NEW S, NEW s \in Seq(S), NEW t \in S
  PROVE  <<t>> \o s \in Seq(S) /\ Enlisted(s, <<t>> \o s, t, 1)
<1> DEFINE u == <<t>> \o s
<1>1. /\ u \in Seq(S) /\ Len(s) \in Nat
      /\ Len(u) = Len(s) + 1
      /\ u[1] = t
      /\ \A j \in 2 .. Len(s) + 1 : u[j] = s[j - 1]
  OBVIOUS
<1> HIDE DEF u
<1>2. Enlisted(s, u, t, 1)
  BY <1>1 DEF Enlisted
<1> QED BY <1>1, <1>2 DEF u

\* A thread joins a list before the node at place i (RT_IPC_FLAG_PRIO).
LEMMA EnlistAt ==
  ASSUME NEW S, NEW s \in Seq(S), NEW t \in S, NEW i \in 1 .. Len(s)
  PROVE  InsertAt(s, i, t) \in Seq(S) /\ Enlisted(s, InsertAt(s, i, t), t, i)
<1> DEFINE a == SubSeq(s, 1, i - 1)
           b == SubSeq(s, i, Len(s))
<1>1. Len(s) \in Nat
  OBVIOUS
<1>2. a \in Seq(S) /\ Len(a) = i - 1 /\ \A j \in 1 .. i - 1 : a[j] = s[j]
  BY <1>1
<1>3. b \in Seq(S) /\ Len(b) = Len(s) - i + 1 /\ \A j \in 1 .. Len(s) - i + 1 : b[j] = s[i + j - 1]
  BY <1>1
<1> HIDE DEF a, b
<1> DEFINE c == a \o <<t>>
<1>4. c \in Seq(S) /\ Len(c) = i /\ c[i] = t /\ \A j \in 1 .. i - 1 : c[j] = s[j]
  BY <1>2
<1> HIDE DEF c
<1>5. /\ c \o b \in Seq(S) /\ Len(c \o b) = Len(s) + 1
      /\ \A j \in 1 .. i : (c \o b)[j] = c[j]
      /\ \A j \in i + 1 .. Len(s) + 1 : (c \o b)[j] = b[j - i]
  <2>1. /\ c \o b \in Seq(S) /\ Len(c \o b) = Len(c) + Len(b)
        /\ \A j \in 1 .. Len(c) + Len(b) :
             (c \o b)[j] = IF j <= Len(c) THEN c[j] ELSE b[j - Len(c)]
    BY <1>3, <1>4, ConcatProperties
  <2>2. Len(c) = i /\ Len(c) + Len(b) = Len(s) + 1 /\ i \in 1 .. Len(s)
    BY <1>1, <1>3, <1>4
  <2> QED BY <1>1, <2>1, <2>2
<1>6. InsertAt(s, i, t) = c \o b
  BY DEF InsertAt, a, b, c
<1>7. \A j \in i + 1 .. Len(s) + 1 : b[j - i] = s[j - 1]
  <2> SUFFICES ASSUME NEW j \in i + 1 .. Len(s) + 1 PROVE b[j - i] = s[j - 1]
    OBVIOUS
  <2>1. j - i \in 1 .. Len(s) - i + 1 /\ i + (j - i) - 1 = j - 1
    BY <1>1
  <2> QED BY <1>3, <2>1
<1> HIDE DEF c
<1> QED BY <1>1, <1>4, <1>5, <1>6, <1>7 DEF Enlisted

(***************************************************************************)
(* Part 2: the scheduler                                                   *)
(***************************************************************************)

\* No call acts on the handle of another running thread.
NoHandles == Calls \cap {"suspend", "resume", "delete"} = {}

-----------------------------------------------------------------------------
(* The inductive invariant.                                                 *)

\* Where a thread is inside a call and what its status says.
Places ==
  \A t \in Thread :
    /\ pc[t] \notin {"suspend", "detach", "close", "defunct"}
    /\ k.stat[t] = "CLOSE" => pc[t] \in {"exited", "dead"}
    /\ pc[t] \in {"exited", "dead"} => k.stat[t] \in {"CLOSE", "NONE"}
    /\ k.stat[t] = "INIT" => pc[t] = "run"

\* A thread that another one is making ready: suspended without a timer, so that
\* nobody else can make it ready, and taken by that one thread only.  Inside
\* rt_thread_startup this is so from the beginning, elsewhere once the call has
\* found the thread suspended.
Starting(c) == \/ pc[c] \in {"unlink", "insert"}
               \/ pc[c] = "resume" /\ "startup" \in Calls
Started ==
  \A c \in Thread : Starting(c) =>
    /\ k.stat[tgt[c]] = "SUSPEND" /\ ~TimerActive(k, tgt[c]) /\ tgt[c] # k.cur
    /\ \A d \in Thread : Starting(d) /\ tgt[d] = tgt[c] => d = c

\* The thread the idle thread frees.
Reaping ==
  \A c \in Thread : pc[c] = "reap" =>
    /\ c = Idle
    /\ k.stat[tgt[c]] = "CLOSE" /\ tgt[c] \notin Static /\ tgt[c] # k.cur
    /\ ~Contains(k.defunct, tgt[c])

\* The defunct list.
Defunct ==
  /\ IsInjective(k.defunct)
  /\ \A t \in Thread :
       /\ Contains(k.defunct, t) => k.stat[t] = "CLOSE" /\ t \notin Static
       /\ pc[t] \in {"exited", "dead"} /\ t \notin Static /\ k.stat[t] # "NONE" =>
            Contains(k.defunct, t) \/ BeingFreed(t)

\* An ended thread does not run, it did not take the scheduler's lock with it, and
\* a thread goes on although it has suspended itself only if the lock is held.
Running ==
  /\ k.nest \in Nat
  /\ pc[k.cur] # "dead"
  /\ pc[k.cur] = "exited" => k.nest = 0
  /\ k.nest = 0 /\ pc[k.cur] \notin {"sched", "sleep", "exited"} => k.stat[k.cur] = "RUNNING"

\* The handler is in its loop only while there is an expired timer.
Ticking == isr = "timer" => TimerDue(k)

IInv ==
  /\ TypeOK /\ KernelOK(k)
  /\ Places /\ Started /\ Reaping /\ Defunct /\ Running /\ Ticking /\ SleepEnds

-----------------------------------------------------------------------------
(* Steps that preserve it.                                                  *)

\* Places between the calls that only their own thread cares about.
Neutral == {"run", "sched", "sleep", "slept"}
           \union (IF "startup" \in Calls THEN {} ELSE {"resume"})

\* Only rt_thread_startup calls rt_thread_resume.
OnlyStarts == "startup" \notin Calls => \A t \in Thread : pc[t] # "resume"

\* A step of the current thread, from place pc[k.cur] to place q, or of the tick
\* interrupt (q = pc[k.cur]), that does no harm to any other thread: a
\* reschedule, a tick, an expired timer, a change of the lock count, of an error
\* number or of a priority.
LEMMA QuietStep ==
  ASSUME IInv, KernelOK(k'), Harmless(k, k'), Ticking',
         NEW q \in Pc, NEW r \in Thread,
         pc' = [pc EXCEPT ![k.cur] = q], tgt' = [tgt EXCEPT ![k.cur] = r],
         isr' \in {"none", "timer"},
         \/ q = pc[k.cur] /\ r = tgt[k.cur]
         \/ pc[k.cur] \in Neutral /\ q \in Neutral
         \/ Starting(k.cur) /\ q \in {"unlink", "insert"} /\ r = tgt[k.cur]
         \/ pc[k.cur] = "exited" /\ q = "dead" /\ k'.cur # k.cur,
         q \in {"sleep", "slept"} /\ k.stat[k.cur] = "SUSPEND" => TimerActive(k, k.cur),
         k'.nest \in Nat, pc'[k'.cur] = "exited" => k'.nest = 0,
         k'.nest = 0 /\ pc'[k'.cur] \notin {"sched", "sleep", "exited"} => k'.stat[k'.cur] = "RUNNING"
  PROVE  IInv'
<1> DEFINE c == k.cur
<1>1. /\ k \in Kernel /\ c \in Thread /\ k' \in Kernel /\ k'.cur \in Thread
      /\ pc \in [Thread -> Pc] /\ tgt \in [Thread -> Thread]
  BY DEF IInv, TypeOK, KernelOK, Kernel
<1>2. /\ pc' \in [Thread -> Pc] /\ tgt' \in [Thread -> Thread]
      /\ \A t \in Thread : pc'[t] = IF t = c THEN q ELSE pc[t]
      /\ \A t \in Thread : tgt'[t] = IF t = c THEN r ELSE tgt[t]
  BY <1>1
<1>3. TypeOK'
  BY <1>1, <1>2 DEF TypeOK
<1>4. /\ \A t \in Thread : Starting(t)' <=> Starting(t)
      /\ \A t \in Thread : Starting(t) => tgt'[t] = tgt[t]
      /\ \A t \in Thread : pc'[t] \in {"exited", "dead"} <=> pc[t] \in {"exited", "dead"}
      /\ \A t \in Thread : pc'[t] = "dead" => pc[t] = "dead" \/ t # k'.cur
      /\ \A t \in Thread : pc'[t] = "reap" <=> pc[t] = "reap"
      /\ \A t \in Thread : pc[t] = "reap" => tgt'[t] = tgt[t]
  BY <1>1, <1>2 DEF Starting, Neutral
<1>5. k.stat[c] \in {"RUNNING", "SUSPEND", "CLOSE"}
  BY DEF IInv, KernelOK, CurrentOK
<1>6. Places'
  <2> SUFFICES ASSUME NEW t \in Thread
               PROVE  /\ pc'[t] \notin {"suspend", "detach", "close", "defunct"}
                      /\ k'.stat[t] = "CLOSE" => pc'[t] \in {"exited", "dead"}
                      /\ pc'[t] \in {"exited", "dead"} => k'.stat[t] \in {"CLOSE", "NONE"}
                      /\ k'.stat[t] = "INIT" => pc'[t] = "run"
    BY DEF Places
  <2>1. pc'[t] \notin {"suspend", "detach", "close", "defunct"}
    BY <1>1, <1>2 DEF IInv, Places, Neutral
  <2>2. k'.stat[t] \in {"CLOSE", "NONE", "INIT"} => k'.stat[t] = k.stat[t]
    BY DEF Harmless
  <2>3. k.stat[t] \in {"CLOSE", "NONE"} => k'.stat[t] = k.stat[t]
    BY DEF Harmless
  <2>4. k.stat[t] = "INIT" => t # c
    BY <1>5
  <2> QED BY <1>2, <1>4, <2>1, <2>2, <2>3, <2>4 DEF IInv, Places
<1>7. Started'
  <2> SUFFICES ASSUME NEW d \in Thread, Starting(d)'
               PROVE  /\ k'.stat[tgt'[d]] = "SUSPEND" /\ ~TimerActive(k', tgt'[d])
                      /\ tgt'[d] # k'.cur
                      /\ \A e \in Thread : Starting(e)' /\ tgt'[e] = tgt'[d] => e = d
    BY DEF Started
  <2>1. Starting(d) /\ tgt'[d] = tgt[d] /\ tgt[d] \in Thread
    BY <1>1, <1>4
  <2>2. k.stat[tgt[d]] = "SUSPEND" /\ ~TimerActive(k, tgt[d]) /\ tgt[d] # k.cur
    BY <2>1 DEF IInv, Started
  <2>3. k'.stat[tgt[d]] = "SUSPEND" /\ ~TimerActive(k', tgt[d]) /\ tgt[d] # k'.cur
    BY <2>1, <2>2 DEF Harmless
  <2>4. \A e \in Thread : Starting(e)' /\ tgt'[e] = tgt'[d] => e = d
    BY <1>4, <2>1 DEF IInv, Started
  <2> QED BY <2>1, <2>3, <2>4
<1>8. Reaping'
  <2> SUFFICES ASSUME NEW d \in Thread, pc'[d] = "reap"
               PROVE  /\ d = Idle
                      /\ k'.stat[tgt'[d]] = "CLOSE" /\ tgt'[d] \notin Static /\ tgt'[d] # k'.cur
                      /\ ~Contains(k'.defunct, tgt'[d])
    BY DEF Reaping
  <2>1. pc[d] = "reap" /\ tgt'[d] = tgt[d] /\ tgt[d] \in Thread
    BY <1>1, <1>4
  <2>2. /\ d = Idle
        /\ k.stat[tgt[d]] = "CLOSE" /\ tgt[d] \notin Static /\ tgt[d] # k.cur
        /\ ~Contains(k.defunct, tgt[d])
    BY <2>1 DEF IInv, Reaping
  <2>3. ~TimerActive(k, tgt[d])
    BY <2>1, <2>2 DEF IInv, KernelOK, TimersOK
  <2> QED BY <2>1, <2>2, <2>3 DEF Harmless
<1>9. Defunct'
  <2>1. IsInjective(k'.defunct)
    BY DEF IInv, Defunct, Harmless
  <2>2. ASSUME NEW t \in Thread, Contains(k'.defunct, t)
        PROVE  k'.stat[t] = "CLOSE" /\ t \notin Static
    BY <2>2 DEF IInv, Defunct, Harmless
  <2>3. ASSUME NEW t \in Thread, pc'[t] \in {"exited", "dead"}, t \notin Static, k'.stat[t] # "NONE"
        PROVE  Contains(k'.defunct, t) \/ BeingFreed(t)'
    <3>1. pc[t] \in {"exited", "dead"}
      BY <1>4, <2>3
    <3>2. k.stat[t] \in {"CLOSE", "NONE"} /\ k'.stat[t] = k.stat[t]
      BY <3>1 DEF IInv, Places, Harmless
    <3>3. Contains(k.defunct, t) \/ BeingFreed(t)
      BY <2>3, <3>1, <3>2 DEF IInv, Defunct
    <3>4. Contains(k.defunct, t) => Contains(k'.defunct, t)
      BY <3>2 DEF Harmless
    <3>5. BeingFreed(t) => BeingFreed(t)'
      BY <1>4, ThreadAssumption DEF BeingFreed
    <3> QED BY <3>3, <3>4, <3>5
  <2> QED BY <2>1, <2>2, <2>3 DEF Defunct
<1>10. Running'
  <2>1. pc'[k'.cur] # "dead"
    <3>1. CASE k'.cur = c
      BY <1>1, <1>4, <3>1 DEF IInv, Running
    <3>2. CASE k'.cur # c
      <4>1. k.stat[k'.cur] \in {"READY", "SUSPEND"}
        BY <1>1, <3>2 DEF Harmless, IInv, KernelOK, TimersOK
      <4> QED BY <1>1, <1>4, <4>1 DEF IInv, Places
    <3> QED BY <3>1, <3>2
  <2> QED BY <2>1 DEF Running
<1>11. SleepEnds'
  <2> SUFFICES ASSUME NEW t \in Thread, pc'[t] \in {"sleep", "slept"}, k'.stat[t] = "SUSPEND"
               PROVE  TimerActive(k', t)
    BY DEF SleepEnds
  <2>1. k.stat[t] = "SUSPEND"
    BY DEF Harmless
  <2>2. TimerActive(k, t)
    <3>1. CASE t = c
      BY <1>2, <2>1, <3>1
    <3>2. CASE t # c
      BY <1>2, <2>1, <3>2 DEF IInv, SleepEnds
    <3> QED BY <3>1, <3>2
  <2> QED BY <2>2 DEF Harmless
<1> QED BY <1>3, <1>6, <1>7, <1>8, <1>9, <1>10, <1>11 DEF IInv

\* What the invariant says of the variables' types.
LEMMA Types ==
  ASSUME IInv
  PROVE  /\ k \in Kernel /\ k.cur \in Thread
         /\ pc \in [Thread -> Pc] /\ tgt \in [Thread -> Thread]
         /\ pc = [pc EXCEPT ![k.cur] = pc[k.cur]] /\ pc[k.cur] \in Pc
         /\ tgt = [tgt EXCEPT ![k.cur] = tgt[k.cur]] /\ tgt[k.cur] \in Thread
<1>1. /\ k \in Kernel /\ pc \in [Thread -> Pc] /\ tgt \in [Thread -> Thread]
  BY DEF IInv, TypeOK
<1>2. k.cur \in Thread
  BY <1>1 DEF Kernel
<1> QED BY <1>1, <1>2

\* SysTick_Handler: the tick and every expired timer.
LEMMA TickStep ==
  ASSUME IInv, SysTick \/ TimerCheck
  PROVE  /\ IInv' /\ Undisturbed(k, k')
         /\ \/ k.nest = 0 /\ Preempts(k')
            \/ k'.cur = k.cur /\ k'.stat = k.stat /\ k'.prio = k.prio
            \/ k.nest # 0
<1>1. /\ KernelOK(k') /\ Undisturbed(k, k')
      /\ \/ k.nest = 0 /\ Preempts(k')
         \/ k'.cur = k.cur /\ k'.stat = k.stat /\ k'.prio = k.prio
         \/ k.nest # 0
  <2>1. CASE SysTick
    BY <2>1, TickOK DEF SysTick, IInv
  <2>2. CASE TimerCheck
    BY <2>2, TimerCheckOK DEF TimerCheck, IInv, Ticking
  <2> QED BY <2>1, <2>2
<1>2. Ticking' /\ isr' \in {"none", "timer"} /\ pc' = pc /\ tgt' = tgt
  BY DEF SysTick, TimerCheck, Ticking
<1>3. k'.nest = k.nest /\ Harmless(k, k') /\ k.nest \in Nat
  BY <1>1 DEF Undisturbed, IInv, Running
<1>4. pc[k.cur] \in {"sleep", "slept"} /\ k.stat[k.cur] = "SUSPEND" => TimerActive(k, k.cur)
  BY Types DEF IInv, SleepEnds
<1>5. pc'[k'.cur] = "exited" => k'.nest = 0
  <2>1. CASE k'.cur = k.cur
    BY <1>2, <1>3, <2>1 DEF IInv, Running
  <2>2. CASE k'.cur # k.cur
    <3>1. k'.cur \in Thread
      BY <1>1 DEF KernelOK, Kernel
    <3>2. k.stat[k'.cur] \in {"READY", "SUSPEND"}
      BY <1>3, <2>2, <3>1 DEF Harmless, IInv, KernelOK, TimersOK
    <3> QED BY <1>2, <3>1, <3>2 DEF IInv, Places
  <2> QED BY <2>1, <2>2
<1>6. k'.nest = 0 /\ pc'[k'.cur] \notin {"sched", "sleep", "exited"} => k'.stat[k'.cur] = "RUNNING"
  BY <1>1, <1>2, <1>3 DEF Preempts, IInv, Running
<1>7. IInv'
  BY <1>1, <1>2, <1>3, <1>4, <1>5, <1>6, Types, QuietStep
<1> QED BY <1>1, <1>7

\* The rt_schedule of a call that has nothing else to do.
LEMMA ScheduleStep ==
  ASSUME IInv, Reschedule \/ Yield \/ SleepSchedule
  PROVE  IInv' /\ Undisturbed(k, k') /\ (k'.nest = 0 => Preempts(k'))
<1>1. k' = rt_schedule(k) /\ isr' = isr /\ isr = "none"
  BY DEF Reschedule, Yield, SleepSchedule, Call, At
<1>2. /\ KernelOK(k') /\ Undisturbed(k, k') /\ (k.nest = 0 => Preempts(k'))
  BY <1>1, ScheduleOK DEF IInv
<1>3. k'.nest = k.nest /\ Harmless(k, k') /\ k.nest \in Nat
  BY <1>2 DEF Undisturbed, IInv, Running
<1>4. PICK q \in {"run", "slept"}, r \in Thread :
        /\ pc' = [pc EXCEPT ![k.cur] = q] /\ tgt' = [tgt EXCEPT ![k.cur] = r]
        /\ pc[k.cur] \in Neutral
        /\ q = "slept" => pc[k.cur] = "sleep"
  <2>1. CASE Reschedule
    BY <2>1, Types DEF Reschedule, At, Goto, ForgetTarget, SetTarget, Neutral
  <2>2. CASE Yield
    <3>1. pc[k.cur] = "run" /\ pc' = pc /\ tgt' = tgt
      BY <2>2 DEF Yield, Call, At
    <3> QED BY <3>1, Types DEF Neutral
  <2>3. CASE SleepSchedule
    <3>1. /\ pc[k.cur] = "sleep" /\ pc' = [pc EXCEPT ![k.cur] = "slept"] /\ tgt' = tgt
      BY <2>3 DEF SleepSchedule, At, Goto
    <3> QED BY <3>1, Types DEF Neutral
  <2> QED BY <2>1, <2>2, <2>3
<1>5. q \in Pc /\ q \in Neutral
  BY <1>4 DEF Pc, Neutral
<1>6. q \in {"sleep", "slept"} /\ k.stat[k.cur] = "SUSPEND" => TimerActive(k, k.cur)
  BY <1>4, Types DEF IInv, SleepEnds
<1>7. pc'[k'.cur] = "exited" => k'.nest = 0
  <2>1. k'.cur \in Thread
    BY <1>2 DEF KernelOK, Kernel
  <2>2. CASE k'.cur = k.cur
    BY <1>4, <2>2, Types
  <2>3. CASE k'.cur # k.cur
    <3>2. k.stat[k'.cur] \in {"READY", "SUSPEND"}
      BY <1>3, <2>1, <2>3 DEF Harmless, IInv, KernelOK, TimersOK
    <3> QED BY <1>4, <2>1, <2>3, <3>2, Types DEF IInv, Places
  <2> QED BY <2>2, <2>3
<1>8. Ticking'
  BY <1>1 DEF Ticking
<1>9. IInv'
  <2>1. isr' \in {"none", "timer"}
    BY <1>1
  <2>2. k'.nest \in Nat /\ (k'.nest = 0 => k'.stat[k'.cur] = "RUNNING")
    BY <1>2, <1>3 DEF Preempts
  <2> QED BY <1>2, <1>3, <1>4, <1>5, <1>6, <1>7, <1>8, <2>1, <2>2, QuietStep
<1> QED BY <1>2, <1>3, <1>9

\* The current thread goes on and changes nothing the invariant is about but the
\* lock count, an error number or a priority.
LEMMA LocalStep ==
  ASSUME IInv, SleepReturn \/ EnterCritical \/ ExitCritical \/ \E t \in Thread, p \in Prio : Control(t, p)
  PROVE  IInv' /\ k'.cur = k.cur /\ k'.stat = k.stat
<1>1. k \in Kernel /\ KernelOK(k) /\ k.nest \in Nat /\ isr = "none" /\ isr' = isr /\ tgt' = tgt
  BY DEF IInv, TypeOK, Running, SleepReturn, EnterCritical, ExitCritical, Control, Call, At
<1>2. /\ KernelOK(k') /\ k'.cur = k.cur /\ k'.stat = k.stat /\ k'.timers = k.timers
      /\ k'.nest \in Nat
      /\ \/ k'.defunct = k.defunct
         \/ \E t \in Thread : k.stat[t] = "READY" /\ k'.defunct = Unlinked(k.defunct, t)
  <2>1. CASE SleepReturn
    <3> DEFINE e == IF k.error[k.cur] = "ETIMEOUT" THEN "EOK" ELSE k.error[k.cur]
               r == [k.error EXCEPT ![k.cur] = e]
    <3>1. r \in [Thread -> Error]
      BY <1>1 DEF Kernel, Error
    <3>2. k' = [k EXCEPT !.error = r]
      BY <1>1, <2>1 DEF SleepReturn, Kernel
    <3> HIDE DEF r
    <3>3. k' \in Kernel /\ SameCore(k, k') /\ k'.nest = k.nest /\ k'.defunct = k.defunct
      BY <1>1, <3>1, <3>2 DEF Kernel, SameCore
    <3> QED BY <1>1, <3>3, SameCoreOK DEF SameCore
  <2>2. CASE EnterCritical \/ ExitCritical
    <3>1. PICK n \in Int : n \in Nat /\ k' = [k EXCEPT !.nest = n]
      BY <1>1, <2>2 DEF EnterCritical, ExitCritical
    <3>2. k' \in Kernel /\ SameCore(k, k') /\ k'.nest = n /\ k'.defunct = k.defunct
      BY <1>1, <3>1 DEF Kernel, SameCore
    <3> QED BY <1>1, <3>1, <3>2, SameCoreOK DEF SameCore
  <2>3. CASE \E t \in Thread, p \in Prio : Control(t, p)
    <3>1. PICK t \in Thread, p \in Prio : k' = ChangePriority(k, t, p)
      BY <2>3 DEF Control
    <3> QED BY <1>1, <3>1, ChangePriorityOK
  <2> QED BY <2>1, <2>2, <2>3
<1>3. Harmless(k, k')
  <2>1. k.defunct \in Seq(Thread)
    BY <1>1 DEF Kernel
  <2>2. /\ \A x : Contains(k'.defunct, x) => Contains(k.defunct, x)
        /\ IsInjective(k.defunct) => IsInjective(k'.defunct)
        /\ \A x \in Thread : k.stat[x] # "READY" /\ Contains(k.defunct, x) => Contains(k'.defunct, x)
    BY <1>2, <2>1, UnlinkedSubset, UnlinkedElements, UnlinkedKeeps
  <2> QED BY <1>2, <2>2 DEF Harmless, TimerActive
<1>4. PICK q \in {"run", "sched"} : pc' = [pc EXCEPT ![k.cur] = q] /\ pc[k.cur] \in Neutral
  <2>1. CASE SleepReturn
    BY <2>1 DEF SleepReturn, At, Goto, Neutral
  <2>2. CASE EnterCritical \/ \E t \in Thread, p \in Prio : Control(t, p)
    <3>1. pc[k.cur] = "run" /\ pc' = pc
      BY <2>2 DEF EnterCritical, Control, Call, At
    <3> QED BY <3>1, Types DEF Neutral
  <2>3. CASE ExitCritical
    BY <2>3 DEF ExitCritical, Call, At, Goto, Neutral
  <2> QED BY <2>1, <2>2, <2>3
<1>5. q \in Pc /\ q \in Neutral /\ q \notin {"sleep", "slept"}
  BY <1>4 DEF Pc, Neutral
<1>6. pc'[k'.cur] = "exited" => k'.nest = 0
  BY <1>2, <1>4, Types
<1>7. Ticking' /\ isr' \in {"none", "timer"}
  BY <1>1 DEF Ticking
<1>8. k'.nest = 0 /\ pc'[k'.cur] \notin {"sched", "sleep", "exited"} => k'.stat[k'.cur] = "RUNNING"
  <2>1. pc[k.cur] \in {"run", "slept"}
    BY DEF SleepReturn, EnterCritical, ExitCritical, Control, Call, At
  <2>2. k'.nest = 0 /\ pc'[k.cur] # "sched" => k.nest = 0
    <3>1. CASE EnterCritical
      BY <1>1, <3>1 DEF EnterCritical, Kernel
    <3>2. CASE ExitCritical
      <4>1. k.nest # 1 => k'.nest # 0
        BY <1>1, <3>2 DEF ExitCritical, Kernel
      <4>2. k.nest = 1 => pc'[k.cur] = "sched"
        BY <3>2, Types DEF ExitCritical, Goto
      <4> QED BY <4>1, <4>2
    <3>3. CASE SleepReturn
      BY <1>1, <3>3 DEF SleepReturn, Kernel
    <3>4. CASE \E t \in Thread, p \in Prio : Control(t, p)
      BY <1>1, <3>4, ChangePriorityOK DEF Control
    <3> QED BY <3>1, <3>2, <3>3, <3>4
  <2> QED BY <1>2, <2>1, <2>2 DEF IInv, Running
<1>9. IInv'
  <2> DEFINE r == tgt[k.cur]
  <2>1. r \in Thread /\ tgt' = [tgt EXCEPT ![k.cur] = r]
    BY <1>1, Types
  <2> HIDE DEF r
  <2> QED BY <1>2, <1>3, <1>4, <1>5, <1>6, <1>7, <1>8, <2>1, QuietStep
<1> QED BY <1>2, <1>9

\* rt_thread_resume inside rt_thread_startup, before the thread is made ready.
LEMMA StartingStep ==
  ASSUME IInv, (ResumeTest /\ OnlyStarts) \/ ResumeRemove
  PROVE  IInv' /\ k'.cur = k.cur /\ k'.stat = k.stat /\ k'.prio = k.prio /\ k'.nest = k.nest
<1> DEFINE c == k.cur
           t == tgt[c]
<1>1. /\ k \in Kernel /\ KernelOK(k) /\ c \in Thread /\ t \in Thread /\ k.nest \in Nat
      /\ isr = "none" /\ isr' = isr /\ tgt' = tgt /\ k.defunct \in Seq(Thread)
  BY Types DEF IInv, Running, ResumeTest, ResumeRemove, At, Kernel
<1>2. Starting(c) /\ pc[c] \in {"resume", "unlink"}
  BY <1>1 DEF ResumeTest, ResumeRemove, At, Starting, OnlyStarts
<1>3. k.stat[t] = "SUSPEND" /\ ~TimerActive(k, t)
  BY <1>1, <1>2 DEF IInv, Started
<1>4. PICK q \in {"unlink", "insert"} : pc' = [pc EXCEPT ![c] = q]
  BY <1>3 DEF ResumeTest, ResumeRemove, Goto
<1> HIDE DEF t, c
<1>5. /\ KernelOK(k') /\ k'.cur = c /\ k'.stat = k.stat /\ k'.prio = k.prio /\ k'.nest = k.nest
      /\ \A x \in Thread : TimerActive(k', x) <=> TimerActive(k, x)
      /\ k'.defunct = k.defunct \/ k'.defunct = Unlinked(k.defunct, t)
  <2>1. CASE ResumeTest
    BY <1>1, <2>1 DEF ResumeTest, c
  <2>2. CASE ResumeRemove
    <3> DEFINE v == rt_list_remove(k, t)
    <3>1. k' = rt_timer_stop(v, t)
      BY <2>2 DEF ResumeRemove, ResumeUnlink, t, c
    <3>2. /\ KernelOK(v) /\ SameButQueues(k, v) /\ v.cur = k.cur /\ v.stat = k.stat
          /\ v.defunct = Unlinked(k.defunct, t)
      BY <1>1, <1>3, ListRemoveOK
    <3> HIDE DEF v
    <3>3. /\ KernelOK(k') /\ k'.stat = v.stat /\ k'.prio = v.prio /\ k'.cur = v.cur
          /\ k'.nest = v.nest /\ k'.defunct = v.defunct
          /\ \A x \in Thread : TimerActive(k', x) <=> (TimerActive(v, x) /\ x # t)
      BY <1>1, <3>1, <3>2, TimerStopOK
    <3>4. v.prio = k.prio /\ v.nest = k.nest /\ v.timers = k.timers
      BY <3>2 DEF SameButQueues
    <3> QED BY <1>3, <3>2, <3>3, <3>4 DEF TimerActive, c
  <2> QED BY <2>1, <2>2
<1>6. Harmless(k, k')
  <2>1. /\ \A x : Contains(k'.defunct, x) => Contains(k.defunct, x)
        /\ IsInjective(k.defunct) => IsInjective(k'.defunct)
        /\ \A x : x # t /\ Contains(k.defunct, x) => Contains(k'.defunct, x)
    BY <1>1, <1>5, UnlinkedSubset, UnlinkedElements, UnlinkedKeeps
  <2> QED BY <1>3, <1>5, <2>1 DEF Harmless, c
<1>7. q \in Pc
  BY <1>4 DEF Pc
<1>8. pc'[k'.cur] # "exited"
  BY <1>1, <1>4, <1>5, Types
<1>9. Ticking' /\ isr' \in {"none", "timer"}
  BY <1>1 DEF Ticking
<1>10. t = tgt[k.cur] /\ tgt' = [tgt EXCEPT ![k.cur] = t]
  BY <1>1, Types DEF t, c
<1>11. k'.nest = 0 => k'.stat[k'.cur] = "RUNNING"
  BY <1>2, <1>5 DEF IInv, Running, c
<1>12. IInv'
  BY <1>1, <1>2, <1>4, <1>5, <1>6, <1>7, <1>8, <1>9, <1>10, <1>11, QuietStep DEF c
<1> QED BY <1>5, <1>12 DEF c

\* rt_thread_sleep
LEMMA SleepStep ==
  ASSUME IInv, NEW n \in Ticks, Sleep(n)
  PROVE  IInv' /\ k'.cur = k.cur /\ k'.nest = k.nest
<1> DEFINE c == k.cur
<1>1. /\ k \in Kernel /\ KernelOK(k) /\ c \in Thread /\ c # Idle /\ pc[c] = "run"
      /\ isr = "none" /\ isr' = isr /\ tgt' = tgt
      /\ pc' = [pc EXCEPT ![c] = "sleep"]
      /\ k' = rt_timer_start(rt_thread_suspend(k, c), c, n)
  BY Types DEF IInv, Sleep, Call, At, Goto
<1>2. k.stat[c] # "CLOSE"
  BY <1>1 DEF IInv, Places
<1>3. n \in Int
  BY TicksAssumption
<1>4. /\ KernelOK(k') /\ k'.cur = c /\ k'.nest = k.nest
      /\ k'.stat = [k.stat EXCEPT ![c] = "SUSPEND"]
      /\ \A x \in Thread : TimerActive(k', x) <=> (TimerActive(k, x) \/ x = c)
      /\ \A x : x # c /\ Contains(k.defunct, x) => Contains(k'.defunct, x)
      /\ \A x : Contains(k'.defunct, x) => Contains(k.defunct, x)
      /\ IsInjective(k.defunct) => IsInjective(k'.defunct)
  <2>1. /\ KernelOK(k) /\ k.cur # Idle /\ k.stat[k.cur] # "CLOSE"
        /\ k' = rt_timer_start(rt_thread_suspend(k, k.cur), k.cur, n)
    BY <1>1, <1>2
  <2> QED BY <1>3, <2>1, SleepOK
<1>5. \A x \in Thread : /\ k'.stat[x] = IF x = c THEN "SUSPEND" ELSE k.stat[x]
                        /\ pc'[x] = IF x = c THEN "sleep" ELSE pc[x]
  BY <1>1, <1>4, Types DEF Kernel
<1> HIDE DEF c
<1>6. TypeOK'
  BY <1>1, <1>4, Types DEF TypeOK, KernelOK, Pc
<1>7. Places'
  BY <1>2, <1>5 DEF IInv, Places
<1>8. Started'
  <2>1. \A d \in Thread : Starting(d)' <=> (Starting(d) /\ d # c)
    BY <1>1, <1>5 DEF Starting
  <2>2. \A d \in Thread : tgt[d] \in Thread
    BY Types
  <2> QED BY <1>1, <1>4, <1>5, <2>1, <2>2 DEF IInv, Started, c
<1>9. Reaping'
  <2>1. \A d \in Thread : tgt[d] \in Thread
    BY Types
  <2> QED BY <1>1, <1>4, <1>5, <2>1 DEF IInv, Reaping, c
<1>10. Defunct'
  <2>1. \A t \in Thread : BeingFreed(t) => BeingFreed(t)'
    BY <1>1, <1>5, ThreadAssumption DEF BeingFreed
  <2>2. ~Contains(k.defunct, c)
    BY <1>1, <1>2 DEF IInv, Defunct
  <2> QED BY <1>4, <1>5, <2>1, <2>2 DEF IInv, Defunct
<1>11. Running'
  BY <1>1, <1>4, <1>5 DEF IInv, Running
<1>12. SleepEnds'
  BY <1>4, <1>5 DEF IInv, SleepEnds
<1>13. Ticking'
  BY <1>1 DEF Ticking
<1> QED BY <1>4, <1>6, <1>7, <1>8, <1>9, <1>10, <1>11, <1>12, <1>13 DEF IInv, c

\* rt_thread_create and rt_thread_init, and rt_thread_startup up to its call of
\* rt_thread_resume: a control block outside the scheduler's lists changes.
LEMMA NewThreadStep ==
  ASSUME IInv, NEW t \in Thread, Create(t) \/ Startup(t)
  PROVE  /\ IInv' /\ k'.cur = k.cur /\ k'.nest = k.nest /\ t # k.cur
         /\ \A x \in Thread \ {t} : k'.stat[x] = k.stat[x] /\ k'.prio[x] = k.prio[x]
         /\ k'.stat[t] # "READY" /\ pc[k.cur] = "run"
<1> DEFINE c == k.cur
<1>1. /\ k \in Kernel /\ KernelOK(k) /\ c \in Thread /\ c # Idle /\ pc[c] = "run"
      /\ isr = "none" /\ isr' = isr
  BY Types DEF IInv, Create, Startup, Call, At
<1>2. t # c /\ k.stat[t] \in {"NONE", "INIT", "CLOSE"} /\ (k.stat[t] = "CLOSE" => t \in Static)
  BY <1>1 DEF IInv, Create, Startup, Unused, KernelOK, CurrentOK
<1>3. PICK s \in {"INIT", "SUSPEND"} :
        /\ k' \in Kernel /\ k'.stat = [k.stat EXCEPT ![t] = s]
        /\ (\A x \in Thread \ {t} : k'.prio[x] = k.prio[x])
        /\ k'.cur = k.cur /\ k'.nest = k.nest /\ k'.ready = k.ready /\ k'.group = k.group
        /\ k'.timers = k.timers /\ k'.defunct = k.defunct
        /\ (s = "SUSPEND" <=> Startup(t))
        /\ (s = "SUSPEND" => k.stat[t] = "INIT" /\ pc' = [pc EXCEPT ![c] = "resume"]
                              /\ tgt' = [tgt EXCEPT ![c] = t])
        /\ (s = "INIT" => k.stat[t] # "INIT" /\ pc' = [pc EXCEPT ![t] = "run"] /\ tgt' = tgt)
  <2> DEFINE pr == [k.prio EXCEPT ![t] = InitPrio[t]]
             sl == [k.slice EXCEPT ![t] = InitTick[t]]
             er == [k.error EXCEPT ![t] = "EOK"]
             si == [k.stat EXCEPT ![t] = "INIT"]
             ss == [k.stat EXCEPT ![t] = "SUSPEND"]
  <2>1. /\ pr \in [Thread -> Prio] /\ sl \in [Thread -> Nat \ {0}] /\ er \in [Thread -> Error]
        /\ si \in [Thread -> Stat] /\ ss \in [Thread -> Stat]
        /\ \A x \in Thread \ {t} : pr[x] = k.prio[x]
    BY <1>1, InitPrioAssumption, InitTickAssumption DEF Kernel, Prio, Stat, Error
  <2>2. CASE Create(t)
    <3>1. k' = [k EXCEPT !.stat = si, !.prio = pr, !.slice = sl, !.error = er]
      BY <1>1, <2>2 DEF Create, Kernel
    <3>2. pc' = [pc EXCEPT ![t] = "run"] /\ tgt' = tgt /\ k.stat[t] # "INIT"
      BY <2>2 DEF Create, Unused
    <3>3. ~Startup(t)
      BY <3>2 DEF Startup
    <3> HIDE DEF pr, sl, er, si, ss
    <3>4. /\ k' \in Kernel /\ k'.stat = si /\ k'.prio = pr
          /\ k'.cur = k.cur /\ k'.nest = k.nest /\ k'.ready = k.ready /\ k'.group = k.group
          /\ k'.timers = k.timers /\ k'.defunct = k.defunct
      BY <1>1, <2>1, <3>1 DEF Kernel
    <3> QED BY <2>1, <3>2, <3>3, <3>4 DEF si
  <2>3. CASE Startup(t)
    <3>1. k' = [k EXCEPT !.prio = pr, !.stat = ss]
      BY <1>1, <2>3 DEF Startup, Kernel
    <3>2. pc' = [pc EXCEPT ![c] = "resume"] /\ tgt' = [tgt EXCEPT ![c] = t] /\ k.stat[t] = "INIT"
      BY <2>3 DEF Startup, Goto, SetTarget
    <3> HIDE DEF pr, sl, er, si, ss
    <3>4. /\ k' \in Kernel /\ k'.stat = ss /\ k'.prio = pr
          /\ k'.cur = k.cur /\ k'.nest = k.nest /\ k'.ready = k.ready /\ k'.group = k.group
          /\ k'.timers = k.timers /\ k'.defunct = k.defunct
      BY <1>1, <2>1, <3>1 DEF Kernel
    <3> QED BY <2>1, <2>3, <3>2, <3>4 DEF ss
  <2> QED BY <2>2, <2>3
<1>4. \A x \in Thread : k'.stat[x] = IF x = t THEN s ELSE k.stat[x]
  BY <1>1, <1>3 DEF Kernel
<1>5. KernelOK(k')
  <2>1. /\ k' \in Kernel /\ k'.stat[t] \in {"NONE", "INIT", "SUSPEND"}
        /\ \A x \in Thread \ {t} : k'.stat[x] = k.stat[x] /\ k'.prio[x] = k.prio[x]
        /\ k'.cur = k.cur /\ k'.ready = k.ready /\ k'.group = k.group /\ k'.timers = k.timers
    BY <1>3, <1>4
  <2>2. t # k.cur /\ k.stat[t] \in {"NONE", "INIT", "CLOSE"}
    BY <1>2
  <2> HIDE DEF c
  <2> QED BY <1>1, <2>1, <2>2, OffTableOK
<1>6. \A x \in Thread :
        /\ pc'[x] = IF s = "INIT" /\ x = t THEN "run"
                    ELSE IF s = "SUSPEND" /\ x = c THEN "resume" ELSE pc[x]
        /\ tgt'[x] = IF s = "SUSPEND" /\ x = c THEN t ELSE tgt[x]
  BY <1>1, <1>3, Types
<1>7. TypeOK'
  BY <1>1, <1>3, Types DEF TypeOK, Pc
<1>8. s = "SUSPEND" => pc[t] = "run"
  BY <1>3 DEF IInv, Places
<1>9. \A d \in Thread : tgt[d] \in Thread
  BY Types
<1> HIDE DEF c
<1>10. Places'
  <2>1. k.stat[c] # "INIT"
    BY DEF IInv, KernelOK, CurrentOK, c
  <2> QED BY <1>1, <1>2, <1>4, <1>6, <1>8, <2>1 DEF IInv, Places
<1>11. Started'
  <2>1. ~TimerActive(k, t) /\ \A x \in Thread : TimerActive(k', x) <=> TimerActive(k, x)
    BY <1>2, <1>3 DEF IInv, KernelOK, TimersOK, TimerActive
  <2>2. \A d \in Thread : Starting(d)' /\ ~(s = "SUSPEND" /\ d = c) => Starting(d)
    BY <1>6 DEF Starting
  <2>3. \A d \in Thread : Starting(d) => tgt[d] # t /\ d # c
    BY <1>1, <1>2 DEF IInv, Started, Starting
  <2> QED BY <1>2, <1>3, <1>4, <1>6, <1>9, <2>1, <2>2, <2>3 DEF IInv, Started, c
<1>12. Reaping'
  <2>1. \A d \in Thread : pc'[d] = "reap" => pc[d] = "reap" /\ tgt'[d] = tgt[d]
    BY <1>1, <1>6
  <2>2. \A d \in Thread : pc[d] = "reap" => tgt[d] # t
    BY <1>2, <1>9 DEF IInv, Reaping
  <2> QED BY <1>3, <1>4, <1>9, <2>1, <2>2 DEF IInv, Reaping
<1>13. Defunct'
  <2>1. \A x \in Thread : BeingFreed(x) => BeingFreed(x)'
    <3>1. Idle \in Thread /\ t # Idle
      BY <1>2, ThreadAssumption DEF IInv, KernelOK
    <3> QED BY <1>1, <1>6, <3>1 DEF BeingFreed
  <2>2. ~Contains(k.defunct, t)
    BY <1>2 DEF IInv, Defunct
  <2> QED BY <1>3, <1>4, <1>6, <1>8, <2>1, <2>2 DEF IInv, Defunct
<1>14. Running'
  BY <1>1, <1>2, <1>3, <1>4, <1>6 DEF IInv, Running, c
<1>15. SleepEnds'
  <2>1. \A x \in Thread : TimerActive(k', x) <=> TimerActive(k, x)
    BY <1>3 DEF TimerActive
  <2> QED BY <1>4, <1>6, <1>8, <2>1 DEF IInv, SleepEnds
<1>16. Ticking'
  BY <1>1 DEF Ticking
<1>17. IInv'
  BY <1>5, <1>7, <1>10, <1>11, <1>12, <1>13, <1>14, <1>15, <1>16 DEF IInv
<1> QED BY <1>1, <1>2, <1>3, <1>4, <1>17 DEF c

\* The second section of rt_thread_resume: the started thread becomes ready.
LEMMA InsertStep ==
  ASSUME IInv, ResumeInsert
  PROVE  IInv' /\ k'.cur = k.cur /\ k'.nest = k.nest /\ pc'[k.cur] = "sched"
<1> DEFINE c == k.cur
           t == tgt[c]
<1>1. /\ k \in Kernel /\ KernelOK(k) /\ c \in Thread /\ t \in Thread
      /\ isr = "none" /\ isr' = isr /\ tgt' = tgt
      /\ pc[c] = "insert" /\ pc' = [pc EXCEPT ![c] = "sched"]
      /\ k' = rt_schedule_insert_thread(k, t)
  BY Types DEF IInv, ResumeInsert, At, Goto
<1>2. /\ k.stat[t] = "SUSPEND" /\ ~TimerActive(k, t) /\ t # c
      /\ \A d \in Thread : Starting(d) /\ tgt[d] = t => d = c
  BY <1>1 DEF IInv, Started, Starting
<1> HIDE DEF c, t
<1>3. /\ KernelOK(k') /\ SameButQueues(k, k') /\ k'.cur = k.cur /\ k'.defunct = k.defunct
      /\ k'.stat = [k.stat EXCEPT ![t] = IF t = k.cur THEN "RUNNING" ELSE "READY"]
  BY <1>1, <1>2, InsertOK
<1>4. /\ \A x \in Thread : k'.stat[x] = IF x = t THEN "READY" ELSE k.stat[x]
      /\ \A x \in Thread : pc'[x] = IF x = c THEN "sched" ELSE pc[x]
      /\ k'.nest = k.nest
      /\ \A x \in Thread : TimerActive(k', x) <=> TimerActive(k, x)
      /\ \A x \in Thread : tgt[x] \in Thread
  BY <1>1, <1>2, <1>3, Types DEF Kernel, SameButQueues, TimerActive, c
<1>5. TypeOK'
  BY <1>1, <1>3, Types DEF TypeOK, KernelOK, Pc
<1>6. Places'
  <2>1. k.stat[c] # "INIT"
    BY DEF IInv, KernelOK, CurrentOK, c
  <2> QED BY <1>1, <1>2, <1>4, <2>1 DEF IInv, Places
<1>7. Started'
  <2>1. \A d \in Thread : Starting(d)' <=> (Starting(d) /\ d # c)
    BY <1>1, <1>4 DEF Starting
  <2> QED BY <1>1, <1>2, <1>3, <1>4, <2>1 DEF IInv, Started
<1>8. Reaping'
  BY <1>1, <1>2, <1>3, <1>4 DEF IInv, Reaping
<1>9. Defunct'
  <2>1. \A x \in Thread : BeingFreed(x) => BeingFreed(x)'
    BY <1>1, <1>4, ThreadAssumption DEF BeingFreed
  <2> QED BY <1>2, <1>3, <1>4, <2>1 DEF IInv, Defunct
<1>10. Running'
  BY <1>1, <1>3, <1>4 DEF IInv, Running, c
<1>11. SleepEnds'
  BY <1>4 DEF IInv, SleepEnds
<1>12. Ticking'
  BY <1>1 DEF Ticking
<1>13. IInv'
  BY <1>3, <1>5, <1>6, <1>7, <1>8, <1>9, <1>10, <1>11, <1>12 DEF IInv
<1> QED BY <1>1, <1>3, <1>4, <1>13 DEF c

\* rt_thread_exit up to its rt_schedule.
LEMMA ExitStep ==
  ASSUME IInv, Exit
  PROVE  IInv' /\ k'.cur = k.cur /\ k'.nest = k.nest /\ pc'[k.cur] = "exited"
<1> DEFINE c == k.cur
           a == rt_timer_stop(k, c)
           v == SetStat(rt_schedule_remove_thread(k, c), c, "CLOSE")
           u == rt_timer_stop(v, c)
<1>1. /\ k \in Kernel /\ KernelOK(k) /\ c \in Thread /\ c # Idle /\ k.nest = 0
      /\ isr = "none" /\ isr' = isr /\ tgt' = tgt
      /\ pc[c] = "run" /\ pc' = [pc EXCEPT ![c] = "exited"]
      /\ k' = IF c \in Static THEN u ELSE [u EXCEPT !.defunct = <<c>> \o @]
  BY Types DEF IInv, Exit, Call, At, Goto
<1>2. k.stat[c] = "RUNNING"
  BY <1>1 DEF IInv, Running
<1>3. ~TimerActive(k, c)
  BY <1>1, <1>2 DEF KernelOK, TimersOK
<1>4. /\ KernelOK(v) /\ SameButQueues(k, v) /\ v.cur = k.cur
      /\ v.stat = [k.stat EXCEPT ![c] = "CLOSE"]
      /\ v.defunct = Unlinked(k.defunct, c)
  BY <1>1, <1>3, LeaveOK
<1> HIDE DEF v
<1>5. /\ KernelOK(u) /\ u.stat = v.stat /\ u.prio = v.prio /\ u.cur = v.cur /\ u.nest = v.nest
      /\ u.defunct = v.defunct
      /\ \A x \in Thread : TimerActive(u, x) <=> (TimerActive(v, x) /\ x # c)
  BY <1>1, <1>4, TimerStopOK
<1> HIDE DEF u
<1>6. ~Contains(k.defunct, c) /\ IsInjective(k.defunct) /\ k.defunct \in Seq(Thread)
  BY <1>1, <1>2 DEF IInv, Defunct, Kernel
<1>7. u.defunct = k.defunct
  BY <1>4, <1>5, <1>6, UnlinkedAbsent
<1>8. /\ KernelOK(k') /\ k'.stat = u.stat /\ k'.cur = u.cur /\ k'.nest = u.nest
      /\ k'.timers = u.timers
      /\ k'.defunct = IF c \in Static THEN k.defunct ELSE <<c>> \o k.defunct
  <2>1. CASE c \in Static
    BY <1>1, <1>5, <1>7, <2>1
  <2>2. CASE c \notin Static
    <3> DEFINE f == <<c>> \o k.defunct
    <3>1. f \in Seq(Thread)
      BY <1>1, <1>6, PrependElements
    <3>2. u \in Kernel /\ k' = [u EXCEPT !.defunct = f]
      BY <1>1, <1>5, <1>7, <2>2 DEF KernelOK
    <3> HIDE DEF f
    <3>3. k' \in Kernel /\ SameCore(u, k') /\ k'.nest = u.nest /\ k'.defunct = f
      BY <3>1, <3>2 DEF Kernel, SameCore
    <3> QED BY <1>5, <2>2, <3>3, SameCoreOK DEF SameCore, f
  <2> QED BY <2>1, <2>2
<1>9. /\ \A x \in Thread : k'.stat[x] = IF x = c THEN "CLOSE" ELSE k.stat[x]
      /\ \A x \in Thread : pc'[x] = IF x = c THEN "exited" ELSE pc[x]
      /\ k'.nest = 0 /\ k'.cur = c
      /\ \A x \in Thread : TimerActive(k', x) <=> TimerActive(k, x)
      /\ \A x \in Thread : tgt[x] \in Thread
  BY <1>1, <1>3, <1>4, <1>5, <1>8, Types DEF Kernel, SameButQueues, TimerActive
<1> HIDE DEF c
<1>10. /\ IsInjective(k'.defunct)
       /\ \A x : Contains(k'.defunct, x) <=> (Contains(k.defunct, x) \/ (x = c /\ c \notin Static))
  <2>1. CASE c \in Static
    BY <1>6, <1>8, <2>1
  <2>2. CASE c \notin Static
    <3>1. k'.defunct = <<c>> \o k.defunct
      BY <1>8, <2>2
    <3>2. /\ IsInjective(<<c>> \o k.defunct)
          /\ \A x : Contains(<<c>> \o k.defunct, x) <=> Contains(k.defunct, x) \/ x = c
      BY <1>1, <1>6, PrependElements
    <3> QED BY <2>2, <3>1, <3>2
  <2> QED BY <2>1, <2>2
<1>11. TypeOK'
  BY <1>1, <1>8, Types DEF TypeOK, KernelOK, Pc
<1>12. Places'
  BY <1>1, <1>2, <1>9 DEF IInv, Places
<1>13. Started'
  <2>1. \A d \in Thread : Starting(d)' <=> (Starting(d) /\ d # c)
    BY <1>1, <1>9 DEF Starting
  <2>2. \A d \in Thread : Starting(d) =>
          /\ k.stat[tgt[d]] = "SUSPEND" /\ ~TimerActive(k, tgt[d]) /\ tgt[d] # c
          /\ \A e \in Thread : Starting(e) /\ tgt[e] = tgt[d] => e = d
    BY DEF IInv, Started, c
  <2> QED BY <1>1, <1>9, <2>1, <2>2 DEF Started
<1>14. Reaping'
  <2>1. \A d \in Thread : pc'[d] = "reap" <=> pc[d] = "reap"
    BY <1>1, <1>9
  <2> QED BY <1>1, <1>9, <1>10, <2>1 DEF IInv, Reaping, c
<1>15. Defunct'
  <2>1. \A x \in Thread : BeingFreed(x) => BeingFreed(x)'
    BY <1>1, <1>9, ThreadAssumption DEF BeingFreed
  <2> QED BY <1>9, <1>10, <2>1 DEF IInv, Defunct
<1>16. Running'
  BY <1>1, <1>9 DEF Running
<1>17. SleepEnds'
  BY <1>9 DEF IInv, SleepEnds
<1>18. Ticking'
  BY <1>1 DEF Ticking
<1>19. IInv'
  BY <1>8, <1>11, <1>12, <1>13, <1>14, <1>15, <1>16, <1>17, <1>18 DEF IInv
<1> QED BY <1>1, <1>9, <1>19 DEF c

\* The rt_schedule at the end of rt_thread_exit, from which the thread does not
\* return: its status is CLOSE and the scheduler is not locked.
LEMMA ExitScheduleStep ==
  ASSUME IInv, ExitSchedule
  PROVE  IInv' /\ Undisturbed(k, k') /\ Preempts(k')
<1> DEFINE c == k.cur
           r == tgt[c]
<1>1. /\ k' = rt_schedule(k) /\ isr' = isr /\ isr = "none" /\ tgt' = tgt
      /\ pc[c] = "exited" /\ pc' = [pc EXCEPT ![c] = "dead"] /\ c \in Thread
      /\ r \in Thread /\ tgt = [tgt EXCEPT ![c] = r]
  BY Types DEF ExitSchedule, At, Goto
<1>2. k.nest = 0 /\ k.stat[c] \in {"CLOSE", "NONE"}
  BY <1>1 DEF IInv, Running, Places
<1>3. KernelOK(k') /\ Undisturbed(k, k') /\ Preempts(k')
  BY <1>1, <1>2, ScheduleOK DEF IInv
<1>4. k'.nest = 0 /\ Harmless(k, k') /\ k'.stat[k'.cur] = "RUNNING" /\ k'.cur \in Thread
  BY <1>2, <1>3 DEF Undisturbed, Preempts, KernelOK, Kernel
<1>5. k'.cur # c
  BY <1>1, <1>2, <1>4 DEF Harmless
<1> HIDE DEF r
<1>6. IInv'
  <2>1. Ticking' /\ isr' \in {"none", "timer"}
    BY <1>1 DEF Ticking
  <2>2. "dead" \in Pc /\ k'.nest \in Nat
    BY <1>4 DEF Pc
  <2> QED BY <1>1, <1>3, <1>4, <1>5, <2>1, <2>2, QuietStep
<1> QED BY <1>3, <1>6

\* rt_thread_idle_excute: the first defunct thread is taken off the list.
LEMMA ReapStep ==
  ASSUME IInv, IdleReap
  PROVE  IInv' /\ (k'.nest = 0 => Preempts(k')) /\ k'.nest = k.nest
         /\ (k.nest # 0 => k'.cur = k.cur)
<1> DEFINE h == Head(k.defunct)
           v == rt_list_remove(k, h)
<1>1. /\ k \in Kernel /\ KernelOK(k) /\ k.cur = Idle /\ Idle \in Thread
      /\ isr' = isr /\ isr = "none" /\ k.defunct \in Seq(Thread) /\ k.defunct # << >>
      /\ pc[Idle] = "run" /\ pc' = [pc EXCEPT ![Idle] = "reap"]
      /\ tgt' = [tgt EXCEPT ![Idle] = h]
      /\ k' = rt_schedule(v)
  BY Types DEF IInv, IdleReap, At, Goto, SetTarget, Kernel
<1>2. h \in Thread /\ Contains(k.defunct, h)
  BY <1>1, HeadElement
<1>3. k.stat[h] = "CLOSE" /\ h \notin Static /\ h # Idle /\ ~TimerActive(k, h)
  BY <1>1, <1>2 DEF IInv, Defunct, KernelOK, TimersOK
<1> HIDE DEF h
<1>4. /\ KernelOK(v) /\ SameButQueues(k, v) /\ v.cur = k.cur /\ v.stat = k.stat
      /\ v.defunct = Unlinked(k.defunct, h)
  BY <1>1, <1>2, <1>3, ListRemoveOK
<1>5. v.nest = k.nest /\ v.timers = k.timers
  BY <1>4 DEF SameButQueues
<1> HIDE DEF v
<1>6. KernelOK(k') /\ Undisturbed(v, k') /\ (v.nest = 0 => Preempts(k'))
  BY <1>1, <1>4, ScheduleOK
<1>7. /\ IsInjective(v.defunct)
      /\ \A x : Contains(v.defunct, x) <=> Contains(k.defunct, x) /\ x # h
  BY <1>1, <1>4, UnlinkedElements DEF IInv, Defunct
<1>8. /\ k'.nest = k.nest /\ (k.nest # 0 => k'.cur = k.cur)
      /\ k'.cur = Idle \/ k.stat[k'.cur] = "READY" \/ TimerActive(k, k'.cur)
      /\ k'.cur \in Thread
      /\ \A x \in Thread : TimerActive(v, x) <=> TimerActive(k, x)
  BY <1>1, <1>4, <1>5, <1>6 DEF Undisturbed, Harmless, TimerActive, KernelOK, Kernel
<1>9. \A t \in Thread :
        /\ k.stat[t] \in {"NONE", "INIT", "CLOSE"} => k'.stat[t] = k.stat[t]
        /\ k.stat[t] \notin {"NONE", "INIT", "CLOSE"} => k'.stat[t] \notin {"NONE", "INIT", "CLOSE"}
        /\ k.stat[t] # "SUSPEND" => k'.stat[t] # "SUSPEND"
        /\ k.stat[t] = "SUSPEND" /\ ~TimerActive(k, t) => k'.stat[t] = "SUSPEND"
        /\ TimerActive(k', t) => TimerActive(k, t)
        /\ TimerActive(k, t) /\ k'.stat[t] = "SUSPEND" => TimerActive(k', t)
  BY <1>4, <1>6, <1>8 DEF Undisturbed, Harmless
<1>10. /\ \A x \in Thread : k.stat[x] = "CLOSE" =>
             (Contains(k'.defunct, x) <=> Contains(k.defunct, x) /\ x # h)
       /\ \A x : Contains(k'.defunct, x) => Contains(k.defunct, x) /\ x # h
       /\ IsInjective(k'.defunct)
  BY <1>4, <1>6, <1>7 DEF Undisturbed, Harmless
<1>11. \A x \in Thread : /\ pc'[x] = IF x = Idle THEN "reap" ELSE pc[x]
                         /\ tgt'[x] = IF x = Idle THEN h ELSE tgt[x]
                         /\ tgt[x] \in Thread
  BY <1>1, Types
<1>12. TypeOK'
  BY <1>1, <1>2, <1>6, Types DEF TypeOK, KernelOK, Pc
<1>13. Places'
  BY <1>1, <1>9, <1>11 DEF IInv, Places, KernelOK
<1>14. Started'
  <2>1. \A d \in Thread : Starting(d)' => Starting(d) /\ tgt'[d] = tgt[d]
    BY <1>11 DEF Starting
  <2>2. \A d \in Thread : Starting(d) =>
          /\ k.stat[tgt[d]] = "SUSPEND" /\ ~TimerActive(k, tgt[d]) /\ tgt[d] # Idle
          /\ \A e \in Thread : Starting(e) /\ tgt[e] = tgt[d] => e = d
    BY <1>1 DEF IInv, Started
  <2> QED BY <1>8, <1>9, <1>11, <2>1, <2>2 DEF Started
<1>15. Reaping'
  <2>1. h # k'.cur
    BY <1>3, <1>8
  <2>2. \A d \in Thread : pc'[d] = "reap" => d = Idle
    BY <1>11 DEF IInv, Reaping
  <2> QED BY <1>2, <1>3, <1>9, <1>10, <1>11, <2>1, <2>2 DEF Reaping
<1>16. Defunct'
  <2>1. ASSUME NEW t \in Thread, pc'[t] \in {"exited", "dead"}, t \notin Static, k'.stat[t] # "NONE"
        PROVE  Contains(k'.defunct, t) \/ BeingFreed(t)'
    <3>1. pc[t] \in {"exited", "dead"}
      BY <1>11, <2>1
    <3>2. k.stat[t] = "CLOSE"
      BY <1>9, <2>1, <3>1 DEF IInv, Places
    <3>3. Contains(k.defunct, t)
      BY <1>1, <2>1, <3>1, <3>2 DEF IInv, Defunct, BeingFreed
    <3>4. t = h => BeingFreed(t)'
      BY <1>1, <1>11 DEF BeingFreed
    <3> QED BY <1>10, <3>2, <3>3, <3>4
  <2>2. \A t \in Thread : Contains(k'.defunct, t) => k'.stat[t] = "CLOSE" /\ t \notin Static
    BY <1>9, <1>10 DEF IInv, Defunct
  <2> QED BY <1>10, <2>1, <2>2 DEF Defunct
<1>17. Running'
  <2>1. pc'[k'.cur] \notin {"dead", "exited"}
    <3>1. CASE k'.cur = Idle
      BY <1>8, <1>11, <3>1
    <3>2. CASE k'.cur # Idle
      <4>1. k.stat[k'.cur] \in {"READY", "SUSPEND"}
        BY <1>8, <3>2 DEF IInv, KernelOK, TimersOK
      <4> QED BY <1>8, <1>11, <3>2, <4>1 DEF IInv, Places
    <3> QED BY <3>1, <3>2
  <2>2. k'.nest = 0 => k'.stat[k'.cur] = "RUNNING"
    BY <1>5, <1>6, <1>8 DEF Preempts
  <2> QED BY <1>8, <2>1, <2>2 DEF IInv, Running
<1>18. SleepEnds'
  BY <1>9, <1>11 DEF IInv, SleepEnds
<1>19. Ticking'
  BY <1>1 DEF Ticking
<1>20. IInv'
  BY <1>6, <1>12, <1>13, <1>14, <1>15, <1>16, <1>17, <1>18, <1>19 DEF IInv
<1> QED BY <1>5, <1>6, <1>8, <1>20

\* The idle thread has freed the memory of the thread.
LEMMA FreeStep ==
  ASSUME IInv, IdleFree
  PROVE  IInv' /\ k'.cur = k.cur /\ k'.nest = k.nest /\ k'.prio = k.prio
         /\ \A x \in Thread : k'.stat[x] = "READY" <=> k.stat[x] = "READY"
<1> DEFINE h == tgt[Idle]
<1>1. /\ k \in Kernel /\ KernelOK(k) /\ k.cur = Idle /\ Idle \in Thread
      /\ isr' = isr /\ isr = "none" /\ h \in Thread
      /\ pc[Idle] = "reap" /\ pc' = [pc EXCEPT ![Idle] = "run"]
      /\ tgt' = [tgt EXCEPT ![Idle] = Idle]
      /\ k' = SetStat(k, h, "NONE")
  <2>1. k.cur = Idle
    BY Types DEF IInv, IdleFree, At, Reaping
  <2> QED BY <2>1, Types DEF IInv, IdleFree, At, Goto, ForgetTarget, SetTarget
<1>2. k.stat[h] = "CLOSE" /\ h \notin Static /\ h # Idle /\ ~Contains(k.defunct, h)
  BY <1>1 DEF IInv, Reaping
<1> HIDE DEF h
<1>3. /\ k' \in Kernel /\ SameButQueues(k, k') /\ k'.cur = k.cur /\ k'.defunct = k.defunct
      /\ k'.ready = k.ready /\ k'.group = k.group
      /\ k'.stat = [k.stat EXCEPT ![h] = "NONE"]
  <2>1. "NONE" \in Stat
    BY DEF Stat
  <2> QED BY <1>1, <2>1, SetStatFacts
<1>4. /\ \A x \in Thread : k'.stat[x] = IF x = h THEN "NONE" ELSE k.stat[x]
      /\ k'.nest = k.nest /\ k'.prio = k.prio /\ k'.timers = k.timers
  BY <1>1, <1>3 DEF Kernel, SameButQueues
<1>5. KernelOK(k')
  BY <1>1, <1>2, <1>3, <1>4, OffTableOK
<1>6. \A x \in Thread : /\ pc'[x] = IF x = Idle THEN "run" ELSE pc[x]
                        /\ tgt'[x] = IF x = Idle THEN Idle ELSE tgt[x]
                        /\ tgt[x] \in Thread
                        /\ TimerActive(k', x) <=> TimerActive(k, x)
  BY <1>1, <1>4, Types DEF TimerActive
<1>7. TypeOK'
  BY <1>1, <1>3, Types DEF TypeOK, Pc
<1>8. Places'
  <2>1. k.stat[Idle] \notin {"CLOSE", "INIT"}
    BY <1>1 DEF KernelOK
  <2> QED BY <1>4, <1>6, <2>1 DEF IInv, Places
<1>9. Started'
  <2>1. \A d \in Thread : Starting(d)' => Starting(d) /\ tgt'[d] = tgt[d]
    BY <1>6 DEF Starting
  <2>2. \A d \in Thread : Starting(d) =>
          /\ k.stat[tgt[d]] = "SUSPEND" /\ ~TimerActive(k, tgt[d]) /\ tgt[d] # k.cur
          /\ \A e \in Thread : Starting(e) /\ tgt[e] = tgt[d] => e = d
    BY DEF IInv, Started
  <2> QED BY <1>2, <1>3, <1>4, <1>6, <2>1, <2>2 DEF Started
<1>10. Reaping'
  BY <1>6 DEF IInv, Reaping
<1>11. Defunct'
  <2>1. \A t \in Thread : BeingFreed(t) => t = h
    BY DEF BeingFreed, h
  <2> QED BY <1>2, <1>3, <1>4, <1>6, <2>1 DEF IInv, Defunct
<1>12. Running'
  BY <1>1, <1>2, <1>3, <1>4, <1>6 DEF IInv, Running
<1>13. SleepEnds'
  BY <1>4, <1>6 DEF IInv, SleepEnds
<1>14. Ticking'
  BY <1>1 DEF Ticking
<1>15. IInv'
  BY <1>5, <1>7, <1>8, <1>9, <1>10, <1>11, <1>12, <1>13, <1>14 DEF IInv
<1> QED BY <1>2, <1>3, <1>4, <1>15

-----------------------------------------------------------------------------
(* The theorems.                                                            *)

\* What rtthread_startup leaves is a kernel state.
LEMMA AtStartType ==
  KernelAtStart \in Kernel
<1> DEFINE pi == InitPrio[Idle]
<1>1. /\ InitPrio \in [Thread -> Prio] /\ InitTick \in [Thread -> Nat \ {0}]
      /\ [t \in Thread |-> "EOK"] \in [Thread -> Error]
      /\ [t \in Thread |-> 0] \in [Thread -> Int]
      /\ [w \in WaitList |-> << >>] \in [WaitList -> Seq(Thread)]
      /\ << >> \in Seq(Thread)
  BY InitPrioAssumption, InitTickAssumption DEF Prio, Error
<1>2. [t \in Thread |-> IF t = Main THEN "RUNNING" ELSE IF t = Idle THEN "READY" ELSE "NONE"]
        \in [Thread -> Stat]
  BY DEF Stat
<1>3. Main \in Thread /\ Idle \in Thread /\ pi \in Prio
  BY ThreadAssumption, InitPrioAssumption DEF Prio
<1>4. [p \in Prio |-> IF p = pi THEN <<Idle>> ELSE << >>] \in [Prio -> Seq(Thread)]
  BY <1>3
<1> QED BY <1>1, <1>2, <1>3, <1>4 DEF Kernel, KernelAtStart

\* What rtthread_startup leaves satisfies the invariant.
LEMMA InitOK ==
  ASSUME Init
  PROVE  IInv
<1>1. /\ k = KernelAtStart /\ isr = "none"
      /\ pc = [t \in Thread |-> "run"] /\ tgt = [t \in Thread |-> t]
  BY DEF Init
<1>2. Main \in Thread /\ Idle \in Thread /\ Main # Idle /\ InitPrio[Idle] \in Prio
  BY ThreadAssumption, InitPrioAssumption DEF Prio
<1> DEFINE pi == InitPrio[Idle]
<1>3. /\ k.cur = Main /\ k.prio = InitPrio /\ k.nest = 0
      /\ k.stat = [t \in Thread |-> IF t = Main THEN "RUNNING"
                                    ELSE IF t = Idle THEN "READY" ELSE "NONE"]
      /\ k.ready = [p \in Prio |-> IF p = pi THEN <<Idle>> ELSE << >>]
      /\ k.group = {pi} /\ k.defunct = << >> /\ k.timers = << >>
  BY <1>1 DEF KernelAtStart
<1>4. k \in Kernel
  BY <1>1, AtStartType
<1>5. /\ \A x : ~Contains(<< >>, x)
      /\ \A x : Contains(<<Idle>>, x) <=> x = Idle
      /\ IsInjective(<< >>) /\ IsInjective(<<Idle>>)
  BY DEF Contains, IsInjective
<1>6. <<Idle>> # << >>
  OBVIOUS
<1> HIDE DEF pi
<1>7. ListsOK(k)
  BY <1>2, <1>3, <1>5, <1>6 DEF ListsOK, pi
<1>8. \A t \in Thread, p \in Prio :
        Contains(k.ready[p], t) <=> (k.stat[t] = "READY" /\ p = k.prio[t])
  BY <1>2, <1>3, <1>5 DEF pi
<1>9. KernelOK(k)
  BY <1>2, <1>3, <1>4, <1>5, <1>7, <1>8
     DEF KernelOK, TableOK, CurrentOK, TimersOK, TimerActive
<1>10. /\ pc \in [Thread -> Pc] /\ tgt \in [Thread -> Thread]
       /\ \A t \in Thread : pc[t] = "run"
  BY <1>1 DEF Pc
<1>11. TypeOK
  BY <1>1, <1>4, <1>10 DEF TypeOK
<1>12. Places /\ Started /\ Reaping /\ SleepEnds
  BY <1>2, <1>3, <1>10 DEF Places, Started, Starting, Reaping, SleepEnds
<1>13. Defunct /\ Running /\ Ticking
  BY <1>1, <1>2, <1>3, <1>5, <1>10 DEF Defunct, Running, Ticking
<1> QED BY <1>9, <1>11, <1>12, <1>13 DEF IInv

\* A step in which nothing happens.
LEMMA StutterOK ==
  ASSUME IInv, UNCHANGED vars
  PROVE  IInv'
BY DEF IInv, vars, TypeOK, Places, Started, Starting, Reaping, Defunct, BeingFreed, Running,
       Ticking, SleepEnds

\* The calls that NoHandles excludes are never taken, and neither are the places
\* inside them.
LEMMA NoHandleSteps ==
  ASSUME NoHandles, IInv
  PROVE  /\ \A t \in Thread : ~Resume(t) /\ ~SuspendTest(t) /\ ~Delete(t)
         /\ ~SuspendRemove /\ ~DeleteTimer /\ ~DeleteClose /\ ~DeleteDefunct
<1>1. "resume" \notin Calls /\ "suspend" \notin Calls /\ "delete" \notin Calls
  BY DEF NoHandles
<1>2. pc[k.cur] \notin {"suspend", "detach", "close", "defunct"}
  BY Types DEF IInv, Places
<1> QED BY <1>1, <1>2 DEF Resume, SuspendTest, Delete, Call, SuspendRemove, DeleteTimer,
                          DeleteClose, DeleteDefunct, At

\* The actions that remain.
LEMMA Steps ==
  ASSUME NoHandles, IInv, Next
  PROVE  \/ SysTick \/ TimerCheck
         \/ Reschedule \/ Yield \/ SleepSchedule
         \/ SleepReturn \/ EnterCritical \/ ExitCritical
         \/ (\E t \in Thread, p \in Prio : Control(t, p))
         \/ ResumeTest \/ ResumeRemove \/ ResumeInsert
         \/ (\E n \in Ticks : Sleep(n))
         \/ (\E t \in Thread : Create(t) \/ Startup(t))
         \/ Exit \/ ExitSchedule \/ IdleReap \/ IdleFree
BY NoHandleSteps DEF Next, ThreadStep

\* The place where the status is tested is entered by rt_thread_startup only.
LEMMA OnlyStartsStep ==
  ASSUME NoHandles, IInv, OnlyStarts, [Next]_vars
  PROVE  OnlyStarts'
<1> SUFFICES ASSUME "startup" \notin Calls, NEW t \in Thread, pc[t] # "resume"
             PROVE  pc'[t] # "resume"
  BY DEF OnlyStarts
<1>1. ASSUME NEW c \in Thread, NEW q, q # "resume", pc' = [pc EXCEPT ![c] = q]
      PROVE  pc'[t] # "resume"
  BY <1>1, Types
<1>2. CASE UNCHANGED vars
  BY <1>2 DEF vars
<1>3. CASE SysTick \/ TimerCheck \/ Yield \/ EnterCritical \/ \E x \in Thread, p \in Prio : Control(x, p)
  BY <1>3 DEF SysTick, TimerCheck, Yield, EnterCritical, Control
<1>4. CASE Reschedule \/ SleepSchedule \/ SleepReturn \/ ExitCritical \/ \E n \in Ticks : Sleep(n)
  BY <1>1, <1>4, Types DEF Reschedule, SleepSchedule, SleepReturn, ExitCritical, Sleep, Goto
<1>5. CASE ResumeTest \/ ResumeRemove \/ ResumeInsert
  BY <1>1, <1>5, Types DEF ResumeTest, ResumeRemove, ResumeInsert, Goto
<1>6. CASE \E x \in Thread : Create(x) \/ Startup(x)
  BY <1>1, <1>6 DEF Create, Startup, Call
<1>7. CASE Exit \/ ExitSchedule \/ IdleReap \/ IdleFree
  BY <1>1, <1>7, Types DEF Exit, ExitSchedule, IdleReap, IdleFree, Goto
<1> QED BY <1>2, <1>3, <1>4, <1>5, <1>6, <1>7, Steps

\* IInv is an inductive invariant of the scheduler.
THEOREM Invariance ==
  ASSUME NoHandles
  PROVE  Spec => [](IInv /\ OnlyStarts)
<1>1. Init => IInv /\ OnlyStarts
  BY InitOK DEF Init, OnlyStarts
<1>2. IInv /\ OnlyStarts /\ [Next]_vars => (IInv /\ OnlyStarts)'
  <2> SUFFICES ASSUME IInv, OnlyStarts, [Next]_vars PROVE IInv'
    BY OnlyStartsStep
  <2>1. CASE SysTick \/ TimerCheck
    BY <2>1, TickStep
  <2>2. CASE Reschedule \/ Yield \/ SleepSchedule
    BY <2>2, ScheduleStep
  <2>3. CASE SleepReturn \/ EnterCritical \/ ExitCritical \/ \E t \in Thread, p \in Prio : Control(t, p)
    BY <2>3, LocalStep
  <2>4. CASE ResumeTest \/ ResumeRemove
    BY <2>4, StartingStep
  <2>5. CASE \E n \in Ticks : Sleep(n)
    BY <2>5, SleepStep
  <2>6. CASE \E t \in Thread : Create(t) \/ Startup(t)
    BY <2>6, NewThreadStep
  <2>7. CASE ResumeInsert
    BY <2>7, InsertStep
  <2>8. CASE Exit \/ ExitSchedule
    BY <2>8, ExitStep, ExitScheduleStep
  <2>9. CASE IdleReap \/ IdleFree
    BY <2>9, ReapStep, FreeStep
  <2>10. CASE UNCHANGED vars
    BY <2>10, StutterOK
  <2> QED BY <2>1, <2>2, <2>3, <2>4, <2>5, <2>6, <2>7, <2>8, <2>9, <2>10, Steps
<1> QED BY <1>1, <1>2, PTL DEF Spec

\* The variables keep their types: in particular rt_current_thread is always a
\* thread, so that _get_highest_priority_thread never reads an empty list.
THEOREM TypeCorrect ==
  ASSUME NoHandles
  PROVE  Spec => []TypeOK
<1>1. IInv => TypeOK
  BY DEF IInv
<1> QED BY <1>1, Invariance, PTL

\* The ready table, its bitmap and the status words always agree.
THEOREM ReadyTableCorrect ==
  ASSUME NoHandles
  PROVE  Spec => []ReadyTable
<1>1. IInv => ReadyTable
  <2> SUFFICES ASSUME IInv PROVE ReadyTable
    OBVIOUS
  <2>1. \A t \in Thread : ~BeingDeleted(t)
    BY DEF IInv, Places, BeingDeleted
  <2> QED BY <2>1 DEF IInv, KernelOK, TableOK, ListsOK, ReadyTable
<1> QED BY <1>1, Invariance, PTL

\* The assertion of rt_thread_timeout never fails.
THEOREM TimeoutAssertHolds ==
  ASSUME NoHandles
  PROVE  Spec => []TimeoutAssert
<1>1. IInv => TimeoutAssert
  BY DEF IInv, KernelOK, TimersOK, TimeoutAssert
<1> QED BY <1>1, Invariance, PTL

\* No sleep is lost.
THEOREM SleepsEnd ==
  ASSUME NoHandles
  PROVE  Spec => []SleepEnds
<1>1. IInv => SleepEnds
  BY DEF IInv
<1> QED BY <1>1, Invariance, PTL

\* An ended thread never runs again, and the idle thread frees it exactly when
\* nothing refers to it.
THEOREM EndedThreadsFreed ==
  ASSUME NoHandles
  PROVE  Spec => []DeadUntilFreed
<1>1. IInv => DeadUntilFreed
  <2> SUFFICES ASSUME IInv PROVE DeadUntilFreed
    OBVIOUS
  <2>1. \A t \in Thread : BeingFreed(t) =>
          k.stat[t] = "CLOSE" /\ t # k.cur /\ ~Contains(k.defunct, t)
    BY ThreadAssumption DEF IInv, Reaping, BeingFreed
  <2> QED BY <2>1 DEF IInv, Defunct, Running, DeadUntilFreed
<1> QED BY <1>1, Invariance, PTL

\* A thread that ended is in no list of the ready table and its timer cannot expire any
\* more, whatever interrupts and other threads do until it is freed (rt_thread_exit).
THEOREM ClosedThreadsRemoved ==
  ASSUME NoHandles
  PROVE  Spec => []ClosedNotReady
<1>1. IInv => ClosedNotReady
  BY DEF IInv, KernelOK, TableOK, TimersOK, ClosedNotReady
<1> QED BY <1>1, Invariance, PTL

\* While the scheduler is locked the current thread keeps the processor.
THEOREM LockRespected ==
  ASSUME NoHandles
  PROVE  Spec => LockHolds
<1>1. IInv /\ OnlyStarts /\ [Next]_vars => [LockedStep]_vars
  <2> SUFFICES ASSUME IInv, OnlyStarts, Next, k.nest > 0, k'.nest > 0 PROVE k'.cur = k.cur
    BY DEF LockedStep
  <2>0. k.nest # 0
    BY DEF IInv, Running
  <2>1. CASE SysTick \/ TimerCheck
    BY <2>0, <2>1, TickStep DEF Undisturbed
  <2>2. CASE Reschedule \/ Yield \/ SleepSchedule
    BY <2>0, <2>2, ScheduleStep DEF Undisturbed
  <2>3. CASE SleepReturn \/ EnterCritical \/ ExitCritical \/ \E t \in Thread, p \in Prio : Control(t, p)
    BY <2>3, LocalStep
  <2>4. CASE ResumeTest \/ ResumeRemove
    BY <2>4, StartingStep
  <2>5. CASE \E n \in Ticks : Sleep(n)
    BY <2>5, SleepStep
  <2>6. CASE \E t \in Thread : Create(t) \/ Startup(t)
    BY <2>6, NewThreadStep
  <2>7. CASE ResumeInsert
    BY <2>7, InsertStep
  <2>8. CASE Exit \/ ExitSchedule
    BY <2>0, <2>8, ExitStep, ExitScheduleStep DEF Undisturbed
  <2>9. CASE IdleReap \/ IdleFree
    BY <2>0, <2>9, ReapStep, FreeStep
  <2> QED BY <2>1, <2>2, <2>3, <2>4, <2>5, <2>6, <2>7, <2>8, <2>9, Steps
<1> QED BY <1>1, Invariance, PTL DEF Spec, LockHolds

\* Full preemption, as long as no priority is changed at run time: whenever the
\* scheduler is not locked and the current thread has no rt_schedule to come, no
\* ready thread has a higher priority.
THEOREM Preemption ==
  ASSUME NoHandles, "control" \notin Calls
  PROVE  Spec => []HighestRuns
<1> DEFINE HR == k.nest = 0 /\ pc[k.cur] \notin {"sched", "sleep", "exited"} => IsHighest(k)
<1>1. Init => HR
  <2> SUFFICES ASSUME Init PROVE IsHighest(k)
    OBVIOUS
  <2>1. /\ k.cur = Main /\ k.prio = InitPrio
        /\ \A t \in Thread : k.stat[t] = "READY" => t = Idle
    BY DEF Init, KernelAtStart
  <2>2. InitPrio[Main] <= InitPrio[Idle]
    BY PrioAssumption, InitPrioAssumption, ThreadAssumption
  <2> QED BY <2>1, <2>2 DEF IsHighest
<1>2. IInv /\ OnlyStarts /\ HR /\ [Next]_vars => HR'
  <2> SUFFICES ASSUME IInv, OnlyStarts, HR, [Next]_vars, k'.nest = 0,
                      pc'[k'.cur] \notin {"sched", "sleep", "exited"}
               PROVE  IsHighest(k')
    OBVIOUS
  <2>1. CASE SysTick \/ TimerCheck
    <3>1. pc' = pc
      BY <2>1 DEF SysTick, TimerCheck
    <3>2. k'.nest = k.nest /\ \/ Preempts(k')
                              \/ k'.cur = k.cur /\ k'.stat = k.stat /\ k'.prio = k.prio
      BY <2>1, TickStep DEF Undisturbed
    <3> QED BY <3>1, <3>2 DEF Preempts, IsHighest
  <2>2. CASE Reschedule \/ Yield \/ SleepSchedule
    BY <2>2, ScheduleStep DEF Preempts
  <2>3. CASE SleepReturn \/ EnterCritical \/ ExitCritical
    <3>1. k'.cur = k.cur /\ k'.stat = k.stat
      BY <2>3, LocalStep
    <3>2. k \in Kernel /\ k.nest \in Nat
      BY DEF IInv, TypeOK, Running
    <3>3. CASE SleepReturn
      <4>1. k'.nest = k.nest /\ k'.prio = k.prio /\ pc[k.cur] = "slept"
        BY <3>2, <3>3 DEF SleepReturn, At, Kernel
      <4> QED BY <3>1, <4>1 DEF IsHighest
    <3>4. CASE EnterCritical
      BY <3>2, <3>4 DEF EnterCritical, Kernel
    <3>5. CASE ExitCritical
      <4>1. k'.nest = k.nest - 1 /\ k'.cur = k.cur
        BY <3>2, <3>5 DEF ExitCritical, Kernel
      <4>2. k.nest = 1
        BY <3>2, <4>1
      <4>3. pc'[k.cur] = "sched"
        BY <3>5, <4>2, Types DEF ExitCritical, Goto
      <4> QED BY <4>1, <4>3
    <3> QED BY <2>3, <3>3, <3>4, <3>5
  <2>4. CASE ResumeTest \/ ResumeRemove
    <3>1. pc[k.cur] \in {"resume", "unlink"}
      BY <2>4 DEF ResumeTest, ResumeRemove, At
    <3>2. k'.cur = k.cur /\ k'.stat = k.stat /\ k'.prio = k.prio /\ k'.nest = k.nest
      BY <2>4, StartingStep
    <3> QED BY <3>1, <3>2 DEF IsHighest
  <2>5. CASE \E n \in Ticks : Sleep(n)
    <3>1. k'.cur = k.cur
      BY <2>5, SleepStep
    <3>2. pc'[k.cur] = "sleep"
      BY <2>5, Types DEF Sleep, Goto
    <3> QED BY <3>1, <3>2
  <2>6. CASE \E t \in Thread : Create(t) \/ Startup(t)
    <3>1. PICK t \in Thread : Create(t) \/ Startup(t)
      BY <2>6
    <3>2. /\ k'.cur = k.cur /\ k'.nest = k.nest /\ t # k.cur
          /\ \A x \in Thread \ {t} : k'.stat[x] = k.stat[x] /\ k'.prio[x] = k.prio[x]
          /\ k'.stat[t] # "READY" /\ pc[k.cur] = "run"
      BY <3>1, NewThreadStep
    <3> QED BY <3>2, Types DEF IsHighest
  <2>7. CASE ResumeInsert
    BY <2>7, InsertStep
  <2>8. CASE Exit \/ ExitSchedule
    BY <2>8, ExitStep, ExitScheduleStep DEF Preempts
  <2>9. CASE IdleReap
    BY <2>9, ReapStep DEF Preempts
  <2>10. CASE IdleFree
    <3>1. pc[k.cur] = "reap"
      BY <2>10 DEF IdleFree, At
    <3> QED BY <2>10, <3>1, FreeStep DEF IsHighest
  <2>11. CASE UNCHANGED vars
    BY <2>11 DEF vars, IsHighest
  <2>12. ~\E t \in Thread, p \in Prio : Control(t, p)
    BY DEF Control, Call
  <2> QED BY <2>1, <2>2, <2>3, <2>4, <2>5, <2>6, <2>7, <2>8, <2>9, <2>10, <2>11, <2>12, Steps
<1>3. IInv /\ HR => HighestRuns
  BY DEF IInv, Running, IsHighest, HighestRuns
<1> QED BY <1>1, <1>2, <1>3, Invariance, PTL DEF Spec

-----------------------------------------------------------------------------
(* The order of the lists of the ready table.                               *)

\* From list s to list z, a stays in front of b when it was, and b goes behind a
\* when it is new.
InOrder(s, z, a, b) ==
  (/\ a # b /\ Contains(s, a) /\ Contains(z, a) /\ Contains(z, b)
   /\ Contains(s, b) => Behind(s, a, b)) => Behind(z, a, b)
InTurn(s, z) == \A a, b : InOrder(s, z, a, b)

KeepsTurns(h, u) == \A p \in Prio : InTurn(h.ready[p], u.ready[p])

\* Two changes of a list, the first of which loses no node that comes back.
LEMMA InTurnTwice ==
  ASSUME NEW s, NEW m, NEW z, InTurn(s, m), InTurn(m, z),
         \A x : Contains(s, x) /\ Contains(z, x) => Contains(m, x)
  PROVE  InTurn(s, z)
BY DEF InTurn, InOrder

\* rt_list_remove keeps the order of the other nodes.
LEMMA UnlinkedInTurn ==
  ASSUME NEW S, NEW s \in Seq(S), NEW t, IsInjective(s)
  PROVE  InTurn(s, Unlinked(s, t))
<1> DEFINE z == Unlinked(s, t)
           n == Place(s, t)
<1> SUFFICES ASSUME NEW a, NEW b, a # b, Contains(z, a), Contains(z, b), Contains(s, b) => Behind(s, a, b)
             PROVE  Behind(z, a, b)
  BY DEF InTurn, InOrder
<1>1. Contains(s, a) /\ Contains(s, b)
  BY UnlinkedSubset
<1>2. CASE ~Contains(s, t)
  BY <1>1, <1>2, UnlinkedAbsent
<1>3. CASE Contains(s, t)
  <2>1. /\ n \in 1 .. Len(s) /\ s[n] = t /\ Len(z) = Len(s) - 1 /\ Len(s) \in Nat
        /\ \A j \in 1 .. Len(s) - 1 : z[j] = IF j < n THEN s[j] ELSE s[j + 1]
    BY <1>3, UnlinkedPresent
  <2>2. a # t /\ b # t
    BY UnlinkedElements
  <2>3. PICK i, j \in 1 .. Len(s) : i < j /\ s[i] = a /\ s[j] = b
    BY <1>1 DEF Behind
  <2> HIDE DEF z, n
  <2> DEFINE e(x) == IF x < n THEN x ELSE x - 1
  <2>4. /\ e(i) \in 1 .. Len(z) /\ z[e(i)] = a
        /\ e(j) \in 1 .. Len(z) /\ z[e(j)] = b
        /\ e(i) < e(j)
    BY <2>1, <2>2, <2>3
  <2> HIDE DEF e
  <2> QED BY <2>4 DEF Behind, z
<1> QED BY <1>2, <1>3

\* A new node at the end of a list is behind all others.
LEMMA AppendInTurn ==
  ASSUME NEW S, NEW s \in Seq(S), NEW t \in S, ~Contains(s, t)
  PROVE  /\ InTurn(s, Append(s, t))
         /\ \A x : Contains(s, x) => Contains(Append(s, t), x)
<1> DEFINE z == Append(s, t)
<1>1. /\ Len(s) \in Nat /\ Len(z) = Len(s) + 1 /\ z[Len(s) + 1] = t
      /\ \A i \in 1 .. Len(s) : z[i] = s[i]
  OBVIOUS
<1> HIDE DEF z
<1>2. ASSUME NEW x, Contains(s, x) PROVE Contains(z, x)
  BY <1>1, <1>2 DEF Contains
<1>3. ASSUME NEW a, NEW b, a # b, Contains(s, a), Contains(z, b), Contains(s, b) => Behind(s, a, b)
      PROVE  Behind(z, a, b)
  <2>1. CASE Contains(s, b)
    BY <1>1, <1>3, <2>1 DEF Behind
  <2>2. CASE ~Contains(s, b)
    <3>1. b = t
      BY <1>1, <1>3, <2>2 DEF Contains
    <3>2. PICK i \in 1 .. Len(s) : s[i] = a
      BY <1>3 DEF Contains
    <3>3. i \in 1 .. Len(z) /\ Len(s) + 1 \in 1 .. Len(z) /\ i < Len(s) + 1 /\ z[i] = a
      BY <1>1, <3>2
    <3> QED BY <1>1, <3>1, <3>3 DEF Behind
  <2> QED BY <2>1, <2>2
<1>4. InTurn(s, z)
  BY <1>3 DEF InTurn, InOrder
<1> QED BY <1>2, <1>4 DEF z

\* A table that stays as it is.
LEMMA SameTurns ==
  ASSUME NEW h, NEW u, u.ready = h.ready
  PROVE  KeepsTurns(h, u)
BY DEF KeepsTurns, InTurn, InOrder

\* The lists of the ready table are lists of threads.
LEMMA ReadyThreads ==
  ASSUME NEW h \in Kernel, NEW p \in Prio
  PROVE  h.ready[p] \in Seq(Thread) /\ \A x : Contains(h.ready[p], x) => x \in Thread
<1>1. h.ready[p] \in Seq(Thread)
  BY DEF Kernel
<1> QED BY <1>1 DEF Contains

\* Taking a thread off whatever list it is on.
LEMMA RemoveTurns ==
  ASSUME NEW h \in Kernel, NEW t \in Thread, \A p \in Prio : IsInjective(h.ready[p])
  PROVE  /\ KeepsTurns(h, rt_list_remove(h, t))
         /\ KeepsTurns(h, rt_schedule_remove_thread(h, t))
         /\ rt_schedule_remove_thread(h, t) \in Kernel
         /\ rt_schedule_remove_thread(h, t).ready = [p \in Prio |-> Unlinked(h.ready[p], t)]
<1> DEFINE u == rt_list_remove(h, t)
           v == rt_schedule_remove_thread(h, t)
<1>1. u \in Kernel /\ u.ready = [p \in Prio |-> Unlinked(h.ready[p], t)]
  BY ListRemoveFacts
<1> HIDE DEF u
<1>2. \A p \in Prio : h.ready[p] \in Seq(Thread)
  BY DEF Kernel
<1>3. KeepsTurns(h, u)
  BY <1>1, <1>2, UnlinkedInTurn DEF KeepsTurns
<1>4. v = u \/ v = [u EXCEPT !.group = @ \ {h.prio[t]}]
  BY DEF rt_schedule_remove_thread, u
<1> HIDE DEF v
<1>5. v \in Kernel /\ v.ready = u.ready
  BY <1>1, <1>4 DEF Kernel
<1>6. KeepsTurns(h, v)
  BY <1>3, <1>5 DEF KeepsTurns
<1> QED BY <1>1, <1>3, <1>5, <1>6 DEF u, v

\* A thread that becomes ready goes to the end of the list of its priority.
LEMMA InsertTurns ==
  ASSUME NEW h \in Kernel, NEW t \in Thread, \A p \in Prio : ~Contains(h.ready[p], t)
  PROVE  LET u == rt_schedule_insert_thread(h, t) IN
         /\ KeepsTurns(h, u)
         /\ \A p \in Prio, x \in Thread : Contains(h.ready[p], x) => Contains(u.ready[p], x)
<1> DEFINE u == rt_schedule_insert_thread(h, t)
           q == h.prio[t]
<1>1. CASE t = h.cur
  <2>1. u.ready = h.ready
    BY <1>1 DEF rt_schedule_insert_thread, SetStat, Kernel
  <2> QED BY <2>1, SameTurns
<1>2. CASE t # h.cur
  <2>1. u.ready = [h.ready EXCEPT ![q] = Append(@, t)]
    BY <1>2 DEF rt_schedule_insert_thread, SetStat, Kernel
  <2> HIDE DEF u
  <2>2. ASSUME NEW p \in Prio
        PROVE  /\ InTurn(h.ready[p], u.ready[p])
               /\ \A x \in Thread : Contains(h.ready[p], x) => Contains(u.ready[p], x)
    <3>1. h.ready[p] \in Seq(Thread) /\ h.ready \in [Prio -> Seq(Thread)]
      BY DEF Kernel
    <3>2. CASE p = q
      BY <2>1, <3>1, <3>2, AppendInTurn
    <3>3. CASE p # q
      BY <2>1, <3>1, <3>3 DEF InTurn, InOrder
    <3> QED BY <3>2, <3>3
  <2> QED BY <2>2 DEF KeepsTurns, u
<1> QED BY <1>1, <1>2

\* rt_schedule puts the current thread behind the others of its priority and takes
\* the head of a list.
LEMMA ScheduleTurns ==
  ASSUME NEW h, KernelOK(h)
  PROVE  KeepsTurns(h, rt_schedule(h))
<1> DEFINE from == h.cur
           to   == HighestThread(h)
           m    == [h EXCEPT !.cur = to]
           i    == rt_schedule_insert_thread(m, from)
<1>1. /\ h \in Kernel /\ from \in Thread /\ ListsOK(h)
      /\ \A p \in Prio : ~Contains(h.ready[p], from) /\ IsInjective(h.ready[p])
  BY DEF KernelOK, TableOK, CurrentOK, ListsOK, Kernel
<1>2. CASE ~(h.nest = 0 /\ h.group # {})
  BY <1>2, SameTurns DEF rt_schedule
<1>3. CASE h.nest = 0 /\ h.group # {}
  <2>1. to \in Thread
    <3>1. HighestReady(h) \in Prio /\ h.ready[HighestReady(h)] # << >>
      BY <1>1, <1>3, HighestReadyFacts DEF ListsOK, Kernel
    <3>2. h.ready[HighestReady(h)] \in Seq(Thread)
      BY <1>1, <3>1 DEF Kernel
    <3> QED BY <3>1, <3>2, HeadElement DEF HighestThread
  <2> HIDE DEF to, from
  <2>2. /\ m \in Kernel /\ m.ready = h.ready /\ m.cur = to /\ ListsOK(m)
        /\ \A p \in Prio : ~Contains(m.ready[p], from)
    BY <1>1, <2>1 DEF Kernel, ListsOK
  <2> HIDE DEF m
  <2>3. ASSUME NEW x \in Thread, NEW v \in Kernel, ListsOK(v)
        PROVE  KeepsTurns(v, SetStat(rt_schedule_remove_thread(v, x), x, "RUNNING"))
    <3> DEFINE r == rt_schedule_remove_thread(v, x)
    <3>1. r \in Kernel /\ KeepsTurns(v, r)
      BY <2>3, RemoveTurns DEF ListsOK
    <3> HIDE DEF r
    <3>2. SetStat(r, x, "RUNNING").ready = r.ready
      BY <3>1 DEF SetStat, Kernel
    <3>3. KeepsTurns(v, SetStat(r, x, "RUNNING"))
      BY <3>1, <3>2 DEF KeepsTurns
    <3> QED BY <3>3 DEF r
  <2>4. ASSUME NEW v \in Kernel, ListsOK(v), KeepsTurns(h, v),
               \A p \in Prio, x \in Thread : Contains(h.ready[p], x) => Contains(v.ready[p], x)
        PROVE  KeepsTurns(h, SetStat(rt_schedule_remove_thread(v, to), to, "RUNNING"))
    <3> DEFINE z == SetStat(rt_schedule_remove_thread(v, to), to, "RUNNING")
    <3>1. KeepsTurns(v, z)
      BY <2>1, <2>3, <2>4
    <3> HIDE DEF z
    <3>2. ASSUME NEW p \in Prio PROVE InTurn(h.ready[p], z.ready[p])
      <4>1. \A x : Contains(h.ready[p], x) => Contains(v.ready[p], x)
        BY <1>1, <2>4, ReadyThreads
      <4>2. InTurn(h.ready[p], v.ready[p]) /\ InTurn(v.ready[p], z.ready[p])
        BY <2>4, <3>1 DEF KeepsTurns
      <4> QED BY <4>1, <4>2, InTurnTwice
    <3> QED BY <3>2 DEF KeepsTurns, z
  <2>5. CASE to = from
    <3>1. rt_schedule(h) = SetStat(rt_schedule_remove_thread(h, from), from, "RUNNING")
      BY <1>3, <2>5 DEF rt_schedule, Dispatch, to, from
    <3> QED BY <1>1, <2>3, <3>1
  <2>6. CASE to # from
    <3>1. /\ i \in Kernel /\ ListsOK(i) /\ KeepsTurns(m, i)
          /\ \A p \in Prio, x \in Thread : Contains(m.ready[p], x) => Contains(i.ready[p], x)
      BY <1>1, <2>2, <2>6, InsertFacts, InsertTurns
    <3>2. \/ rt_schedule(h) = SetStat(rt_schedule_remove_thread(h, from), from, "RUNNING")
          \/ rt_schedule(h) = SetStat(rt_schedule_remove_thread(i, to), to, "RUNNING")
          \/ rt_schedule(h) = SetStat(rt_schedule_remove_thread(m, to), to, "RUNNING")
      BY <1>3 DEF rt_schedule, Dispatch, to, from, m
    <3> HIDE DEF i
    <3>3. KeepsTurns(h, i) /\ KeepsTurns(h, m)
      BY <2>2, <3>1, SameTurns DEF KeepsTurns
    <3> QED BY <1>1, <2>2, <2>3, <2>4, <3>1, <3>2, <3>3
  <2> QED BY <2>5, <2>6
<1> QED BY <1>2, <1>3

\* A tick, and a timer that expires, inside SysTick_Handler.
LEMMA TickTurns ==
  ASSUME NEW h, KernelOK(h)
  PROVE  KeepsTurns(h, TickIncrease(h))
<1> DEFINE v(n) == [Aged(h) EXCEPT !.slice[h.cur] = n]
<1>1. ASSUME NEW n \in Nat \ {0} PROVE KernelOK(v(n)) /\ v(n).ready = h.ready
  BY <1>1, AgedOK DEF SameCore
<1>2. CASE h.slice[h.cur] = 1
  <2>1. TickIncrease(h) = rt_schedule(v(InitTick[h.cur])) /\ InitTick[h.cur] \in Nat \ {0}
    BY <1>2, InitTickAssumption DEF TickIncrease, KernelOK, Kernel
  <2> HIDE DEF v
  <2> QED BY <1>1, <2>1, ScheduleTurns DEF KeepsTurns
<1>3. CASE h.slice[h.cur] # 1
  <2>1. TickIncrease(h) = v(h.slice[h.cur] - 1) /\ h.slice[h.cur] - 1 \in Nat \ {0}
    BY <1>3 DEF TickIncrease, KernelOK, Kernel, Aged
  <2> HIDE DEF v
  <2> QED BY <1>1, <2>1, SameTurns
<1> QED BY <1>2, <1>3

\* (What TimerCheckOK says of its stages, for the order of the lists.)
LEMMA TimerCheckTurns ==
  ASSUME NEW h, KernelOK(h), TimerDue(h)
  PROVE  KeepsTurns(h, TimerCheckOne(h))
<1> DEFINE t == FirstDue(h)
           e == Expired(h)
           i == rt_schedule_insert_thread(e, t)
<1>1. /\ KernelOK(e) /\ e.ready = h.ready /\ t \in Thread /\ e.stat[t] = "SUSPEND"
      /\ ~TimerActive(e, t) /\ TimerCheckOne(h) = rt_schedule(i)
  BY ExpiredOK
<1> HIDE DEF e, t
<1>2. KernelOK(i)
  BY <1>1, InsertOK
<1>3. /\ KeepsTurns(e, i)
      /\ \A p \in Prio, x \in Thread : Contains(e.ready[p], x) => Contains(i.ready[p], x)
  BY <1>1, InsertTurns DEF KernelOK, TableOK
<1> HIDE DEF i
<1>4. KeepsTurns(i, rt_schedule(i))
  BY <1>2, ScheduleTurns
<1> SUFFICES ASSUME NEW p \in Prio PROVE InTurn(h.ready[p], rt_schedule(i).ready[p])
  BY <1>1 DEF KeepsTurns
<1>5. \A x : Contains(h.ready[p], x) => Contains(i.ready[p], x)
  <2>1. e \in Kernel
    BY <1>1 DEF KernelOK
  <2> QED BY <1>1, <1>3, <2>1, ReadyThreads
<1>6. InTurn(h.ready[p], i.ready[p]) /\ InTurn(i.ready[p], rt_schedule(i).ready[p])
  BY <1>1, <1>3, <1>4 DEF KeepsTurns
<1> QED BY <1>5, <1>6, InTurnTwice

\* Of the lists of the ready table, a change of priority moves only the thread
\* itself to another place.
LEMMA ControlTurns ==
  ASSUME NEW h, KernelOK(h), NEW t \in Thread, NEW p \in Prio,
         NEW q \in Prio, NEW a, NEW b
  PROVE  LET u == ChangePriority(h, t, p) IN
         InOrder(h.ready[q], u.ready[q], a, b) \/ (a = t /\ q = p)
<1> DEFINE u == ChangePriority(h, t, p)
           v == rt_schedule_remove_thread(h, t)
           w == [v EXCEPT !.prio[t] = p]
<1>1. CASE h.stat[t] # "READY"
  <2>1. u.ready = h.ready
    BY <1>1 DEF ChangePriority, KernelOK, Kernel
  <2> QED BY <2>1 DEF InOrder
<1>2. CASE h.stat[t] = "READY"
  <2>1. u = rt_schedule_insert_thread(w, t)
    BY <1>2 DEF ChangePriority
  <2>2. h \in Kernel /\ \A r \in Prio : IsInjective(h.ready[r])
    BY DEF KernelOK, TableOK, ListsOK
  <2>3. v \in Kernel /\ KeepsTurns(h, v) /\ v.ready = [r \in Prio |-> Unlinked(h.ready[r], t)]
    BY <2>2, RemoveTurns
  <2> HIDE DEF u, v
  <2>4. w \in Kernel /\ w.ready = v.ready /\ w.prio[t] = p
    BY <2>3 DEF Kernel
  <2>5. ASSUME NEW r \in Prio PROVE \A x : Contains(w.ready[r], x) <=> Contains(h.ready[r], x) /\ x # t
    BY <2>2, <2>3, <2>4, ReadyThreads, UnlinkedElements
  <2> HIDE DEF w
  <2>6. KeepsTurns(w, u)
    BY <2>1, <2>4, <2>5, InsertTurns
  <2>7. q # p \/ t = w.cur => u.ready[q] = w.ready[q]
    BY <2>1, <2>4 DEF rt_schedule_insert_thread, SetStat, Kernel
  <2>8. u.ready[q] = w.ready[q] \/ u.ready[q] = Append(w.ready[q], t)
    BY <2>1, <2>4 DEF rt_schedule_insert_thread, SetStat, Kernel
  <2>9. \A x : Contains(u.ready[q], x) => Contains(w.ready[q], x) \/ x = t
    BY <2>4, <2>8, ReadyThreads DEF Contains
  <2>10. InOrder(h.ready[q], w.ready[q], a, b) /\ InOrder(w.ready[q], u.ready[q], a, b)
    BY <2>3, <2>4, <2>6 DEF KeepsTurns, InTurn
  <2>11. ASSUME a = t, q # p PROVE InOrder(h.ready[q], u.ready[q], a, b)
    BY <2>5, <2>7, <2>11 DEF InOrder
  <2>12. ASSUME a # t PROVE InOrder(h.ready[q], u.ready[q], a, b)
    BY <2>5, <2>9, <2>10, <2>12 DEF InOrder
  <2> QED BY <2>11, <2>12 DEF u
<1> QED BY <1>1, <1>2

\* Threads of one priority take turns: in a list of the ready table a thread stays
\* behind those it was behind and a newcomer goes behind all, whoever is dispatched,
\* resumed or taken off; only a change of priority makes its thread lose the place.
THEOREM TakeTurns ==
  ASSUME NoHandles
  PROVE  Spec => FifoWithinPriority
<1>1. IInv /\ OnlyStarts /\ [Next]_vars => [FifoStep]_vars
  <2> SUFFICES ASSUME IInv, Next PROVE FifoStep
    OBVIOUS
  <2>1. ASSUME NEW p \in Prio, NEW a, NEW b, InOrder(k.ready[p], k'.ready[p], a, b), a # b,
               Contains(k'.ready[p], b), Contains(k.ready[p], a), Contains(k'.ready[p], a),
               b \in ToSet(k.ready[p]) => Behind(k.ready[p], a, b)
        PROVE  Behind(k'.ready[p], a, b)
    BY <2>1, ListSet DEF InOrder
  <2>2. KeepsTurns(k, k') => FifoStep
    BY <2>1, ListSet DEF FifoStep, KeepsTurns, InTurn
  <2>3. /\ k \in Kernel /\ KernelOK(k) /\ k.cur \in Thread /\ tgt[k.cur] \in Thread
        /\ \A p \in Prio : IsInjective(k.ready[p])
    BY Types DEF IInv, KernelOK, TableOK, ListsOK
  <2>4. CASE SysTick
    BY <2>2, <2>3, <2>4, TickTurns DEF SysTick
  <2>5. CASE TimerCheck
    BY <2>2, <2>3, <2>5, TimerCheckTurns DEF TimerCheck, IInv, Ticking
  <2>6. CASE Reschedule \/ Yield \/ SleepSchedule \/ ExitSchedule
    BY <2>2, <2>3, <2>6, ScheduleTurns DEF Reschedule, Yield, SleepSchedule, ExitSchedule
  <2>7. CASE \/ SleepReturn \/ EnterCritical \/ ExitCritical \/ ResumeTest \/ IdleFree
             \/ \E t \in Thread : Create(t) \/ Startup(t)
    <3>1. k'.ready = k.ready
      BY <2>3, <2>7 DEF SleepReturn, EnterCritical, ExitCritical, ResumeTest, IdleFree, Create, Startup,
                        SetStat, Kernel
    <3> QED BY <2>2, <3>1, SameTurns
  <2>8. CASE ResumeRemove \/ Exit \/ \E n \in Ticks : Sleep(n)
    <3> DEFINE Removed(t) == \/ k'.ready = rt_list_remove(k, t).ready
                             \/ k'.ready = rt_schedule_remove_thread(k, t).ready
                             \/ k'.ready = k.ready
    <3>1. \E t \in Thread : Removed(t)
      <4>1. CASE ResumeRemove
        <5>1. Removed(tgt[k.cur])
          BY <2>3, <4>1, ListRemoveFacts DEF ResumeRemove, ResumeUnlink, rt_timer_stop, Kernel
        <5> QED BY <2>3, <5>1
      <4>2. CASE Exit \/ \E n \in Ticks : Sleep(n)
        <5>1. rt_schedule_remove_thread(k, k.cur) \in Kernel
          BY <2>3, RemoveTurns
        <5>2. Removed(k.cur)
          BY <2>3, <4>2, <5>1 DEF Exit, Sleep, rt_thread_suspend, SuspendThread, rt_timer_start,
                                  rt_timer_stop, SetStat, Kernel
        <5> QED BY <2>3, <5>2
      <4> QED BY <2>8, <4>1, <4>2
    <3>2. PICK t \in Thread : Removed(t)
      BY <3>1
    <3> QED BY <2>2, <2>3, <3>2, RemoveTurns, SameTurns DEF KeepsTurns
  <2>9. CASE ResumeInsert
    BY <2>2, <2>3, <2>9, InsertTurns DEF ResumeInsert, At, IInv, Started, Starting, KernelOK, TableOK
  <2>10. CASE \E t \in Thread, p \in Prio : Control(t, p)
    <3>1. PICK t \in Thread, p \in Prio : k' = ChangePriority(k, t, p)
      BY <2>10 DEF Control
    <3>2. \A q \in Prio : \A a, b : InOrder(k.ready[q], k'.ready[q], a, b) \/ (a = t /\ q = p)
      BY <2>3, <3>1, ControlTurns
    <3> QED BY <2>1, <3>1, <3>2, ListSet DEF FifoStep
  <2>11. CASE IdleReap
    <3> DEFINE v == rt_list_remove(k, Head(k.defunct))
    <3>1. KernelOK(v) /\ v.ready = k.ready /\ k' = rt_schedule(v)
      <4>1. k.defunct \in Seq(Thread) /\ k.defunct # << >>
        BY <2>3, <2>11 DEF IdleReap, Kernel
      <4>2. Head(k.defunct) \in Thread /\ k.stat[Head(k.defunct)] = "CLOSE"
        BY <4>1, HeadElement DEF IInv, Defunct
      <4> QED BY <2>3, <2>11, <4>2, ListRemoveOK DEF IdleReap
    <3> HIDE DEF v
    <3> QED BY <2>2, <3>1, ScheduleTurns DEF KeepsTurns
  <2> QED BY <2>4, <2>5, <2>6, <2>7, <2>8, <2>9, <2>10, <2>11, Steps
<1> QED BY <1>1, Invariance, PTL DEF Spec, FifoWithinPriority

(***************************************************************************)
(* Part 3: the blocking services                                           *)
(***************************************************************************)

Ordinary == Calls \subseteq {"yield", "sleep", "control", "exit"}

-----------------------------------------------------------------------------
(* The inductive invariant of the suspend lists.                            *)

\* Where the threads are: inside a service they run or are about to reschedule,
\* and nobody is being started.
CallPlaces ==
  /\ op = [t \in Thread |-> op[t]]
  /\ \A t \in Thread : /\ pc[t] \notin {"resume", "unlink", "insert"}
                       /\ op[t] # "none" => pc[t] \in {"run", "sched"}

\* Whoever is on a list is inside a service.  A thread suspended by a service is
\* on a list, and any other suspended thread sleeps and has a timer.
Waits ==
  /\ WaitsOK(k)
  /\ \A t \in Thread : /\ Listed(k, t) => op[t] # "none"
                       /\ k.stat[t] = "SUSPEND" => IF op[t] = "none" THEN TimerActive(k, t)
                                                   ELSE Listed(k, t)

IpcInv == IInv /\ k.nest = 0 /\ CallPlaces /\ Waits

\* The part of it that does not depend on who may suspend himself.
ListInv == IInv /\ k.nest = 0 /\ WaitsOK(k)

\* What a service may do to the kernel: new, ended and freed threads stay as they
\* are, and a timer runs on unless its thread is resumed.
Gentle(a, b) ==
  /\ b.cur = a.cur \/ a.stat[b.cur] \in {"READY", "SUSPEND"}
  /\ b.nest = a.nest
  /\ \A t \in Thread :
       /\ a.stat[t] \in {"NONE", "INIT", "CLOSE"} =>
            b.stat[t] = a.stat[t] /\ (Contains(a.defunct, t) => Contains(b.defunct, t))
       /\ a.stat[t] \notin {"NONE", "INIT", "CLOSE"} =>
            b.stat[t] \notin {"NONE", "INIT", "CLOSE"}
       /\ b.stat[t] = "SUSPEND" => a.stat[t] = "SUSPEND" \/ t = a.cur
       /\ b.stat[t] = "SUSPEND" /\ TimerActive(a, t) => TimerActive(b, t)
  /\ \A x : Contains(b.defunct, x) => Contains(a.defunct, x)
  /\ IsInjective(a.defunct) => IsInjective(b.defunct)

\* A section of a service, in a thread or in an interrupt handler, preserves the
\* invariant of the scheduler.
LEMMA GentleStep ==
  ASSUME IInv, Started', KernelOK(k'), Gentle(k, k'),
         isr = "none", isr' = isr, tgt' = tgt,
         pc' = pc \/ (pc[k.cur] = "run" /\ pc' = [pc EXCEPT ![k.cur] = "sched"]),
         pc[k.cur] = "run" \/ (k'.stat[k.cur] = "SUSPEND" => k.stat[k.cur] = "SUSPEND"),
         k.nest = 0,
         pc'[k'.cur] \notin {"sched", "sleep", "exited"} => k'.stat[k'.cur] = "RUNNING"
  PROVE  IInv'
<1> DEFINE c == k.cur
<1>1. /\ k \in Kernel /\ c \in Thread /\ k' \in Kernel /\ k'.cur \in Thread
      /\ pc \in [Thread -> Pc] /\ tgt \in [Thread -> Thread] /\ k'.nest = 0
  BY DEF IInv, TypeOK, KernelOK, Kernel, Gentle
<1>2. /\ pc' \in [Thread -> Pc]
      /\ \A t \in Thread : pc'[t] = pc[t] \/ (t = c /\ pc[t] = "run" /\ pc'[t] = "sched")
  BY <1>1 DEF Pc
<1>3. TypeOK'
  BY <1>1, <1>2 DEF TypeOK
<1>5. k.stat[c] \in {"RUNNING", "SUSPEND", "CLOSE"}
  BY DEF IInv, KernelOK, CurrentOK
<1>6. Places'
  <2> SUFFICES ASSUME NEW t \in Thread
               PROVE  /\ pc'[t] \notin {"suspend", "detach", "close", "defunct"}
                      /\ k'.stat[t] = "CLOSE" => pc'[t] \in {"exited", "dead"}
                      /\ pc'[t] \in {"exited", "dead"} => k'.stat[t] \in {"CLOSE", "NONE"}
                      /\ k'.stat[t] = "INIT" => pc'[t] = "run"
    BY DEF Places
  <2>1. k'.stat[t] \in {"CLOSE", "NONE", "INIT"} => k'.stat[t] = k.stat[t]
    BY DEF Gentle
  <2>2. k.stat[t] \in {"CLOSE", "NONE"} => k'.stat[t] = k.stat[t]
    BY DEF Gentle
  <2>3. k.stat[t] = "INIT" => t # c
    BY <1>5
  <2> QED BY <1>2, <2>1, <2>2, <2>3 DEF IInv, Places
<1>8. ASSUME NEW t \in Thread, k.stat[t] \in {"NONE", "INIT", "CLOSE"}, t # c PROVE t # k'.cur
  BY <1>8 DEF Gentle
<1>9. Reaping'
  <2> SUFFICES ASSUME NEW d \in Thread, pc'[d] = "reap"
               PROVE  /\ d = Idle
                      /\ k'.stat[tgt[d]] = "CLOSE" /\ tgt[d] \notin Static /\ tgt[d] # k'.cur
                      /\ ~Contains(k'.defunct, tgt[d])
    BY DEF Reaping
  <2>1. pc[d] = "reap" /\ tgt[d] \in Thread
    BY <1>1, <1>2
  <2>2. /\ d = Idle
        /\ k.stat[tgt[d]] = "CLOSE" /\ tgt[d] \notin Static /\ tgt[d] # c
        /\ ~Contains(k.defunct, tgt[d])
    BY <2>1 DEF IInv, Reaping
  <2> QED BY <1>8, <2>1, <2>2 DEF Gentle
<1>10. Defunct'
  <2>1. IsInjective(k'.defunct)
    BY DEF IInv, Defunct, Gentle
  <2>2. ASSUME NEW t \in Thread, Contains(k'.defunct, t)
        PROVE  k'.stat[t] = "CLOSE" /\ t \notin Static
    BY <2>2 DEF IInv, Defunct, Gentle
  <2>3. ASSUME NEW t \in Thread, pc'[t] \in {"exited", "dead"}, t \notin Static, k'.stat[t] # "NONE"
        PROVE  Contains(k'.defunct, t) \/ BeingFreed(t)'
    <3>1. pc[t] \in {"exited", "dead"}
      BY <1>2, <2>3
    <3>2. k.stat[t] \in {"CLOSE", "NONE"} /\ k'.stat[t] = k.stat[t]
      BY <3>1 DEF IInv, Places, Gentle
    <3>3. Contains(k.defunct, t) \/ BeingFreed(t)
      BY <2>3, <3>1, <3>2 DEF IInv, Defunct
    <3>4. Contains(k.defunct, t) => Contains(k'.defunct, t)
      BY <3>2 DEF Gentle
    <3>5. BeingFreed(t) => BeingFreed(t)'
      BY <1>2, ThreadAssumption DEF BeingFreed
    <3> QED BY <3>3, <3>4, <3>5
  <2> QED BY <2>1, <2>2, <2>3 DEF Defunct
<1>11. Running'
  <2>1. pc'[k'.cur] # "dead"
    <3>1. CASE k'.cur = c
      BY <1>1, <1>2, <3>1 DEF IInv, Running
    <3>2. CASE k'.cur # c
      <4>1. k.stat[k'.cur] \in {"READY", "SUSPEND"}
        BY <3>2 DEF Gentle
      <4> QED BY <1>1, <1>2, <4>1 DEF IInv, Places
    <3> QED BY <3>1, <3>2
  <2> QED BY <1>1, <2>1 DEF Running
<1>12. Ticking'
  BY DEF Ticking
<1>13. SleepEnds'
  <2> SUFFICES ASSUME NEW t \in Thread, pc'[t] \in {"sleep", "slept"}, k'.stat[t] = "SUSPEND"
               PROVE  TimerActive(k', t)
    BY DEF SleepEnds
  <2>1. pc[t] \in {"sleep", "slept"}
    BY <1>2
  <2>2. k.stat[t] = "SUSPEND"
    BY <2>1 DEF Gentle
  <2> QED BY <2>1, <2>2 DEF IInv, SleepEnds, Gentle
<1> QED BY <1>3, <1>6, <1>9, <1>10, <1>11, <1>12, <1>13 DEF IInv

\* The same for the whole invariant, given what happens to the lists: a handler
\* leaves the places alone, a thread moves its own.
LEMMA ServiceStep ==
  ASSUME IpcInv, KernelOK(k'), Gentle(k, k'), Waits',
         isr = "none", isr' = isr, tgt' = tgt, NEW p,
         \/ /\ pc' = pc /\ op' = op
            /\ k'.stat[k.cur] = "SUSPEND" => k.stat[k.cur] = "SUSPEND"
         \/ /\ pc[k.cur] = "run" /\ op' = [op EXCEPT ![k.cur] = p]
            /\ pc' = pc \/ pc' = [pc EXCEPT ![k.cur] = "sched"],
         pc'[k'.cur] \notin {"sched", "sleep", "exited"} => k'.stat[k'.cur] = "RUNNING"
  PROVE  IpcInv'
<1>1. /\ IInv /\ k.nest = 0 /\ \A t \in Thread : pc[t] \notin {"resume", "unlink", "insert"}
      /\ k.cur \in Thread /\ pc \in [Thread -> Pc] /\ op = [t \in Thread |-> op[t]]
  BY Types DEF IpcInv, CallPlaces
<1>0. \A t \in Thread : pc'[t] \notin {"resume", "unlink", "insert"}
  BY <1>1
<1>2. IInv'
  <2>0. Started'
    BY <1>0 DEF Started, Starting
  <2>1. pc' = pc \/ (pc[k.cur] = "run" /\ pc' = [pc EXCEPT ![k.cur] = "sched"])
    OBVIOUS
  <2>2. pc[k.cur] = "run" \/ (k'.stat[k.cur] = "SUSPEND" => k.stat[k.cur] = "SUSPEND")
    OBVIOUS
  <2> QED BY <1>1, <2>0, <2>1, <2>2, GentleStep
<1>3. k'.nest = 0
  BY <1>1 DEF Gentle
<1>4. op' = [t \in Thread |-> op'[t]]
  BY <1>1
<1>5. ASSUME NEW t \in Thread, op'[t] # "none" PROVE pc'[t] \in {"run", "sched"}
  BY <1>1, <1>5 DEF IpcInv, CallPlaces
<1> QED BY <1>0, <1>2, <1>3, <1>4, <1>5 DEF IpcInv, CallPlaces

-----------------------------------------------------------------------------
(* Joining a list.                                                          *)

\* From kernel a to kernel b, thread t joins list w at place i and is suspended.
Joined(a, b, w, t, i) ==
  /\ b.wait[w] \in Seq(Thread) /\ Enlisted(a.wait[w], b.wait[w], t, i)
  /\ \A v \in WaitList \ {w} : b.wait[v] = a.wait[v]
  /\ b.stat = [a.stat EXCEPT ![t] = "SUSPEND"]
  /\ b.error = [a.error EXCEPT ![t] = "EOK"]
  /\ \A x \in Thread \ {t} : TimerActive(b, x) <=> TimerActive(a, x)

\* Place i of list s is the one rt_ipc_list_suspend chooses for thread t.
RightPlace(a, s, t, flag, i) ==
  IF flag = "FIFO" THEN i = Len(s) + 1
  ELSE /\ i \in 1 .. Len(s) + 1
       /\ \A j \in 1 .. i - 1 : a.prio[s[j]] <= a.prio[t]
       /\ i <= Len(s) => a.prio[t] < a.prio[s[i]]

\* The lists are in order again after t has joined one of them.
LEMMA JoinedWaits ==
  ASSUME NEW a \in Kernel, WaitsOK(a), NEW w \in WaitList, NEW t \in Thread,
         a.stat[t] # "SUSPEND", NEW b \in Kernel, NEW i, Joined(a, b, w, t, i)
  PROVE  /\ WaitsOK(b)
         /\ \A x \in Thread : Contains(b.wait[w], x) <=> Contains(a.wait[w], x) \/ x = t
         /\ \A x \in Thread : Listed(b, x) <=> Listed(a, x) \/ x = t
         /\ b.wait[w] # << >>
<1>1. /\ a.wait[w] \in Seq(Thread) /\ IsInjective(a.wait[w])
      /\ \A v \in WaitList : ~Contains(a.wait[v], t)
  BY DEF WaitsOK, Kernel
<1>2. /\ IsInjective(b.wait[w])
      /\ \A x : Contains(b.wait[w], x) <=> Contains(a.wait[w], x) \/ x = t
  <2>1. b.wait[w] \in Seq(Thread) /\ Enlisted(a.wait[w], b.wait[w], t, i)
    BY DEF Joined
  <2> HIDE DEF Joined
  <2> QED BY <1>1, <2>1, EnlistedElements
<1>3. /\ \A v \in WaitList \ {w} : b.wait[v] = a.wait[v]
      /\ b.stat[t] = "SUSPEND" /\ \A x \in Thread \ {t} : b.stat[x] = a.stat[x]
  BY DEF Joined, Kernel
<1>4. \A v \in WaitList, x \in Thread :
        Contains(b.wait[v], x) <=> Contains(a.wait[v], x) \/ (v = w /\ x = t)
  BY <1>2, <1>3
<1>5. \A v \in WaitList : IsInjective(b.wait[v])
  BY <1>2, <1>3 DEF WaitsOK
<1>6. WaitsOK(b)
  BY <1>1, <1>3, <1>4, <1>5 DEF WaitsOK
<1>7. b.wait[w] # << >>
  BY <1>2, EmptyHasNone DEF Joined
<1> QED BY <1>2, <1>4, <1>6, <1>7 DEF Listed

\* The current thread has suspended itself, and then put itself on list w, which
\* becomes s, and started its timer, if it waits for a limited time.
SuspendedSelf(a) == rt_thread_suspend([a EXCEPT !.error[a.cur] = "EOK"], a.cur)
OnList(a, w, s, n) ==
  LET u == [SuspendedSelf(a) EXCEPT !.wait[w] = s]
  IN  IF n > 0 THEN rt_timer_start(u, a.cur, n) ELSE u

\* So it waits on that list, at the place i that it has chosen.
LEMMA JoinOK ==
  ASSUME NEW a, KernelOK(a), WaitsOK(a), a.cur # Idle, a.stat[a.cur] = "RUNNING",
         IsInjective(a.defunct), ~Contains(a.defunct, a.cur),
         NEW w \in WaitList, NEW s \in Seq(Thread), NEW i, Enlisted(a.wait[w], s, a.cur, i),
         NEW n \in Int
  PROVE  LET v == SuspendedSelf(a)
             b == OnList(a, w, s, n)
         IN  /\ v.wait = a.wait /\ v.prio = a.prio
             /\ KernelOK(b) /\ Gentle(a, b) /\ b.cur = a.cur
             /\ Joined(a, b, w, a.cur, i) /\ b.wait[w] = s /\ b.prio = a.prio
<1> DEFINE t == a.cur
           e == [a EXCEPT !.error[t] = "EOK"]
           v == rt_thread_suspend(e, t)
           u == [v EXCEPT !.wait[w] = s]
           b == IF n > 0 THEN rt_timer_start(u, t, n) ELSE u
<1>1. a \in Kernel /\ t \in Thread
  BY DEF KernelOK, Kernel
<1>2. /\ KernelOK(e) /\ SameCore(a, e) /\ e.nest = a.nest /\ e.defunct = a.defunct
      /\ e.wait = a.wait /\ e.error = [a.error EXCEPT ![t] = "EOK"]
  BY <1>1, ErrorOK DEF Error
<1>3. e.cur = t /\ e.stat = a.stat /\ WaitsOK(e)
  BY <1>2 DEF SameCore, WaitsOK
<1> HIDE DEF e
<1>4. /\ KernelOK(v) /\ v.cur = t /\ v.nest = a.nest
      /\ v.stat = [a.stat EXCEPT ![t] = "SUSPEND"]
      /\ v.defunct = Unlinked(e.defunct, t)
      /\ v.wait = e.wait /\ v.error = e.error /\ v.prio = e.prio
      /\ \A x \in Thread : TimerActive(v, x) <=> TimerActive(e, x)
  BY <1>2, <1>3, SuspendSelfOK
<1>5. v.defunct = a.defunct
  BY <1>2, <1>4, UnlinkedAbsent
<1> HIDE DEF v
<1>6. /\ KernelOK(u) /\ SameCore(v, u) /\ u.nest = v.nest /\ u.defunct = v.defunct
      /\ u.error = v.error /\ u.wait = [v.wait EXCEPT ![w] = s]
  BY <1>4, SetWaitOK
<1>7. u.stat[t] = "SUSPEND"
  BY <1>1, <1>4, <1>6 DEF SameCore, Kernel
<1> HIDE DEF u
<1>8. /\ KernelOK(b)
      /\ b.stat = u.stat /\ b.prio = u.prio /\ b.cur = u.cur /\ b.nest = u.nest
      /\ b.defunct = u.defunct /\ b.error = u.error /\ b.wait = u.wait
      /\ \A x \in Thread : TimerActive(u, x) => TimerActive(b, x)
      /\ \A x \in Thread \ {t} : TimerActive(b, x) <=> TimerActive(u, x)
  <2>1. CASE n > 0
    BY <1>1, <1>6, <1>7, <2>1, TimerStartOK
  <2>2. CASE ~(n > 0)
    BY <1>6, <2>2
  <2> QED BY <2>1, <2>2
<1> HIDE DEF b
<1>9. /\ b.cur = t /\ b.nest = a.nest /\ b.stat = [a.stat EXCEPT ![t] = "SUSPEND"]
      /\ b.defunct = a.defunct /\ b.prio = a.prio
      /\ b.error = [a.error EXCEPT ![t] = "EOK"] /\ b.wait = [a.wait EXCEPT ![w] = s]
  BY <1>2, <1>4, <1>5, <1>6, <1>8 DEF SameCore
<1>10. /\ \A x \in Thread : TimerActive(a, x) => TimerActive(b, x)
       /\ \A x \in Thread \ {t} : TimerActive(b, x) <=> TimerActive(a, x)
  BY <1>2, <1>4, <1>6, <1>8 DEF SameCore, TimerActive
<1>11. a.stat \in [Thread -> Stat] /\ a.wait \in [WaitList -> Seq(Thread)]
  BY <1>1 DEF Kernel
<1>12. Gentle(a, b)
  BY <1>1, <1>9, <1>10, <1>11 DEF Gentle
<1>13. Joined(a, b, w, t, i) /\ b.wait[w] = s
  BY <1>9, <1>10, <1>11 DEF Joined
<1>14. v.wait = a.wait /\ v.prio = a.prio
  BY <1>2, <1>4 DEF SameCore
<1>15. v = SuspendedSelf(a) /\ b = OnList(a, w, s, n)
  BY DEF b, u, v, e, SuspendedSelf, OnList
<1> QED BY <1>8, <1>9, <1>12, <1>13, <1>14, <1>15

\* rt_ipc_list_suspend and the timer: the thread is at the place that the flag of
\* the object calls for.
LEMMA WaitOnOK ==
  ASSUME NEW a, KernelOK(a), WaitsOK(a), a.cur # Idle, a.stat[a.cur] = "RUNNING",
         IsInjective(a.defunct), ~Contains(a.defunct, a.cur),
         NEW w \in WaitList, NEW flag, NEW n \in Int
  PROVE  LET b == WaitOn(a, w, a.cur, flag, n)
         IN  /\ KernelOK(b) /\ Gentle(a, b) /\ b.cur = a.cur /\ b.prio = a.prio
             /\ \E i : /\ Joined(a, b, w, a.cur, i)
                       /\ RightPlace(a, a.wait[w], a.cur, flag, i)
<1> DEFINE t == a.cur
           v == SuspendedSelf(a)
           s == a.wait[w]
           lower == PrioPlace(a, s, t)
           r == IF flag = "FIFO" \/ lower = {} THEN Append(s, t) ELSE InsertAt(s, Min(lower), t)
           i == IF flag = "FIFO" \/ lower = {} THEN Len(s) + 1 ELSE Min(lower)
<1>1. a \in Kernel /\ t \in Thread /\ s \in Seq(Thread) /\ a.prio \in [Thread -> Prio]
  BY DEF KernelOK, Kernel
<1>2. ASSUME lower # {}
      PROVE  Min(lower) \in lower /\ \A m \in lower : Min(lower) <= m
  <2>1. lower \subseteq Nat
    BY DEF PrioPlace
  <2> HIDE DEF lower
  <2> QED BY <1>2, <2>1, NatLeast
<1>3. lower \subseteq 1 .. Len(s)
  BY DEF PrioPlace
<1>4. r \in Seq(Thread) /\ Enlisted(s, r, t, i)
  <2> HIDE DEF lower, s
  <2>1. CASE flag = "FIFO" \/ lower = {}
    BY <1>1, <2>1, EnlistTail
  <2>2. CASE ~(flag = "FIFO" \/ lower = {})
    <3>1. Min(lower) \in 1 .. Len(s)
      BY <1>2, <1>3, <2>2
    <3> QED BY <1>1, <2>2, <3>1, EnlistAt
  <2> QED BY <2>1, <2>2
<1>5. RightPlace(a, s, t, flag, i)
  <2>1. CASE flag = "FIFO"
    BY <2>1 DEF RightPlace
  <2>2. CASE flag # "FIFO" /\ lower = {}
    <3>1. \A j \in 1 .. Len(s) : ~(a.prio[t] < a.prio[s[j]])
      BY <2>2 DEF PrioPlace
    <3>2. \A j \in 1 .. Len(s) : s[j] \in Thread
      BY <1>1
    <3>3. \A j \in 1 .. Len(s) : a.prio[s[j]] <= a.prio[t]
      BY <1>1, <3>1, <3>2, PrioAssumption DEF Prio
    <3>4. i = Len(s) + 1 /\ Len(s) \in Nat
      BY <1>1, <2>2
    <3> HIDE DEF i, s
    <3> QED BY <2>2, <3>3, <3>4 DEF RightPlace
  <2>3. CASE flag # "FIFO" /\ lower # {}
    <3>1. i = Min(lower)
      BY <2>3
    <3>2. i \in lower /\ \A m \in lower : i <= m
      BY <1>2, <2>3, <3>1
    <3> HIDE DEF i
    <3>3. i \in 1 .. Len(s) /\ a.prio[t] < a.prio[s[i]]
      BY <3>2 DEF PrioPlace
    <3>4. \A j \in 1 .. i - 1 : j \in 1 .. Len(s) /\ ~(i <= j)
      BY <1>1, <3>3
    <3>5. \A j \in 1 .. i - 1 : ~(a.prio[t] < a.prio[s[j]])
      BY <3>2, <3>4 DEF PrioPlace
    <3>6. \A j \in 1 .. Len(s) : a.prio[s[j]] \in Int
      BY <1>1, PrioAssumption DEF Prio
    <3>7. \A j \in 1 .. i - 1 : a.prio[s[j]] <= a.prio[t]
      BY <1>1, <3>4, <3>5, <3>6, PrioAssumption DEF Prio
    <3>8. i \in 1 .. Len(s) + 1
      BY <1>1, <3>3
    <3> HIDE DEF s, lower
    <3> QED BY <2>3, <3>3, <3>7, <3>8 DEF RightPlace
  <2> QED BY <2>1, <2>2, <2>3
<1> HIDE DEF r, i
<1> DEFINE b == OnList(a, w, r, n)
<1>6. /\ v.wait = a.wait /\ v.prio = a.prio
      /\ KernelOK(b) /\ Gentle(a, b) /\ b.cur = a.cur
      /\ Joined(a, b, w, t, i) /\ b.prio = a.prio
  BY <1>4, JoinOK, ZenonT(60)
<1>7. WaitOn(a, w, t, flag, n) = b
  <2>1. v.wait[w] = s /\ PrioPlace(v, s, t) = lower
    BY <1>6 DEF PrioPlace
  <2> HIDE DEF v, s, lower
  <2>2. rt_ipc_list_suspend([a EXCEPT !.error[t] = "EOK"], w, t, flag) = [v EXCEPT !.wait[w] = r]
    BY <2>1 DEF rt_ipc_list_suspend, v, r, lower, SuspendedSelf
  <2> QED BY <2>2 DEF WaitOn, OnList, v
<1> QED BY <1>5, <1>6, <1>7

\* f does not decrease along s.
SortedBy(f, s) == \A i, j \in 1 .. Len(s) : i < j => f[s[i]] <= f[s[j]]

\* rt_list_remove keeps the order of the list.
LEMMA UnlinkedSorted ==
  ASSUME NEW s \in Seq(Thread), NEW t \in Thread, NEW f, SortedBy(f, s)
  PROVE  SortedBy(f, Unlinked(s, t))
<1>1. CASE Contains(s, t)
  <2> DEFINE u == Unlinked(s, t)
             n == Place(s, t)
  <2>1. /\ n \in 1 .. Len(s) /\ Len(u) = Len(s) - 1
        /\ \A j \in 1 .. Len(s) - 1 : u[j] = IF j < n THEN s[j] ELSE s[j + 1]
    BY <1>1, UnlinkedPresent
  <2> HIDE DEF u, n
  <2>2. ASSUME NEW i \in 1 .. Len(u), NEW j \in 1 .. Len(u), i < j PROVE f[u[i]] <= f[u[j]]
    <3> DEFINE old(x) == IF x < n THEN x ELSE x + 1
    <3>1. ASSUME NEW x \in 1 .. Len(u) PROVE old(x) \in 1 .. Len(s) /\ u[x] = s[old(x)]
      <4>1. Len(s) \in Nat /\ n \in 1 .. Len(s) /\ x \in 1 .. Len(s) - 1
        BY <2>1, <3>1
      <4>2. u[x] = IF x < n THEN s[x] ELSE s[x + 1]
        BY <2>1, <4>1
      <4> QED BY <4>1, <4>2
    <3>2. i \in Int /\ j \in Int /\ n \in Int
      BY <2>1
    <3>3. old(i) < old(j)
      BY <2>2, <3>2
    <3>4. /\ old(i) \in 1 .. Len(s) /\ u[i] = s[old(i)]
          /\ old(j) \in 1 .. Len(s) /\ u[j] = s[old(j)]
      BY <3>1
    <3> HIDE DEF old
    <3> QED BY <3>3, <3>4 DEF SortedBy
  <2> QED BY <2>2 DEF SortedBy, u
<1>2. CASE ~Contains(s, t)
  BY <1>2, UnlinkedAbsent
<1> QED BY <1>1, <1>2

\* So does a new waiter at the place rt_ipc_list_suspend finds for it.
LEMMA EnlistedSorted ==
  ASSUME NEW s \in Seq(Thread), NEW r \in Seq(Thread), NEW t \in Thread, NEW i,
         Enlisted(s, r, t, i), NEW a, a.prio \in [Thread -> Int],
         RightPlace(a, s, t, "PRIO", i), SortedBy(a.prio, s)
  PROVE  /\ SortedBy(a.prio, r)
         /\ \A j \in 1 .. Len(s) : a.prio[s[j]] <= a.prio[t] => j < i
<1> DEFINE f == a.prio
<1>1. /\ i \in 1 .. Len(s) + 1 /\ Len(r) = Len(s) + 1 /\ Len(s) \in Nat
      /\ \A j \in 1 .. Len(r) : r[j] = IF j < i THEN s[j] ELSE IF j = i THEN t ELSE s[j - 1]
  <2>1. i \in 1 .. Len(s) + 1 /\ Len(r) = Len(s) + 1 /\ Len(s) \in Nat /\ r[i] = t
    BY DEF Enlisted
  <2>2. ASSUME NEW j \in 1 .. Len(r)
        PROVE  r[j] = IF j < i THEN s[j] ELSE IF j = i THEN t ELSE s[j - 1]
    BY <2>1, SMTT(30) DEF Enlisted
  <2> QED BY <2>1, <2>2
<1>2. /\ \A j \in 1 .. i - 1 : f[s[j]] <= f[t]
      /\ i <= Len(s) => f[t] < f[s[i]]
  BY DEF RightPlace
<1>3. \A j \in 1 .. Len(s) : f[s[j]] \in Int /\ s[j] \in Thread
  OBVIOUS
<1>4. f[t] \in Int
  OBVIOUS
<1>5. \A j, l \in 1 .. Len(s) : j < l => f[s[j]] <= f[s[l]]
  BY DEF SortedBy
<1> HIDE DEF f
<1>6. ASSUME NEW j \in 1 .. Len(s), j >= i PROVE f[t] < f[s[j]]
  <2>1. i <= Len(s) /\ i \in 1 .. Len(s)
    BY <1>1, <1>6
  <2>2. CASE j = i
    BY <1>2, <2>1, <2>2
  <2>3. CASE j > i
    <3>1. f[t] < f[s[i]] /\ f[s[i]] <= f[s[j]]
      BY <1>2, <1>5, <2>1, <2>3
    <3> QED BY <1>3, <1>4, <2>1, <3>1
  <2> QED BY <1>1, <1>6, <2>2, <2>3
<1>7. ASSUME NEW j \in 1 .. Len(r), NEW l \in 1 .. Len(r), j < l PROVE f[r[j]] <= f[r[l]]
  <2>1. CASE l < i
    <3>0. i \in 1 .. Len(s) + 1 /\ Len(s) \in Nat /\ j \in Nat /\ l \in Nat /\ 0 < j /\ 0 < l
      BY <1>1
    <3>1. j \in 1 .. i - 1 /\ l \in 1 .. i - 1 /\ j \in 1 .. Len(s) /\ l \in 1 .. Len(s)
      BY <3>0, <1>7, <2>1
    <3>2. r[j] = s[j] /\ r[l] = s[l]
      BY <1>1, <3>1
    <3> QED BY <1>5, <1>7, <3>1, <3>2
  <2>2. CASE l = i
    <3>1. r[j] = s[j] /\ r[l] = t /\ j \in 1 .. i - 1
      BY <1>1, <1>7, <2>2
    <3> QED BY <1>2, <3>1
  <2>3. CASE l > i /\ j < i
    <3>1. r[j] = s[j] /\ r[l] = s[l - 1] /\ j \in 1 .. Len(s) /\ l - 1 \in 1 .. Len(s) /\ j < l - 1
      BY <1>1, <1>7, <2>3
    <3> QED BY <1>5, <3>1
  <2>4. CASE l > i /\ j = i
    <3>1. r[j] = t /\ r[l] = s[l - 1] /\ l - 1 \in 1 .. Len(s) /\ l - 1 >= i
      BY <1>1, <1>7, <2>4
    <3>2. f[t] < f[s[l - 1]] /\ f[s[l - 1]] \in Int
      BY <1>3, <1>6, <3>1
    <3> QED BY <1>4, <3>1, <3>2
  <2>5. CASE j > i
    <3>1. /\ r[j] = s[j - 1] /\ r[l] = s[l - 1] /\ j - 1 \in 1 .. Len(s) /\ l - 1 \in 1 .. Len(s)
          /\ j - 1 < l - 1
      BY <1>1, <1>7, <2>5
    <3> QED BY <1>5, <3>1
  <2> QED BY <1>1, <1>7, <2>1, <2>2, <2>3, <2>4, <2>5
<1>8. ASSUME NEW j \in 1 .. Len(s), f[s[j]] <= f[t] PROVE j < i
  <2>1. ~(f[t] < f[s[j]])
    BY <1>3, <1>4, <1>8
  <2> QED BY <1>1, <1>6, <2>1
<1> QED BY <1>7, <1>8 DEF SortedBy, f

\* The invariant of the services contains that of the lists.
LEMMA IpcList == IpcInv => ListInv
BY DEF IpcInv, ListInv, Waits

\* A thread of the application that runs is on no list.
LEMMA RunningThread ==
  ASSUME ListInv, At("run")
  PROVE  /\ KernelOK(k) /\ k \in Kernel /\ k.cur \in Thread /\ k.stat[k.cur] = "RUNNING"
         /\ ~Listed(k, k.cur) /\ isr = "none" /\ pc[k.cur] = "run"
         /\ IsInjective(k.defunct) /\ ~Contains(k.defunct, k.cur)
<1>1. /\ KernelOK(k) /\ k \in Kernel /\ k.cur \in Thread /\ isr = "none" /\ pc[k.cur] = "run"
      /\ k.nest = 0 /\ WaitsOK(k)
  BY Types DEF At, ListInv, IInv
<1>2. k.stat[k.cur] = "RUNNING"
  BY <1>1 DEF ListInv, IInv, Running
<1>3. IsInjective(k.defunct) /\ ~Contains(k.defunct, k.cur)
  BY <1>1, <1>2 DEF ListInv, IInv, Defunct
<1> QED BY <1>1, <1>2, <1>3, NotListed

\* A service call that has to wait.
LEMMA JoinStep ==
  ASSUME IpcInv, At("run"), NEW b, KernelOK(b), Gentle(k, b), b.cur = k.cur,
         NEW w \in WaitList, NEW i, Joined(k, b, w, k.cur, i),
         NEW p, p # "none", Then_schedule(b, p)
  PROVE  IpcInv'
<1>1. /\ k \in Kernel /\ k.cur \in Thread /\ k.stat[k.cur] = "RUNNING"
      /\ isr = "none" /\ pc[k.cur] = "run" /\ b \in Kernel /\ WaitsOK(k)
      /\ op = [t \in Thread |-> op[t]] /\ pc \in [Thread -> Pc]
  BY RunningThread, IpcList, Types DEF KernelOK, IpcInv, Waits, CallPlaces
<1>2. /\ k' = b /\ op' = [op EXCEPT ![k.cur] = p] /\ pc' = [pc EXCEPT ![k.cur] = "sched"]
      /\ tgt' = tgt /\ isr' = isr
  BY DEF Then_schedule, Enter, Goto
<1>3. WaitsOK(b) /\ \A x \in Thread : Listed(b, x) <=> Listed(k, x) \/ x = k.cur
  BY <1>1, JoinedWaits
<1>4. ASSUME NEW t \in Thread
      PROVE  /\ Listed(b, t) => op'[t] # "none"
             /\ b.stat[t] = "SUSPEND" => IF op'[t] = "none" THEN TimerActive(b, t) ELSE Listed(b, t)
  BY <1>1, <1>2, <1>3 DEF IpcInv, Waits, Joined, Kernel
<1>5. Waits'
  BY <1>2, <1>3, <1>4 DEF Waits
<1>6. pc'[k'.cur] = "sched"
  BY <1>1, <1>2
<1> QED BY <1>1, <1>2, <1>5, <1>6, ServiceStep

-----------------------------------------------------------------------------
(* Leaving the lists.                                                       *)

\* From kernel a to kernel b some threads are taken off the lists and made ready,
\* nobody joins a list.
Shrunk(a, b) ==
  /\ WaitsOK(b)
  /\ \A t \in Thread :
       /\ b.stat[t] = "SUSPEND" => a.stat[t] = "SUSPEND"
       /\ Listed(b, t) => Listed(a, t)
       /\ b.stat[t] = "SUSPEND" /\ Listed(a, t) => Listed(b, t)

\* A routine of a service that suspends nobody and lets the current thread go on.
Resumes(a, b) == KernelOK(b) /\ Gentle(a, b) /\ b.cur = a.cur /\ Shrunk(a, b)

\* Two such routines, one after the other.
LEMMA ResumesThen ==
  ASSUME NEW a, NEW b, NEW c, Resumes(a, b), Resumes(b, c)
  PROVE  Resumes(a, c)
<1>1. Gentle(a, c)
  <2>1. ASSUME NEW t \in Thread
        PROVE  /\ a.stat[t] \in {"NONE", "INIT", "CLOSE"} =>
                    c.stat[t] = a.stat[t] /\ (Contains(a.defunct, t) => Contains(c.defunct, t))
               /\ a.stat[t] \notin {"NONE", "INIT", "CLOSE"} =>
                    c.stat[t] \notin {"NONE", "INIT", "CLOSE"}
    BY DEF Resumes, Gentle
  <2>2. ASSUME NEW t \in Thread, c.stat[t] = "SUSPEND"
        PROVE  a.stat[t] = "SUSPEND" /\ (TimerActive(a, t) => TimerActive(c, t))
    BY <2>2 DEF Resumes, Gentle, Shrunk
  <2>3. /\ c.cur = a.cur /\ c.nest = a.nest
        /\ \A x : Contains(c.defunct, x) => Contains(a.defunct, x)
        /\ IsInjective(a.defunct) => IsInjective(c.defunct)
    BY DEF Resumes, Gentle
  <2> QED BY <2>1, <2>2, <2>3 DEF Gentle
<1>2. Shrunk(a, c)
  BY DEF Resumes, Shrunk
<1> QED BY <1>1, <1>2 DEF Resumes

\* Such a routine, no timer stopped, and then one that suspends the current thread.
LEMMA GentleThen ==
  ASSUME NEW a, NEW b, NEW c, Resumes(a, b), b.timers = a.timers, Gentle(b, c), c.cur = b.cur
  PROVE  Gentle(a, c)
<1>1. ASSUME NEW t \in Thread
      PROVE  /\ a.stat[t] \in {"NONE", "INIT", "CLOSE"} =>
                  c.stat[t] = a.stat[t] /\ (Contains(a.defunct, t) => Contains(c.defunct, t))
             /\ a.stat[t] \notin {"NONE", "INIT", "CLOSE"} =>
                  c.stat[t] \notin {"NONE", "INIT", "CLOSE"}
  BY DEF Resumes, Gentle
<1>2. ASSUME NEW t \in Thread, c.stat[t] = "SUSPEND"
      PROVE  a.stat[t] = "SUSPEND" \/ t = a.cur
  BY <1>2 DEF Resumes, Gentle, Shrunk
<1>3. /\ c.cur = a.cur /\ c.nest = a.nest
      /\ \A x : Contains(c.defunct, x) => Contains(a.defunct, x)
      /\ IsInjective(a.defunct) => IsInjective(c.defunct)
  BY DEF Resumes, Gentle
<1>4. ASSUME NEW t \in Thread, c.stat[t] = "SUSPEND", TimerActive(a, t)
      PROVE  TimerActive(c, t)
  BY <1>4 DEF Gentle, TimerActive
<1> QED BY <1>1, <1>2, <1>3, <1>4 DEF Gentle

\* A change of an error number, or of a priority, is one.
LEMMA SameWaitsResumes ==
  ASSUME NEW a, NEW b, WaitsOK(a), KernelOK(b), b.cur = a.cur, b.nest = a.nest,
         b.stat = a.stat, b.wait = a.wait, b.timers = a.timers,
         \A x : Contains(b.defunct, x) <=> Contains(a.defunct, x),
         IsInjective(a.defunct) => IsInjective(b.defunct)
  PROVE  Resumes(a, b)
<1>1. Gentle(a, b)
  BY DEF Gentle, TimerActive
<1>2. Shrunk(a, b)
  BY DEF Shrunk, WaitsOK, Listed
<1> QED BY <1>1, <1>2 DEF Resumes

\* rt_thread_resume of a thread that waits.
LEMMA ResumeResumes ==
  ASSUME NEW a, KernelOK(a), WaitsOK(a), NEW t \in Thread, a.stat[t] = "SUSPEND",
         ~Contains(a.defunct, t)
  PROVE  LET b == rt_thread_resume(a, t) IN
         /\ Resumes(a, b) /\ TakenOff(a, b, t, a.error[t])
         /\ b.defunct = a.defunct /\ \A x \in Thread \ {t} : b.stat[x] = a.stat[x]
<1> DEFINE b == rt_thread_resume(a, t)
<1>1. a \in Kernel /\ a.stat \in [Thread -> Stat]
  BY DEF KernelOK, Kernel
<1>2. /\ KernelOK(b) /\ b.cur = a.cur /\ b.nest = a.nest
      /\ b.stat = [a.stat EXCEPT ![t] = IF t = a.cur THEN "RUNNING" ELSE "READY"]
      /\ b.defunct = Unlinked(a.defunct, t)
      /\ TakenOff(a, b, t, a.error[t])
  BY ResumeOK
<1>3. b.defunct = a.defunct
  BY <1>2, UnlinkedAbsent
<1> HIDE DEF b
<1>4. b.stat[t] \in {"RUNNING", "READY"} /\ \A x \in Thread \ {t} : b.stat[x] = a.stat[x]
  BY <1>1, <1>2
<1>5. \A x \in Thread : TimerActive(b, x) <=> TimerActive(a, x) /\ x # t
  BY <1>2 DEF TakenOff
<1>6. Gentle(a, b)
  BY <1>2, <1>3, <1>4, <1>5 DEF Gentle
<1>7. /\ WaitsOK(b)
      /\ \A w \in WaitList, x \in Thread :
           Contains(b.wait[w], x) <=> Contains(a.wait[w], x) /\ x # t
  BY <1>1, <1>2, TakenOffWaits
<1>8. Shrunk(a, b)
  BY <1>4, <1>7 DEF Shrunk, Listed
<1> QED BY <1>2, <1>3, <1>4, <1>6, <1>8 DEF Resumes, b

\* rt_schedule, the end of a handler.
LEMMA ScheduleGentle ==
  ASSUME NEW a, NEW u, KernelOK(a), Resumes(a, u), a.nest = 0
  PROVE  LET b == rt_schedule(u) IN
         /\ KernelOK(b) /\ Gentle(a, b) /\ Shrunk(a, b) /\ SameWaits(u, b)
         /\ Preempts(b)
<1> DEFINE b == rt_schedule(u)
<1>1. /\ KernelOK(b) /\ Undisturbed(u, b) /\ Preempts(b)
  <2>1. KernelOK(u) /\ u.nest = 0
    BY DEF Resumes, Gentle
  <2> QED BY <2>1, ScheduleOK
<1>2. SameWaits(u, b) /\ WaitsOK(b)
  BY ScheduleWaits DEF Resumes, Shrunk
<1> HIDE DEF b
<1>3. u.stat \in [Thread -> Stat] /\ b.cur \in Thread /\ a.stat \in [Thread -> Stat] /\ b.stat \in [Thread -> Stat]
  BY <1>1 DEF Resumes, KernelOK, Kernel
<1>4. b.cur = a.cur \/ a.stat[b.cur] \in {"READY", "SUSPEND"}
  <2>1. b.cur = u.cur \/ u.stat[b.cur] \in {"READY", "SUSPEND"}
    BY <1>1, <1>3 DEF Undisturbed, Harmless, Resumes, KernelOK, TimersOK
  <2>2. CASE b.cur = u.cur
    BY <2>2 DEF Resumes
  <2>3. CASE u.stat[b.cur] \in {"READY", "SUSPEND"}
    <3>1. a.stat[b.cur] \notin {"NONE", "INIT", "CLOSE"}
      BY <1>3, <2>3 DEF Resumes, Gentle
    <3>2. a.stat[b.cur] = "RUNNING" => b.cur = a.cur
      BY <1>3 DEF KernelOK, CurrentOK
    <3> QED BY <1>3, <3>1, <3>2 DEF Stat
  <2> QED BY <2>1, <2>2, <2>3
<1>5. ASSUME NEW t \in Thread
      PROVE  /\ a.stat[t] \in {"NONE", "INIT", "CLOSE"} =>
                  b.stat[t] = a.stat[t] /\ (Contains(a.defunct, t) => Contains(b.defunct, t))
             /\ a.stat[t] \notin {"NONE", "INIT", "CLOSE"} =>
                  b.stat[t] \notin {"NONE", "INIT", "CLOSE"}
             /\ b.stat[t] = "SUSPEND" => a.stat[t] = "SUSPEND" \/ t = a.cur
             /\ b.stat[t] = "SUSPEND" /\ TimerActive(a, t) => TimerActive(b, t)
  <2>1. a.stat[t] \in {"NONE", "INIT", "CLOSE"} =>
          b.stat[t] = a.stat[t] /\ (Contains(a.defunct, t) => Contains(b.defunct, t))
    BY <1>1 DEF Undisturbed, Harmless, Resumes, Gentle
  <2>2. a.stat[t] \notin {"NONE", "INIT", "CLOSE"} => b.stat[t] \notin {"NONE", "INIT", "CLOSE"}
    BY <1>1 DEF Undisturbed, Harmless, Resumes, Gentle
  <2>3. /\ b.stat[t] = "SUSPEND" => a.stat[t] = "SUSPEND" \/ t = a.cur
        /\ b.stat[t] = "SUSPEND" /\ TimerActive(a, t) => TimerActive(b, t)
    BY <1>2 DEF SameWaits, Resumes, Gentle
  <2> QED BY <2>1, <2>2, <2>3
<1>6. /\ \A x : Contains(b.defunct, x) => Contains(a.defunct, x)
      /\ IsInjective(a.defunct) => IsInjective(b.defunct)
      /\ b.nest = a.nest
  BY <1>1 DEF Undisturbed, Harmless, Resumes, Gentle
<1>7. Gentle(a, b)
  BY <1>4, <1>5, <1>6 DEF Gentle
<1>8. Shrunk(a, b)
  BY <1>2 DEF SameWaits, Resumes, Shrunk, Listed
<1> QED BY <1>1, <1>2, <1>7, <1>8 DEF b

\* Taking threads off the lists keeps the lists consistent with the calls.
LEMMA ShrunkWaits ==
  ASSUME Waits, Shrunk(k, k'), Gentle(k, k'),
         \A t \in Thread : k.stat[t] = "SUSPEND" => op'[t] = op[t]
  PROVE  Waits'
<1> SUFFICES ASSUME NEW t \in Thread
             PROVE  /\ Listed(k', t) => op'[t] # "none"
                    /\ k'.stat[t] = "SUSPEND" => IF op'[t] = "none" THEN TimerActive(k', t)
                                                ELSE Listed(k', t)
  BY DEF Waits, Shrunk
<1>2. Listed(k', t) => k'.stat[t] = "SUSPEND"
  BY DEF Shrunk, WaitsOK, Listed
<1>3. k'.stat[t] = "SUSPEND" => k.stat[t] = "SUSPEND"
  BY DEF Shrunk
<1> QED BY <1>2, <1>3 DEF Waits, Shrunk, Gentle

\* A section of a service call that wakes others, or nobody, with or without a
\* rt_schedule after it.
LEMMA ResumeStep ==
  ASSUME IpcInv, At("run"), NEW b, Resumes(k, b), NEW p, Then_schedule(b, p) \/ Then_return(b, p)
  PROVE  IpcInv'
<1>1. /\ k \in Kernel /\ k.cur \in Thread /\ k.stat[k.cur] = "RUNNING"
      /\ isr = "none" /\ pc[k.cur] = "run" /\ Waits /\ ~Listed(k, k.cur)
      /\ op = [t \in Thread |-> op[t]] /\ pc \in [Thread -> Pc]
  BY RunningThread, IpcList, Types DEF IpcInv, CallPlaces
<1>2. /\ k' = b /\ op' = [op EXCEPT ![k.cur] = p]
      /\ pc' = pc \/ pc' = [pc EXCEPT ![k.cur] = "sched"]
      /\ tgt' = tgt /\ isr' = isr
  BY DEF Then_schedule, Then_return, Enter, Goto
<1>3. Waits'
  <2>1. \A t \in Thread : k.stat[t] = "SUSPEND" => op'[t] = op[t]
    BY <1>1, <1>2
  <2> QED BY <1>1, <1>2, <2>1, ShrunkWaits DEF Resumes
<1>4. k'.stat[k'.cur] = "RUNNING"
  <2>1. k'.cur = k.cur /\ k'.stat[k.cur] \notin {"NONE", "INIT", "CLOSE", "SUSPEND"}
    BY <1>1, <1>2 DEF Resumes, Gentle, Shrunk
  <2>2. KernelOK(b) /\ b.cur = k.cur
    BY DEF Resumes
  <2> QED BY <1>1, <1>2, <2>1, <2>2 DEF KernelOK, CurrentOK
<1> QED BY <1>1, <1>2, <1>3, <1>4, ServiceStep DEF Resumes

\* The same in an interrupt handler, which calls rt_schedule or does nothing to the kernel.
LEMMA HandlerStep ==
  ASSUME IpcInv, NEW u, Resumes(k, u), Interrupt(rt_schedule(u)) \/ (u = k /\ Interrupt(k))
  PROVE  IpcInv' /\ k'.wait = u.wait /\ k'.error = u.error /\ k'.prio = u.prio
<1>0. CASE u = k /\ Interrupt(k)
  <2>1. k' = k /\ pc' = pc /\ tgt' = tgt /\ isr' = isr /\ op' = op
    BY <1>0 DEF Interrupt
  <2>2. IpcInv'
    BY <2>1 DEF IpcInv, CallPlaces, Waits, IInv, TypeOK, Places, Started, Starting, Reaping,
                Defunct, BeingFreed, Running, Ticking, SleepEnds
  <2> QED BY <1>0, <2>1, <2>2
<1> SUFFICES ASSUME Interrupt(rt_schedule(u))
             PROVE  IpcInv' /\ k'.wait = u.wait /\ k'.error = u.error /\ k'.prio = u.prio
  BY <1>0
<1>1. /\ isr = "none" /\ isr' = isr /\ tgt' = tgt /\ pc' = pc /\ op' = op /\ k' = rt_schedule(u)
  BY DEF Interrupt
<1>2. /\ KernelOK(k') /\ Gentle(k, k') /\ Shrunk(k, k') /\ SameWaits(u, k')
      /\ Preempts(k')
  BY <1>1, ScheduleGentle DEF IpcInv, IInv
<1>3. Waits'
  BY <1>1, <1>2, ShrunkWaits DEF IpcInv
<1>4. k'.stat[k.cur] = "SUSPEND" => k.stat[k.cur] = "SUSPEND"
  BY <1>2, Types DEF Shrunk, IpcInv
<1>5. k'.stat[k'.cur] = "RUNNING"
  BY <1>2 DEF Preempts
<1> QED BY <1>1, <1>2, <1>3, <1>4, <1>5, ServiceStep DEF SameWaits

-----------------------------------------------------------------------------
(* rt_ipc_list_resume_all.                                                  *)

\* One turn: the thread is resumed with an error number of its own.
LEMMA ErrorResumes ==
  ASSUME NEW a, KernelOK(a), WaitsOK(a), NEW t \in Thread, a.stat[t] = "SUSPEND",
         ~Contains(a.defunct, t), NEW e \in Error
  PROVE  LET b == rt_thread_resume([a EXCEPT !.error[t] = e], t) IN
         /\ Resumes(a, b) /\ TakenOff(a, b, t, e)
         /\ b.defunct = a.defunct /\ \A x \in Thread \ {t} : b.stat[x] = a.stat[x]
<1> DEFINE c == [a EXCEPT !.error[t] = e]
           b == rt_thread_resume(c, t)
<1>1. /\ KernelOK(c) /\ SameCore(a, c) /\ c.nest = a.nest /\ c.defunct = a.defunct
      /\ c.wait = a.wait /\ c.error = [a.error EXCEPT ![t] = e]
  BY ErrorOK
<1>2. a.error \in [Thread -> Error]
  BY DEF KernelOK, Kernel
<1> HIDE DEF c
<1>3. Resumes(a, c)
  BY <1>1, SameWaitsResumes DEF SameCore
<1>4. c.stat[t] = "SUSPEND" /\ ~Contains(c.defunct, t) /\ WaitsOK(c) /\ c.error[t] = e
  BY <1>1, <1>2, <1>3 DEF SameCore, Resumes, Shrunk
<1>5. /\ Resumes(c, b) /\ TakenOff(c, b, t, e)
      /\ b.defunct = c.defunct /\ \A x \in Thread \ {t} : b.stat[x] = c.stat[x]
  BY <1>1, <1>4, ResumeResumes
<1> HIDE DEF b
<1>6. TakenOff(a, b, t, e)
  BY <1>1, <1>2, <1>5 DEF TakenOff, SameCore, TimerActive, WaitWithout
<1>7. Resumes(a, b)
  BY <1>3, <1>5, ResumesThen
<1> QED BY <1>1, <1>5, <1>6, <1>7 DEF SameCore, b, c

\* The loop of rt_ipc_list_resume_all has a kernel for each of its turns.
LEMMA TurnsDefined ==
  ASSUME NEW a, NEW s, Len(s) \in Nat
  PROVE  LET f == ResumeTurns(a, s) IN
         f[0] = a /\ \A i \in 1 .. Len(s) : f[i] = ResumeWithError(f[i - 1], s[i])
<1> DEFINE Turns(f, n) == f = [i \in 0 .. n |-> IF i = 0 THEN a ELSE ResumeWithError(f[i - 1], s[i])]
           Bad == {n \in Nat : ~\E f : Turns(f, n)}
<1>1. Bad = {}
  <2> SUFFICES ASSUME Bad # {} PROVE FALSE
    OBVIOUS
  <2> DEFINE m == Min(Bad)
  <2>1. m \in Bad /\ \A n \in Bad : m <= n
    <3> HIDE DEF Bad
    <3>1. Bad \subseteq Nat
      BY DEF Bad
    <3> QED BY <3>1, NatLeast
  <2> HIDE DEF m
  <2>2. m # 0
    <3>1. Turns([i \in 0 .. 0 |-> a], 0)
      OBVIOUS
    <3> QED BY <2>1, <3>1
  <2>3. m \in Nat /\ m - 1 \in Nat /\ m - 1 \notin Bad
    BY <2>1, <2>2
  <2>4. PICK f : Turns(f, m - 1)
    BY <2>3
  <2> DEFINE g == [i \in 0 .. m |-> IF i = m THEN ResumeWithError(f[m - 1], s[m]) ELSE f[i]]
  <2>5. \A i \in 0 .. m - 1 : f[i] = IF i = 0 THEN a ELSE ResumeWithError(f[i - 1], s[i])
    BY <2>4
  <2>6. \A i \in 0 .. m - 1 : g[i] = f[i]
    BY <2>3
  <2>7. ASSUME NEW i \in 0 .. m
        PROVE  g[i] = IF i = 0 THEN a ELSE ResumeWithError(g[i - 1], s[i])
    <3>1. CASE i = m
      <4>1. m - 1 \in 0 .. m - 1
        BY <2>3
      <4>2. g[m] = ResumeWithError(f[m - 1], s[m])
        BY <2>3
      <4>3. g[m - 1] = f[m - 1]
        BY <2>6, <4>1
      <4> HIDE DEF g
      <4> QED BY <2>2, <3>1, <4>2, <4>3
    <3>2. CASE i # m
      <4>1. i \in 0 .. m - 1 /\ (i # 0 => i - 1 \in 0 .. m - 1)
        BY <2>3, <3>2
      <4>2. g[i] = f[i] /\ (i # 0 => g[i - 1] = f[i - 1])
        BY <2>6, <4>1
      <4> HIDE DEF g
      <4> QED BY <2>5, <4>1, <4>2
    <3> QED BY <3>1, <3>2
  <2>8. Turns(g, m)
    <3>1. g = [i \in 0 .. m |-> g[i]]
      OBVIOUS
    <3> HIDE DEF g
    <3> QED BY <2>7, <3>1
  <2> QED BY <2>1, <2>8
<1>2. \E f : Turns(f, Len(s))
  BY <1>1
<1>3. Turns(ResumeTurns(a, s), Len(s))
  <2>1. ResumeTurns(a, s) = CHOOSE f : Turns(f, Len(s))
    BY DEF ResumeTurns
  <2> HIDE DEF Turns
  <2> QED BY <1>2, <2>1
<1> DEFINE h == ResumeTurns(a, s)
<1>4. h = [i \in 0 .. Len(s) |-> IF i = 0 THEN a ELSE ResumeWithError(h[i - 1], s[i])]
  BY <1>3
<1> HIDE DEF h
<1> QED BY <1>4 DEF h

\* List w is empty, and everybody who was on it has the error number e.
AllResumed(a, b, w, e) ==
  /\ b.wait = [a.wait EXCEPT ![w] = << >>] /\ b.prio = a.prio
  /\ b.error = [t \in Thread |-> IF Contains(a.wait[w], t) THEN e ELSE a.error[t]]

\* rt_ipc_list_resume_all with interrupts disabled: after i turns the first i
\* threads of the list are ready, the others wait as before.
LEMMA ResumeAllOK ==
  ASSUME NEW a, KernelOK(a), WaitsOK(a), \A t \in Thread : Contains(a.defunct, t) => a.stat[t] # "SUSPEND",
         NEW w \in WaitList
  PROVE  LET b == rt_ipc_list_resume_all(a, w) IN
         /\ Resumes(a, b) /\ AllResumed(a, b, w, "ERROR")
         /\ b.defunct = a.defunct
         /\ \A t \in Thread : ~Contains(a.wait[w], t) => b.stat[t] = a.stat[t]
<1> DEFINE s == a.wait[w]
           f == ResumeTurns(a, s)
           Err(i) == [t \in Thread |-> IF \E j \in 1 .. i : s[j] = t THEN "ERROR" ELSE a.error[t]]
           Turn(i) == /\ Resumes(a, f[i]) /\ f[i].defunct = a.defunct /\ f[i].prio = a.prio
                      /\ f[i].error = Err(i)
                      /\ \A t \in Thread : (\A j \in 1 .. i : s[j] # t) => f[i].stat[t] = a.stat[t]
                      /\ \A v \in WaitList \ {w} : f[i].wait[v] = a.wait[v]
                      /\ \A t \in Thread : Contains(f[i].wait[w], t) <=> \E j \in i + 1 .. Len(s) : s[j] = t
<1>1. /\ a \in Kernel /\ s \in Seq(Thread) /\ Len(s) \in Nat /\ IsInjective(s)
      /\ a.error \in [Thread -> Error] /\ a.wait \in [WaitList -> Seq(Thread)]
      /\ \A t \in Thread : Contains(s, t) => a.stat[t] = "SUSPEND"
  <2>1. a \in Kernel /\ IsInjective(s) /\ \A t \in Thread : Contains(s, t) => a.stat[t] = "SUSPEND"
    BY DEF KernelOK, WaitsOK
  <2>2. a.error \in [Thread -> Error] /\ a.wait \in [WaitList -> Seq(Thread)]
    BY <2>1 DEF Kernel
  <2>3. s \in Seq(Thread) /\ Len(s) \in Nat
    BY <2>2
  <2> QED BY <2>1, <2>2, <2>3
<1>2. f[0] = a /\ \A i \in 1 .. Len(s) : f[i] = ResumeWithError(f[i - 1], s[i])
  BY <1>1, TurnsDefined
<1> HIDE DEF f, s
<1>3. Turn(0)
  <2>1. Resumes(a, a)
    BY SameWaitsResumes
  <2>2. a.error = Err(0)
    BY <1>1
  <2>3. \A t : Contains(s, t) <=> \E j \in 0 + 1 .. Len(s) : s[j] = t
    BY DEF Contains
  <2> QED BY <1>2, <2>1, <2>2, <2>3 DEF s
<1>4. ASSUME NEW i \in 1 .. Len(s), Turn(i - 1) PROVE Turn(i)
  <2> DEFINE c == f[i - 1]
             t == s[i]
             b == f[i]
  <2>0. b = rt_thread_resume([c EXCEPT !.error[t] = "ERROR"], t)
    BY <1>2 DEF ResumeWithError
  <2>1. t \in Thread /\ Contains(s, t) /\ \A j, l \in 1 .. Len(s) : s[j] = s[l] => j = l
    BY <1>1 DEF Contains, IsInjective
  <2>2. \A j \in 1 .. i - 1 : s[j] # t
    BY <1>1, <2>1
  <2>3. c.stat[t] = "SUSPEND" /\ c.defunct = a.defunct /\ ~Contains(c.defunct, t)
    BY <1>1, <1>4, <2>1, <2>2
  <2>4. KernelOK(c) /\ WaitsOK(c) /\ c \in Kernel
    BY <1>4 DEF Resumes, Shrunk, KernelOK
  <2>5. /\ Resumes(c, b) /\ TakenOff(c, b, t, "ERROR")
        /\ b.defunct = c.defunct /\ \A x \in Thread \ {t} : b.stat[x] = c.stat[x]
    <3> HIDE DEF b, c, t
    <3> QED BY <2>0, <2>1, <2>3, <2>4, ErrorResumes DEF Error
  <2>6. /\ \A v \in WaitList, x \in Thread : Contains(b.wait[v], x) <=> Contains(c.wait[v], x) /\ x # t
    <3> HIDE DEF b, c, t
    <3> QED BY <2>1, <2>4, <2>5, TakenOffWaits
  <2> HIDE DEF b, c
  <2>7. Resumes(a, b) /\ b.defunct = a.defunct /\ b.prio = a.prio
    BY <1>4, <2>3, <2>5, ResumesThen DEF TakenOff, c
  <2>8. b.error = Err(i)
    <3>1. b.error = [c.error EXCEPT ![t] = "ERROR"] /\ c.error = Err(i - 1)
      BY <1>4, <2>5 DEF TakenOff, c
    <3>2. \A x \in Thread : (\E j \in 1 .. i : s[j] = x) <=> (\E j \in 1 .. i - 1 : s[j] = x) \/ x = t
      BY <1>1
    <3> QED BY <3>1, <3>2
  <2>9. \A x \in Thread : (\A j \in 1 .. i : s[j] # x) => b.stat[x] = a.stat[x]
    <3> SUFFICES ASSUME NEW x \in Thread, \A j \in 1 .. i : s[j] # x PROVE b.stat[x] = a.stat[x]
      OBVIOUS
    <3>1. x # t /\ \A j \in 1 .. i - 1 : s[j] # x
      BY <1>1
    <3> QED BY <1>4, <2>5, <3>1 DEF c
  <2>10. \A v \in WaitList \ {w} : b.wait[v] = a.wait[v]
    <3> SUFFICES ASSUME NEW v \in WaitList \ {w} PROVE b.wait[v] = a.wait[v]
      OBVIOUS
    <3>1. c.wait[v] = a.wait[v] /\ ~Contains(a.wait[v], t)
      BY <1>4, <2>1 DEF WaitsOK, c, s
    <3>2. b.wait[v] = Unlinked(c.wait[v], t)
      BY <2>5 DEF TakenOff, WaitWithout
    <3> QED BY <3>1, <3>2, UnlinkedAbsent
  <2>11. ASSUME NEW x \in Thread
         PROVE  Contains(b.wait[w], x) <=> \E j \in i + 1 .. Len(s) : s[j] = x
    <3>1. Contains(b.wait[w], x) <=> Contains(c.wait[w], x) /\ x # t
      BY <2>6
    <3>2. Contains(c.wait[w], x) <=> \E j \in i .. Len(s) : s[j] = x
      BY <1>1, <1>4 DEF c
    <3>3. (\E j \in i .. Len(s) : s[j] = x) /\ x # t <=> \E j \in i + 1 .. Len(s) : s[j] = x
      <4>1. ASSUME NEW j \in i + 1 .. Len(s), s[j] = x PROVE j \in i .. Len(s) /\ x # t
        BY <1>1, <2>1, <4>1
      <4>2. ASSUME NEW j \in i .. Len(s), s[j] = x, x # t PROVE j \in i + 1 .. Len(s)
        BY <1>1, <4>2
      <4> QED BY <4>1, <4>2
    <3> QED BY <3>1, <3>2, <3>3
  <2> QED BY <2>7, <2>8, <2>9, <2>10, <2>11 DEF b
<1>5. \A i \in 0 .. Len(s) : Turn(i)
  <2> HIDE DEF Turn
  <2> DEFINE Bad == {i \in 0 .. Len(s) : ~Turn(i)}
  <2> SUFFICES ASSUME Bad # {} PROVE FALSE
    OBVIOUS
  <2> DEFINE m == Min(Bad)
  <2>1. m \in Bad /\ \A n \in Bad : m <= n
    <3> HIDE DEF Bad
    <3>1. Bad \subseteq Nat
      BY <1>1 DEF Bad
    <3> QED BY <3>1, NatLeast
  <2> HIDE DEF m
  <2>2. m # 0
    BY <1>3, <2>1
  <2>3. m \in 1 .. Len(s) /\ m - 1 \in 0 .. Len(s) /\ m - 1 \notin Bad
    BY <1>1, <2>1, <2>2
  <2> QED BY <1>4, <2>1, <2>3
<1> DEFINE n == Len(s)
           b == f[n]
<1>6. Turn(n)
  BY <1>1, <1>5
<1>7. b = rt_ipc_list_resume_all(a, w)
  BY DEF rt_ipc_list_resume_all, f, s
<1>8. b.wait = [a.wait EXCEPT ![w] = << >>]
  <2>1. b \in Kernel
    BY <1>6 DEF Resumes, KernelOK
  <2>2. b.wait \in [WaitList -> Seq(Thread)]
    BY <2>1 DEF Kernel
  <2>3. \A t \in Thread : ~Contains(b.wait[w], t)
    BY <1>1, <1>6
  <2>4. b.wait[w] = << >>
    <3> DEFINE q == b.wait[w]
    <3>1. q \in Seq(Thread) /\ \A t \in Thread : ~Contains(q, t)
      BY <2>2, <2>3
    <3> HIDE DEF q
    <3>2. q = << >>
      BY <3>1 DEF Contains
    <3> QED BY <3>2 DEF q
  <2>5. \A v \in WaitList \ {w} : b.wait[v] = a.wait[v]
    BY <1>6
  <2> HIDE DEF b
  <2> QED BY <1>1, <2>2, <2>4, <2>5
<1>9. \A t \in Thread : Contains(s, t) <=> \E j \in 1 .. n : s[j] = t
  BY DEF Contains
<1>10. b.error = [t \in Thread |-> IF Contains(s, t) THEN "ERROR" ELSE a.error[t]]
  BY <1>6, <1>9
<1> QED BY <1>6, <1>7, <1>8, <1>9, <1>10 DEF AllResumed, s

-----------------------------------------------------------------------------
(* The steps of the scheduler under the services.                           *)

\* The steps of Scheduler that are left when nobody uses handles and the lock.
OrdinaryStep ==
  \/ SysTick \/ TimerCheck \/ Reschedule
  \/ /\ op[k.cur] = "none"
     /\ \/ Yield \/ SleepSchedule \/ SleepReturn \/ Exit \/ ExitSchedule
        \/ (\E t \in Thread, p \in Prio : Control(t, p)) \/ (\E n \in Ticks : Sleep(n))
        \/ IdleReap \/ IdleFree

\* They and the steps inside rt_thread_resume are the steps that threads make.
LEMMA OrdinaryCases ==
  ASSUME Ordinary, IInv, SystemStep
  PROVE  /\ op' = op
         /\ \/ OrdinaryStep
            \/ op[k.cur] = "none" /\ (ResumeTest \/ ResumeRemove \/ ResumeInsert)
<1>1. op' = op
  BY DEF SystemStep, TickComes, OtherStep
<1>2. Next /\ (SysTick \/ TimerCheck \/ Reschedule \/ op[k.cur] = "none")
  BY DEF SystemStep, TickComes, OtherStep, Next, ThreadStep
<1>3. NoHandles
  BY DEF Ordinary, NoHandles
<1>4. /\ "critical" \notin Calls /\ "create" \notin Calls /\ "startup" \notin Calls
  BY DEF Ordinary
<1>5. ~EnterCritical /\ ~ExitCritical /\ \A t \in Thread : ~Create(t) /\ ~Startup(t)
  BY <1>4 DEF EnterCritical, ExitCritical, Create, Startup, Call
<1> QED BY <1>1, <1>2, <1>3, <1>5, Steps DEF OrdinaryStep

\* With nobody inside rt_thread_resume only the first ones are left.
LEMMA SystemCases ==
  ASSUME Ordinary, IpcInv, SystemStep
  PROVE  op' = op /\ OrdinaryStep
<1>1. pc[k.cur] \notin {"resume", "unlink", "insert"}
  BY Types DEF IpcInv, CallPlaces
<1>2. ~ResumeTest /\ ~ResumeRemove /\ ~ResumeInsert
  BY <1>1 DEF ResumeTest, ResumeRemove, ResumeInsert, At
<1> QED BY <1>2, OrdinaryCases DEF IpcInv

\* They preserve the invariant of the scheduler and leave the lock open.
LEMMA SystemInv ==
  ASSUME IInv, k.nest = 0, OrdinaryStep
  PROVE  IInv' /\ k'.nest = 0
<1>1. IInv /\ k.nest = 0
  OBVIOUS
<1>2. CASE SysTick \/ TimerCheck
  BY <1>1, <1>2, TickStep DEF Undisturbed
<1>3. CASE Reschedule \/ Yield \/ SleepSchedule
  BY <1>1, <1>3, ScheduleStep DEF Undisturbed
<1>4. CASE SleepReturn \/ \E t \in Thread, p \in Prio : Control(t, p)
  <2>1. IInv'
    BY <1>1, <1>4, LocalStep
  <2>2. CASE SleepReturn
    BY <1>1, <2>1, <2>2, Types DEF SleepReturn, Kernel
  <2>3. CASE \E t \in Thread, p \in Prio : Control(t, p)
    BY <1>1, <2>1, <2>3, ChangePriorityOK DEF Control, IInv
  <2> QED BY <1>4, <2>2, <2>3
<1>5. CASE Exit \/ ExitSchedule
  BY <1>1, <1>5, ExitStep, ExitScheduleStep DEF Undisturbed
<1>6. CASE \E n \in Ticks : Sleep(n)
  BY <1>1, <1>6, SleepStep
<1>7. CASE IdleReap \/ IdleFree
  BY <1>1, <1>7, ReapStep, FreeStep
<1> QED BY <1>2, <1>3, <1>4, <1>5, <1>6, <1>7 DEF OrdinaryStep

\* A thread moves only itself, and not while it is inside a service.
LEMMA SystemPlaces ==
  ASSUME IpcInv, op' = op, OrdinaryStep
  PROVE  CallPlaces'
<1>1. pc \in [Thread -> Pc] /\ k.cur \in Thread /\ op' = op
  BY Types DEF IpcInv
<1>2. ASSUME NEW q, pc' = [pc EXCEPT ![k.cur] = q],
             q \notin {"resume", "unlink", "insert"}, op[k.cur] = "none" \/ q = "run"
      PROVE  CallPlaces'
  BY <1>1, <1>2 DEF CallPlaces, IpcInv
<1>3. CASE pc' = pc
  BY <1>1, <1>3 DEF CallPlaces, IpcInv
<1>4. CASE Reschedule
  <2>1. pc' = [pc EXCEPT ![k.cur] = "run"]
    BY <1>4 DEF Reschedule, Goto
  <2> QED BY <1>1, <2>1 DEF CallPlaces, IpcInv
<1>5. CASE op[k.cur] = "none" /\ (SleepSchedule \/ SleepReturn \/ Exit \/ ExitSchedule)
  BY <1>2, <1>5 DEF SleepSchedule, SleepReturn, Exit, ExitSchedule, Goto
<1>6. CASE op[k.cur] = "none" /\ (\E n \in Ticks : Sleep(n))
  BY <1>2, <1>6 DEF Sleep, Goto
<1>7. CASE op[k.cur] = "none" /\ (IdleReap \/ IdleFree)
  BY <1>2, <1>7 DEF IdleReap, IdleFree, Goto
<1>8. CASE SysTick \/ TimerCheck \/ Yield \/ \E t \in Thread, p \in Prio : Control(t, p)
  BY <1>3, <1>8 DEF SysTick, TimerCheck, Yield, Control
<1> QED BY <1>4, <1>5, <1>6, <1>7, <1>8 DEF OrdinaryStep

\* No list changes, and whoever is newly suspended sleeps and has a timer.
Kept(a, b) ==
  /\ b.wait = a.wait
  /\ \A t \in Thread :
       /\ a.stat[t] = "SUSPEND" => b.stat[t] = "SUSPEND"
       /\ b.stat[t] = "SUSPEND" => a.stat[t] = "SUSPEND" \/ op[t] = "none"
       /\ TimerActive(b, t) => TimerActive(a, t) \/ op[t] = "none"
       /\ b.stat[t] = "SUSPEND" /\ (a.stat[t] = "SUSPEND" => TimerActive(a, t)) => TimerActive(b, t)

\* What such a step means for the lists.
LEMMA KeptWaits ==
  ASSUME WaitsOK(k), op' = op, Kept(k, k')
  PROVE  WaitsOK(k') /\ (Waits => Waits')
<1>1. WaitsOK(k')
  BY DEF Kept, WaitsOK
<1> SUFFICES ASSUME Waits, NEW t \in Thread
             PROVE  /\ Listed(k', t) => op[t] # "none"
                    /\ k'.stat[t] = "SUSPEND" => IF op[t] = "none" THEN TimerActive(k', t)
                                                ELSE Listed(k', t)
  BY <1>1 DEF Waits
<1> QED BY DEF Waits, Kept, Listed

\* A step that suspends and resumes nobody keeps the lists.
LEMMA SameWaitsKept ==
  ASSUME NEW a, NEW b, SameWaits(a, b)
  PROVE  Kept(a, b)
BY DEF SameWaits, Kept

\* What the services see of a step of the system: nothing, or that one thread is
\* taken off its list because its time is over.
SystemEffect ==
  /\ op' = op
  /\ \A t \in Thread : op[t] # "none" /\ TimerActive(k', t) => TimerActive(k, t)
  /\ "control" \notin Calls => k'.prio = k.prio
  /\ \/ k'.wait = k.wait /\ \A t \in Thread : op[t] # "none" => k'.error[t] = k.error[t]
     \/ \E t \in Thread : k.stat[t] = "SUSPEND" /\ TakenOff(k, k', t, "ETIMEOUT")

\* The tick, its timers, and every rt_schedule.
LEMMA TickEffect ==
  ASSUME ListInv, op' = op, SysTick \/ TimerCheck \/ Reschedule \/ Yield \/ SleepSchedule \/ ExitSchedule
  PROVE  WaitsOK(k') /\ (Waits => Waits') /\ SystemEffect
<1>1. KernelOK(k) /\ WaitsOK(k) /\ k \in Kernel
  BY Types DEF ListInv, IInv
<1>2. CASE TimerCheck
  <2>1. TimerDue(k) /\ k' = TimerCheckOne(k)
    BY <1>2 DEF TimerCheck, ListInv, IInv, Ticking
  <2>2. FirstDue(k) \in Thread /\ TimerActive(k, FirstDue(k)) /\ TakenOff(k, k', FirstDue(k), "ETIMEOUT")
    BY <1>1, <2>1, FirstDueFacts, TimerCheckWaits DEF KernelOK
  <2>3. k.stat[FirstDue(k)] = "SUSPEND"
    BY <1>1, <2>2 DEF KernelOK, TimersOK
  <2>4. PICK t \in Thread : k.stat[t] = "SUSPEND" /\ TakenOff(k, k', t, "ETIMEOUT")
    BY <2>2, <2>3
  <2>5. /\ WaitsOK(k')
        /\ \A w \in WaitList, x \in Thread : Contains(k'.wait[w], x) <=> Contains(k.wait[w], x) /\ x # t
    BY <1>1, <2>4, TakenOffWaits
  <2>6. ASSUME Waits PROVE Waits'
    <3> SUFFICES ASSUME NEW x \in Thread
                 PROVE  /\ Listed(k', x) => op[x] # "none"
                        /\ k'.stat[x] = "SUSPEND" => IF op[x] = "none" THEN TimerActive(k', x)
                                                    ELSE Listed(k', x)
      BY <2>5 DEF Waits
    <3> QED BY <1>1, <2>4, <2>5, <2>6 DEF Waits, Listed, TakenOff
  <2>7. k'.prio = k.prio /\ \A x \in Thread : TimerActive(k', x) => TimerActive(k, x)
    BY <2>4 DEF TakenOff
  <2> QED BY <2>4, <2>5, <2>6, <2>7 DEF SystemEffect
<1>3. CASE SysTick \/ Reschedule \/ Yield \/ SleepSchedule \/ ExitSchedule
  <2>1. k' = TickIncrease(k) \/ k' = rt_schedule(k)
    BY <1>3 DEF SysTick, Reschedule, Yield, SleepSchedule, ExitSchedule
  <2>2. SameWaits(k, k')
    BY <1>1, <2>1, TickWaits, ScheduleWaits
  <2>3. WaitsOK(k') /\ (Waits => Waits')
    BY <1>1, <2>2, SameWaitsKept, KeptWaits
  <2> QED BY <2>2, <2>3 DEF SystemEffect, SameWaits
<1> QED BY <1>2, <1>3

\* rt_thread_sleep and the end of a thread.
LEMMA SleepEffect ==
  ASSUME ListInv, op' = op, op[k.cur] = "none", Exit \/ \E n \in Ticks : Sleep(n)
  PROVE  WaitsOK(k') /\ (Waits => Waits') /\ SystemEffect
<1> DEFINE c == k.cur
<1>1. /\ KernelOK(k) /\ WaitsOK(k) /\ k \in Kernel /\ c \in Thread /\ c # Idle
      /\ k.stat[c] = "RUNNING" /\ k.stat \in [Thread -> Stat] /\ ~TimerActive(k, c)
  <2>1. At("run") /\ c # Idle
    BY DEF Exit, Sleep, Call
  <2> QED BY <2>1, RunningThread DEF ListInv, KernelOK, TimersOK, Kernel
<1>2. CASE \E n \in Ticks : Sleep(n)
  <2>1. PICK n \in Ticks : Sleep(n)
    BY <1>2
  <2> DEFINE v == rt_thread_suspend(k, c)
  <2>2. /\ KernelOK(v) /\ v.stat = [k.stat EXCEPT ![c] = "SUSPEND"]
        /\ v.wait = k.wait /\ v.error = k.error /\ v.prio = k.prio
        /\ \A x \in Thread : TimerActive(v, x) <=> TimerActive(k, x)
    BY <1>1, SuspendSelfOK
  <2>3. n \in Int /\ k' = rt_timer_start(v, c, n)
    BY <2>1, TicksAssumption DEF Sleep
  <2> HIDE DEF v
  <2>4. v.stat[c] = "SUSPEND"
    BY <1>1, <2>2
  <2>5. /\ k'.stat = v.stat /\ k'.prio = v.prio /\ k'.error = v.error /\ k'.wait = v.wait
        /\ \A x \in Thread : TimerActive(k', x) <=> TimerActive(v, x) \/ x = c
    BY <1>1, <2>2, <2>3, <2>4, TimerStartOK
  <2>6. Kept(k, k')
    BY <1>1, <2>2, <2>5 DEF Kept
  <2> QED BY <1>1, <2>2, <2>5, <2>6, KeptWaits DEF SystemEffect, Kept
<1>3. CASE Exit
  <2> DEFINE r == rt_schedule_remove_thread(k, c)
             v == SetStat(r, c, "CLOSE")
             u == rt_timer_stop(v, c)
  <2>1. k' = IF c \in Static THEN u ELSE [u EXCEPT !.defunct = <<c>> \o @]
    BY <1>3 DEF Exit
  <2>2. r \in Kernel /\ r.wait = k.wait
    BY <1>1, RemoveFacts, WaitField, NotListed DEF KernelOK, TableOK
  <2>3. /\ KernelOK(v) /\ v \in Kernel /\ SameButQueues(k, v)
        /\ v.stat = [k.stat EXCEPT ![c] = "CLOSE"]
    BY <1>1, LeaveOK DEF KernelOK
  <2>4. v.wait = k.wait
    BY <1>1, <2>2, WaitField
  <2> HIDE DEF v, r
  <2>5. /\ u \in Kernel /\ u.stat = v.stat /\ u.prio = v.prio /\ u.error = v.error /\ u.wait = v.wait
        /\ \A x \in Thread : TimerActive(u, x) <=> (TimerActive(v, x) /\ x # c)
    <3>1. u.wait = v.wait
      BY <1>1, <2>3, WaitField
    <3>2. /\ KernelOK(u) /\ u.stat = v.stat /\ u.prio = v.prio /\ u.error = v.error
          /\ \A x \in Thread : TimerActive(u, x) <=> (TimerActive(v, x) /\ x # c)
      BY <1>1, <2>3, TimerStopOK
    <3> QED BY <3>1, <3>2 DEF KernelOK
  <2> HIDE DEF u
  <2>6. /\ k'.stat = u.stat /\ k'.prio = u.prio /\ k'.error = u.error /\ k'.wait = u.wait
        /\ k'.timers = u.timers
    BY <2>1, <2>5 DEF Kernel
  <2>7. /\ k'.wait = k.wait /\ k'.error = k.error /\ k'.prio = k.prio
        /\ \A x \in Thread : k'.stat[x] = IF x = c THEN "CLOSE" ELSE k.stat[x]
        /\ \A x \in Thread : TimerActive(k', x) <=> TimerActive(k, x)
    BY <1>1, <2>3, <2>4, <2>5, <2>6 DEF SameButQueues, TimerActive
  <2>8. Kept(k, k')
    BY <1>1, <2>7 DEF Kept
  <2> QED BY <1>1, <2>7, <2>8, KeptWaits DEF SystemEffect
<1> QED BY <1>2, <1>3

\* The return from a sleep, a new priority, and the idle thread.
LEMMA LocalEffect ==
  ASSUME ListInv, op' = op, op[k.cur] = "none",
         \/ SleepReturn \/ IdleReap \/ IdleFree
         \/ \E t \in Thread, p \in Prio : Control(t, p)
  PROVE  WaitsOK(k') /\ (Waits => Waits') /\ SystemEffect
<1>1. /\ KernelOK(k) /\ WaitsOK(k) /\ k \in Kernel /\ k.cur \in Thread
      /\ k.stat \in [Thread -> Stat] /\ tgt \in [Thread -> Thread]
  BY Types DEF ListInv, IInv, Kernel
<1>2. CASE SleepReturn
  <2> DEFINE r == [k.error EXCEPT ![k.cur] = IF @ = "ETIMEOUT" THEN "EOK" ELSE @]
  <2>1. k' = [k EXCEPT !.error = r] /\ \A t \in Thread \ {k.cur} : r[t] = k.error[t]
    BY <1>1, <1>2 DEF SleepReturn, Kernel
  <2> HIDE DEF r
  <2>2. /\ k'.stat = k.stat /\ k'.wait = k.wait /\ k'.timers = k.timers /\ k'.prio = k.prio
        /\ \A t \in Thread \ {k.cur} : k'.error[t] = k.error[t]
    BY <1>1, <2>1 DEF Kernel
  <2>3. Kept(k, k')
    BY <2>2 DEF Kept, TimerActive
  <2> QED BY <1>1, <2>2, <2>3, KeptWaits DEF SystemEffect, TimerActive
<1>3. CASE \E t \in Thread, p \in Prio : Control(t, p)
  <2>1. PICK t \in Thread, p \in Prio : Control(t, p)
    BY <1>3
  <2>2. k' = ChangePriority(k, t, p) /\ "control" \in Calls
    BY <2>1 DEF Control, Call
  <2>3. k'.stat = k.stat /\ k'.timers = k.timers /\ k'.wait = k.wait /\ k'.error = k.error
    <3>0. KernelOK(k) /\ WaitsOK(k)
      BY <1>1
    <3>1. k'.stat = k.stat /\ k'.timers = k.timers
      BY <3>0, <2>2, ChangePriorityOK, ZenonT(60)
    <3>2. k'.wait = k.wait /\ k'.error = k.error
      BY <3>0, <2>2, ChangePriorityWaits, ZenonT(60)
    <3> QED BY <3>1, <3>2
  <2>4. Kept(k, k')
    BY <2>3 DEF Kept, TimerActive
  <2> QED BY <1>1, <2>2, <2>3, <2>4, KeptWaits DEF SystemEffect, TimerActive
<1>4. CASE IdleReap
  <2> DEFINE h == Head(k.defunct)
             v == rt_list_remove(k, h)
  <2>1. k.defunct \in Seq(Thread) /\ k.defunct # << >> /\ k' = rt_schedule(v)
    BY <1>1, <1>4 DEF IdleReap, Kernel
  <2>2. h \in Thread /\ Contains(k.defunct, h)
    BY <2>1, HeadElement
  <2>3. k.stat[h] = "CLOSE"
    BY <2>2 DEF ListInv, IInv, Defunct
  <2> HIDE DEF h
  <2>4. /\ KernelOK(v) /\ SameButQueues(k, v) /\ v.stat = k.stat /\ v.wait = k.wait
    BY <1>1, <2>2, <2>3, ListRemoveOK, WaitField, NotListed
  <2>5. SameWaits(k, v) /\ WaitsOK(v)
    BY <1>1, <2>4 DEF SameWaits, SameButQueues, TimerActive, WaitsOK
  <2> HIDE DEF v
  <2>6. SameWaits(v, k')
    BY <2>1, <2>4, <2>5, ScheduleWaits
  <2>7. SameWaits(k, k')
    BY <2>5, <2>6 DEF SameWaits
  <2>8. WaitsOK(k') /\ (Waits => Waits')
    BY <1>1, <2>7, SameWaitsKept, KeptWaits
  <2> QED BY <2>7, <2>8 DEF SystemEffect, SameWaits
<1>5. CASE IdleFree
  <2>1. pc[k.cur] = "reap" /\ k' = SetStat(k, tgt[k.cur], "NONE") /\ tgt[k.cur] \in Thread
    BY <1>1, <1>5 DEF IdleFree, At
  <2>2. k.stat[tgt[k.cur]] = "CLOSE"
    BY <1>1, <2>1 DEF ListInv, IInv, Reaping
  <2>3. /\ k'.wait = k.wait /\ k'.error = k.error /\ k'.prio = k.prio /\ k'.timers = k.timers
        /\ k'.stat = [k.stat EXCEPT ![tgt[k.cur]] = "NONE"]
    BY <1>1, <2>1 DEF SetStat, Kernel
  <2>4. Kept(k, k')
    BY <1>1, <2>1, <2>2, <2>3 DEF Kept, TimerActive
  <2> QED BY <1>1, <2>3, <2>4, KeptWaits DEF SystemEffect, TimerActive
<1> QED BY <1>2, <1>3, <1>4, <1>5

\* The ordinary steps keep the lists in order.
LEMMA SystemLists ==
  ASSUME ListInv, op' = op, OrdinaryStep
  PROVE  ListInv' /\ (Waits => Waits') /\ SystemEffect
<1>1. IInv' /\ k'.nest = 0
  BY SystemInv DEF ListInv
<1>2. WaitsOK(k') /\ (Waits => Waits') /\ SystemEffect
  BY TickEffect, SleepEffect, LocalEffect DEF OrdinaryStep
<1> QED BY <1>1, <1>2 DEF ListInv

\* Every step of the system preserves the invariant of the suspend lists.
LEMMA SystemStepOK ==
  ASSUME Ordinary, IpcInv, SystemStep
  PROVE  IpcInv' /\ SystemEffect
<1>1. op' = op /\ OrdinaryStep
  BY SystemCases
<1>2. ListInv' /\ (Waits => Waits') /\ SystemEffect
  BY <1>1, IpcList, SystemLists
<1>3. CallPlaces'
  BY <1>1, SystemPlaces
<1> QED BY <1>2, <1>3 DEF IpcInv, ListInv

-----------------------------------------------------------------------------
(* The system when the services start.                                      *)

\* The threads of a set in some order.
LEMMA SetToSeqElements ==
  ASSUME NEW S, IsFiniteSet(S)
  PROVE  /\ SetToSeq(S) \in Seq(S) /\ IsInjective(SetToSeq(S))
         /\ \A x : Contains(SetToSeq(S), x) <=> x \in S
         /\ Len(SetToSeq(S)) = Cardinality(S)
<1> DEFINE n == Cardinality(S)
           s == SetToSeq(S)
<1>1. n \in Nat /\ ExistsBijection(1 .. n, S)
  BY FS_CardinalityType
<1>2. s \in [1 .. n -> S] /\ IsInjective(s)
  <2>1. \E f \in [1 .. n -> S] : IsInjective(f)
    BY <1>1 DEF ExistsBijection, Bijection, Injection
  <2> QED BY <2>1 DEF SetToSeq
<1>3. IsFiniteSet(1 .. n) /\ Cardinality(1 .. n) = n
  <2> HIDE DEF n
  <2>1. 1 \in Int /\ n \in Int /\ (IF 1 > n THEN 0 ELSE n - 1 + 1) = n
    BY <1>1
  <2> QED BY <2>1, FS_Interval
<1> HIDE DEF s
<1>4. s \in Surjection(1 .. n, S)
  <2>1. s \in Injection(1 .. n, S)
    BY <1>2 DEF Injection
  <2> HIDE DEF n
  <2> QED BY <1>3, <2>1, FS_Injection DEF n
<1> HIDE DEF n
<1>5. s \in Seq(S) /\ Len(s) = n
  BY <1>1, <1>2, SeqDef
<1>6. \A x : Contains(s, x) <=> x \in S
  BY <1>2, <1>4, <1>5 DEF Surjection, Contains
<1> QED BY <1>2, <1>5, <1>6 DEF s, n

\* After rtthread_startup and the starts of all threads the kernel is in order.
LEMMA StartedOK ==
  KernelOK(KernelStarted) /\ WaitsOK(KernelStarted) /\ KernelStarted.nest = 0
  /\ KernelStarted.defunct = << >> /\ KernelStarted.timers = << >>
  /\ KernelStarted.wait = [w \in WaitList |-> << >>]
  /\ KernelStarted.stat = [t \in Thread |-> IF t = Main THEN "RUNNING" ELSE "READY"]
  /\ KernelStarted.prio = InitPrio
<1> DEFINE a == KernelStarted
           pi == InitPrio[Idle]
           Same(p) == {t \in Thread \ {Main, Idle} : InitPrio[t] = p}
           base == [p \in Prio |-> IF p = pi THEN <<Idle>> ELSE << >>]
           queue == [p \in Prio |-> base[p] \o SetToSeq(Same(p))]
<1>1. Main \in Thread /\ Idle \in Thread /\ Main # Idle /\ pi \in Prio
      /\ InitPrio \in [Thread -> Prio]
  BY ThreadAssumption, InitPrioAssumption DEF Prio
<1>2. /\ a.cur = Main /\ a.prio = InitPrio /\ a.slice = InitTick /\ a.nest = 0
      /\ a.error = [t \in Thread |-> "EOK"] /\ a.left = [t \in Thread |-> 0]
      /\ a.stat = [t \in Thread |-> IF t = Main THEN "RUNNING" ELSE "READY"]
      /\ a.ready = queue /\ a.group = {InitPrio[t] : t \in Thread \ {Main}}
      /\ a.defunct = << >> /\ a.timers = << >> /\ a.wait = [w \in WaitList |-> << >>]
  BY DEF KernelStarted, KernelAtStart
<1>3. ASSUME NEW p \in Prio
      PROVE  /\ queue[p] \in Seq(Thread) /\ IsInjective(queue[p])
             /\ \A t \in Thread : Contains(queue[p], t) <=> t # Main /\ InitPrio[t] = p
  <2> DEFINE S == Same(p)
             s == SetToSeq(S)
  <2>1. IsFiniteSet(S) /\ S \subseteq Thread
    BY ThreadFinite, FS_Subset
  <2>2. s \in Seq(S) /\ IsInjective(s) /\ \A x : Contains(s, x) <=> x \in S
    <3> HIDE DEF S
    <3> QED BY <2>1, SetToSeqElements
  <2>3. s \in Seq(Thread)
    <3> HIDE DEF s, S
    <3> QED BY <2>1, <2>2
  <2>4. queue[p] = (IF p = pi THEN <<Idle>> ELSE << >>) \o s
    OBVIOUS
  <2> HIDE DEF s, queue, base, pi
  <2>5. CASE p = pi
    <3>1. ~Contains(s, Idle)
      BY <2>2
    <3>2. /\ <<Idle>> \o s \in Seq(Thread) /\ IsInjective(<<Idle>> \o s)
          /\ \A x : Contains(<<Idle>> \o s, x) <=> Contains(s, x) \/ x = Idle
      BY <1>1, <2>2, <2>3, <3>1, PrependElements
    <3>3. queue[p] = <<Idle>> \o s
      BY <2>4, <2>5
    <3> QED BY <1>1, <2>2, <2>5, <3>2, <3>3 DEF pi
  <2>6. CASE p # pi
    <3>1. queue[p] = s
      BY <2>3, <2>4, <2>6, ConcatEmptySeq
    <3> QED BY <1>1, <2>2, <2>3, <2>6, <3>1 DEF pi
  <2> QED BY <2>5, <2>6
<1> HIDE DEF queue, base
<1>4. a \in Kernel
  <2> DEFINE st == [t \in Thread |-> IF t = Main THEN "RUNNING" ELSE "READY"]
             g == {InitPrio[t] : t \in Thread \ {Main}}
  <2>1. st \in [Thread -> Stat] /\ queue \in [Prio -> Seq(Thread)] /\ g \in SUBSET Prio
    BY <1>1, <1>3 DEF Stat, queue
  <2>2. a = [KernelAtStart EXCEPT !.stat = st, !.ready = queue, !.group = g]
    <3>1. KernelAtStart.ready = base
      BY DEF KernelAtStart, base
    <3> QED BY <3>1 DEF KernelStarted, queue
  <2> HIDE DEF st, g, a
  <2> QED BY <2>1, <2>2, AtStartType DEF Kernel
<1> HIDE DEF a
<1>5. \A x : ~Contains(<< >>, x)
  BY DEF Contains
<1>6. IsInjective(<< >>)
  BY DEF IsInjective
<1>7. ListsOK(a)
  <2>1. ASSUME NEW p \in Prio PROVE p \in a.group <=> a.ready[p] # << >>
    <3>1. a.ready[p] = << >> <=> \A x : ~Contains(a.ready[p], x)
      BY <1>2, <1>3, EmptyHasNone
    <3>2. \A x : Contains(a.ready[p], x) => x \in Thread
      BY <1>2, <1>3 DEF Contains
    <3>3. p \in a.group <=> \E t \in Thread : t # Main /\ InitPrio[t] = p
      BY <1>2
    <3> QED BY <1>2, <1>3, <3>1, <3>2, <3>3
  <2>2. a.group \subseteq Prio
    BY <1>4 DEF Kernel
  <2> QED BY <1>2, <1>3, <2>1, <2>2 DEF ListsOK
<1>8. TableOK(a)
  BY <1>1, <1>2, <1>3, <1>7 DEF TableOK
<1>9. CurrentOK(a) /\ TimersOK(a) /\ WaitsOK(a)
  BY <1>1, <1>2, <1>5, <1>6 DEF CurrentOK, TimersOK, TimerActive, WaitsOK
<1>10. a.stat[Idle] = "READY"
  BY <1>1, <1>2
<1>11. KernelOK(a)
  BY <1>4, <1>8, <1>9, <1>10 DEF KernelOK
<1> QED BY <1>2, <1>9, <1>11 DEF a

\* The initial states of the services satisfy the invariant.
LEMMA IpcInitOK ==
  ASSUME IpcInit
  PROVE  /\ IpcInv /\ k.wait = [w \in WaitList |-> << >>] /\ k.prio = InitPrio
         /\ op = [t \in Thread |-> "none"]
<1> DEFINE a == KernelStarted
<1>1. /\ k = rt_schedule(a) /\ isr = "none" /\ op = [t \in Thread |-> "none"]
      /\ pc = [t \in Thread |-> "run"] /\ tgt = [t \in Thread |-> t]
  BY DEF IpcInit, KernelRunning
<1>2. /\ KernelOK(a) /\ WaitsOK(a) /\ a.nest = 0 /\ a.defunct = << >> /\ a.timers = << >>
      /\ a.wait = [w \in WaitList |-> << >>] /\ a.prio = InitPrio
      /\ a.stat = [t \in Thread |-> IF t = Main THEN "RUNNING" ELSE "READY"]
  BY StartedOK
<1> HIDE DEF a
<1>3. KernelOK(k) /\ Undisturbed(a, k) /\ Preempts(k) /\ SameWaits(a, k) /\ WaitsOK(k)
  BY <1>1, <1>2, ScheduleOK, ScheduleWaits
<1>4. k \in Kernel /\ k.cur \in Thread /\ k.nest = 0 /\ k.stat[k.cur] = "RUNNING"
  BY <1>2, <1>3 DEF KernelOK, Kernel, Undisturbed, Preempts
<1>5. \A x : ~Contains(<< >>, x)
  BY DEF Contains
<1>6. (\A x : ~Contains(k.defunct, x)) /\ IsInjective(k.defunct)
  BY <1>2, <1>3, <1>5 DEF Undisturbed, Harmless, IsInjective
<1>7. \A t \in Thread : /\ k.stat[t] \notin {"NONE", "INIT", "CLOSE", "SUSPEND"}
                        /\ ~Listed(k, t)
  BY <1>2, <1>3, <1>5 DEF Undisturbed, Harmless, SameWaits, Listed
<1>8. pc \in [Thread -> Pc] /\ tgt \in [Thread -> Thread] /\ \A t \in Thread : pc[t] = "run"
  BY <1>1 DEF Pc
<1>9. TypeOK
  BY <1>1, <1>4, <1>8 DEF TypeOK
<1>10. Places /\ Started /\ Reaping /\ SleepEnds
  BY <1>7, <1>8 DEF Places, Started, Starting, Reaping, SleepEnds
<1>11. Defunct /\ Running /\ Ticking
  BY <1>1, <1>4, <1>6, <1>8 DEF Defunct, Running, Ticking
<1>12. CallPlaces /\ Waits
  BY <1>1, <1>3, <1>7, <1>8 DEF CallPlaces, Waits, Starting
<1>13. IpcInv
  BY <1>3, <1>4, <1>9, <1>10, <1>11, <1>12 DEF IpcInv, IInv
<1> QED BY <1>1, <1>2, <1>3, <1>13 DEF SameWaits

\* The invariant implies the property that the runs check.
LEMMA WaitListsOK ==
  ASSUME IpcInv
  PROVE  WaitLists
<1>1. k \in Kernel /\ WaitsOK(k)
  BY Types DEF IpcInv, Waits
<1>2. ASSUME NEW w \in WaitList, NEW t \in ToSet(k.wait[w]) PROVE t \in Thread /\ Contains(k.wait[w], t)
  <2>1. k.wait[w] \in Seq(Thread)
    BY <1>1 DEF Kernel
  <2> QED BY <1>2, <2>1 DEF ToSet, Contains
<1> QED BY <1>1, <1>2 DEF IpcInv, Waits, WaitsOK, Listed, WaitLists

-----------------------------------------------------------------------------
(* The services that wait in a loop.                                        *)

\* Sets of threads that grow or lose a thread.
LEMMA Counting ==
  ASSUME NEW A \in SUBSET Thread, NEW B \in SUBSET Thread
  PROVE  /\ Cardinality(A) \in Nat /\ Cardinality(B) \in Nat
         /\ A \subseteq B => Cardinality(A) <= Cardinality(B)
         /\ \A t : A \ {t} \subseteq B => Cardinality(A) <= Cardinality(B) + 1
         /\ \A t : t \notin A /\ A \union {t} \subseteq B => Cardinality(A) + 1 <= Cardinality(B)
<1>1. IsFiniteSet(A) /\ IsFiniteSet(B)
  BY ThreadFinite, FS_Subset
<1>2. Cardinality(A) \in Nat /\ Cardinality(B) \in Nat
  BY <1>1, FS_CardinalityType
<1>3. ASSUME A \subseteq B PROVE Cardinality(A) <= Cardinality(B)
  BY <1>1, <1>3, FS_Subset
<1>4. ASSUME NEW t, A \ {t} \subseteq B PROVE Cardinality(A) <= Cardinality(B) + 1
  <2>1. Cardinality(A \ {t}) <= Cardinality(B)
    BY <1>1, <1>4, FS_Subset
  <2>2. Cardinality(A \ {t}) = IF t \in A THEN Cardinality(A) - 1 ELSE Cardinality(A)
    BY <1>1, FS_RemoveElement
  <2> QED BY <1>2, <2>1, <2>2
<1>5. ASSUME NEW t, t \notin A, A \union {t} \subseteq B PROVE Cardinality(A) + 1 <= Cardinality(B)
  <2>1. Cardinality(A \union {t}) <= Cardinality(B)
    BY <1>1, <1>5, FS_Subset
  <2>2. Cardinality(A \union {t}) = Cardinality(A) + 1
    BY <1>1, <1>5, FS_AddElement
  <2> QED BY <2>1, <2>2
<1> QED BY <1>2, <1>3, <1>4, <1>5

\* The end of a call, which resets the error number of its thread.
LEMMA OverResumes ==
  ASSUME NEW a, KernelOK(a), WaitsOK(a), NEW t \in Thread, NEW e \in Error
  PROVE  LET b == [a EXCEPT !.error[t] = e] IN
         /\ Resumes(a, b) /\ b.wait = a.wait /\ b.prio = a.prio
         /\ b.error = [a.error EXCEPT ![t] = e]
<1> DEFINE b == [a EXCEPT !.error[t] = e]
<1>1. /\ KernelOK(b) /\ SameCore(a, b) /\ b.nest = a.nest /\ b.defunct = a.defunct
      /\ b.wait = a.wait /\ b.error = [a.error EXCEPT ![t] = e]
  BY ErrorOK
<1>2. b.cur = a.cur /\ b.stat = a.stat /\ b.timers = a.timers /\ b.prio = a.prio
  BY <1>1 DEF SameCore
<1> HIDE DEF b
<1>3. Resumes(a, b)
  BY <1>1, <1>2, SameWaitsResumes
<1> QED BY <1>1, <1>2, <1>3 DEF b

\* All lists after t has left: one waiter fewer, or none if t was on none.
LEMMA WithoutFacts ==
  ASSUME NEW a \in Kernel, WaitsOK(a), NEW t \in Thread, NEW w \in WaitList
  PROVE  /\ WaitWithout(a, t)[w] \in Seq(Thread)
         /\ \A x : Contains(WaitWithout(a, t)[w], x) <=> Contains(a.wait[w], x) /\ x # t
         /\ Len(WaitWithout(a, t)[w]) =
              IF Contains(a.wait[w], t) THEN Len(a.wait[w]) - 1 ELSE Len(a.wait[w])
         /\ a.wait[w] = << >> => WaitWithout(a, t)[w] = << >>
<1> DEFINE s == WaitWithout(a, t)[w]
<1>1. a.wait[w] \in Seq(Thread) /\ IsInjective(a.wait[w]) /\ s = Unlinked(a.wait[w], t)
  BY DEF Kernel, WaitsOK, WaitWithout
<1> HIDE DEF s
<1>2. /\ s \in Seq(Thread) /\ \A x : Contains(s, x) <=> Contains(a.wait[w], x) /\ x # t
  BY <1>1, UnlinkedType, UnlinkedElements
<1>3. Len(s) = IF Contains(a.wait[w], t) THEN Len(a.wait[w]) - 1 ELSE Len(a.wait[w])
  <2>1. CASE Contains(a.wait[w], t)
    BY <1>1, <2>1, UnlinkedPresent
  <2>2. CASE ~Contains(a.wait[w], t)
    BY <1>1, <2>2, UnlinkedAbsent
  <2> QED BY <2>1, <2>2
<1>4. a.wait[w] = << >> => s = << >>
  BY <1>1, EmptyHasNone, UnlinkedAbsent
<1> QED BY <1>2, <1>3, <1>4 DEF s

\* Numbers that stay below the size of a set of threads: the set keeps its members, or
\* the number goes down with the member that leaves, or goes up with the one that joins.
Fits(A, B, n, m) ==
  \/ m <= n /\ A \subseteq B
  \/ m <= n - 1 /\ \E t : A \ {t} \subseteq B
  \/ m <= n + 1 /\ \E t : t \notin A /\ A \union {t} \subseteq B

\* The bound that NoneForgotten states is kept.
LEMMA FitsOK ==
  ASSUME NEW A \in SUBSET Thread, NEW B \in SUBSET Thread, NEW n \in Int, NEW m \in Int,
         n <= Cardinality(A), Fits(A, B, n, m)
  PROVE  m <= Cardinality(B)
<1>1. Cardinality(A) \in Nat /\ Cardinality(B) \in Nat
  BY Counting
<1>2. CASE m <= n /\ A \subseteq B
  <2>1. Cardinality(A) <= Cardinality(B)
    BY <1>2, Counting
  <2> QED BY <1>1, <1>2, <2>1
<1>3. CASE m <= n - 1 /\ \E t : A \ {t} \subseteq B
  <2>1. Cardinality(A) <= Cardinality(B) + 1
    BY <1>3, Counting
  <2> QED BY <1>1, <1>3, <2>1
<1>4. CASE m <= n + 1 /\ \E t : t \notin A /\ A \union {t} \subseteq B
  <2>1. Cardinality(A) + 1 <= Cardinality(B)
    BY <1>4, Counting
  <2> QED BY <1>1, <1>4, <2>1
<1> QED BY <1>2, <1>3, <1>4 DEF Fits

=============================================================================
