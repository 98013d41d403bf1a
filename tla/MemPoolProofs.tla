--------------------------- MODULE MemPoolProofs ---------------------------
(***************************************************************************)
(* The properties of MemPool for any number of threads and blocks, any     *)
(* priorities and waiting times.                                           *)
(***************************************************************************)
EXTENDS MemPool, KernelProofs

-----------------------------------------------------------------------------
(* The inductive invariant.                                                 *)

\* Only this pool has waiters, and they are inside rt_mp_alloc.
Waiters ==
  \A w \in WaitList, t \in Thread : Contains(k.wait[w], t) => w = Pool /\ op[t] = "alloc_wait"

\* The places of a call of the pool, and the ones where the thread is after a block.
OpPlaces == {"none", "alloc", "alloc_wait", "delete", "delete_resume"}
Coming == OnTheWay(Pool, {"alloc", "alloc_wait"})

\* The free list and the allocated blocks share out the pool.
Blocks ==
  /\ block_list \in Seq(Block) /\ allocated \in SUBSET Block
  /\ block_free_count = Len(block_list) /\ IsInjective(block_list)
  /\ \A b \in Block : Contains(block_list, b) <=> b \notin allocated

\* The threads and their calls.
Calling ==
  /\ IpcInv /\ Waiters
  /\ op \in [Thread -> OpPlaces] /\ op[Idle] = "none" /\ time \in [Thread -> Int]
  /\ suspend_thread_count \in Nat /\ alive \in BOOLEAN

MpInv == Calling /\ Blocks /\ NoLostWakeup

\* What the invariant says of the kernel and of a thread on the list.
LEMMA MpFacts ==
  ASSUME MpInv
  PROVE  /\ k \in Kernel /\ KernelOK(k) /\ WaitsOK(k) /\ k.nest = 0 /\ Pool \in WaitList
         /\ k.wait[Pool] \in Seq(Thread) /\ k.cur \in Thread /\ k.error \in [Thread -> Error]
         /\ \A t \in Thread : Contains(k.wait[Pool], t) =>
              k.stat[t] = "SUSPEND" /\ ~Contains(k.defunct, t)
         /\ block_free_count \in Nat /\ Len(k.wait[Pool]) \in Nat
         /\ suspend_thread_count \in Nat /\ suspend_thread_count >= Len(k.wait[Pool])
<1>1. /\ k \in Kernel /\ KernelOK(k) /\ WaitsOK(k) /\ k.nest = 0 /\ Pool \in WaitList
      /\ k.cur \in Thread
  BY Types, PoolAssumption DEF MpInv, Calling, IpcInv, IInv, Waits
<1>2. /\ k.wait[Pool] \in Seq(Thread) /\ k.error \in [Thread -> Error]
      /\ \A t \in Thread : Contains(k.wait[Pool], t) => k.stat[t] = "SUSPEND"
  BY <1>1 DEF Kernel, WaitsOK
<1>3. \A t \in Thread : Contains(k.defunct, t) => k.stat[t] # "SUSPEND"
  BY DEF MpInv, Calling, IpcInv, IInv, Defunct
<1>4. block_free_count \in Nat /\ Len(k.wait[Pool]) \in Nat
  BY <1>2 DEF MpInv, Blocks
<1>5. suspend_thread_count \in Nat /\ suspend_thread_count >= Len(k.wait[Pool])
  BY DEF MpInv, Calling, NoLostWakeup
<1> QED BY <1>1, <1>2, <1>3, <1>4, <1>5

-----------------------------------------------------------------------------
(* What the steps have in common.                                           *)

\* Nobody is forgotten as long as the free blocks and the threads that come for
\* them change together.
LEMMA NobodyForgotten ==
  ASSUME MpInv, NEW s, s = k'.wait[Pool], suspend_thread_count' >= Len(s),
         s # << >> => k.wait[Pool] # << >> \/ block_free_count' = 0,
         alive' => alive,
         \/ block_free_count' = 0 \/ ~alive'
         \/ block_free_count' = block_free_count /\ Coming \subseteq Coming'
         \/ block_free_count' = block_free_count - 1 /\ \E t : Coming \ {t} \subseteq Coming'
         \/ /\ block_free_count' = block_free_count + 1
            /\ s = << >> \/ \E t : t \notin Coming /\ Coming \union {t} \subseteq Coming'
  PROVE  NoLostWakeup'
<1> DEFINE n == block_free_count
           m == block_free_count'
           A == Coming
           B == Coming'
<1>1. A \in SUBSET Thread /\ B \in SUBSET Thread
  BY DEF Coming, OnTheWay
<1>2. n \in Nat
  BY MpFacts
<1>3. ASSUME alive', s # << >> PROVE m <= Cardinality(B)
  <2>1. Cardinality(A) \in Nat /\ Cardinality(B) \in Nat
    BY <1>1, Counting
  <2>2. CASE m = 0
    BY <2>1, <2>2
  <2>3. CASE m # 0
    <3>1. n <= Cardinality(A)
      BY <1>3, <2>3 DEF MpInv, NoLostWakeup, NoneForgotten, Coming
    <3>2. CASE m = n /\ A \subseteq B
      BY <1>1, <1>2, <2>1, <3>1, <3>2, Counting
    <3>3. CASE m = n - 1 /\ \E t : A \ {t} \subseteq B
      <4>1. Cardinality(A) <= Cardinality(B) + 1
        BY <1>1, <3>3, Counting
      <4> QED BY <1>2, <2>1, <3>1, <3>3, <4>1
    <3>4. CASE m = n + 1 /\ \E t : t \notin A /\ A \union {t} \subseteq B
      <4>1. Cardinality(A) + 1 <= Cardinality(B)
        BY <1>1, <3>4, Counting
      <4> QED BY <1>2, <2>1, <3>1, <3>4, <4>1
    <3> QED BY <1>3, <2>3, <3>2, <3>3, <3>4
  <2> QED BY <2>2, <2>3
<1> QED BY <1>3 DEF NoLostWakeup, NoneForgotten, Coming

\* A thread leaves the list of the pool, or wakes up from a sleep.
LEMMA MpTakenOff ==
  ASSUME MpInv, NEW t \in Thread, k.stat[t] = "SUSPEND", k'.wait = WaitWithout(k, t),
         \A x \in Thread \ {t} : k'.error[x] = k.error[x],
         \A x \in Thread : op'[x] = op[x] \/ {op[x], op'[x]} \cap {"alloc", "alloc_wait"} = {}
  PROVE  /\ Waiters'
         /\ Len(k'.wait[Pool]) = IF Contains(k.wait[Pool], t) THEN Len(k.wait[Pool]) - 1
                                 ELSE Len(k.wait[Pool])
         /\ k.wait[Pool] = << >> => k'.wait[Pool] = << >>
         /\ Coming \subseteq Coming'
         /\ Contains(k.wait[Pool], t) => t \notin Coming /\ (k'.error[t] = "EOK" => t \in Coming')
<1>1. k \in Kernel /\ WaitsOK(k) /\ Pool \in WaitList
  BY MpFacts
<1>2. \A w \in WaitList, x \in Thread : Contains(k'.wait[w], x) <=> Contains(k.wait[w], x) /\ x # t
  BY <1>1, WithoutFacts
<1>3. /\ Len(k'.wait[Pool]) = IF Contains(k.wait[Pool], t) THEN Len(k.wait[Pool]) - 1
                              ELSE Len(k.wait[Pool])
      /\ k.wait[Pool] = << >> => k'.wait[Pool] = << >>
  BY <1>1, WithoutFacts
<1>4. Waiters'
  BY <1>2 DEF MpInv, Calling, Waiters
<1>5. ASSUME NEW x \in Coming PROVE x \in Coming'
  <2>1. x \in Thread /\ op[x] \in {"alloc", "alloc_wait"} /\ ~Contains(k.wait[Pool], x)
        /\ k.error[x] = "EOK"
    BY <1>5 DEF Coming, OnTheWay, Waiting
  <2>2. ~Listed(k, x)
    BY <2>1 DEF MpInv, Calling, Waiters, Listed
  <2>3. x # t
    BY <2>1, <2>2 DEF MpInv, Calling, IpcInv, Waits
  <2> QED BY <1>1, <1>2, <2>1, <2>3 DEF Coming, OnTheWay, Waiting
<1>6. ASSUME Contains(k.wait[Pool], t)
      PROVE  t \notin Coming /\ (k'.error[t] = "EOK" => t \in Coming')
  <2>1. op[t] = "alloc_wait"
    BY <1>1, <1>6 DEF MpInv, Calling, Waiters
  <2> QED BY <1>1, <1>2, <1>6, <2>1 DEF Coming, OnTheWay, Waiting
<1> QED BY <1>3, <1>4, <1>5, <1>6

\* The tick, the timeouts and the scheduler.
LEMMA SystemMp ==
  ASSUME Ordinary, MpInv, SystemStep, UNCHANGED poolVars, time' \in [Thread -> Int]
  PROVE  MpInv'
<1>1. IpcInv' /\ SystemEffect
  BY SystemStepOK DEF MpInv, Calling
<1>2. /\ op' = op /\ block_list' = block_list /\ block_free_count' = block_free_count
      /\ suspend_thread_count' = suspend_thread_count /\ allocated' = allocated /\ alive' = alive
  BY <1>1 DEF SystemEffect, poolVars
<1>3. /\ Waiters' /\ Coming \subseteq Coming' /\ Len(k'.wait[Pool]) <= Len(k.wait[Pool])
      /\ k.wait[Pool] = << >> => k'.wait[Pool] = << >>
  <2>1. CASE k'.wait = k.wait /\ \A t \in Thread : op[t] # "none" => k'.error[t] = k.error[t]
    <3>1. Waiters'
      BY <1>2, <2>1 DEF MpInv, Calling, Waiters
    <3>2. Coming \subseteq Coming'
      BY <1>2, <2>1 DEF Coming, OnTheWay, Waiting
    <3> QED BY <2>1, <3>1, <3>2, MpFacts
  <2>2. CASE \E t \in Thread : k.stat[t] = "SUSPEND" /\ TakenOff(k, k', t, "ETIMEOUT")
    <3>1. PICK t \in Thread : k.stat[t] = "SUSPEND" /\ TakenOff(k, k', t, "ETIMEOUT")
      BY <2>2
    <3>2. k'.wait = WaitWithout(k, t) /\ \A x \in Thread \ {t} : k'.error[x] = k.error[x]
      BY <3>1, MpFacts DEF TakenOff
    <3>3. /\ Waiters' /\ Coming \subseteq Coming'
          /\ Len(k'.wait[Pool]) = IF Contains(k.wait[Pool], t) THEN Len(k.wait[Pool]) - 1
                                  ELSE Len(k.wait[Pool])
          /\ k.wait[Pool] = << >> => k'.wait[Pool] = << >>
      BY <1>2, <3>1, <3>2, MpTakenOff
    <3> QED BY <3>3, MpFacts
  <2> QED BY <1>1, <2>1, <2>2 DEF SystemEffect
<1>4. Calling'
  BY <1>1, <1>2, <1>3 DEF MpInv, Calling
<1>5. Blocks'
  BY <1>2 DEF MpInv, Blocks
<1>6. k' \in Kernel
  BY <1>1, Types DEF IpcInv, IInv, TypeOK
<1>7. suspend_thread_count' >= Len(k'.wait[Pool])
  <2>1. Len(k'.wait[Pool]) \in Nat
    BY <1>6, MpFacts DEF Kernel
  <2> QED BY <1>2, <1>3, <2>1, MpFacts
<1>8. NoLostWakeup'
  BY <1>2, <1>3, <1>7, NobodyForgotten
<1> QED BY <1>4, <1>5, <1>8 DEF MpInv

\* A section of a call that leaves the lists alone, and does not end in a wait.
LEMMA StayMp ==
  ASSUME MpInv, At("run"), NEW u, Resumes(k, u), u.wait = k.wait, NEW c \in Thread, c = k.cur, c # Idle,
         \A x \in Thread \ {c} : u.error[x] = k.error[x],
         NEW p \in OpPlaces, Then_return(u, p)
  PROVE  /\ IpcInv' /\ Waiters' /\ op' \in [Thread -> OpPlaces] /\ k'.wait = k.wait
         /\ op'[Idle] = "none"
         /\ Coming \ {c} \subseteq Coming'
         /\ c \in Coming' <=> p \in {"alloc", "alloc_wait"} /\ k'.error[c] = "EOK"
<1>1. k' = u /\ op' = [op EXCEPT ![c] = p]
  BY DEF Then_return, Enter
<1>2. IpcInv'
  BY ResumeStep DEF MpInv, Calling
<1>3. ~Listed(k, c) /\ \A w \in WaitList : ~Contains(k.wait[w], c)
  BY RunningThread, IpcList DEF MpInv, Calling, Listed
<1>4. op' \in [Thread -> OpPlaces] /\ op'[c] = p /\ \A x \in Thread \ {c} : op'[x] = op[x]
  BY <1>1 DEF MpInv, Calling
<1>0. op'[Idle] = "none"
  BY <1>4, ThreadAssumption DEF MpInv, Calling
<1>5. Waiters'
  BY <1>1, <1>3, <1>4 DEF MpInv, Calling, Waiters
<1>6. Pool \in WaitList
  BY MpFacts
<1>7. Coming \ {c} \subseteq Coming'
  BY <1>1, <1>4 DEF Coming, OnTheWay, Waiting
<1>8. c \in Coming' <=> p \in {"alloc", "alloc_wait"} /\ k'.error[c] = "EOK"
  BY <1>1, <1>3, <1>4, <1>6 DEF Coming, OnTheWay, Waiting
<1> QED BY <1>0, <1>1, <1>2, <1>4, <1>5, <1>7, <1>8

-----------------------------------------------------------------------------
(* rt_mp_alloc.                                                             *)

\* A list without its first node.
LEMMA TailElements ==
  ASSUME NEW S, NEW s \in Seq(S), s # << >>, IsInjective(s)
  PROVE  /\ Tail(s) \in Seq(S) /\ Len(Tail(s)) = Len(s) - 1 /\ IsInjective(Tail(s))
         /\ \A x : Contains(Tail(s), x) <=> Contains(s, x) /\ x # Head(s)
<1> DEFINE r == Tail(s)
<1>1. /\ r \in Seq(S) /\ Len(r) = Len(s) - 1 /\ Head(s) = s[1] /\ Len(s) \in Nat /\ 1 <= Len(s)
      /\ \A i \in 1 .. Len(r) : r[i] = s[i + 1]
  OBVIOUS
<1> HIDE DEF r
<1>2. \A i, j \in 1 .. Len(s) : s[i] = s[j] => i = j
  BY DEF IsInjective
<1>3. IsInjective(r)
  BY <1>1, <1>2 DEF IsInjective
<1>4. ASSUME NEW x, Contains(r, x) PROVE Contains(s, x) /\ x # Head(s)
  <2>1. PICK i \in 1 .. Len(r) : r[i] = x
    BY <1>4 DEF Contains
  <2>2. i + 1 \in 1 .. Len(s) /\ 1 \in 1 .. Len(s) /\ i + 1 # 1 /\ s[i + 1] = x
    BY <1>1, <2>1
  <2>3. s[i + 1] # s[1]
    BY <1>2, <2>2
  <2> QED BY <1>1, <2>2, <2>3 DEF Contains
<1>5. ASSUME NEW x, Contains(s, x), x # Head(s) PROVE Contains(r, x)
  <2>1. PICK i \in 1 .. Len(s) : s[i] = x
    BY <1>5 DEF Contains
  <2>2. i # 1
    BY <1>1, <1>5, <2>1
  <2>3. i - 1 \in 1 .. Len(r) /\ r[i - 1] = x
    BY <1>1, <2>1, <2>2
  <2> QED BY <2>3 DEF Contains
<1> QED BY <1>1, <1>3, <1>4, <1>5 DEF r

\* The sections that do not wait.
LEMMA AllocMp ==
  ASSUME MpInv, \/ AllocTake \/ AllocFail \/ AllocWake \/ \E n \in Times : Alloc(n)
  PROVE  MpInv'
<1>1. PICK c \in Thread : c = k.cur /\ c # Idle
  <2>1. k.cur \in Thread
    BY MpFacts
  <2> QED BY <2>1 DEF AllocTake, AllocFail, AllocWake, Alloc, WakeUp, Inside, Outside, MpInv, Calling
<1>2. /\ KernelOK(k) /\ WaitsOK(k) /\ k.error \in [Thread -> Error]
  BY MpFacts
<1>3. Resumes(k, k)
  BY <1>2, SameWaitsResumes
<1>4. /\ time' \in [Thread -> Int] /\ suspend_thread_count' = suspend_thread_count /\ alive' = alive
  <2>1. time \in [Thread -> Int] /\ Times \subseteq Int /\ 0 \in Int
    BY TimesAssumption DEF MpInv, Calling
  <2>2. time' = time \/ \E n \in Int : time' = [time EXCEPT ![c] = n]
    BY <1>1, <2>1 DEF AllocTake, AllocFail, AllocWake, Alloc, WakeUp, Over, SetTime
  <2> QED BY <2>1, <2>2 DEF AllocTake, AllocFail, AllocWake, Alloc, poolVars
<1>5. /\ suspend_thread_count' \in Nat /\ alive' \in BOOLEAN
      /\ suspend_thread_count' >= Len(k.wait[Pool])
  BY <1>4, MpFacts DEF MpInv, Calling
<1>6. CASE \E n \in Times : Alloc(n)
  <2>1. At("run") /\ op[c] = "none" /\ Then_return(k, "alloc") /\ UNCHANGED poolVars
    BY <1>1, <1>6 DEF Alloc, Outside
  <2>2. /\ IpcInv' /\ Waiters' /\ op' \in [Thread -> OpPlaces] /\ k'.wait = k.wait
        /\ op'[Idle] = "none" /\ Coming \ {c} \subseteq Coming'
    BY <1>1, <1>3, <2>1, StayMp DEF OpPlaces
  <2>3. c \notin Coming
    BY <2>1 DEF Coming, OnTheWay
  <2>4. NoLostWakeup'
    BY <1>4, <1>5, <2>1, <2>2, <2>3, NobodyForgotten DEF poolVars
  <2>5. Blocks'
    BY <2>1 DEF poolVars, MpInv, Blocks
  <2> QED BY <1>4, <1>5, <2>2, <2>4, <2>5 DEF MpInv, Calling
<1>7. CASE AllocFail
  <2>1. At("run") /\ block_free_count = 0 /\ Then_return(k, "none") /\ UNCHANGED poolVars
    BY <1>7 DEF AllocFail, Inside
  <2>2. /\ IpcInv' /\ Waiters' /\ op' \in [Thread -> OpPlaces] /\ k'.wait = k.wait
        /\ op'[Idle] = "none"
    BY <1>1, <1>3, <2>1, StayMp DEF OpPlaces
  <2>3. NoLostWakeup'
    BY <1>4, <1>5, <2>1, <2>2, NobodyForgotten DEF poolVars
  <2>4. Blocks'
    BY <2>1 DEF poolVars, MpInv, Blocks
  <2> QED BY <1>4, <1>5, <2>2, <2>3, <2>4 DEF MpInv, Calling
<1>8. CASE AllocWake
  <2>1. At("run") /\ UNCHANGED poolVars
    BY <1>8 DEF AllocWake, WakeUp, Inside
  <2>2. CASE k.error[c] # "EOK" /\ Over
    <3> DEFINE u == [k EXCEPT !.error[c] = "EOK"]
    <3>1. Then_return(u, "none")
      BY <1>1, <2>2 DEF Over
    <3>2. /\ Resumes(k, u) /\ u.wait = k.wait /\ u.error = [k.error EXCEPT ![c] = "EOK"]
      BY <1>2, OverResumes DEF Error
    <3> HIDE DEF u
    <3>3. \A x \in Thread \ {c} : u.error[x] = k.error[x]
      BY <1>2, <3>2
    <3>4. /\ IpcInv' /\ Waiters' /\ op' \in [Thread -> OpPlaces] /\ k'.wait = k.wait
          /\ op'[Idle] = "none" /\ Coming \ {c} \subseteq Coming'
      BY <1>1, <2>1, <3>1, <3>2, <3>3, StayMp DEF OpPlaces
    <3>5. c \notin Coming
      BY <2>2 DEF Coming, OnTheWay
    <3>6. NoLostWakeup'
      BY <1>4, <1>5, <2>1, <3>4, <3>5, NobodyForgotten DEF poolVars
    <3>7. Blocks'
      BY <2>1 DEF poolVars, MpInv, Blocks
    <3> QED BY <1>4, <1>5, <3>4, <3>6, <3>7 DEF MpInv, Calling
  <2>3. CASE k.error[c] = "EOK" /\ Then_return(k, "alloc")
    <3>1. /\ IpcInv' /\ Waiters' /\ op' \in [Thread -> OpPlaces] /\ k'.wait = k.wait
          /\ op'[Idle] = "none" /\ Coming \ {c} \subseteq Coming'
          /\ c \in Coming' <=> "alloc" \in {"alloc", "alloc_wait"} /\ k'.error[c] = "EOK"
      BY <1>1, <1>3, <2>1, <2>3, StayMp DEF OpPlaces
    <3>2. c \in Coming'
      BY <2>3, <3>1 DEF Then_return
    <3>3. NoLostWakeup'
      BY <1>4, <1>5, <2>1, <3>1, <3>2, NobodyForgotten DEF poolVars
    <3>4. Blocks'
      BY <2>1 DEF poolVars, MpInv, Blocks
    <3> QED BY <1>4, <1>5, <3>1, <3>3, <3>4 DEF MpInv, Calling
  <2> QED BY <1>1, <1>8, <2>2, <2>3 DEF AllocWake, WakeUp
<1>9. CASE AllocTake
  <2>1. /\ At("run") /\ block_free_count > 0 /\ block_free_count' = block_free_count - 1
        /\ block_list' = Tail(block_list) /\ allocated' = allocated \union {Head(block_list)}
        /\ Then_return(k, "none")
    BY <1>9 DEF AllocTake, Inside
  <2>2. /\ IpcInv' /\ Waiters' /\ op' \in [Thread -> OpPlaces] /\ k'.wait = k.wait
        /\ op'[Idle] = "none" /\ Coming \ {c} \subseteq Coming'
    BY <1>1, <1>3, <2>1, StayMp DEF OpPlaces
  <2>3. NoLostWakeup'
    BY <1>4, <1>5, <2>1, <2>2, NobodyForgotten
  <2>4. Blocks'
    <3>1. /\ block_list \in Seq(Block) /\ IsInjective(block_list) /\ allocated \in SUBSET Block
          /\ block_free_count = Len(block_list)
          /\ \A b \in Block : Contains(block_list, b) <=> b \notin allocated
      BY DEF MpInv, Blocks
    <3>2. block_list # << >> /\ Head(block_list) \in Block
      BY <2>1, <3>1
    <3>3. /\ block_list' \in Seq(Block) /\ Len(block_list') = Len(block_list) - 1
          /\ IsInjective(block_list')
          /\ \A x : Contains(block_list', x) <=> Contains(block_list, x) /\ x # Head(block_list)
      BY <2>1, <3>1, <3>2, TailElements
    <3> QED BY <2>1, <3>1, <3>2, <3>3 DEF Blocks
  <2> QED BY <1>4, <1>5, <2>2, <2>3, <2>4 DEF MpInv, Calling
<1> QED BY <1>6, <1>7, <1>8, <1>9

\* The section that waits.
LEMMA WaitMp ==
  ASSUME MpInv, AllocWait
  PROVE  MpInv'
<1>0. PICK c \in Thread : c = k.cur
  BY MpFacts
<1> DEFINE s == <<k.cur>> \o k.wait[Pool]
           n == time[k.cur]
           v == SuspendedSelf(k)
           b == OnList(k, Pool, s, n)
<1>1. /\ At("run") /\ op[c] = "alloc" /\ block_free_count = 0
      /\ Then_schedule(SuspendOnPool(k, k.cur), "alloc_wait")
      /\ suspend_thread_count' = suspend_thread_count + 1
      /\ UNCHANGED <<block_list, block_free_count, allocated, time, alive>>
  BY <1>0 DEF AllocWait, Inside
<1>2. /\ KernelOK(k) /\ k \in Kernel /\ k.stat[c] = "RUNNING" /\ ~Listed(k, c)
      /\ IsInjective(k.defunct) /\ ~Contains(k.defunct, c) /\ WaitsOK(k) /\ Pool \in WaitList
      /\ k.wait[Pool] \in Seq(Thread) /\ n \in Int
  BY <1>0, <1>1, RunningThread, IpcList, MpFacts DEF MpInv, Calling
<1>3. c # Idle
  BY <1>1 DEF MpInv, Calling
<1>4. s \in Seq(Thread) /\ Enlisted(k.wait[Pool], s, k.cur, 1)
  BY <1>0, <1>2, EnlistHead
<1> HIDE DEF s, n
<1>5. /\ v.wait = k.wait /\ KernelOK(b) /\ Gentle(k, b) /\ b.cur = k.cur
      /\ Joined(k, b, Pool, k.cur, 1) /\ b.wait[Pool] = s
  BY <1>0, <1>2, <1>3, <1>4, JoinOK, ZenonT(60)
<1>6. b = SuspendOnPool(k, k.cur)
  BY <1>5 DEF SuspendOnPool, s, n, SuspendedSelf, OnList
<1> HIDE DEF v, b
<1>7. IpcInv'
  BY <1>0, <1>1, <1>2, <1>5, <1>6, JoinStep DEF MpInv, Calling
<1>8. /\ \A x \in Thread : Contains(b.wait[Pool], x) <=> Contains(k.wait[Pool], x) \/ x = c
      /\ \A w \in WaitList \ {Pool} : b.wait[w] = k.wait[w]
      /\ Len(b.wait[Pool]) = Len(k.wait[Pool]) + 1
  <2>1. b \in Kernel
    BY <1>5 DEF KernelOK
  <2>2. \A x \in Thread : Contains(b.wait[Pool], x) <=> Contains(k.wait[Pool], x) \/ x = c
    BY <1>0, <1>2, <1>5, <2>1, JoinedWaits
  <2> QED BY <1>5, <2>2 DEF Joined, Enlisted
<1>9. k' = b /\ op' = [op EXCEPT ![c] = "alloc_wait"]
  BY <1>0, <1>1, <1>6 DEF Then_schedule, Enter
<1>10. /\ op' \in [Thread -> OpPlaces] /\ op'[c] = "alloc_wait" /\ op'[Idle] = "none"
       /\ \A x \in Thread \ {c} : op'[x] = op[x]
  BY <1>3, <1>9, ThreadAssumption DEF MpInv, Calling, OpPlaces
<1>11. Waiters'
  BY <1>8, <1>9, <1>10 DEF MpInv, Calling, Waiters
<1>12. suspend_thread_count' \in Nat /\ suspend_thread_count' >= Len(k'.wait[Pool])
  BY <1>1, <1>8, <1>9, MpFacts
<1>13. NoLostWakeup'
  BY <1>1, <1>12, NobodyForgotten
<1>14. Calling'
  BY <1>1, <1>7, <1>10, <1>11, <1>12 DEF MpInv, Calling
<1>15. Blocks'
  BY <1>1 DEF MpInv, Blocks
<1> QED BY <1>13, <1>14, <1>15 DEF MpInv

-----------------------------------------------------------------------------
(* rt_mp_free and rt_mp_delete.                                             *)

\* The block goes back, and the first waiter is on its way to it.
LEMMA FreeMp ==
  ASSUME MpInv, NEW b \in Block, Free(b)
  PROVE  MpInv'
<1>1. PICK c \in Thread : c = k.cur /\ c # Idle
  BY MpFacts DEF Free, Outside
<1>2. /\ At("run") /\ op[c] = "none" /\ alive /\ Defined /\ b \in allocated
      /\ allocated' = allocated \ {b} /\ block_list' = <<b>> \o block_list
      /\ block_free_count' = block_free_count + 1 /\ time' = time /\ alive' = alive
  BY <1>1 DEF Free, Outside, Linked
<1>3. KernelOK(k) /\ WaitsOK(k) /\ k.wait[Pool] \in Seq(Thread) /\ k.error \in [Thread -> Error]
  BY MpFacts
<1>4. Blocks'
  <2>1. /\ block_list \in Seq(Block) /\ IsInjective(block_list) /\ allocated \in SUBSET Block
        /\ block_free_count = Len(block_list)
        /\ \A x \in Block : Contains(block_list, x) <=> x \notin allocated
    BY DEF MpInv, Blocks
  <2>2. ~Contains(block_list, b)
    BY <1>2, <2>1
  <2>3. /\ block_list' \in Seq(Block) /\ IsInjective(block_list')
        /\ \A x : Contains(block_list', x) <=> Contains(block_list, x) \/ x = b
    BY <1>2, <2>1, <2>2, PrependElements
  <2>4. Len(block_list') = Len(block_list) + 1
    BY <1>2, <2>1
  <2> QED BY <1>2, <2>1, <2>3, <2>4 DEF Blocks
<1>5. CASE suspend_thread_count > 0
  <2>1. k.wait[Pool] # << >>
    BY <1>2, <1>5 DEF Defined
  <2>2. PICK t \in Thread : t = Head(k.wait[Pool]) /\ Contains(k.wait[Pool], t)
    BY <1>3, <2>1, HeadElement
  <2>3. k.stat[t] = "SUSPEND" /\ ~Contains(k.defunct, t)
    BY <2>2, MpFacts
  <2> DEFINE u == rt_thread_resume([k EXCEPT !.error[t] = "EOK"], t)
  <2>4. suspend_thread_count' = suspend_thread_count - 1 /\ Then_schedule(u, "none")
    BY <1>5, <2>2 DEF Free
  <2>5. Resumes(k, u) /\ TakenOff(k, u, t, "EOK")
    BY <1>3, <2>3, ErrorResumes DEF Error
  <2> HIDE DEF u
  <2>6. k' = u /\ op' = [op EXCEPT ![c] = "none"]
    BY <1>1, <2>4 DEF Then_schedule, Enter
  <2>7. op' = op
    BY <1>2, <2>6 DEF MpInv, Calling
  <2>8. IpcInv'
    BY <1>2, <2>4, <2>5, ResumeStep DEF MpInv, Calling
  <2>9. /\ k'.wait = WaitWithout(k, t) /\ k'.error[t] = "EOK"
        /\ \A x \in Thread \ {t} : k'.error[x] = k.error[x]
    BY <1>3, <2>5, <2>6 DEF TakenOff
  <2>10. /\ Waiters' /\ Len(k'.wait[Pool]) = Len(k.wait[Pool]) - 1
         /\ Coming \subseteq Coming' /\ t \notin Coming /\ t \in Coming'
    BY <2>2, <2>3, <2>7, <2>9, MpTakenOff
  <2>11. suspend_thread_count' \in Nat /\ suspend_thread_count' >= Len(k'.wait[Pool])
    BY <1>5, <2>4, <2>10, MpFacts
  <2>12. Coming \union {t} \subseteq Coming'
    BY <2>10
  <2>13. NoLostWakeup'
    BY <1>2, <2>1, <2>10, <2>11, <2>12, NobodyForgotten
  <2>14. Calling'
    BY <1>2, <2>7, <2>8, <2>10, <2>11 DEF MpInv, Calling
  <2> QED BY <1>4, <2>13, <2>14 DEF MpInv
<1>6. CASE ~(suspend_thread_count > 0)
  <2>1. suspend_thread_count' = suspend_thread_count /\ Then_return(k, "none")
    BY <1>6 DEF Free
  <2>2. Resumes(k, k)
    BY <1>3, SameWaitsResumes
  <2>3. /\ IpcInv' /\ Waiters' /\ op' \in [Thread -> OpPlaces] /\ k'.wait = k.wait
        /\ op'[Idle] = "none"
    BY <1>1, <1>2, <2>1, <2>2, StayMp DEF OpPlaces
  <2>4. k.wait[Pool] = << >> /\ suspend_thread_count \in Nat /\ suspend_thread_count >= Len(k.wait[Pool])
    <3>1. Len(k.wait[Pool]) = 0
      BY <1>6, MpFacts
    <3> QED BY <1>3, <3>1, MpFacts
  <2>5. NoLostWakeup'
    BY <1>2, <2>1, <2>3, <2>4, NobodyForgotten
  <2>6. Calling'
    BY <1>2, <2>1, <2>3, <2>4 DEF MpInv, Calling
  <2> QED BY <1>4, <2>5, <2>6 DEF MpInv
<1> QED BY <1>5, <1>6

\* The waiters are sent away one by one.
LEMMA DeleteMp ==
  ASSUME MpInv, Delete_call \/ DeleteLoop
  PROVE  MpInv'
<1>1. PICK c \in Thread : c = k.cur
  BY MpFacts
<1>2. KernelOK(k) /\ WaitsOK(k) /\ k.wait[Pool] \in Seq(Thread) /\ k.error \in [Thread -> Error]
  BY MpFacts
<1>3. /\ block_list' = block_list /\ block_free_count' = block_free_count /\ time' = time
      /\ allocated' = allocated /\ (alive' => alive) /\ alive' \in BOOLEAN
  <2>1. /\ block_list' = block_list /\ block_free_count' = block_free_count /\ time' = time
        /\ allocated' = allocated
    BY DEF Delete_call, DeleteLoop
  <2>2. alive' = FALSE \/ alive' = alive
    BY DEF Delete_call, DeleteLoop
  <2>3. alive \in BOOLEAN
    BY DEF MpInv, Calling
  <2>4. (alive' => alive) /\ alive' \in BOOLEAN
    <3>1. CASE alive' = FALSE
      BY <3>1
    <3>2. CASE alive' = alive
      BY <2>3, <3>2
    <3> QED BY <2>2, <3>1, <3>2
  <2> QED BY <2>1, <2>4
<1>4. Blocks'
  BY <1>3 DEF MpInv, Blocks
<1>5. ASSUME At("run"), c # Idle, NEW p \in {"none", "delete", "delete_resume"}, Then_return(k, p),
             op[c] \in {"none", "delete", "delete_resume"},
             suspend_thread_count' = suspend_thread_count
      PROVE  MpInv'
  <2>1. Resumes(k, k)
    BY <1>2, SameWaitsResumes
  <2>2. /\ IpcInv' /\ Waiters' /\ op' \in [Thread -> OpPlaces] /\ k'.wait = k.wait
        /\ op'[Idle] = "none" /\ Coming \ {c} \subseteq Coming'
    BY <1>1, <1>5, <2>1, StayMp DEF OpPlaces
  <2>3. c \notin Coming
    BY <1>5 DEF Coming, OnTheWay
  <2>4. suspend_thread_count' \in Nat /\ suspend_thread_count' >= Len(k.wait[Pool])
    BY <1>5, MpFacts
  <2>5. NoLostWakeup'
    BY <1>3, <2>2, <2>3, <2>4, NobodyForgotten
  <2>6. Calling'
    BY <1>3, <2>2, <2>4 DEF MpInv, Calling
  <2> QED BY <1>4, <2>5, <2>6 DEF MpInv
<1>6. CASE Delete_call
  <2>1. /\ At("run") /\ c # Idle /\ op[c] = "none" /\ Then_return(k, "delete")
        /\ suspend_thread_count' = suspend_thread_count
    BY <1>1, <1>6 DEF Delete_call, Outside
  <2> QED BY <1>5, <2>1
<1>7. CASE /\ ResumeAllTest(Pool, "delete", "delete_resume", "none")
           /\ UNCHANGED suspend_thread_count
  <2>1. /\ At("run") /\ op[c] = "delete" /\ suspend_thread_count' = suspend_thread_count
        /\ Then_return(k, IF k.wait[Pool] = << >> THEN "none" ELSE "delete_resume")
    BY <1>1, <1>7 DEF ResumeAllTest, Inside
  <2>2. c # Idle
    BY <2>1 DEF MpInv, Calling
  <2>3. CASE k.wait[Pool] = << >>
    BY <1>5, <2>1, <2>2, <2>3
  <2>4. CASE k.wait[Pool] # << >>
    BY <1>5, <2>1, <2>2, <2>4
  <2> QED BY <2>3, <2>4
<1>8. CASE /\ ResumeAllBody(Pool, "delete_resume", "delete")
           /\ suspend_thread_count' = suspend_thread_count - 1
  <2>1. /\ At("run") /\ op[c] = "delete_resume" /\ k.wait[Pool] # << >>
        /\ Then_return(ResumeWithError(k, Head(k.wait[Pool])), "delete")
    BY <1>1, <1>8 DEF ResumeAllBody, Inside
  <2>2. PICK t \in Thread : t = Head(k.wait[Pool]) /\ Contains(k.wait[Pool], t)
    BY <1>2, <2>1, HeadElement
  <2>3. k.stat[t] = "SUSPEND" /\ ~Contains(k.defunct, t)
    BY <2>2, MpFacts
  <2> DEFINE u == ResumeWithError(k, t)
  <2>4. Resumes(k, u) /\ TakenOff(k, u, t, "ERROR")
    BY <1>2, <2>3, ErrorResumes DEF ResumeWithError, Error
  <2> HIDE DEF u
  <2>5. k' = u /\ op' = [op EXCEPT ![c] = "delete"]
    BY <1>1, <2>1, <2>2 DEF Then_return, Enter, u
  <2>6. IpcInv'
    BY <2>1, <2>2, <2>4, ResumeStep DEF MpInv, Calling, u
  <2>7. /\ op' \in [Thread -> OpPlaces] /\ op'[Idle] = "none" /\ op'[c] = "delete"
        /\ \A x \in Thread \ {c} : op'[x] = op[x]
    BY <2>1, <2>5, ThreadAssumption DEF MpInv, Calling, OpPlaces
  <2>8. \A x \in Thread : op'[x] = op[x] \/ {op[x], op'[x]} \cap {"alloc", "alloc_wait"} = {}
    BY <2>1, <2>7
  <2>9. k'.wait = WaitWithout(k, t) /\ \A x \in Thread \ {t} : k'.error[x] = k.error[x]
    BY <1>2, <2>4, <2>5 DEF TakenOff
  <2>10. /\ Waiters' /\ Len(k'.wait[Pool]) = Len(k.wait[Pool]) - 1 /\ Coming \subseteq Coming'
    BY <2>2, <2>3, <2>8, <2>9, MpTakenOff
  <2>11. suspend_thread_count' \in Nat /\ suspend_thread_count' >= Len(k'.wait[Pool])
    <3>1. Len(k.wait[Pool]) > 0
      BY <1>2, <2>1
    <3> QED BY <1>8, <2>10, <3>1, MpFacts
  <2>12. NoLostWakeup'
    BY <1>3, <2>1, <2>10, <2>11, NobodyForgotten
  <2>13. Calling'
    BY <1>3, <2>6, <2>7, <2>10, <2>11 DEF MpInv, Calling
  <2> QED BY <1>4, <2>12, <2>13 DEF MpInv
<1> QED BY <1>6, <1>7, <1>8 DEF DeleteLoop

-----------------------------------------------------------------------------
(* The theorems.                                                            *)

\* rt_mp_init links every block once.
LEMMA MpInitOK ==
  ASSUME MpInit
  PROVE  MpInv
<1>1. /\ IpcInv /\ k.wait = [w \in WaitList |-> << >>] /\ op = [t \in Thread |-> "none"]
  BY IpcInitOK DEF MpInit
<1>2. k.wait[Pool] = << >> /\ \A w \in WaitList, t \in Thread : ~Contains(k.wait[w], t)
  BY <1>1, PoolAssumption DEF Contains
<1>3. Calling
  BY <1>1, <1>2, ThreadAssumption DEF MpInit, Calling, Waiters, OpPlaces
<1>4. Blocks
  <2>1. /\ block_list = SetToSeq(Block) /\ block_free_count = Cardinality(Block) /\ allocated = {}
    BY DEF MpInit
  <2>2. /\ SetToSeq(Block) \in Seq(Block) /\ IsInjective(SetToSeq(Block))
        /\ \A x : Contains(SetToSeq(Block), x) <=> x \in Block
        /\ Len(SetToSeq(Block)) = Cardinality(Block)
    BY BlockAssumption, SetToSeqElements
  <2> QED BY <2>1, <2>2 DEF Blocks
<1>5. NoLostWakeup
  BY <1>2 DEF NoLostWakeup, NoneForgotten, MpInit
<1> QED BY <1>3, <1>4, <1>5 DEF MpInv

\* Every step of the pool.
LEMMA MpStep ==
  ASSUME Ordinary, MpInv, [MpNext]_mpVars
  PROVE  MpInv'
<1>1. time \in [Thread -> Int]
  BY DEF MpInv, Calling
<1>2. CASE Tick
  <2>1. SystemStep /\ UNCHANGED poolVars /\ time' = TimeAfterTick({"alloc_wait"})
    BY <1>2 DEF Tick, SystemStep
  <2>2. time' \in [Thread -> Int]
    BY <1>1, <2>1 DEF TimeAfterTick
  <2> QED BY <2>1, <2>2, SystemMp
<1>3. CASE OtherStep /\ UNCHANGED <<poolVars, time>>
  <2>1. SystemStep /\ UNCHANGED poolVars /\ time' \in [Thread -> Int]
    BY <1>1, <1>3 DEF SystemStep
  <2> QED BY <2>1, SystemMp
<1>4. CASE \/ AllocTake \/ AllocFail \/ AllocWake \/ \E n \in Times : Alloc(n)
  BY <1>4, AllocMp
<1>5. CASE AllocWait
  BY <1>5, WaitMp
<1>6. CASE \E b \in Block : Free(b)
  BY <1>6, FreeMp
<1>7. CASE Delete_call \/ DeleteLoop
  BY <1>7, DeleteMp
<1>8. CASE UNCHANGED mpVars
  <2>1. /\ k' = k /\ pc' = pc /\ tgt' = tgt /\ isr' = isr /\ op' = op /\ time' = time
        /\ block_list' = block_list /\ block_free_count' = block_free_count
        /\ suspend_thread_count' = suspend_thread_count /\ allocated' = allocated /\ alive' = alive
    BY <1>8 DEF mpVars, poolVars
  <2>2. IpcInv'
    BY <2>1 DEF MpInv, Calling, IpcInv, CallPlaces, Waits, IInv, TypeOK, Places, Started, Starting,
                Reaping, Defunct, BeingFreed, Running, Ticking, SleepEnds
  <2>3. Calling'
    BY <2>1, <2>2 DEF MpInv, Calling, Waiters
  <2>4. Blocks'
    BY <2>1 DEF MpInv, Blocks
  <2>5. NoLostWakeup'
    BY <2>1 DEF MpInv, NoLostWakeup, NoneForgotten, OnTheWay, Waiting
  <2> QED BY <2>3, <2>4, <2>5 DEF MpInv
<1> QED BY <1>2, <1>3, <1>4, <1>5, <1>6, <1>7, <1>8 DEF MpNext

\* The free list, the counters, the waiters and the resumed threads that have no block
\* yet fit together after every step (rt_mp_alloc, rt_mp_free, rt_mp_delete).
THEOREM MpInvariance ==
  ASSUME Ordinary
  PROVE  MpSpec => []MpInv
<1>1. MpInit => MpInv
  BY MpInitOK
<1>2. MpInv /\ [MpNext]_mpVars => MpInv'
  BY MpStep
<1> QED BY <1>1, <1>2, PTL DEF MpSpec

\* No block is lost or handed out twice, and rt_mp_alloc never takes a block from an empty
\* list, for any number of blocks and threads (mempool.c:315, 371-378).
THEOREM MpBlockConservation ==
  ASSUME Ordinary
  PROVE  MpSpec => []BlockConservation
<1>1. MpInv => BlockConservation
  <2> SUFFICES ASSUME MpInv PROVE BlockConservation
    OBVIOUS
  <2>1. MpTypeOK
    BY MpFacts DEF MpInv, Calling, Blocks, IpcInv, IInv, MpTypeOK, OpPlaces
  <2>2. /\ block_list \in Seq(Block) /\ allocated \in SUBSET Block
        /\ block_free_count = Len(block_list) /\ IsInjective(block_list)
        /\ \A b \in Block : Contains(block_list, b) <=> b \notin allocated
    BY DEF MpInv, Blocks
  <2>3. \A b : b \in ToSet(block_list) <=> Contains(block_list, b)
    BY ListSet
  <2>4. \A b : Contains(block_list, b) => b \in Block
    BY <2>2 DEF Contains
  <2>5. ToSet(block_list) \cap allocated = {} /\ ToSet(block_list) \union allocated = Block
    BY <2>2, <2>3, <2>4
  <2> QED BY <2>1, <2>2, <2>5 DEF BlockConservation
<1> QED BY <1>1, MpInvariance, PTL

\* No wake-up of rt_mp_free is lost, although a resumed thread may find its block taken,
\* and no waiter is invisible to rt_mp_free (mempool.c:315-369, 415-440).
THEOREM MpNoLostWakeup ==
  ASSUME Ordinary
  PROVE  MpSpec => []NoLostWakeup
<1>1. MpInv => NoLostWakeup
  BY DEF MpInv
<1> QED BY <1>1, MpInvariance, PTL

\* Suspend list, status words and timers agree, whatever times out, is resumed or deleted
\* (mempool.c:330-345, 423-440).
THEOREM MpWaitLists ==
  ASSUME Ordinary
  PROVE  MpSpec => []WaitLists
<1>1. MpInv => WaitLists
  BY WaitListsOK DEF MpInv, Calling
<1> QED BY <1>1, MpInvariance, PTL

=============================================================================
