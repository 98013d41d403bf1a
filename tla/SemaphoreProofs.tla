-------------------------- MODULE SemaphoreProofs --------------------------
(***************************************************************************)
(* The properties of Semaphore for any number of threads, any priorities,  *)
(* waiting times and initial value, and for both flags; and those of       *)
(* WorkQueue, whose cancel_work_sync waits for a semaphore, for any works  *)
(* and any threads that submit and cancel.                                 *)
(***************************************************************************)
EXTENDS Semaphore, WorkQueue, KernelProofs

(***************************************************************************)
(* Part 1: the semaphore                                                   *)
(***************************************************************************)

-----------------------------------------------------------------------------
(* The inductive invariant.                                                 *)

\* Only this semaphore has waiters, they are inside rt_sem_take, and no result
\* has been written for them yet.
Waiters ==
  \A w \in WaitList, t \in Thread : Contains(k.wait[w], t) =>
    w = Sem /\ op[t] = "take" /\ k.error[t] = "EOK"

SemInv ==
  /\ IpcInv
  /\ op \in [Thread -> {"none", "take", "delete", "delete_resume"}]
  /\ value \in 0 .. MaxValue /\ flag \in {"FIFO", "PRIO"} /\ alive \in BOOLEAN
  /\ releases \in {0, 1}
  /\ value > 0 => k.wait[Sem] = << >>
  /\ Waiters
  /\ NobodyLeft

\* What a step may do to the list of the waiters.
ListMove ==
  /\ "control" \notin Calls => k'.prio = k.prio
  /\ \/ k'.wait[Sem] = k.wait[Sem] \/ k'.wait[Sem] = << >>
     \/ \E t \in Thread : k'.wait[Sem] = Unlinked(k.wait[Sem], t)
     \/ \E t \in Thread, i \in Nat :
          /\ ~Contains(k.wait[Sem], t) /\ k'.wait[Sem] \in Seq(Thread)
          /\ Enlisted(k.wait[Sem], k'.wait[Sem], t, i)
          /\ RightPlace(k, k.wait[Sem], t, flag, i)
          /\ k'.prio = k.prio

-----------------------------------------------------------------------------
(* The steps of SemaphoreSpec, thread by thread.                            *)

\* Nothing happens.
LEMMA PromiseStutter ==
  ASSUME value' = value, releases' = releases, \A t \in Thread : TakeState(t)' = TakeState(t)
  PROVE  UNCHANGED Promise!vars
BY DEF Promise!vars

\* One thread's call goes on without a release.
LEMMA PromiseMove ==
  ASSUME NEW t \in Thread, \A x \in Thread \ {t} : TakeState(x)' = TakeState(x), value' = value,
         releases' = releases,
         \/ value = 0 /\ TakeState(t) = "out" /\ TakeState(t)' = "waiting"
         \/ TakeState(t) = "waiting" /\ TakeState(t)' = "failed"
         \/ TakeState(t) \in {"granted", "failed"} /\ TakeState(t)' = "out"
  PROVE  Promise!Next
<1> DEFINE c == [x \in Thread |-> TakeState(x)]
           d == [x \in Thread |-> TakeState(x)']
<1>1. c[t] = TakeState(t) /\ d = [c EXCEPT ![t] = TakeState(t)']
  OBVIOUS
<1>2. CASE value = 0 /\ TakeState(t) = "out" /\ TakeState(t)' = "waiting"
  <2>1. Promise!Wait(t)
    BY <1>1, <1>2 DEF Promise!Wait
  <2> QED BY <2>1 DEF Promise!Next
<1>3. CASE TakeState(t) = "waiting" /\ TakeState(t)' = "failed"
  <2>1. Promise!GiveUp(t)
    BY <1>1, <1>3 DEF Promise!GiveUp
  <2> QED BY <2>1 DEF Promise!Next
<1>4. CASE TakeState(t) \in {"granted", "failed"} /\ TakeState(t)' = "out"
  <2>1. Promise!Return(t)
    BY <1>1, <1>4 DEF Promise!Return
  <2> QED BY <2>1 DEF Promise!Next
<1> QED BY <1>2, <1>3, <1>4

\* A release serves a waiting thread.
LEMMA PromiseServe ==
  ASSUME NEW t \in Thread, \A x \in Thread \ {t} : TakeState(x)' = TakeState(x), value' = value,
         Counted, TakeState(t) = "waiting", TakeState(t)' = "granted"
  PROVE  Promise!Release
<1> DEFINE c == [x \in Thread |-> TakeState(x)]
           d == [x \in Thread |-> TakeState(x)']
<1>1. c[t] = TakeState(t) /\ d = [c EXCEPT ![t] = TakeState(t)']
  OBVIOUS
<1>2. t \in Promise!Blocked
  BY <1>1 DEF Promise!Blocked
<1> QED BY <1>1, <1>2 DEF Promise!Release, Counted

\* A release that finds nobody waiting goes to the counter.
LEMMA PromiseKeep ==
  ASSUME \A t \in Thread : TakeState(t)' = TakeState(t) /\ TakeState(t) # "waiting",
         value < MaxValue, value' = value + 1, Counted
  PROVE  Promise!Release
<1> DEFINE c == [x \in Thread |-> TakeState(x)]
           d == [x \in Thread |-> TakeState(x)']
<1>1. d = c
  OBVIOUS
<1>2. Promise!Blocked = {}
  BY DEF Promise!Blocked
<1> QED BY <1>1, <1>2 DEF Promise!Release, Counted

\* A take that finds the semaphore available.
LEMMA PromiseTake ==
  ASSUME \A t \in Thread : TakeState(t)' = TakeState(t), releases' = releases,
         value > 0, value' = value - 1
  PROVE  Promise!Next
<1> DEFINE c == [x \in Thread |-> TakeState(x)]
           d == [x \in Thread |-> TakeState(x)']
<1>1. d = c
  OBVIOUS
<1>2. Promise!TakeNow
  BY <1>1 DEF Promise!TakeNow
<1> QED BY <1>2 DEF Promise!Next

\* All waiters are sent away.
LEMMA PromiseReset ==
  ASSUME value' \in 0 .. MaxValue, releases' = releases,
         \A t \in Thread : TakeState(t)' = IF TakeState(t) = "waiting" THEN "failed" ELSE TakeState(t)
  PROVE  Promise!Next
<1> DEFINE c == [x \in Thread |-> TakeState(x)]
           d == [x \in Thread |-> TakeState(x)']
<1>1. d = [t \in Thread |-> IF c[t] = "waiting" THEN "failed" ELSE c[t]]
  OBVIOUS
<1>2. Promise!Reset
  BY <1>1 DEF Promise!Reset
<1> QED BY <1>2 DEF Promise!Next

-----------------------------------------------------------------------------
(* The steps of the semaphore.                                              *)

\* A step of the semaphore is a step of SemaphoreSpec, or none.
PromiseStep == Promise!Next \/ UNCHANGED Promise!vars

\* What the invariant says of the list and of a thread on it.
LEMMA SemFacts ==
  ASSUME SemInv
  PROVE  /\ k \in Kernel /\ KernelOK(k) /\ WaitsOK(k) /\ k.nest = 0 /\ Sem \in WaitList
         /\ k.wait[Sem] \in Seq(Thread) /\ IsInjective(k.wait[Sem]) /\ k.cur \in Thread
         /\ k.error \in [Thread -> Error]
         /\ \A t \in Thread : Contains(k.wait[Sem], t) => k.stat[t] = "SUSPEND"
         /\ \A t \in Thread : Listed(k, t) => Contains(k.wait[Sem], t)
         /\ \A t \in Thread : k.stat[t] = "SUSPEND" /\ op[t] # "none" => Contains(k.wait[Sem], t)
         /\ \A t \in Thread : Contains(k.defunct, t) => k.stat[t] # "SUSPEND"
<1>1. /\ k \in Kernel /\ KernelOK(k) /\ WaitsOK(k) /\ k.nest = 0 /\ Sem \in WaitList
      /\ k.cur \in Thread
  BY Types, SemListAssumption DEF SemInv, IpcInv, IInv, Waits
<1>2. /\ k.wait[Sem] \in Seq(Thread) /\ IsInjective(k.wait[Sem])
      /\ \A t \in Thread : Contains(k.wait[Sem], t) => k.stat[t] = "SUSPEND"
      /\ k.error \in [Thread -> Error]
  BY <1>1 DEF Kernel, WaitsOK
<1>3. \A t \in Thread : Listed(k, t) => Contains(k.wait[Sem], t)
  BY DEF SemInv, Waiters, Listed
<1>4. \A t \in Thread : k.stat[t] = "SUSPEND" /\ op[t] # "none" => Contains(k.wait[Sem], t)
  BY <1>3 DEF SemInv, IpcInv, Waits
<1>5. \A t \in Thread : Contains(k.defunct, t) => k.stat[t] # "SUSPEND"
  BY DEF SemInv, IpcInv, IInv, Defunct
<1> QED BY <1>1, <1>2, <1>3, <1>4, <1>5

\* A thread leaves the list: it was served (its error number is EOK) or gives up.
LEMMA SemTakenOff ==
  ASSUME SemInv, NEW t \in Thread, k.stat[t] = "SUSPEND",
         k'.wait = WaitWithout(k, t), \A x \in Thread \ {t} : k'.error[x] = k.error[x],
         \A x \in Thread : op'[x] = op[x] \/ "take" \notin {op[x], op'[x]}
  PROVE  /\ Waiters' /\ (k.wait[Sem] = << >> => k'.wait[Sem] = << >>)
         /\ k'.wait[Sem] = Unlinked(k.wait[Sem], t)
         /\ \A x \in Thread \ {t} : TakeState(x)' = TakeState(x)
         /\ IF Contains(k.wait[Sem], t)
            THEN /\ TakeState(t) = "waiting"
                 /\ TakeState(t)' = IF k'.error[t] = "EOK" THEN "granted" ELSE "failed"
            ELSE TakeState(t)' = TakeState(t)
<1>1. /\ k \in Kernel /\ WaitsOK(k) /\ Sem \in WaitList /\ k.error \in [Thread -> Error]
      /\ k.wait[Sem] \in Seq(Thread)
  BY SemFacts
<1>2. \A w \in WaitList, x \in Thread : Contains(k'.wait[w], x) <=> Contains(k.wait[w], x) /\ x # t
  <2> SUFFICES ASSUME NEW w \in WaitList, NEW x \in Thread
               PROVE  Contains(k'.wait[w], x) <=> Contains(k.wait[w], x) /\ x # t
    OBVIOUS
  <2>1. k.wait[w] \in Seq(Thread) /\ IsInjective(k.wait[w]) /\ k'.wait[w] = Unlinked(k.wait[w], t)
    BY <1>1 DEF Kernel, WaitsOK, WaitWithout
  <2> QED BY <2>1, UnlinkedElements
<1>3. \A x \in Thread \ {t} : k'.error[x] = k.error[x]
  OBVIOUS
<1>4. Waiters'
  BY <1>2, <1>3 DEF SemInv, Waiters
<1>5. k'.wait[Sem] = Unlinked(k.wait[Sem], t)
  BY <1>1 DEF WaitWithout
<1>6. k.wait[Sem] = << >> => k'.wait[Sem] = << >>
  BY <1>1, <1>5, EmptyHasNone, UnlinkedAbsent
<1>7. \A x \in Thread \ {t} : TakeState(x)' = TakeState(x)
  BY <1>1, <1>2, <1>3 DEF TakeState, Waiting
<1>8. CASE Contains(k.wait[Sem], t)
  <2>1. op[t] = "take" /\ op'[t] = "take"
    BY <1>1, <1>8 DEF SemInv, Waiters
  <2> QED BY <1>1, <1>2, <1>3, <1>4, <1>5, <1>6, <1>7, <1>8, <2>1 DEF TakeState, Waiting
<1>9. CASE ~Contains(k.wait[Sem], t)
  <2>1. op[t] = "none"
    BY <1>9, SemFacts
  <2>2. TakeState(t) = "out" /\ TakeState(t)' = "out"
    BY <2>1 DEF TakeState
  <2> QED BY <1>4, <1>5, <1>6, <1>7, <1>9, <2>2
<1> QED BY <1>8, <1>9

\* The tick, the timeouts and the scheduler: a timeout is a waiter that gives up.
LEMMA SystemSem ==
  ASSUME Ordinary, SemInv, SystemStep, UNCHANGED <<value, flag, alive, releases>>
  PROVE  SemInv' /\ PromiseStep /\ ListMove
<1>1. IpcInv' /\ SystemEffect
  BY SystemStepOK DEF SemInv
<1>2. op' = op
  BY <1>1 DEF SystemEffect
<1>3. CASE k'.wait = k.wait /\ \A t \in Thread : op[t] # "none" => k'.error[t] = k.error[t]
  <2>1. Waiters'
    BY <1>2, <1>3 DEF SemInv, Waiters
  <2>2. \A t \in Thread : TakeState(t)' = TakeState(t)
    BY <1>2, <1>3 DEF TakeState, Waiting
  <2>3. PromiseStep
    BY <2>2, PromiseStutter DEF PromiseStep
  <2>4. NobodyLeft'
    BY <1>2, <1>3 DEF SemInv, NobodyLeft
  <2>5. ListMove
    BY <1>1, <1>3 DEF ListMove, SystemEffect
  <2> QED BY <1>1, <1>2, <1>3, <2>1, <2>3, <2>4, <2>5 DEF SemInv
<1>4. CASE \E t \in Thread : k.stat[t] = "SUSPEND" /\ TakenOff(k, k', t, "ETIMEOUT")
  <2>1. PICK t \in Thread : k.stat[t] = "SUSPEND" /\ TakenOff(k, k', t, "ETIMEOUT")
    BY <1>4
  <2>2. /\ Waiters' /\ (k.wait[Sem] = << >> => k'.wait[Sem] = << >>)
        /\ k'.wait[Sem] = Unlinked(k.wait[Sem], t)
        /\ \A x \in Thread \ {t} : TakeState(x)' = TakeState(x)
        /\ IF Contains(k.wait[Sem], t)
           THEN TakeState(t) = "waiting" /\ TakeState(t)' = "failed"
           ELSE TakeState(t)' = TakeState(t)
    <3>1. /\ k'.wait = WaitWithout(k, t) /\ k.stat[t] = "SUSPEND"
          /\ k'.error[t] = "ETIMEOUT" /\ \A x \in Thread \ {t} : k'.error[x] = k.error[x]
      BY <2>1, SemFacts DEF TakenOff
    <3> QED BY <1>2, <3>1, SemTakenOff
  <2>3. PromiseStep
    <3>1. CASE Contains(k.wait[Sem], t)
      BY <2>2, <3>1, PromiseMove DEF PromiseStep
    <3>2. CASE ~Contains(k.wait[Sem], t)
      BY <2>2, <3>2, PromiseStutter DEF PromiseStep
    <3> QED BY <3>1, <3>2
  <2>4. NobodyLeft'
    BY <1>2, <2>2 DEF SemInv, NobodyLeft
  <2>5. ListMove
    BY <1>1, <2>2 DEF ListMove, SystemEffect
  <2> QED BY <1>1, <1>2, <2>2, <2>3, <2>4, <2>5 DEF SemInv
<1> QED BY <1>1, <1>3, <1>4 DEF SystemEffect

\* rt_sem_take that does not wait, and its return after a wait.
LEMMA TakeSem ==
  ASSUME SemInv, TakeNow \/ TakeReturn
  PROVE  SemInv' /\ PromiseStep /\ ListMove
<1>1. At("run") /\ k' = k /\ flag' = flag /\ alive' = alive /\ releases' = releases
  BY DEF TakeNow, TakeReturn, SemCall, Outside, Inside, Then_return
<1>2. /\ k.cur \in Thread /\ ~Listed(k, k.cur) /\ ~Contains(k.wait[Sem], k.cur)
  BY <1>1, RunningThread, IpcList, SemFacts DEF SemInv, Listed
<1>3. CASE TakeNow
  <2>1. /\ value > 0 /\ value' = value - 1 /\ UNCHANGED <<k, pc, tgt, isr, op>>
    BY <1>3 DEF TakeNow
  <2>2. value' \in 0 .. MaxValue
    <3>1. value \in 0 .. MaxValue /\ MaxValue \in Nat
      BY ValueAssumption DEF SemInv
    <3> QED BY <2>1, <3>1
  <2>3. IpcInv'
    BY <2>1 DEF SemInv, IpcInv, CallPlaces, Waits, IInv, TypeOK, Places, Started, Starting, Reaping,
                Defunct, BeingFreed, Running, Ticking, SleepEnds
  <2>4. SemInv'
    BY <1>1, <2>1, <2>2, <2>3 DEF SemInv, Waiters, NobodyLeft
  <2>5. \A t \in Thread : TakeState(t)' = TakeState(t)
    BY <1>1, <2>1 DEF TakeState, Waiting
  <2>6. PromiseStep
    BY <1>1, <2>1, <2>5, PromiseTake DEF PromiseStep
  <2> QED BY <1>1, <2>4, <2>6 DEF ListMove
<1>4. CASE TakeReturn
  <2>1. /\ op[k.cur] = "take" /\ Then_return(k, "none") /\ value' = value
        /\ op' = [op EXCEPT ![k.cur] = "none"]
    BY <1>4 DEF TakeReturn, Inside, Then_return, Enter
  <2>2. Resumes(k, k)
    BY SameWaitsResumes, SemFacts
  <2>3. IpcInv'
    BY <1>1, <2>1, <2>2, ResumeStep DEF SemInv
  <2>4. /\ op' \in [Thread -> {"none", "take", "delete", "delete_resume"}]
        /\ op'[k.cur] = "none" /\ \A t \in Thread \ {k.cur} : op'[t] = op[t]
    BY <1>2, <2>1 DEF SemInv
  <2>5. Waiters' /\ NobodyLeft'
    <3>1. \A w \in WaitList : ~Contains(k.wait[w], k.cur)
      BY <1>2 DEF Listed
    <3> QED BY <1>1, <2>1, <2>4, <3>1 DEF SemInv, Waiters, NobodyLeft
  <2>6. SemInv'
    BY <1>1, <2>1, <2>3, <2>4, <2>5 DEF SemInv
  <2>7. PICK c \in Thread : c = k.cur
    BY <1>2
  <2>8. /\ \A t \in Thread \ {c} : TakeState(t)' = TakeState(t)
        /\ TakeState(c) \in {"granted", "failed"} /\ TakeState(c)' = "out"
    BY <1>1, <1>2, <2>1, <2>4, <2>7 DEF TakeState, Waiting
  <2>9. PromiseStep
    BY <1>1, <2>1, <2>8, PromiseMove DEF PromiseStep
  <2> QED BY <1>1, <2>6, <2>9 DEF ListMove
<1> QED BY <1>3, <1>4

\* rt_sem_take that waits.
LEMMA WaitSem ==
  ASSUME SemInv, NEW n \in Times, TakeWait(n)
  PROVE  SemInv' /\ PromiseStep /\ ListMove
<1>0. PICK c \in Thread : c = k.cur
  BY SemFacts
<1> DEFINE b == WaitOn(k, Sem, c, flag, n)
<1>1. /\ At("run") /\ c # Idle /\ op[c] = "none" /\ alive /\ value = 0 /\ k' = b
      /\ Then_schedule(b, "take") /\ op' = [op EXCEPT ![c] = "take"]
      /\ UNCHANGED <<value, flag, alive, releases>>
  BY <1>0 DEF TakeWait, SemCall, Outside, Then_schedule, Enter
<1>2. /\ KernelOK(k) /\ k \in Kernel /\ c \in Thread /\ k.stat[c] = "RUNNING"
      /\ ~Listed(k, c) /\ IsInjective(k.defunct) /\ ~Contains(k.defunct, c)
      /\ WaitsOK(k) /\ n \in Int /\ Sem \in WaitList
  BY <1>0, <1>1, RunningThread, IpcList, SemFacts, TimesAssumption DEF SemInv
<1>3. PICK i : /\ KernelOK(b) /\ Gentle(k, b) /\ b.cur = c /\ b.prio = k.prio
               /\ Joined(k, b, Sem, c, i) /\ RightPlace(k, k.wait[Sem], c, flag, i)
  BY <1>0, <1>1, <1>2, WaitOnOK
<1> HIDE DEF b
<1>4. IpcInv'
  BY <1>0, <1>1, <1>2, <1>3, JoinStep DEF SemInv
<1>5. /\ \A x \in Thread : Contains(b.wait[Sem], x) <=> Contains(k.wait[Sem], x) \/ x = c
      /\ b \in Kernel
  BY <1>2, <1>3, JoinedWaits DEF KernelOK
<1>6. /\ \A w \in WaitList \ {Sem} : b.wait[w] = k.wait[w]
      /\ b.error[c] = "EOK" /\ \A x \in Thread \ {c} : b.error[x] = k.error[x]
      /\ b.prio = k.prio /\ Enlisted(k.wait[Sem], b.wait[Sem], c, i) /\ b.wait[Sem] \in Seq(Thread)
  BY <1>2, <1>3, SemFacts DEF Joined
<1>7. /\ op' \in [Thread -> {"none", "take", "delete", "delete_resume"}]
      /\ op'[c] = "take" /\ \A x \in Thread \ {c} : op'[x] = op[x]
  BY <1>1, <1>2 DEF SemInv
<1>8. Waiters'
  BY <1>1, <1>5, <1>6, <1>7 DEF SemInv, Waiters
<1>9. SemInv'
  BY <1>1, <1>4, <1>7, <1>8 DEF SemInv, NobodyLeft
<1>10. /\ \A x \in Thread \ {c} : TakeState(x)' = TakeState(x)
       /\ TakeState(c) = "out" /\ TakeState(c)' = "waiting"
  BY <1>1, <1>2, <1>5, <1>6, <1>7 DEF TakeState, Waiting
<1>11. PromiseStep
  BY <1>1, <1>2, <1>10, PromiseMove DEF PromiseStep
<1>12. ListMove
  <2>1. i \in Nat
    BY <1>6, SemFacts DEF Enlisted
  <2>2. ~Contains(k.wait[Sem], c)
    BY <1>2 DEF Listed
  <2> QED BY <1>1, <1>2, <1>3, <1>6, <2>1, <2>2 DEF ListMove
<1> QED BY <1>9, <1>11, <1>12

\* rt_sem_release in a thread or in an interrupt handler: the first waiter is served,
\* or the counter goes up.
LEMMA ReleaseSem ==
  ASSUME SemInv, Release \/ IrqRelease
  PROVE  SemInv' /\ PromiseStep /\ ListMove
<1>1. value < MaxValue /\ value' = Released /\ flag' = flag /\ alive' = alive /\ alive
      /\ Counted
  BY Zenon DEF Release, IrqRelease, SemCall
<1>0. value \in 0 .. MaxValue /\ MaxValue \in Nat /\ MaxValue <= 65535
  BY ValueAssumption DEF SemInv
<1>8. /\ flag' \in {"FIFO", "PRIO"} /\ alive' \in BOOLEAN /\ NobodyLeft' /\ releases' \in {0, 1}
  <2>1. releases' \in {0, 1}
    BY <1>1 DEF SemInv, Counted
  <2> QED BY <1>1, <2>1 DEF SemInv, NobodyLeft
<1>2. /\ KernelOK(k) /\ WaitsOK(k) /\ k.wait[Sem] \in Seq(Thread) /\ IpcInv /\ Sem \in WaitList
      /\ op \in [Thread -> {"none", "take", "delete", "delete_resume"}] /\ k.cur \in Thread
      /\ flag \in {"FIFO", "PRIO"} /\ alive \in BOOLEAN
  BY SemFacts DEF SemInv
<1>3. Release => At("run") /\ op[k.cur] = "none" /\ op' = [op EXCEPT ![k.cur] = "none"]
  BY DEF Release, SemCall, Outside, Then_schedule, Then_return, Enter
<1>4. op' = op
  BY <1>2, <1>3 DEF IrqRelease, IrqResume, Interrupt
<1> DEFINE u == IF k.wait[Sem] = << >> THEN k ELSE rt_ipc_list_resume(k, Sem)
<1>5. ASSUME Resumes(k, u)
      PROVE  IpcInv' /\ k'.wait = u.wait /\ k'.error = u.error /\ k'.prio = u.prio
  <2>1. Release => Then_schedule(u, "none") \/ Then_return(u, "none")
    BY DEF Release
  <2>2. IrqRelease => Interrupt(rt_schedule(u)) \/ (u = k /\ Interrupt(k))
    BY DEF IrqRelease, IrqResume
  <2> HIDE DEF u
  <2>3. CASE Release
    BY <1>2, <1>3, <1>5, <2>1, <2>3, ResumeStep DEF Then_schedule, Then_return
  <2>4. CASE IrqRelease
    BY <1>2, <1>5, <2>2, <2>4, HandlerStep
  <2> QED BY <2>3, <2>4
<1>6. CASE k.wait[Sem] = << >>
  <2>1. u = k
    BY <1>6
  <2>2. Resumes(k, k)
    BY <1>2, SameWaitsResumes
  <2>3. IpcInv' /\ k'.wait = k.wait /\ k'.error = k.error /\ k'.prio = k.prio
    BY <1>5, <2>1, <2>2
  <2>4. value' = value + 1 /\ value' \in 0 .. MaxValue
    BY <1>0, <1>1, <1>6 DEF Released
  <2>5. Waiters' /\ (value' > 0 => k'.wait[Sem] = << >>)
    BY <1>4, <1>6, <2>3 DEF SemInv, Waiters
  <2>6. SemInv'
    BY <1>2, <1>4, <1>8, <2>3, <2>4, <2>5 DEF SemInv
  <2>7. \A t \in Thread : TakeState(t)' = TakeState(t) /\ TakeState(t) # "waiting"
    <3>1. \A t \in Thread : ~Contains(k.wait[Sem], t)
      BY <1>2, <1>6, EmptyHasNone
    <3> QED BY <1>4, <2>3, <3>1 DEF TakeState, Waiting
  <2>8. PromiseStep
    BY <1>1, <2>4, <2>7, PromiseKeep DEF PromiseStep, Promise!Next
  <2> QED BY <2>3, <2>6, <2>8 DEF ListMove
<1>7. CASE k.wait[Sem] # << >>
  <2>1. PICK t \in Thread : t = Head(k.wait[Sem]) /\ Contains(k.wait[Sem], t)
    BY <1>2, <1>7, HeadElement
  <2>2. k.stat[t] = "SUSPEND" /\ ~Contains(k.defunct, t) /\ k.error[t] = "EOK"
    BY <1>2, <2>1, SemFacts DEF SemInv, Waiters
  <2>3. u = rt_thread_resume(k, t)
    BY <1>7, <2>1 DEF rt_ipc_list_resume
  <2> HIDE DEF u
  <2>4. Resumes(k, u) /\ TakenOff(k, u, t, k.error[t])
    BY <1>2, <2>2, <2>3, ResumeResumes
  <2>5. IpcInv' /\ k'.wait = u.wait /\ k'.error = u.error /\ k'.prio = u.prio
    BY <1>5, <2>4
  <2>6. /\ k'.wait = WaitWithout(k, t) /\ k'.error[t] = "EOK"
        /\ \A x \in Thread \ {t} : k'.error[x] = k.error[x]
        /\ k'.prio = k.prio
    BY <2>2, <2>4, <2>5, SemFacts DEF TakenOff
  <2>7. /\ Waiters' /\ (k.wait[Sem] = << >> => k'.wait[Sem] = << >>)
        /\ k'.wait[Sem] = Unlinked(k.wait[Sem], t)
        /\ \A x \in Thread \ {t} : TakeState(x)' = TakeState(x)
        /\ TakeState(t) = "waiting" /\ TakeState(t)' = "granted"
    <3> HIDE DEF TakeState, Waiters, WaitWithout
    <3> QED BY <1>4, <2>1, <2>2, <2>6, SemTakenOff
  <2>8. value' = value
    BY <1>1, <1>7 DEF Released
  <2>9. value = 0
    BY <1>0, <1>7 DEF SemInv
  <2>10. value' \in 0 .. MaxValue /\ ~(value' > 0)
    BY <1>0, <2>8, <2>9
  <2>11. SemInv'
    BY <1>2, <1>4, <1>8, <2>5, <2>7, <2>10 DEF SemInv
  <2>12. PromiseStep
    BY <1>1, <2>7, <2>8, PromiseServe DEF PromiseStep, Promise!Next
  <2> QED BY <2>6, <2>7, <2>11, <2>12 DEF ListMove
<1> QED BY <1>6, <1>7

\* rt_sem_control(RT_IPC_CMD_RESET) sends every waiter away.
LEMMA ResetSem ==
  ASSUME SemInv, NEW v \in 0 .. MaxValue, Reset(v)
  PROVE  SemInv' /\ PromiseStep /\ ListMove
<1> DEFINE b == rt_ipc_list_resume_all(k, Sem)
<1>1. At("run") /\ op[k.cur] = "none" /\ value' = v /\ flag' = flag /\ alive' = alive /\ alive
      /\ releases' = releases
      /\ Then_schedule(b, "none")
  BY Zenon DEF Reset, SemCall, Outside
<1>2. /\ KernelOK(k) /\ WaitsOK(k) /\ k.wait \in [WaitList -> Seq(Thread)] /\ IpcInv
      /\ Sem \in WaitList /\ k.cur \in Thread
      /\ \A t \in Thread : Contains(k.defunct, t) => k.stat[t] # "SUSPEND"
      /\ op \in [Thread -> {"none", "take", "delete", "delete_resume"}]
  BY SemFacts DEF SemInv, Kernel
<1>3. Resumes(k, b) /\ AllResumed(k, b, Sem, "ERROR")
  BY <1>2, ResumeAllOK
<1> HIDE DEF b
<1>4. IpcInv'
  BY <1>1, <1>2, <1>3, ResumeStep
<1>5. k' = b /\ op' = op
  BY <1>1, <1>2 DEF Then_schedule, Enter
<1>6. /\ k'.wait = [k.wait EXCEPT ![Sem] = << >>] /\ k'.wait[Sem] = << >> /\ k'.prio = k.prio
      /\ \A t \in Thread : k'.error[t] = IF Contains(k.wait[Sem], t) THEN "ERROR" ELSE k.error[t]
  BY <1>2, <1>3, <1>5 DEF AllResumed
<1>7. \A t \in Thread : ~Contains(k'.wait[Sem], t)
  BY <1>6 DEF Contains
<1>8. Waiters'
  <2> SUFFICES ASSUME NEW w \in WaitList, NEW t \in Thread, Contains(k'.wait[w], t)
               PROVE  w = Sem /\ op'[t] = "take" /\ k'.error[t] = "EOK"
    BY DEF Waiters
  <2>1. w # Sem
    BY <1>7
  <2>2. Contains(k.wait[w], t)
    BY <1>2, <1>6, <2>1
  <2> QED BY <2>1, <2>2 DEF SemInv, Waiters
<1>9. flag' \in {"FIFO", "PRIO"} /\ alive' \in BOOLEAN /\ NobodyLeft'
  BY <1>1 DEF SemInv, NobodyLeft
<1>10. SemInv'
  BY <1>1, <1>2, <1>4, <1>5, <1>6, <1>8, <1>9 DEF SemInv
<1>11. \A t \in Thread : TakeState(t)' = IF TakeState(t) = "waiting" THEN "failed" ELSE TakeState(t)
  <2> SUFFICES ASSUME NEW t \in Thread
               PROVE  TakeState(t)' = IF TakeState(t) = "waiting" THEN "failed" ELSE TakeState(t)
    OBVIOUS
  <2>1. CASE Contains(k.wait[Sem], t)
    <3>1. op[t] = "take"
      BY <1>2, <2>1 DEF SemInv, Waiters
    <3> QED BY <1>5, <1>6, <1>7, <2>1, <3>1 DEF TakeState, Waiting
  <2>2. CASE ~Contains(k.wait[Sem], t)
    BY <1>5, <1>6, <1>7, <2>2 DEF TakeState, Waiting
  <2> QED BY <2>1, <2>2
<1>12. PromiseStep
  BY <1>1, <1>11, PromiseReset DEF PromiseStep
<1> QED BY <1>6, <1>10, <1>12 DEF ListMove

\* A step of the thread that deletes the semaphore: it resumes nobody, or the first waiter.
LEMMA DeleteSem ==
  ASSUME SemInv, Delete_call \/ DeleteLoop
  PROVE  SemInv' /\ PromiseStep /\ ListMove
<1>1. /\ KernelOK(k) /\ WaitsOK(k) /\ k.wait[Sem] \in Seq(Thread) /\ IpcInv
      /\ Sem \in WaitList /\ k.cur \in Thread
      /\ op \in [Thread -> {"none", "take", "delete", "delete_resume"}]
  BY SemFacts DEF SemInv
<1>2. value' = value /\ flag' = flag /\ releases' = releases
  BY DEF Delete_call, DeleteLoop
<1>3. /\ flag' \in {"FIFO", "PRIO"} /\ alive' \in BOOLEAN /\ value' \in 0 .. MaxValue
      /\ releases' \in {0, 1}
  <2>1. alive' \in BOOLEAN
    BY Zenon DEF Delete_call, DeleteLoop, SemInv
  <2> QED BY <1>2, <2>1 DEF SemInv
<1>4. PICK c \in Thread : c = k.cur
  BY <1>1
\* The threads inside rt_sem_take stay there.
<1>5. ASSUME NEW u, NEW p \in {"none", "delete", "delete_resume"}, At("run"), op[c] # "take",
             Then_return(u, p), Resumes(k, u)
      PROVE  /\ IpcInv' /\ k' = u /\ op' = [op EXCEPT ![c] = p] /\ op'[c] = p
             /\ op' \in [Thread -> {"none", "take", "delete", "delete_resume"}]
             /\ \A x \in Thread : op'[x] = op[x] \/ "take" \notin {op[x], op'[x]}
  <2>1. IpcInv'
    BY <1>1, <1>5, ResumeStep
  <2>2. k' = u /\ op' = [op EXCEPT ![c] = p]
    BY <1>4, <1>5 DEF Then_return, Enter
  <2> QED BY <1>1, <1>5, <2>1, <2>2
<1>6. ASSUME NEW p \in {"none", "delete", "delete_resume"}, At("run"), op[c] # "take",
             Then_return(k, p), p = "none" => k.wait[Sem] = << >>
      PROVE  SemInv' /\ PromiseStep /\ ListMove
  <2>1. Resumes(k, k)
    BY <1>1, SameWaitsResumes
  <2>2. /\ IpcInv' /\ k' = k /\ op'[c] = p
        /\ op' \in [Thread -> {"none", "take", "delete", "delete_resume"}]
        /\ \A x \in Thread : op'[x] = op[x] \/ "take" \notin {op[x], op'[x]}
    BY <1>5, <1>6, <2>1
  <2>3. Waiters'
    BY <2>2 DEF SemInv, Waiters
  <2>4. NobodyLeft'
    BY <1>6, <2>2 DEF NobodyLeft
  <2>5. value' > 0 => k'.wait[Sem] = << >>
    BY <1>2, <2>2 DEF SemInv
  <2>6. SemInv'
    BY <1>3, <2>2, <2>3, <2>4, <2>5 DEF SemInv
  <2>7. \A t \in Thread : TakeState(t)' = TakeState(t)
    BY <2>2 DEF TakeState, Waiting
  <2>8. PromiseStep
    BY <1>2, <2>7, PromiseStutter DEF PromiseStep
  <2> QED BY <2>2, <2>6, <2>8 DEF ListMove
<1>7. CASE Delete_call
  <2>1. At("run") /\ op[k.cur] = "none" /\ Then_return(k, "delete")
    BY <1>7 DEF Delete_call, SemCall, Outside
  <2> QED BY <1>4, <1>6, <2>1
<1>8. CASE ResumeAllTest(Sem, "delete", "delete_resume", "none")
  <2>1. /\ At("run") /\ op[k.cur] = "delete"
        /\ Then_return(k, IF k.wait[Sem] = << >> THEN "none" ELSE "delete_resume")
    BY <1>8 DEF ResumeAllTest, Inside
  <2>2. CASE k.wait[Sem] = << >>
    BY <1>4, <1>6, <2>1, <2>2
  <2>3. CASE k.wait[Sem] # << >>
    BY <1>4, <1>6, <2>1, <2>3
  <2> QED BY <2>2, <2>3
<1>9. CASE ResumeAllBody(Sem, "delete_resume", "delete")
  <2>1. /\ At("run") /\ op[k.cur] = "delete_resume" /\ k.wait[Sem] # << >>
        /\ Then_return(ResumeWithError(k, Head(k.wait[Sem])), "delete")
    BY <1>9 DEF ResumeAllBody, Inside
  <2>2. PICK t \in Thread : t = Head(k.wait[Sem]) /\ Contains(k.wait[Sem], t)
    BY <1>1, <2>1, HeadElement
  <2>3. k.stat[t] = "SUSPEND" /\ ~Contains(k.defunct, t)
    BY <2>2, SemFacts
  <2> DEFINE u == ResumeWithError(k, t)
  <2>4. Resumes(k, u) /\ TakenOff(k, u, t, "ERROR")
    BY <1>1, <2>3, ErrorResumes DEF ResumeWithError, Error
  <2> HIDE DEF u
  <2>5. /\ IpcInv' /\ k' = u /\ op'[c] = "delete"
        /\ op' \in [Thread -> {"none", "take", "delete", "delete_resume"}]
        /\ \A x \in Thread : op'[x] = op[x] \/ "take" \notin {op[x], op'[x]}
    BY <1>4, <1>5, <2>1, <2>2, <2>4 DEF u
  <2>6. /\ k'.wait = WaitWithout(k, t) /\ k'.error[t] = "ERROR" /\ k'.prio = k.prio
        /\ \A x \in Thread \ {t} : k'.error[x] = k.error[x]
    BY <2>4, <2>5, SemFacts DEF TakenOff
  <2>7. /\ Waiters' /\ (k.wait[Sem] = << >> => k'.wait[Sem] = << >>)
        /\ k'.wait[Sem] = Unlinked(k.wait[Sem], t)
        /\ \A x \in Thread \ {t} : TakeState(x)' = TakeState(x)
        /\ TakeState(t) = "waiting" /\ TakeState(t)' = "failed"
    BY <2>2, <2>3, <2>5, <2>6, SemTakenOff
  <2>8. NobodyLeft'
    BY <2>5 DEF NobodyLeft
  <2>9. value' > 0 => k'.wait[Sem] = << >>
    BY <1>2, <2>7 DEF SemInv
  <2>10. SemInv'
    BY <1>3, <2>5, <2>7, <2>8, <2>9 DEF SemInv
  <2>11. PromiseStep
    BY <1>2, <2>7, PromiseMove DEF PromiseStep
  <2> QED BY <2>6, <2>7, <2>10, <2>11 DEF ListMove
<1> QED BY <1>7, <1>8, <1>9 DEF DeleteLoop

-----------------------------------------------------------------------------
(* All steps together.                                                      *)

\* The initial states.
LEMMA SemInitOK ==
  ASSUME SemInit
  PROVE  SemInv /\ Promise!Init /\ k.wait[Sem] = << >>
<1>1. /\ IpcInv /\ k.wait = [w \in WaitList |-> << >>] /\ op = [t \in Thread |-> "none"]
  BY IpcInitOK DEF SemInit
<1>2. k.wait[Sem] = << >> /\ \A w \in WaitList, t \in Thread : ~Contains(k.wait[w], t)
  BY <1>1, SemListAssumption DEF Contains
<1>3. Waiters /\ NobodyLeft
  BY <1>2 DEF Waiters, NobodyLeft
<1>4. releases = 0 /\ value = InitValue /\ flag \in {"FIFO", "PRIO"} /\ alive \in BOOLEAN /\ value \in 0 .. MaxValue
  BY SemFlagsAssumption, ValueAssumption DEF SemInit
<1>5. op \in [Thread -> {"none", "take", "delete", "delete_resume"}]
  BY <1>1
<1>6. SemInv
  BY <1>1, <1>2, <1>3, <1>4, <1>5 DEF SemInv
<1>7. \A t \in Thread : TakeState(t) = "out"
  BY <1>1 DEF TakeState
<1>8. Promise!Init
  BY <1>4, <1>7 DEF Promise!Init
<1> QED BY <1>2, <1>6, <1>8

\* Nothing happens.
LEMMA SemStutter ==
  ASSUME SemInv, UNCHANGED semVars
  PROVE  SemInv' /\ PromiseStep
<1>1. k' = k /\ pc' = pc /\ tgt' = tgt /\ isr' = isr /\ op' = op
      /\ value' = value /\ flag' = flag /\ alive' = alive /\ releases' = releases
  BY DEF semVars
<1>2. IpcInv'
  BY <1>1 DEF SemInv, IpcInv, CallPlaces, Waits, IInv, TypeOK, Places, Started, Starting, Reaping,
              Defunct, BeingFreed, Running, Ticking, SleepEnds
<1>3. SemInv'
  BY <1>1, <1>2 DEF SemInv, Waiters, NobodyLeft
<1>4. \A t \in Thread : TakeState(t)' = TakeState(t)
  BY <1>1 DEF TakeState, Waiting
<1>5. PromiseStep
  BY <1>1, <1>4, PromiseStutter DEF PromiseStep
<1> QED BY <1>3, <1>5

\* Every step of the semaphore.
LEMMA SemStep ==
  ASSUME Ordinary, SemInv, SemNext
  PROVE  SemInv' /\ PromiseStep /\ ListMove
<1>1. CASE SystemStep /\ UNCHANGED <<value, flag, alive, releases>>
  BY <1>1, SystemSem
<1>2. CASE TakeNow \/ TakeReturn
  BY <1>2, TakeSem
<1>3. CASE \E n \in Times : TakeWait(n)
  BY <1>3, WaitSem
<1>4. CASE Release \/ IrqRelease
  BY <1>4, ReleaseSem
<1>5. CASE \E v \in 0 .. MaxValue : Reset(v)
  BY <1>5, ResetSem
<1>6. CASE Delete_call \/ DeleteLoop
  BY <1>6, DeleteSem
<1> QED BY <1>1, <1>2, <1>3, <1>4, <1>5, <1>6 DEF SemNext

-----------------------------------------------------------------------------
(* The order of the waiters.                                                *)

\* A step keeps the waiters of a RT_IPC_FLAG_PRIO semaphore sorted, and puts a new
\* waiter behind those that it must not overtake.
LEMMA OrderStep ==
  ASSUME SemInv, PrioOrder, ListMove, "control" \notin Calls, flag' = flag
  PROVE  /\ PrioOrder'
         /\ \A t \in ToSet(k'.wait[Sem]) \ ToSet(k.wait[Sem]) :
              \A w \in ToSet(k.wait[Sem]) \cap ToSet(k'.wait[Sem]) :
                flag = "FIFO" \/ k.prio[w] <= k.prio[t] => Behind(k'.wait[Sem], w, t)
<1> DEFINE s == k.wait[Sem]
           r == k'.wait[Sem]
<1>1. /\ s \in Seq(Thread) /\ IsInjective(s) /\ k.prio \in [Thread -> Int] /\ k'.prio = k.prio
      /\ flag \in {"FIFO", "PRIO"}
  <2>1. k \in Kernel
    BY SemFacts
  <2>2. k.prio \in [Thread -> Int]
    BY <2>1 DEF Kernel, Prio
  <2> QED BY <2>2, SemFacts DEF ListMove, SemInv
<1>2. flag = "PRIO" => SortedBy(k.prio, s)
  BY DEF PrioOrder, SortedBy
<1>3. (flag = "PRIO" => SortedBy(k.prio, r)) => PrioOrder'
  BY <1>1 DEF PrioOrder, SortedBy
<1>4. CASE r = s
  BY <1>2, <1>3, <1>4
<1>5. CASE r = << >>
  BY <1>3, <1>5 DEF SortedBy, ToSet
<1>6. CASE \E t \in Thread : r = Unlinked(s, t)
  <2>1. PICK t \in Thread : r = Unlinked(s, t)
    BY <1>6
  <2> HIDE DEF s, r
  <2>2. PrioOrder'
    BY <1>1, <1>2, <1>3, <2>1, UnlinkedSorted
  <2>3. r \in Seq(Thread) /\ \A x : Contains(r, x) => Contains(s, x)
    BY <1>1, <2>1, UnlinkedType, UnlinkedElements
  <2>4. ASSUME NEW x \in ToSet(r) PROVE x \in ToSet(s)
    <3>1. Contains(r, x)
      BY <2>3, <2>4 DEF ToSet, Contains
    <3>2. Contains(s, x)
      BY <2>3, <3>1
    <3> QED BY <1>1, <3>2 DEF ToSet, Contains
  <2> QED BY <2>2, <2>4 DEF s, r
<1>7. CASE \E t \in Thread, i \in Nat :
             /\ ~Contains(s, t) /\ r \in Seq(Thread) /\ Enlisted(s, r, t, i)
             /\ RightPlace(k, s, t, flag, i)
  <2>1. PICK t \in Thread, i \in Nat :
               /\ ~Contains(s, t) /\ r \in Seq(Thread) /\ Enlisted(s, r, t, i)
               /\ RightPlace(k, s, t, flag, i)
    BY <1>7
  <2> HIDE DEF s, r
  <2>2. flag = "PRIO" => /\ SortedBy(k.prio, r)
                        /\ \A j \in 1 .. Len(s) : k.prio[s[j]] <= k.prio[t] => j < i
    BY <1>1, <1>2, <2>1, EnlistedSorted
  <2>3. \A x : Contains(r, x) <=> Contains(s, x) \/ x = t
    BY <1>1, <2>1, EnlistedElements
  <2>4. ASSUME NEW x \in ToSet(r), x \notin ToSet(s), NEW w \in ToSet(s),
               flag = "FIFO" \/ k.prio[w] <= k.prio[x]
        PROVE  Behind(r, w, x)
    <3>1. x = t
      <4>1. Contains(r, x) /\ ~Contains(s, x)
        BY <1>1, <2>1, <2>4 DEF ToSet, Contains
      <4> QED BY <2>3, <4>1
    <3>2. PICK j \in 1 .. Len(s) : w = s[j]
      BY <1>1 DEF ToSet
    <3>3. j < i
      <4>1. CASE flag = "FIFO"
        BY <1>1, <2>1, <3>2, <4>1 DEF RightPlace
      <4>2. CASE flag = "PRIO"
        BY <2>2, <2>4, <3>1, <3>2, <4>2
      <4> QED BY <1>1, <4>1, <4>2
    <3>4. i \in 1 .. Len(r) /\ j \in 1 .. Len(r) /\ r[i] = t /\ r[j] = w
      BY <1>1, <2>1, <3>2, <3>3 DEF Enlisted
    <3> QED BY <3>1, <3>3, <3>4 DEF Behind
  <2> QED BY <1>3, <2>2, <2>4 DEF s, r
<1> QED BY <1>4, <1>5, <1>6, <1>7 DEF ListMove

-----------------------------------------------------------------------------
(* The theorems.                                                            *)

\* The counter, the list, the places of the takes and what each of them will find in
\* thread->error fit together after every step (rt_sem_take, rt_sem_release,
\* rt_sem_control, rt_sem_delete).
THEOREM SemInvariance ==
  ASSUME Ordinary
  PROVE  SemSpec => []SemInv
<1>1. SemInit => SemInv
  BY SemInitOK
<1>2. SemInv /\ [SemNext]_semVars => SemInv'
  BY SemStep, SemStutter
<1> QED BY <1>1, <1>2, PTL DEF SemSpec

\* Suspend list, status words and timers agree, whatever times out, is resumed,
\* reset or deleted.
THEOREM SemWaitLists ==
  ASSUME Ordinary
  PROVE  SemSpec => []WaitLists
<1>1. SemInv => WaitLists
  BY WaitListsOK DEF SemInv
<1> QED BY <1>1, SemInvariance, PTL

\* No lost wake-up: nobody waits while the semaphore is available.
THEOREM SemNoLostWakeup ==
  ASSUME Ordinary
  PROVE  SemSpec => []NoWaiterWhileAvailable
<1>1. SemInv => NoWaiterWhileAvailable
  <2> SUFFICES ASSUME SemInv PROVE NoWaiterWhileAvailable
    OBVIOUS
  <2>1. SemTypeOK
    BY DEF SemInv, SemTypeOK, IpcInv, IInv
  <2>2. ASSUME NEW t \in ToSet(k.wait[Sem]) PROVE op[t] = "take"
    <3>1. t \in Thread /\ Contains(k.wait[Sem], t) /\ Sem \in WaitList
      BY SemFacts DEF ToSet, Contains
    <3> QED BY <3>1 DEF SemInv, Waiters
  <2>3. value > 0 => k.wait[Sem] = << >>
    BY DEF SemInv
  <2> QED BY <2>1, <2>2, <2>3 DEF NoWaiterWhileAvailable
<1> QED BY <1>1, SemInvariance, PTL

\* rt_sem_delete leaves nobody on the list of the freed semaphore.
THEOREM SemNobodyLeft ==
  ASSUME Ordinary
  PROVE  SemSpec => []NobodyLeft
<1>1. SemInv => NobodyLeft
  BY DEF SemInv
<1> QED BY <1>1, SemInvariance, PTL

\* The waiters stay sorted as long as no priority is changed at run time: a change
\* does not move a waiter in its list.
THEOREM SemPrioOrder ==
  ASSUME Ordinary, "control" \notin Calls
  PROVE  SemSpec => []PrioOrder
<1>1. SemInit => PrioOrder
  <2> SUFFICES ASSUME SemInit PROVE PrioOrder
    OBVIOUS
  <2> QED BY SemInitOK DEF PrioOrder
<1>2. SemInv /\ PrioOrder /\ [SemNext]_semVars => PrioOrder'
  <2> SUFFICES ASSUME SemInv, PrioOrder, [SemNext]_semVars PROVE PrioOrder'
    OBVIOUS
  <2>1. CASE SemNext
    <3>1. flag' = flag
      BY <2>1 DEF SemNext, TakeNow, TakeWait, TakeReturn, Release, IrqRelease, Reset, Delete_call,
                  DeleteLoop
    <3> QED BY <2>1, <3>1, SemStep, OrderStep
  <2>2. CASE UNCHANGED semVars
    BY <2>2 DEF semVars, PrioOrder
  <2> QED BY <2>1, <2>2
<1> QED BY <1>1, <1>2, SemInvariance, PTL DEF SemSpec

\* A waiter is not overtaken by a later one that has no right to it: rt_ipc_list_suspend
\* inserts behind the waiters of the same priority (ipc.c:86-117).
THEOREM SemNoOvertaking ==
  ASSUME Ordinary, "control" \notin Calls
  PROVE  SemSpec => NoOvertaking
<1> DEFINE Fair == \A t \in ToSet(k'.wait[Sem]) \ ToSet(k.wait[Sem]) :
                     \A w \in ToSet(k.wait[Sem]) \cap ToSet(k'.wait[Sem]) :
                       flag = "FIFO" \/ k.prio[w] <= k.prio[t] => Behind(k'.wait[Sem], w, t)
<1>1. SemInv /\ PrioOrder /\ [SemNext]_semVars => [Fair]_semVars
  <2> SUFFICES ASSUME SemInv, PrioOrder, SemNext PROVE Fair
    OBVIOUS
  <2>1. flag' = flag
    BY DEF SemNext, TakeNow, TakeWait, TakeReturn, Release, IrqRelease, Reset, Delete_call,
           DeleteLoop
  <2> QED BY <2>1, SemStep, OrderStep
<1> QED BY <1>1, SemInvariance, SemPrioOrder, PTL DEF SemSpec, NoOvertaking

\* The semaphore keeps the promise of SemaphoreSpec: every rt_sem_release, which counts in
\* releases, serves one waiting take or goes to the counter when nobody waits, and a take
\* that waited succeeds only because a release served it (ipc.c:389-470).
THEOREM SemRefinement ==
  ASSUME Ordinary
  PROVE  SemSpec => ImplementsSemaphore
<1>1. SemInit => Promise!Init
  BY SemInitOK
<1>2. SemInv /\ [SemNext]_semVars => [Promise!Next]_(Promise!vars)
  <2> SUFFICES ASSUME SemInv, [SemNext]_semVars PROVE PromiseStep
    BY DEF PromiseStep
  <2> QED BY SemStep, SemStutter
<1> QED BY <1>1, <1>2, SemInvariance, PTL DEF SemSpec, ImplementsSemaphore, Promise!Spec

(***************************************************************************)
(* Part 2: the work queue                                                  *)
(***************************************************************************)

-----------------------------------------------------------------------------
(* The inductive invariant of the work queue.                               *)

\* Only the worker is inside the queue's own code; it never sleeps and waits for no
\* semaphore, and nobody resumes any other thread.
WorkerPlaces ==
  /\ op \in [Thread -> {"none", "test", "suspend", "take", "work", "ack"}]
  /\ \A t \in Thread : op[t] = "none" <=> t # Worker
  /\ pc[Worker] \in {"run", "sched"} /\ ~TimerActive(k, Worker) /\ ~Listed(k, Worker)
  /\ \A t \in Thread : pc[t] \in {"resume", "unlink", "insert"} => tgt[t] = Worker

\* Every work is in one place.
Works ==
  /\ work_list \in Seq(Work) /\ IsInjective(work_list) /\ pending = ToSet(work_list)
  /\ work_current \in Work \union {NULL} /\ work_current \notin pending
  /\ work_current # NULL <=> op[Worker] = "work"

\* Whoever waits for the end of a work has it running, or about to be acknowledged.
Syncs ==
  /\ sync = [t \in Thread |-> sync[t]]
  /\ \A t \in Thread : Contains(k.wait[WqSem], t) =>
       sync[t] \in Work /\ (sync[t] = work_current \/ op[Worker] = "ack")

WqInv == ListInv /\ WorkerPlaces /\ Works /\ Syncs

-----------------------------------------------------------------------------
(* Its parts.                                                               *)

\* What the invariant says of the types.
LEMMA WqFacts ==
  ASSUME WqInv
  PROVE  /\ IInv /\ k.nest = 0 /\ WaitsOK(k) /\ k \in Kernel /\ KernelOK(k) /\ k.cur \in Thread
         /\ pc \in [Thread -> Pc] /\ tgt \in [Thread -> Thread] /\ WqSem \in WaitList
         /\ Worker \in Thread /\ Worker # Idle /\ Worker # Main
         /\ \A t \in Thread : Contains(k.defunct, t) => k.stat[t] = "CLOSE"
<1>1. /\ IInv /\ k.nest = 0 /\ WaitsOK(k)
  BY DEF WqInv, ListInv
<1>2. /\ k \in Kernel /\ k.cur \in Thread /\ pc \in [Thread -> Pc] /\ tgt \in [Thread -> Thread]
  BY <1>1, Types
<1>3. KernelOK(k) /\ \A t \in Thread : Contains(k.defunct, t) => k.stat[t] = "CLOSE"
  BY <1>1 DEF IInv, Defunct
<1> QED BY <1>1, <1>2, <1>3, WqSemAssumption, WorkerAssumption

\* While the worker runs nobody is making it ready.
LEMMA WorkerRuns ==
  ASSUME WqInv, k.cur = Worker
  PROVE  \A t \in Thread : pc[t] \notin {"unlink", "insert"}
<1> SUFFICES ASSUME NEW t \in Thread, pc[t] \in {"unlink", "insert"} PROVE FALSE
  OBVIOUS
<1>1. tgt[t] = Worker
  BY DEF WqInv, WorkerPlaces
<1>2. tgt[t] # k.cur
  BY WqFacts DEF IInv, Started, Starting
<1> QED BY <1>1, <1>2

\* The list of the works loses a work.
LEMMA WithoutWork ==
  ASSUME WqInv, NEW w \in Work
  PROVE  /\ Without(w) \in Seq(Work) /\ IsInjective(Without(w))
         /\ ToSet(Without(w)) = pending \ {w}
<1>1. work_list \in Seq(Work) /\ IsInjective(work_list) /\ pending = ToSet(work_list)
  BY DEF WqInv, Works
<1>2. /\ Without(w) \in Seq(Work) /\ IsInjective(Without(w))
      /\ \A x : Contains(Without(w), x) <=> Contains(work_list, x) /\ x # w
  BY <1>1, UnlinkedType, UnlinkedElements DEF Without
<1>3. \A x : x \in ToSet(Without(w)) <=> x \in ToSet(work_list) /\ x # w
  BY <1>2, ListSet
<1> QED BY <1>1, <1>2, <1>3

\* The section of _workqueue_submit_work keeps every work in one place.
LEMMA QueuedWorks ==
  ASSUME WqInv, NEW w \in Work, Queued(w), op' = op
  PROVE  Works' /\ work_current' = work_current /\ sync' = sync
<1>1. /\ w \notin pending /\ w # work_current /\ work_list' = Append(Without(w), w)
      /\ pending' = pending \union {w} /\ work_current' = work_current /\ sync' = sync
  BY DEF Queued
<1>2. /\ Without(w) \in Seq(Work) /\ IsInjective(Without(w)) /\ ToSet(Without(w)) = pending \ {w}
  BY WithoutWork
<1>3. ~Contains(Without(w), w)
  BY <1>2, ListSet
<1>4. /\ work_list' \in Seq(Work) /\ IsInjective(work_list')
      /\ \A x : Contains(work_list', x) <=> Contains(Without(w), x) \/ x = w
  BY <1>1, <1>2, <1>3, AppendElements
<1>5. \A x : x \in ToSet(work_list') <=> x \in pending'
  BY <1>1, <1>2, <1>4, ListSet
<1> QED BY <1>1, <1>4, <1>5 DEF WqInv, Works

\* A cancelled work is nowhere.
LEMMA CancelledWorks ==
  ASSUME WqInv, NEW w \in Work, work_list' = Without(w), pending' = pending \ {w},
         work_current' = work_current, op' = op
  PROVE  Works'
BY WithoutWork DEF WqInv, Works

-----------------------------------------------------------------------------
(* The steps of the kernel.                                                 *)

\* A step that only takes threads off the lists, and leaves the works alone.
LEMMA SyncsShrink ==
  ASSUME WqInv, \A t \in Thread : Contains(k'.wait[WqSem], t) => Contains(k.wait[WqSem], t),
         op' = op, UNCHANGED <<work_current, sync>>
  PROVE  Syncs'
BY DEF WqInv, Syncs

\* A thread moves only itself, and not while it is inside a service.
LEMMA OrdinaryMoves ==
  ASSUME IInv, OrdinaryStep, NEW t \in Thread
  PROVE  \/ pc'[t] = pc[t] /\ tgt'[t] = tgt[t]
         \/ /\ t = k.cur /\ pc'[t] \notin {"resume", "unlink", "insert"}
            /\ op[t] = "none" \/ pc'[t] = "run"
<1>1. pc \in [Thread -> Pc] /\ tgt \in [Thread -> Thread] /\ k.cur \in Thread
  BY Types
<1>2. CASE Reschedule
  <2>1. pc' = [pc EXCEPT ![k.cur] = "run"] /\ tgt' = [tgt EXCEPT ![k.cur] = k.cur]
    BY <1>2 DEF Reschedule, Goto, ForgetTarget, SetTarget
  <2> QED BY <1>1, <2>1
<1>3. CASE /\ op[k.cur] = "none"
           /\ SleepSchedule \/ SleepReturn \/ Exit \/ ExitSchedule \/ \E n \in Ticks : Sleep(n)
  <2>1. /\ tgt' = tgt
        /\ \E q \in {"sleep", "slept", "run", "exited", "dead"} : pc' = [pc EXCEPT ![k.cur] = q]
    BY <1>3 DEF SleepSchedule, SleepReturn, Exit, ExitSchedule, Sleep, Goto
  <2> QED BY <1>1, <1>3, <2>1
<1>4. CASE op[k.cur] = "none" /\ (IdleReap \/ IdleFree)
  <2>1. /\ \E q \in {"reap", "run"} : pc' = [pc EXCEPT ![k.cur] = q]
        /\ \E r : tgt' = [tgt EXCEPT ![k.cur] = r]
    BY <1>4, Zenon DEF IdleReap, IdleFree, Goto, ForgetTarget, SetTarget
  <2> QED BY <1>1, <1>4, <2>1
<1>5. CASE SysTick \/ TimerCheck \/ Yield \/ \E x \in Thread, p \in Prio : Control(x, p)
  BY <1>5 DEF SysTick, TimerCheck, Yield, Control
<1> QED BY <1>2, <1>3, <1>4, <1>5 DEF OrdinaryStep

\* The tick, the timeouts, the scheduler and the calls of the other threads.
LEMMA OrdinaryWq ==
  ASSUME WqInv, OrdinaryStep, op' = op, UNCHANGED <<work_list, work_current, pending, sync>>
  PROVE  WqInv'
<1>1. ListInv' /\ SystemEffect
  BY SystemLists DEF WqInv
<1>2. /\ IInv /\ WaitsOK(k) /\ k \in Kernel /\ Worker \in Thread /\ WqSem \in WaitList
  BY WqFacts
<1>3. \A w \in WaitList, t \in Thread : Contains(k'.wait[w], t) => Contains(k.wait[w], t)
  <2>1. CASE k'.wait = k.wait
    BY <2>1
  <2>2. CASE \E t \in Thread : k.stat[t] = "SUSPEND" /\ TakenOff(k, k', t, "ETIMEOUT")
    BY <1>2, <2>2, TakenOffWaits
  <2> QED BY <1>1, <2>1, <2>2 DEF SystemEffect
<1>4. ~Listed(k', Worker) /\ ~TimerActive(k', Worker)
  BY <1>1, <1>2, <1>3 DEF WqInv, WorkerPlaces, Listed, SystemEffect
<1>5. pc'[Worker] \in {"run", "sched"}
  BY <1>2, OrdinaryMoves DEF WqInv, WorkerPlaces
<1>6. ASSUME NEW t \in Thread, pc'[t] \in {"resume", "unlink", "insert"} PROVE tgt'[t] = Worker
  BY <1>2, <1>6, OrdinaryMoves DEF WqInv, WorkerPlaces
<1>7. WorkerPlaces'
  BY <1>4, <1>5, <1>6 DEF WqInv, WorkerPlaces
<1>8. Works' /\ Syncs'
  BY <1>2, <1>3, SyncsShrink DEF WqInv, Works
<1> QED BY <1>1, <1>7, <1>8 DEF WqInv

-----------------------------------------------------------------------------
(* rt_thread_resume of the worker.                                          *)

\* The worker is unlinked from no list, and nothing else changes for the queue.
LEMMA WorkerUnlinked ==
  ASSUME WqInv
  PROVE  WaitWithout(k, Worker) = k.wait
<1>1. k.wait \in [WaitList -> Seq(Thread)]
  BY WqFacts DEF Kernel
<1>2. \A w \in WaitList : Unlinked(k.wait[w], Worker) = k.wait[w]
  BY <1>1, UnlinkedAbsent DEF WqInv, WorkerPlaces, Listed
<1> QED BY <1>1, <1>2 DEF WaitWithout

\* The status of the worker is read.
LEMMA ResumeTestWq ==
  ASSUME Ordinary, WqInv, ResumeTest, OneResume, op' = op, op[k.cur] = "none"
  PROVE  IInv'
<1>0. PICK c \in Thread : c = k.cur
  BY WqFacts
<1>1. /\ IInv /\ k \in Kernel /\ c \in Thread /\ Worker \in Thread /\ c # Worker
      /\ pc \in [Thread -> Pc] /\ tgt \in [Thread -> Thread]
  BY <1>0, WqFacts DEF WqInv, WorkerPlaces
<1>2. /\ pc[c] = "resume" /\ tgt[c] = Worker /\ k' = k /\ tgt' = tgt /\ isr' = isr /\ isr = "none"
  BY <1>0, <1>1 DEF ResumeTest, At, WqInv, WorkerPlaces
<1>3. PICK q \in {"unlink", "sched"} :
        pc' = [pc EXCEPT ![c] = q] /\ (q = "unlink" => k.stat[Worker] = "SUSPEND")
  BY <1>0, <1>1, <1>2 DEF ResumeTest, Goto
<1>4. \A t \in Thread : pc'[t] = IF t = c THEN q ELSE pc[t]
  BY <1>1, <1>3
<1>5. TypeOK'
  BY <1>1, <1>2, <1>3 DEF TypeOK, Pc
<1>6. Places'
  <2>1. k.stat[c] \notin {"INIT", "CLOSE"}
    BY <1>1, <1>2 DEF IInv, Places
  <2> QED BY <1>1, <1>2, <1>4, <2>1 DEF IInv, Places
<1>7. ASSUME NEW d \in Thread, pc'[d] \in {"unlink", "insert"} PROVE d \in Resuming' /\ tgt'[d] = Worker
  <2>1. tgt[d] = Worker
    BY <1>2, <1>4, <1>7 DEF WqInv, WorkerPlaces
  <2>2. d # Worker
    BY <1>1, <1>4, <1>7 DEF WqInv, WorkerPlaces
  <2> QED BY <1>2, <1>7, <2>1, <2>2 DEF Resuming
<1>8. Started'
  <2> SUFFICES ASSUME NEW d \in Thread, Starting(d)'
               PROVE  /\ k'.stat[tgt'[d]] = "SUSPEND" /\ ~TimerActive(k', tgt'[d]) /\ tgt'[d] # k'.cur
                      /\ \A e \in Thread : Starting(e)' /\ tgt'[e] = tgt'[d] => e = d
    BY DEF Started
  <2>1. \A e \in Thread : Starting(e) <=> pc[e] \in {"unlink", "insert"}
    BY DEF Starting, Ordinary
  <2>2. \A e \in Thread : Starting(e)' <=> pc'[e] \in {"unlink", "insert"}
    BY DEF Starting, Ordinary
  <2>3. \A e \in Thread : Starting(e)' => e = d
    BY <1>7, <2>2 DEF OneResume
  <2>4. tgt'[d] = Worker
    BY <1>7, <2>2
  <2>5. CASE d = c
    <3>1. q = "unlink"
      BY <1>3, <1>4, <2>2, <2>5
    <3>2. ~TimerActive(k, Worker)
      BY DEF WqInv, WorkerPlaces
    <3> QED BY <1>0, <1>1, <1>2, <1>3, <2>3, <2>4, <3>1, <3>2
  <2>6. CASE d # c
    <3>1. Starting(d) /\ tgt[d] = Worker
      BY <1>2, <1>4, <2>1, <2>2, <2>4, <2>6
    <3> QED BY <1>1, <1>2, <2>3, <2>4, <3>1 DEF IInv, Started
  <2> QED BY <2>5, <2>6
<1>9. Reaping' /\ Defunct'
  <2>1. \A t \in Thread : (pc'[t] = "reap" <=> pc[t] = "reap")
                          /\ (pc'[t] \in {"exited", "dead"} <=> pc[t] \in {"exited", "dead"})
    BY <1>2, <1>4
  <2>2. \A t \in Thread : BeingFreed(t) => BeingFreed(t)'
    BY <1>2, <2>1, ThreadAssumption DEF BeingFreed
  <2> QED BY <1>1, <1>2, <2>1, <2>2 DEF IInv, Reaping, Defunct
<1>10. Running'
  <2>1. k.nest = 0 => k.stat[c] = "RUNNING"
    BY <1>0, <1>2 DEF WqInv, ListInv, IInv, Running
  <2> QED BY <1>0, <1>1, <1>2, <1>4, <2>1 DEF IInv, Running
<1>11. Ticking' /\ SleepEnds' /\ KernelOK(k')
  BY <1>1, <1>2, <1>4 DEF IInv, Ticking, SleepEnds
<1> QED BY <1>5, <1>6, <1>8, <1>9, <1>10, <1>11 DEF IInv

\* The three sections of rt_thread_resume.
LEMMA ResumeWq ==
  ASSUME Ordinary, WqInv, ResumeTest \/ ResumeRemove \/ ResumeInsert, OneResume, op' = op, op[k.cur] = "none",
         UNCHANGED <<work_list, work_current, pending, sync>>
  PROVE  WqInv'
<1>0. PICK c \in Thread : c = k.cur
  BY WqFacts
<1>1. /\ IInv /\ k \in Kernel /\ KernelOK(k) /\ c \in Thread /\ Worker \in Thread /\ c # Worker
      /\ pc \in [Thread -> Pc] /\ tgt \in [Thread -> Thread] /\ k.nest = 0 /\ WqSem \in WaitList
  BY <1>0, WqFacts DEF WqInv, WorkerPlaces
<1>2. /\ pc[c] \in {"resume", "unlink", "insert"} /\ tgt[c] = Worker /\ tgt' = tgt
  BY <1>0, <1>1 DEF ResumeTest, ResumeRemove, ResumeInsert, At, WqInv, WorkerPlaces
<1>3. PICK q : pc' = [pc EXCEPT ![c] = q]
  BY <1>0 DEF ResumeTest, ResumeRemove, ResumeInsert, Goto
<1>4. \A t \in Thread : pc'[t] = IF t = c THEN q ELSE pc[t]
  BY <1>1, <1>3
<1>5. /\ IInv' /\ k'.nest = 0 /\ k'.wait = k.wait /\ ~TimerActive(k', Worker)
      /\ \A t \in Thread \ {Worker} : k'.stat[t] = k.stat[t]
  <2>1. CASE ResumeTest
    BY <1>1, <2>1, ResumeTestWq DEF ResumeTest, WqInv, WorkerPlaces
  <2>2. CASE ResumeRemove
    <3>1. IInv' /\ k'.stat = k.stat /\ k'.nest = k.nest
      BY <1>1, <2>2, StartingStep
    <3>2. k' = rt_timer_stop(rt_list_remove(k, Worker), Worker) /\ pc' = [pc EXCEPT ![c] = "insert"]
      BY <1>0, <1>2, <2>2 DEF ResumeRemove, ResumeUnlink, Goto
    <3>3. Starting(c)'
      BY <1>1, <3>2 DEF Starting
    <3>4. ~TimerActive(k', Worker)
      BY <1>1, <1>2, <3>1, <3>3 DEF IInv, Started
    <3>5. k'.wait = k.wait
      <4>1. pc[c] = "unlink"
        BY <1>0, <2>2 DEF ResumeRemove, At
      <4>2. Starting(c)
        BY <4>1 DEF Starting
      <4>3. k.stat[Worker] = "SUSPEND"
        BY <1>1, <1>2, <4>2 DEF IInv, Started
      <4>4. rt_list_remove(k, Worker) \in Kernel
        BY <1>1, <4>3, ListRemoveOK DEF KernelOK
      <4> QED BY <1>1, <3>2, <4>4, WaitField, WorkerUnlinked
    <3> QED BY <1>1, <3>1, <3>4, <3>5
  <2>3. CASE ResumeInsert
    <3>1. IInv' /\ k'.nest = k.nest
      BY <1>1, <2>3, InsertStep
    <3>2. k' = rt_schedule_insert_thread(k, Worker) /\ pc[c] = "insert"
      BY <1>0, <1>2, <2>3 DEF ResumeInsert, At
    <3>3. k.stat[Worker] = "SUSPEND"
      BY <1>1, <1>2, <3>2 DEF IInv, Started, Starting
    <3>0. ~TimerActive(k, Worker)
      BY DEF WqInv, WorkerPlaces
    <3>4. /\ SameButQueues(k, k')
          /\ k'.stat = [k.stat EXCEPT ![Worker] = IF Worker = k.cur THEN "RUNNING" ELSE "READY"]
      BY <1>1, <3>0, <3>2, <3>3, InsertOK
    <3>5. k'.wait = k.wait
      BY <1>1, <3>2, WaitField
    <3>6. ~TimerActive(k', Worker)
      BY <3>0, <3>4 DEF SameButQueues, TimerActive
    <3>7. \A t \in Thread \ {Worker} : k'.stat[t] = k.stat[t]
      BY <1>1, <3>4 DEF Kernel
    <3> QED BY <1>1, <3>1, <3>5, <3>6, <3>7
  <2> QED BY <2>1, <2>2, <2>3
<1>6. WaitsOK(k')
  <2>1. \A w \in WaitList : ~Contains(k.wait[w], Worker)
    BY DEF WqInv, WorkerPlaces, Listed
  <2> QED BY <1>5, <2>1, WqFacts DEF WaitsOK
<1>7. WorkerPlaces'
  <2>1. ~Listed(k', Worker)
    BY <1>5 DEF Listed, WqInv, WorkerPlaces
  <2> QED BY <1>1, <1>2, <1>4, <1>5, <2>1 DEF WqInv, WorkerPlaces
<1>8. Works' /\ Syncs'
  BY <1>5, SyncsShrink DEF WqInv, Works
<1> QED BY <1>5, <1>6, <1>7, <1>8 DEF WqInv, ListInv

\* Every step of the scheduler.
LEMMA SystemWq ==
  ASSUME Ordinary, WqInv, SystemStep, OneResume, UNCHANGED <<work_list, work_current, pending, sync>>
  PROVE  WqInv'
<1>1. /\ op' = op
      /\ \/ OrdinaryStep
         \/ op[k.cur] = "none" /\ (ResumeTest \/ ResumeRemove \/ ResumeInsert)
  BY OrdinaryCases DEF WqInv, ListInv
<1> QED BY <1>1, OrdinaryWq, ResumeWq


-----------------------------------------------------------------------------
(* The worker.                                                              *)

\* The first element leaves a list.
LEMMA TailElements ==
  ASSUME NEW S, NEW s \in Seq(S), s # << >>, IsInjective(s)
  PROVE  /\ Head(s) \in S /\ Head(s) \in ToSet(s)
         /\ Tail(s) \in Seq(S) /\ IsInjective(Tail(s)) /\ ToSet(Tail(s)) = ToSet(s) \ {Head(s)}
<1>1. /\ Len(s) \in Nat \ {0} /\ Head(s) = s[1] /\ s[1] \in S
      /\ Tail(s) \in Seq(S) /\ Len(Tail(s)) = Len(s) - 1
      /\ \A i \in 1 .. Len(s) - 1 : Tail(s)[i] = s[i + 1]
  <2>1. Len(s) \in Nat \ {0} /\ Head(s) = s[1]
    OBVIOUS
  <2>2. s[1] \in S /\ Tail(s) \in Seq(S) /\ Len(Tail(s)) = Len(s) - 1
    BY <2>1
  <2>3. \A i \in 1 .. Len(s) - 1 : Tail(s)[i] = s[i + 1]
    BY <2>2, HeadTailProperties
  <2> QED BY <2>1, <2>2, <2>3
<1>2. \A i, j \in 1 .. Len(s) : s[i] = s[j] => i = j
  BY <1>1 DEF IsInjective
<1> DEFINE r == Tail(s)
<1>3. \A x : /\ x \in ToSet(s) <=> \E i \in 1 .. Len(s) : s[i] = x
             /\ x \in ToSet(r) <=> \E i \in 1 .. Len(s) - 1 : r[i] = x
  <2>1. DOMAIN s = 1 .. Len(s) /\ DOMAIN r = 1 .. Len(s) - 1
    BY <1>1
  <2> HIDE DEF r
  <2> QED BY <2>1 DEF ToSet
<1> HIDE DEF r
<1>4. IsInjective(r)
  <2>1. \A i, j \in 1 .. Len(r) : r[i] = r[j] => i = j
    BY <1>1, <1>2 DEF r
  <2>2. DOMAIN r = 1 .. Len(r)
    BY <1>1 DEF r
  <2> QED BY <2>1, <2>2 DEF IsInjective
<1>5. \A i \in 1 .. Len(s) - 1 : r[i] = s[i + 1]
  BY <1>1 DEF r
<1>6. ASSUME NEW x PROVE x \in ToSet(r) <=> x \in ToSet(s) \ {Head(s)}
  <2>1. ASSUME NEW i \in 1 .. Len(s) - 1, x = r[i] PROVE x \in ToSet(s) \ {Head(s)}
    <3>1. x = s[i + 1] /\ i + 1 \in 1 .. Len(s) /\ 1 \in 1 .. Len(s) /\ i + 1 # 1
      BY <1>1, <1>5, <2>1
    <3>2. x # s[1]
      BY <1>2, <3>1
    <3> QED BY <1>1, <1>3, <3>1, <3>2
  <2>2. ASSUME NEW j \in 1 .. Len(s), x = s[j], x # Head(s) PROVE x \in ToSet(r)
    <3>1. j - 1 \in 1 .. Len(s) - 1 /\ (j - 1) + 1 = j
      BY <1>1, <2>2
    <3>2. r[j - 1] = x
      BY <1>5, <2>2, <3>1
    <3> QED BY <1>3, <3>1, <3>2
  <2>3. x \in ToSet(r) => x \in ToSet(s) \ {Head(s)}
    BY <1>3, <2>1
  <2>4. x \in ToSet(s) \ {Head(s)} => x \in ToSet(r)
    BY <1>3, <2>2
  <2> QED BY <2>3, <2>4
<1>7. Head(s) \in ToSet(s)
  BY <1>1, <1>3
<1> QED BY <1>1, <1>4, <1>6, <1>7 DEF r

\* Nothing happens to the kernel.
LEMMA KernelSame ==
  ASSUME ListInv, k' = k, pc' = pc, tgt' = tgt, isr' = isr
  PROVE  ListInv'
BY StutterOK DEF ListInv, vars, WaitsOK

\* The steps of the worker that the kernel does not see.
LEMMA WorkerSteps ==
  ASSUME WqInv, WorkerTest \/ WorkerTake \/ WorkerDone
  PROVE  WqInv'
<1>1. /\ k' = k /\ pc' = pc /\ tgt' = tgt /\ isr' = isr /\ sync' = sync
      /\ \E p \in {"suspend", "take", "work", "ack"} : op' = [op EXCEPT ![k.cur] = p]
  BY DEF WorkerTest, WorkerTake, WorkerDone, Then_return, Enter
<1>2. op[k.cur] \in {"test", "take", "work"}
  BY DEF WorkerTest, WorkerTake, WorkerDone, Inside
<1>3. k.cur = Worker /\ Worker \in Thread
  BY <1>2, WqFacts DEF WqInv, WorkerPlaces
<1>4. ListInv'
  BY <1>1, KernelSame DEF WqInv
<1>5. WorkerPlaces'
  <2>1. PICK p \in {"suspend", "take", "work", "ack"} : op' = [op EXCEPT ![Worker] = p]
    BY <1>1, <1>3
  <2> QED BY <1>1, <1>3, <2>1 DEF WqInv, WorkerPlaces, Listed
<1>6. Works' /\ Syncs'
  <2>1. CASE WorkerTest
    <3>1. op[Worker] = "test" /\ op'[Worker] \in {"suspend", "take"}
      BY <1>3, <2>1 DEF WorkerTest, Inside, Then_return, Enter, WqInv, WorkerPlaces
    <3>2. UNCHANGED <<work_list, work_current, pending>>
      BY <2>1 DEF WorkerTest
    <3> QED BY <1>1, <3>1, <3>2, NullAssumption DEF WqInv, Works, Syncs
  <2>2. CASE WorkerTake
    <3>1. op[Worker] = "take" /\ op'[Worker] = "work"
      BY <1>3, <2>2 DEF WorkerTake, Inside, Then_return, Enter, WqInv, WorkerPlaces
    <3>2. /\ work_list # << >> /\ work_list' = Tail(work_list) /\ work_current' = Head(work_list)
          /\ pending' = pending \ {Head(work_list)}
      BY <2>2 DEF WorkerTake
    <3>3. work_list \in Seq(Work) /\ IsInjective(work_list) /\ pending = ToSet(work_list)
      BY DEF WqInv, Works
    <3>4. /\ Head(work_list) \in Work
          /\ Tail(work_list) \in Seq(Work) /\ IsInjective(Tail(work_list))
          /\ ToSet(Tail(work_list)) = ToSet(work_list) \ {Head(work_list)}
      BY <3>2, <3>3, TailElements
    <3>5. Works'
      BY <3>1, <3>2, <3>3, <3>4, NullAssumption DEF Works
    <3>6. \A t \in Thread : ~Contains(k.wait[WqSem], t)
      BY <3>1, NullAssumption DEF WqInv, Works, Syncs
    <3> QED BY <1>1, <3>5, <3>6 DEF WqInv, Syncs
  <2>3. CASE WorkerDone
    <3>1. op[Worker] = "work" /\ op'[Worker] = "ack"
      BY <1>3, <2>3 DEF WorkerDone, Inside, Then_return, Enter, WqInv, WorkerPlaces
    <3>2. work_current' = NULL /\ UNCHANGED <<work_list, pending>>
      BY <2>3 DEF WorkerDone
    <3>3. NULL \notin pending
      <4>1. work_list \in Seq(Work) /\ pending = ToSet(work_list)
        BY DEF WqInv, Works
      <4>2. pending \subseteq Work
        BY <4>1 DEF ToSet
      <4> QED BY <4>2, NullAssumption
    <3> QED BY <1>1, <3>1, <3>2, <3>3 DEF WqInv, Works, Syncs
  <2> QED BY <2>1, <2>2, <2>3
<1> QED BY <1>4, <1>5, <1>6 DEF WqInv

\* A section of the worker with a rt_schedule after it.
LEMMA WorkerSchedules ==
  ASSUME Ordinary, WqInv, k.cur = Worker, At("run"), NEW b, KernelOK(b), Gentle(k, b), b.cur = k.cur,
         WaitsOK(b), NEW p \in {"test", "take"}, Then_schedule(b, p),
         ~TimerActive(b, Worker), ~Listed(b, Worker)
  PROVE  ListInv' /\ WorkerPlaces'
<1>1. /\ IInv /\ k.nest = 0 /\ k \in Kernel /\ Worker \in Thread /\ pc \in [Thread -> Pc]
      /\ isr = "none" /\ pc[k.cur] = "run"
  BY WqFacts DEF At
<1>2. /\ k' = b /\ op' = [op EXCEPT ![Worker] = p] /\ pc' = [pc EXCEPT ![Worker] = "sched"]
      /\ tgt' = tgt /\ isr' = isr
  BY DEF Then_schedule, Enter, Goto
<1>3. Started'
  <2>1. \A t \in Thread : pc'[t] \notin {"unlink", "insert"}
    BY <1>1, <1>2, WorkerRuns
  <2> QED BY <2>1 DEF Started, Starting, Ordinary
<1>4. pc'[k'.cur] = "sched"
  BY <1>1, <1>2
<1>5. IInv'
  BY <1>1, <1>2, <1>3, <1>4, GentleStep
<1>6. ListInv'
  BY <1>1, <1>2, <1>5 DEF ListInv, Gentle
<1>7. WorkerPlaces'
  BY <1>1, <1>2 DEF WqInv, WorkerPlaces
<1> QED BY <1>6, <1>7

\* The worker waits for work.
LEMMA SuspendWq ==
  ASSUME Ordinary, WqInv, WorkerSuspend
  PROVE  WqInv'
<1>1. /\ At("run") /\ op[k.cur] = "suspend" /\ UNCHANGED <<work_list, work_current, pending, sync>>
      /\ Then_schedule(SuspendThread(k, k.cur), "take")
  BY DEF WorkerSuspend, Inside
<1>2. k.cur = Worker /\ Worker \in Thread /\ Worker # Idle
  BY <1>1, WqFacts DEF WqInv, WorkerPlaces
<1>3. /\ KernelOK(k) /\ k \in Kernel /\ k.stat[k.cur] = "RUNNING" /\ WaitsOK(k)
      /\ IsInjective(k.defunct) /\ ~Contains(k.defunct, k.cur) /\ WqSem \in WaitList
  BY <1>1, RunningThread, WqFacts DEF WqInv
<1> DEFINE b == rt_thread_suspend(k, k.cur)
<1>4. SuspendThread(k, k.cur) = b
  BY <1>3 DEF rt_thread_suspend
<1>5. /\ KernelOK(b) /\ b.cur = k.cur /\ b.nest = k.nest
      /\ b.stat = [k.stat EXCEPT ![k.cur] = "SUSPEND"]
      /\ b.defunct = Unlinked(k.defunct, k.cur) /\ b.wait = k.wait
      /\ \A x \in Thread : TimerActive(b, x) <=> TimerActive(k, x)
  BY <1>2, <1>3, SuspendSelfOK
<1> HIDE DEF b
<1>6. b.defunct = k.defunct
  BY <1>3, <1>5, UnlinkedAbsent
<1>7. \A t \in Thread : b.stat[t] = IF t = k.cur THEN "SUSPEND" ELSE k.stat[t]
  BY <1>3, <1>5 DEF Kernel
<1>8. Gentle(k, b)
  BY <1>3, <1>5, <1>6, <1>7 DEF Gentle
<1>9. WaitsOK(b) /\ ~Listed(b, Worker) /\ ~TimerActive(b, Worker)
  BY <1>2, <1>3, <1>5, <1>7 DEF WaitsOK, Listed, WqInv, WorkerPlaces
<1>10. ListInv' /\ WorkerPlaces'
  BY <1>1, <1>2, <1>4, <1>5, <1>8, <1>9, WorkerSchedules
<1>11. op' = [op EXCEPT ![Worker] = "take"] /\ k' = b
  BY <1>1, <1>2, <1>4 DEF Then_schedule, Enter
<1>12. op[Worker] = "suspend" /\ op'[Worker] = "take"
  BY <1>1, <1>2, <1>11 DEF WqInv, WorkerPlaces
<1>13. Works' /\ Syncs'
  BY <1>1, <1>5, <1>11, <1>12 DEF WqInv, Works, Syncs
<1> QED BY <1>10, <1>13 DEF WqInv


-----------------------------------------------------------------------------
(* The acknowledgement.                                                     *)

\* The loop of _workqueue_work_completion has a kernel for each of its releases.
LEMMA ReleasesDefined ==
  ASSUME NEW a, NEW s, Len(s) \in Nat
  PROVE  LET f == ReleaseTurns(a, s) IN
         f[0] = a /\ \A i \in 1 .. Len(s) : f[i] = rt_thread_resume(f[i - 1], s[i])
<1> DEFINE Turns(f, n) == f = [i \in 0 .. n |-> IF i = 0 THEN a ELSE rt_thread_resume(f[i - 1], s[i])]
           Bad == {n \in Nat : ~\E f : Turns(f, n)}
<1>1. Bad = {}
  <2> SUFFICES ASSUME Bad # {} PROVE FALSE
    OBVIOUS
  <2> DEFINE m == Min(Bad)
  <2>1. m \in Bad /\ \A n \in Bad : m <= n
    <3> HIDE DEF Bad
    <3>1. Bad \subseteq Nat
      BY DEF Bad
    <3> QED BY <3>1, NatLeast
  <2> HIDE DEF m
  <2>2. m # 0
    <3>1. Turns([i \in 0 .. 0 |-> a], 0)
      OBVIOUS
    <3> QED BY <2>1, <3>1
  <2>3. m \in Nat /\ m - 1 \in Nat /\ m - 1 \notin Bad
    BY <2>1, <2>2, SMTT(30)
  <2>4. PICK f : Turns(f, m - 1)
    BY <2>3
  <2> DEFINE g == [i \in 0 .. m |-> IF i = m THEN rt_thread_resume(f[m - 1], s[m]) ELSE f[i]]
  <2>5. \A i \in 0 .. m - 1 : f[i] = IF i = 0 THEN a ELSE rt_thread_resume(f[i - 1], s[i])
    BY <2>4
  <2>6. \A i \in 0 .. m - 1 : g[i] = f[i]
    BY <2>3
  <2>7. ASSUME NEW i \in 0 .. m
        PROVE  g[i] = IF i = 0 THEN a ELSE rt_thread_resume(g[i - 1], s[i])
    <3>1. CASE i = m
      <4>1. m - 1 \in 0 .. m - 1
        BY <2>3
      <4>2. g[m] = rt_thread_resume(f[m - 1], s[m])
        BY <2>3
      <4>3. g[m - 1] = f[m - 1]
        BY <2>6, <4>1
      <4> HIDE DEF g
      <4> QED BY <2>2, <3>1, <4>2, <4>3
    <3>2. CASE i # m
      <4>1. i \in 0 .. m - 1 /\ (i # 0 => i - 1 \in 0 .. m - 1)
        BY <2>3, <3>2
      <4>2. g[i] = f[i] /\ (i # 0 => g[i - 1] = f[i - 1])
        BY <2>6, <4>1
      <4> HIDE DEF g
      <4> QED BY <2>5, <4>1, <4>2
    <3> QED BY <3>1, <3>2
  <2>8. Turns(g, m)
    <3>1. g = [i \in 0 .. m |-> g[i]]
      OBVIOUS
    <3> HIDE DEF g
    <3> QED BY <2>7, <3>1
  <2> QED BY <2>1, <2>8
<1>2. \E f : Turns(f, Len(s))
  BY <1>1
<1>3. Turns(ReleaseTurns(a, s), Len(s))
  <2>1. ReleaseTurns(a, s) = CHOOSE f : Turns(f, Len(s))
    BY DEF ReleaseTurns
  <2> HIDE DEF Turns
  <2> QED BY <1>2, <2>1
<1> DEFINE h == ReleaseTurns(a, s)
<1>4. h = [i \in 0 .. Len(s) |-> IF i = 0 THEN a ELSE rt_thread_resume(h[i - 1], s[i])]
  BY <1>3
<1> HIDE DEF h
<1> QED BY <1>4 DEF h

\* From kernel a to kernel b threads are resumed, no timer is started, and of list w, s is left.
Woken(a, b, w, i) ==
  /\ Resumes(a, b) /\ b.defunct = a.defunct
  /\ \A t \in Thread : /\ TimerActive(b, t) => TimerActive(a, t)
                       /\ (\A j \in 1 .. i : a.wait[w][j] # t) => b.stat[t] = a.stat[t]
                       /\ Contains(b.wait[w], t) =>
                            \E j \in i + 1 .. Len(a.wait[w]) : a.wait[w][j] = t

\* After i releases the first i threads of the list are ready, and nobody else
\* is disturbed: at the end the list is empty.
LEMMA ReleaseAllOK ==
  ASSUME NEW a, KernelOK(a), WaitsOK(a), \A t \in Thread : Contains(a.defunct, t) => a.stat[t] # "SUSPEND",
         NEW w \in WaitList
  PROVE  LET b == ReleaseAll(a, w) IN
         /\ Resumes(a, b) /\ \A t \in Thread : ~Contains(b.wait[w], t)
         /\ \A t \in Thread : TimerActive(b, t) => TimerActive(a, t)
<1> DEFINE s == a.wait[w]
           f == ReleaseTurns(a, s)
<1>1. /\ a \in Kernel /\ s \in Seq(Thread) /\ Len(s) \in Nat /\ IsInjective(s)
      /\ \A t \in Thread : Contains(s, t) => a.stat[t] = "SUSPEND"
  <2>1. a \in Kernel /\ IsInjective(s) /\ \A t \in Thread : Contains(s, t) => a.stat[t] = "SUSPEND"
    BY DEF KernelOK, WaitsOK
  <2>2. s \in Seq(Thread) /\ Len(s) \in Nat
    BY <2>1 DEF Kernel
  <2> QED BY <2>1, <2>2
<1>2. f[0] = a /\ \A i \in 1 .. Len(s) : f[i] = rt_thread_resume(f[i - 1], s[i])
  BY <1>1, ReleasesDefined
<1> DEFINE Turn(i) == Woken(a, f[i], w, i)
<1> HIDE DEF f, s
<1>3. Turn(0)
  <2>1. Resumes(a, a)
    BY SameWaitsResumes
  <2>2. \A t : Contains(s, t) => \E j \in 0 + 1 .. Len(s) : s[j] = t
    BY DEF Contains
  <2> QED BY <1>2, <2>1, <2>2 DEF Woken, s
<1>4. ASSUME NEW i \in 1 .. Len(s), Turn(i - 1) PROVE Turn(i)
  <2> DEFINE c == f[i - 1]
             t == s[i]
             b == f[i]
  <2>0. b = rt_thread_resume(c, t)
    BY <1>2
  <2> HIDE DEF b, c
  <2>1. t \in Thread /\ Contains(s, t) /\ \A j, l \in 1 .. Len(s) : s[j] = s[l] => j = l
    BY <1>1 DEF Contains, IsInjective
  <2>2. /\ Resumes(a, c) /\ c.defunct = a.defunct
        /\ \A x \in Thread : /\ TimerActive(c, x) => TimerActive(a, x)
                             /\ (\A j \in 1 .. i - 1 : s[j] # x) => c.stat[x] = a.stat[x]
                             /\ Contains(c.wait[w], x) => \E j \in i .. Len(s) : s[j] = x
    <3>1. i - 1 + 1 = i
      BY <1>1
    <3> QED BY <1>4, <3>1 DEF Woken, s, c
  <2>3. \A j \in 1 .. i - 1 : s[j] # t
    BY <1>1, <2>1
  <2>4. c.stat[t] = "SUSPEND" /\ ~Contains(c.defunct, t)
    BY <1>1, <2>1, <2>2, <2>3
  <2>5. KernelOK(c) /\ WaitsOK(c) /\ c \in Kernel
    BY <2>2 DEF Resumes, Shrunk, KernelOK
  <2>6. /\ Resumes(c, b) /\ TakenOff(c, b, t, c.error[t])
        /\ b.defunct = c.defunct /\ \A x \in Thread \ {t} : b.stat[x] = c.stat[x]
    <3> HIDE DEF t
    <3> QED BY <2>0, <2>1, <2>4, <2>5, ResumeResumes
  <2>7. \A x \in Thread : Contains(b.wait[w], x) <=> Contains(c.wait[w], x) /\ x # t
    <3> HIDE DEF t
    <3> QED BY <2>1, <2>5, <2>6, TakenOffWaits
  <2>8. Resumes(a, b) /\ b.defunct = a.defunct
    BY <2>2, <2>6, ResumesThen
  <2>9. ASSUME NEW x \in Thread
        PROVE  /\ TimerActive(b, x) => TimerActive(a, x)
               /\ (\A j \in 1 .. i : s[j] # x) => b.stat[x] = a.stat[x]
               /\ Contains(b.wait[w], x) => \E j \in i + 1 .. Len(s) : s[j] = x
    <3>1. TimerActive(b, x) => TimerActive(a, x)
      BY <2>2, <2>6 DEF TakenOff
    <3>2. ASSUME \A j \in 1 .. i : s[j] # x PROVE b.stat[x] = a.stat[x]
      <4>1. x # t /\ \A j \in 1 .. i - 1 : s[j] # x
        BY <1>1, <3>2
      <4> QED BY <2>2, <2>6, <4>1
    <3>3. ASSUME Contains(b.wait[w], x) PROVE \E j \in i + 1 .. Len(s) : s[j] = x
      <4>1. x # t /\ \E j \in i .. Len(s) : s[j] = x
        BY <2>2, <2>7, <3>3
      <4>2. PICK j \in i .. Len(s) : s[j] = x
        BY <4>1
      <4>3. j \in i + 1 .. Len(s)
        BY <1>1, <4>1, <4>2
      <4> QED BY <4>2, <4>3
    <3> QED BY <3>1, <3>2, <3>3
  <2> QED BY <2>8, <2>9 DEF Woken, s, b
<1>5. \A i \in 0 .. Len(s) : Turn(i)
  <2> HIDE DEF Turn
  <2> DEFINE Bad == {i \in 0 .. Len(s) : ~Turn(i)}
  <2> SUFFICES ASSUME Bad # {} PROVE FALSE
    OBVIOUS
  <2> DEFINE m == Min(Bad)
  <2>1. m \in Bad /\ \A n \in Bad : m <= n
    <3> HIDE DEF Bad
    <3>1. Bad \subseteq Nat
      BY <1>1 DEF Bad
    <3> QED BY <3>1, NatLeast
  <2> HIDE DEF m
  <2>2. m # 0
    BY <1>3, <2>1
  <2>3. m \in 1 .. Len(s) /\ m - 1 \in 0 .. Len(s) /\ m - 1 \notin Bad
    BY <1>1, <2>1, <2>2
  <2> QED BY <1>4, <2>1, <2>3
<1> DEFINE n == Len(s)
<1>6. Woken(a, f[n], w, n)
  BY <1>1, <1>5
<1>7. f[n] = ReleaseAll(a, w)
  BY DEF ReleaseAll, f, s
<1>8. n + 1 .. n = {}
  BY <1>1
<1> HIDE DEF n
<1> QED BY <1>6, <1>7, <1>8 DEF Woken, s, n

\* The worker acknowledges the end of a work.
LEMMA AckWq ==
  ASSUME Ordinary, WqInv, WorkerAck
  PROVE  WqInv'
<1>1. /\ At("run") /\ op[k.cur] = "ack" /\ UNCHANGED <<work_list, work_current, pending>>
      /\ sync' = [t \in Thread |-> IF Waiting(WqSem, t) THEN NULL ELSE sync[t]]
      /\ Then_schedule(ReleaseAll(k, WqSem), "test")
  BY DEF WorkerAck, Inside
<1>2. k.cur = Worker /\ Worker \in Thread
  BY <1>1, WqFacts DEF WqInv, WorkerPlaces
<1>3. KernelOK(k) /\ WaitsOK(k) /\ WqSem \in WaitList
  BY WqFacts
<1>4. \A t \in Thread : Contains(k.defunct, t) => k.stat[t] # "SUSPEND"
  BY WqFacts
<1> DEFINE b == ReleaseAll(k, WqSem)
<1>5. /\ Resumes(k, b) /\ \A t \in Thread : ~Contains(b.wait[WqSem], t)
      /\ \A t \in Thread : TimerActive(b, t) => TimerActive(k, t)
  BY <1>3, <1>4, ReleaseAllOK
<1> HIDE DEF b
<1>6. /\ KernelOK(b) /\ Gentle(k, b) /\ b.cur = k.cur /\ WaitsOK(b)
      /\ ~TimerActive(b, Worker) /\ ~Listed(b, Worker)
  BY <1>2, <1>5 DEF Resumes, Shrunk, WqInv, WorkerPlaces
<1>7. ListInv' /\ WorkerPlaces'
  BY <1>1, <1>2, <1>6, WorkerSchedules DEF b
<1>8. k' = b /\ op' = [op EXCEPT ![Worker] = "test"]
  BY <1>1, <1>2 DEF Then_schedule, Enter, b
<1>9. op[Worker] = "ack" /\ op'[Worker] = "test"
  BY <1>1, <1>2, <1>8 DEF WqInv, WorkerPlaces
<1>10. Works' /\ Syncs'
  BY <1>1, <1>5, <1>8, <1>9 DEF WqInv, Works, Syncs
<1> QED BY <1>7, <1>10 DEF WqInv


-----------------------------------------------------------------------------
(* Submit and cancel.                                                       *)

\* Nothing happens to the kernel and to the places of the threads.
LEMMA QueueOnly ==
  ASSUME WqInv, NoKernelStep
  PROVE  ListInv' /\ WorkerPlaces' /\ op' = op /\ k' = k
<1>1. k' = k /\ pc' = pc /\ tgt' = tgt /\ isr' = isr /\ op' = op
  BY DEF NoKernelStep
<1>2. ListInv'
  BY <1>1, KernelSame DEF WqInv
<1>3. WorkerPlaces'
  BY <1>1 DEF WqInv, WorkerPlaces, Listed
<1> QED BY <1>1, <1>2, <1>3

\* The calls that only touch the queue, and those that go on to resume the worker.
LEMMA SubmitWq ==
  ASSUME Ordinary, WqInv, NEW w \in Work, Submit(w) \/ Cancel(w)
  PROVE  WqInv'
<1>1. CASE Cancel(w)
  <2>1. /\ NoKernelStep /\ work_list' = Without(w) /\ pending' = pending \ {w}
        /\ UNCHANGED <<work_current, sync>>
    BY <1>1 DEF Cancel
  <2>2. ListInv' /\ WorkerPlaces' /\ op' = op /\ k' = k
    BY <2>1, QueueOnly
  <2>3. Works'
    BY <2>1, <2>2, CancelledWorks
  <2>4. Syncs'
    BY <2>1, <2>2, SyncsShrink
  <2> QED BY <2>2, <2>3, <2>4 DEF WqInv
<1>2. CASE Submit(w) /\ work_current # NULL
  <2>1. NoKernelStep /\ Queued(w)
    BY <1>2 DEF Submit
  <2>2. ListInv' /\ WorkerPlaces' /\ op' = op /\ k' = k
    BY <2>1, QueueOnly
  <2>3. Works' /\ work_current' = work_current /\ sync' = sync
    BY <2>1, <2>2, QueuedWorks
  <2>4. Syncs'
    BY <2>2, <2>3, SyncsShrink
  <2> QED BY <2>2, <2>3, <2>4 DEF WqInv
<1>3. CASE Submit(w) /\ work_current = NULL
  <2>0. PICK c \in Thread : c = k.cur
    BY WqFacts
  <2>1. /\ Queued(w) /\ At("run") /\ op[c] \in {"none", "work"}
        /\ pc' = [pc EXCEPT ![c] = "resume"] /\ tgt' = [tgt EXCEPT ![c] = Worker]
        /\ k' = k /\ isr' = isr /\ op' = op
    BY <1>3, <2>0 DEF Submit, Caller, Outside, Inside, Goto, SetTarget
  <2>2. c # Worker /\ op[c] = "none"
    BY <1>3, <2>1 DEF WqInv, WorkerPlaces, Works
  <2>3. /\ KernelOK(k) /\ k \in Kernel /\ k.stat[c] = "RUNNING" /\ isr = "none" /\ pc[c] = "run"
        /\ Worker \in Thread /\ IInv /\ k.nest = 0 /\ WaitsOK(k)
        /\ pc \in [Thread -> Pc] /\ tgt \in [Thread -> Thread]
    BY <2>0, <2>1, RunningThread, WqFacts DEF WqInv
  <2>4. IInv'
    <3>1. Harmless(k, k') /\ KernelOK(k') /\ Ticking'
      BY <2>1, <2>3 DEF Harmless, Ticking
    <3>2. "resume" \in Neutral /\ "run" \in Neutral /\ "resume" \in Pc
      BY DEF Neutral, Ordinary, Pc
    <3>3. k'.nest \in Nat /\ pc'[k'.cur] = "resume" /\ k'.stat[k'.cur] = "RUNNING"
      BY <2>0, <2>1, <2>3
    <3> DEFINE q == "resume"
    <3>4. /\ q \in Pc /\ q \in Neutral /\ pc[k.cur] \in Neutral /\ q \notin {"sleep", "slept"}
          /\ pc' = [pc EXCEPT ![k.cur] = q] /\ tgt' = [tgt EXCEPT ![k.cur] = Worker]
          /\ pc'[k'.cur] # "exited" /\ isr' \in {"none", "timer"}
      BY <2>0, <2>1, <2>3, <3>2, <3>3
    <3> HIDE DEF q
    <3> QED BY <2>3, <3>1, <3>3, <3>4, QuietStep
  <2>5. ListInv'
    BY <2>1, <2>3, <2>4 DEF ListInv
  <2>6. WorkerPlaces'
    BY <2>1, <2>2, <2>3 DEF WqInv, WorkerPlaces, Listed
  <2>7. Works' /\ work_current' = work_current /\ sync' = sync
    BY <2>1, QueuedWorks
  <2>8. Syncs'
    BY <2>1, <2>7, SyncsShrink
  <2> QED BY <2>5, <2>6, <2>7, <2>8 DEF WqInv
<1> QED BY <1>1, <1>2, <1>3

\* rt_workqueue_dowork in an interrupt handler.
LEMMA IrqSubmitWq ==
  ASSUME Ordinary, WqInv, NEW w \in Work, IrqSubmit(w)
  PROVE  WqInv'
<1>1. CASE Queued(w) /\ NoKernelStep
  <2>1. ListInv' /\ WorkerPlaces' /\ op' = op /\ k' = k
    BY <1>1, QueueOnly
  <2>2. Works' /\ work_current' = work_current /\ sync' = sync
    BY <1>1, <2>1, QueuedWorks
  <2>3. Syncs'
    BY <2>1, <2>2, SyncsShrink
  <2> QED BY <2>1, <2>2, <2>3 DEF WqInv
<1>2. CASE Queued(w) /\ Resuming = {} /\ Interrupt(rt_schedule(rt_thread_resume(k, Worker)))
  <2> DEFINE u == rt_thread_resume(k, Worker)
  <2>1. /\ isr = "none" /\ k' = rt_schedule(u) /\ pc' = pc /\ tgt' = tgt /\ isr' = isr /\ op' = op
    BY <1>2 DEF Interrupt
  <2>2. /\ KernelOK(k) /\ WaitsOK(k) /\ k \in Kernel /\ IInv /\ k.nest = 0 /\ Worker \in Thread
        /\ WqSem \in WaitList /\ k.cur \in Thread
    BY WqFacts
  <2>3. /\ Resumes(k, u) /\ \A t \in Thread : TimerActive(u, t) => TimerActive(k, t)
        /\ \A v \in WaitList, t \in Thread : Contains(u.wait[v], t) => Contains(k.wait[v], t)
    <3>1. CASE k.stat[Worker] = "SUSPEND"
      <4>1. ~Contains(k.defunct, Worker)
        BY <3>1, WqFacts
      <4>2. Resumes(k, u) /\ TakenOff(k, u, Worker, k.error[Worker])
        BY <2>2, <3>1, <4>1, ResumeResumes
      <4> HIDE DEF u
      <4>3. \A v \in WaitList, t \in Thread : Contains(u.wait[v], t) => Contains(k.wait[v], t)
        BY <2>2, <4>2, TakenOffWaits
      <4> QED BY <4>2, <4>3 DEF TakenOff
    <3>2. CASE k.stat[Worker] # "SUSPEND"
      <4>1. u = k
        BY <3>2 DEF rt_thread_resume
      <4> QED BY <2>2, <4>1, SameWaitsResumes
    <3> QED BY <3>1, <3>2
  <2> HIDE DEF u
  <2>4. /\ KernelOK(k') /\ Gentle(k, k') /\ Shrunk(k, k') /\ SameWaits(u, k') /\ Preempts(k')
    BY <2>1, <2>2, <2>3, ScheduleGentle
  <2>5. Started'
    <3>1. ASSUME NEW t \in Thread, pc[t] \in {"unlink", "insert"} PROVE FALSE
      <4>1. tgt[t] = Worker /\ t # Worker
        BY <3>1 DEF WqInv, WorkerPlaces
      <4> QED BY <1>2, <3>1, <4>1 DEF Resuming
    <3> QED BY <2>1, <3>1 DEF Started, Starting, Ordinary
  <2>6. IInv'
    <3>1. k'.stat[k.cur] = "SUSPEND" => k.stat[k.cur] = "SUSPEND"
      BY <2>2, <2>4 DEF Shrunk
    <3>2. k'.stat[k'.cur] = "RUNNING"
      BY <2>4 DEF Preempts
    <3> QED BY <2>1, <2>2, <2>4, <2>5, <3>1, <3>2, GentleStep
  <2>7. ListInv'
    BY <2>2, <2>4, <2>6 DEF ListInv, Gentle, Shrunk
  <2>8. WorkerPlaces'
    <3>1. ~Listed(k', Worker) /\ ~TimerActive(k', Worker)
      BY <2>2, <2>3, <2>4 DEF WqInv, WorkerPlaces, Shrunk, SameWaits
    <3> QED BY <2>1, <3>1 DEF WqInv, WorkerPlaces
  <2>9. Works' /\ work_current' = work_current /\ sync' = sync
    BY <1>2, <2>1, QueuedWorks
  <2>10. Syncs'
    <3>1. k'.wait = u.wait
      BY <2>4 DEF SameWaits
    <3> QED BY <2>1, <2>2, <2>3, <2>9, <3>1, SyncsShrink
  <2> QED BY <2>7, <2>8, <2>9, <2>10 DEF WqInv
<1> QED BY <1>1, <1>2 DEF IrqSubmit

\* rt_schedule after the current thread has suspended itself.
LEMMA GentleSchedule ==
  ASSUME NEW a, NEW u, KernelOK(a), KernelOK(u), WaitsOK(u), Gentle(a, u), u.cur = a.cur, a.nest = 0
  PROVE  LET b == rt_schedule(u) IN
         KernelOK(b) /\ Gentle(a, b) /\ WaitsOK(b) /\ SameWaits(u, b) /\ Preempts(b)
<1> DEFINE b == rt_schedule(u)
<1>1. /\ KernelOK(b) /\ Undisturbed(u, b) /\ Preempts(b)
  <2>1. u.nest = 0
    BY DEF Gentle
  <2> QED BY <2>1, ScheduleOK
<1>2. SameWaits(u, b) /\ WaitsOK(b)
  BY ScheduleWaits
<1> HIDE DEF b
<1>3. /\ u.stat \in [Thread -> Stat] /\ b.cur \in Thread
      /\ a.stat \in [Thread -> Stat] /\ b.stat \in [Thread -> Stat]
  BY <1>1 DEF KernelOK, Kernel
<1>4. b.cur = a.cur \/ a.stat[b.cur] \in {"READY", "SUSPEND"}
  <2>1. b.cur = u.cur \/ u.stat[b.cur] \in {"READY", "SUSPEND"}
    BY <1>1, <1>3 DEF Undisturbed, Harmless, KernelOK, TimersOK
  <2>2. CASE u.stat[b.cur] \in {"READY", "SUSPEND"}
    <3>1. a.stat[b.cur] \notin {"NONE", "INIT", "CLOSE"}
      BY <1>3, <2>2 DEF Gentle
    <3>2. a.stat[b.cur] = "RUNNING" => b.cur = a.cur
      BY <1>3 DEF KernelOK, CurrentOK
    <3> QED BY <1>3, <3>1, <3>2 DEF Stat
  <2> QED BY <2>1, <2>2
<1>5. ASSUME NEW t \in Thread
      PROVE  /\ a.stat[t] \in {"NONE", "INIT", "CLOSE"} =>
                  b.stat[t] = a.stat[t] /\ (Contains(a.defunct, t) => Contains(b.defunct, t))
             /\ a.stat[t] \notin {"NONE", "INIT", "CLOSE"} =>
                  b.stat[t] \notin {"NONE", "INIT", "CLOSE"}
             /\ b.stat[t] = "SUSPEND" => a.stat[t] = "SUSPEND" \/ t = a.cur
             /\ b.stat[t] = "SUSPEND" /\ TimerActive(a, t) => TimerActive(b, t)
  <2>1. a.stat[t] \in {"NONE", "INIT", "CLOSE"} =>
          b.stat[t] = a.stat[t] /\ (Contains(a.defunct, t) => Contains(b.defunct, t))
    BY <1>1 DEF Undisturbed, Harmless, Gentle
  <2>2. a.stat[t] \notin {"NONE", "INIT", "CLOSE"} => b.stat[t] \notin {"NONE", "INIT", "CLOSE"}
    BY <1>1 DEF Undisturbed, Harmless, Gentle
  <2>3. /\ b.stat[t] = "SUSPEND" => a.stat[t] = "SUSPEND" \/ t = a.cur
        /\ b.stat[t] = "SUSPEND" /\ TimerActive(a, t) => TimerActive(b, t)
    BY <1>2 DEF SameWaits, Gentle
  <2> QED BY <2>1, <2>2, <2>3
<1>6. /\ \A x : Contains(b.defunct, x) => Contains(a.defunct, x)
      /\ IsInjective(a.defunct) => IsInjective(b.defunct)
      /\ b.nest = a.nest
  BY <1>1 DEF Undisturbed, Harmless, Gentle
<1>7. Gentle(a, b)
  BY <1>4, <1>5, <1>6 DEF Gentle
<1> QED BY <1>1, <1>2, <1>7 DEF b

\* rt_workqueue_cancel_work_sync: the work is taken out, or its end is waited for.
LEMMA CancelSyncWq ==
  ASSUME Ordinary, WqInv, NEW w \in Work, CancelSync(w)
  PROVE  WqInv'
<1>0. PICK c \in Thread : c = k.cur
  BY WqFacts
<1>1. /\ At("run") /\ c # Idle /\ op[c] = "none" /\ pending' = pending \ {w} /\ work_current' = work_current
  BY <1>0 DEF CancelSync, Outside
<1>2. CASE work_current # w
  <2>1. NoKernelStep /\ work_list' = Without(w) /\ sync' = sync
    BY <1>2 DEF CancelSync
  <2>2. ListInv' /\ WorkerPlaces' /\ op' = op /\ k' = k
    BY <2>1, QueueOnly
  <2>3. Works'
    BY <1>1, <2>1, <2>2, CancelledWorks
  <2>4. Syncs'
    BY <1>1, <2>1, <2>2, SyncsShrink
  <2> QED BY <2>2, <2>3, <2>4 DEF WqInv
<1>3. CASE work_current = w
  <2> DEFINE b == WaitOn(k, WqSem, k.cur, "FIFO", -1)
  <2>1. /\ k' = rt_schedule(b) /\ sync' = [sync EXCEPT ![c] = w]
        /\ pc' = pc /\ tgt' = tgt /\ isr' = isr /\ op' = op /\ work_list' = work_list
    BY <1>0, <1>3 DEF CancelSync
  <2>2. /\ KernelOK(k) /\ WaitsOK(k) /\ k \in Kernel /\ IInv /\ k.nest = 0 /\ Worker \in Thread
        /\ WqSem \in WaitList /\ c # Worker
    BY <1>1, WqFacts DEF WqInv, WorkerPlaces
  <2>3. /\ k.stat[k.cur] = "RUNNING" /\ isr = "none" /\ pc[k.cur] = "run" /\ k.cur # Idle
        /\ IsInjective(k.defunct) /\ ~Contains(k.defunct, k.cur) /\ -1 \in Int
    BY <1>0, <1>1, RunningThread DEF WqInv
  <2>4. PICK i : /\ KernelOK(b) /\ Gentle(k, b) /\ b.cur = k.cur
                 /\ Joined(k, b, WqSem, k.cur, i)
    BY <2>2, <2>3, WaitOnOK
  <2> HIDE DEF b
  <2>5. b \in Kernel
    BY <2>4 DEF KernelOK
  <2>6. /\ WaitsOK(b)
        /\ \A x \in Thread : Contains(b.wait[WqSem], x) <=> Contains(k.wait[WqSem], x) \/ x = c
        /\ \A x \in Thread : Listed(b, x) <=> Listed(k, x) \/ x = c
    BY <1>0, <2>2, <2>3, <2>4, <2>5, JoinedWaits
  <2>7. /\ KernelOK(k') /\ Gentle(k, k') /\ WaitsOK(k') /\ SameWaits(b, k') /\ Preempts(k')
    BY <2>1, <2>2, <2>4, <2>6, GentleSchedule
  <2>8. /\ \A x \in Thread \ {c} : /\ k'.stat[x] = "SUSPEND" <=> k.stat[x] = "SUSPEND"
                                   /\ TimerActive(k', x) <=> TimerActive(k, x)
        /\ k'.wait = b.wait /\ k'.stat[k'.cur] = "RUNNING"
    <3>1. \A x \in Thread \ {c} : /\ b.stat[x] = k.stat[x]
                                  /\ TimerActive(b, x) <=> TimerActive(k, x)
      BY <1>0, <2>2, <2>4 DEF Joined, Kernel
    <3> QED BY <2>7, <3>1 DEF SameWaits, Preempts
  <2>9. Started'
    <3> SUFFICES ASSUME NEW d \in Thread, Starting(d)
                 PROVE  /\ k'.stat[tgt[d]] = "SUSPEND" /\ ~TimerActive(k', tgt[d]) /\ tgt[d] # k'.cur
                        /\ \A e \in Thread : Starting(e) /\ tgt[e] = tgt[d] => e = d
      BY <2>1 DEF Started, Starting
    <3>1. tgt[d] = Worker
      BY DEF Starting, WqInv, WorkerPlaces
    <3>2. /\ k.stat[Worker] = "SUSPEND" /\ ~TimerActive(k, Worker)
          /\ \A e \in Thread : Starting(e) /\ tgt[e] = tgt[d] => e = d
      BY <2>2, <3>1 DEF IInv, Started
    <3> QED BY <2>2, <2>8, <3>1, <3>2
  <2>10. IInv'
    BY <2>1, <2>2, <2>3, <2>7, <2>8, <2>9, GentleStep
  <2>11. ListInv'
    BY <2>2, <2>7, <2>10 DEF ListInv, Gentle
  <2>12. WorkerPlaces'
    <3>1. ~Listed(k', Worker)
      BY <2>2, <2>6, <2>8 DEF WqInv, WorkerPlaces, Listed
    <3> QED BY <2>1, <2>2, <2>8, <3>1 DEF WqInv, WorkerPlaces
  <2>13. Works'
    BY <1>1, <1>3, <2>1 DEF WqInv, Works
  <2>14. Syncs'
    <3>1. sync' = [t \in Thread |-> IF t = c THEN w ELSE sync[t]]
      BY <2>1 DEF WqInv, Syncs
    <3> QED BY <1>1, <1>3, <2>1, <2>6, <2>8, <3>1 DEF WqInv, Syncs
  <2> QED BY <2>11, <2>12, <2>13, <2>14 DEF WqInv
<1> QED BY <1>2, <1>3


-----------------------------------------------------------------------------
(* All steps together.                                                      *)

\* rt_workqueue_create: the worker is ready and the queue empty.
LEMMA WqInitOK ==
  ASSUME WqInit
  PROVE  WqInv
<1> DEFINE a == KernelStarted
<1>1. /\ k = rt_schedule(a) /\ isr = "none"
      /\ op = [t \in Thread |-> IF t = Worker THEN "test" ELSE "none"]
      /\ pc = [t \in Thread |-> "run"] /\ tgt = [t \in Thread |-> t]
  BY DEF WqInit, KernelRunning
<1>2. /\ KernelOK(a) /\ WaitsOK(a) /\ a.nest = 0 /\ a.defunct = << >> /\ a.timers = << >>
      /\ a.wait = [w \in WaitList |-> << >>]
      /\ a.stat = [t \in Thread |-> IF t = Main THEN "RUNNING" ELSE "READY"]
  BY StartedOK
<1> HIDE DEF a
<1>3. KernelOK(k) /\ Undisturbed(a, k) /\ Preempts(k) /\ SameWaits(a, k) /\ WaitsOK(k)
  BY <1>1, <1>2, ScheduleOK, ScheduleWaits
<1>4. k \in Kernel /\ k.cur \in Thread /\ k.nest = 0 /\ k.stat[k.cur] = "RUNNING"
  BY <1>2, <1>3 DEF KernelOK, Kernel, Undisturbed, Preempts
<1>5. \A x : ~Contains(<< >>, x)
  BY DEF Contains
<1>6. (\A x : ~Contains(k.defunct, x)) /\ IsInjective(k.defunct)
  BY <1>2, <1>3, <1>5 DEF Undisturbed, Harmless, IsInjective
<1>7. \A t \in Thread : /\ k.stat[t] \notin {"NONE", "INIT", "CLOSE", "SUSPEND"}
                        /\ ~Listed(k, t) /\ ~TimerActive(k, t)
  BY <1>2, <1>3, <1>5 DEF Undisturbed, Harmless, SameWaits, Listed, TimerActive
<1>8. pc \in [Thread -> Pc] /\ tgt \in [Thread -> Thread] /\ \A t \in Thread : pc[t] = "run"
  BY <1>1 DEF Pc
<1>9. TypeOK
  BY <1>1, <1>4, <1>8 DEF TypeOK
<1>10. Places /\ Started /\ Reaping /\ SleepEnds
  BY <1>7, <1>8 DEF Places, Started, Starting, Reaping, SleepEnds
<1>11. Defunct /\ Running /\ Ticking
  BY <1>1, <1>4, <1>6, <1>8 DEF Defunct, Running, Ticking
<1>12. ListInv
  BY <1>3, <1>4, <1>9, <1>10, <1>11 DEF ListInv, IInv
<1>13. WorkerPlaces
  BY <1>1, <1>7, <1>8, WorkerAssumption DEF WorkerPlaces
<1>14. work_list = << >> /\ work_current = NULL /\ pending = {} /\ sync = [t \in Thread |-> NULL]
  BY DEF WqInit
<1>15. Works
  <2>1. << >> \in Seq(Work) /\ IsInjective(<< >>)
    BY DEF IsInjective
  <2>2. ToSet(<< >>) = {}
    BY <1>5, ListSet
  <2>3. op[Worker] = "test"
    BY <1>1, WorkerAssumption
  <2> QED BY <1>14, <2>1, <2>2, <2>3 DEF Works
<1>16. Syncs
  <2>1. \A t \in Thread : ~Contains(k.wait[WqSem], t)
    BY <1>7, WqSemAssumption DEF Listed
  <2> QED BY <1>14, <2>1 DEF Syncs
<1> QED BY <1>12, <1>13, <1>15, <1>16 DEF WqInv

\* Every step of the work queue, or none.
LEMMA WqStep ==
  ASSUME Ordinary, WqInv, [WqNext]_wqVars
  PROVE  WqInv'
<1>1. CASE SystemStep /\ OneResume /\ UNCHANGED <<work_list, work_current, pending, sync>>
  BY <1>1, SystemWq
<1>2. CASE WorkerTest \/ WorkerTake \/ WorkerDone
  BY <1>2, WorkerSteps
<1>3. CASE WorkerSuspend
  BY <1>3, SuspendWq
<1>4. CASE WorkerAck
  BY <1>4, AckWq
<1>5. CASE \E w \in Work : Submit(w) \/ Cancel(w)
  BY <1>5, SubmitWq
<1>6. CASE \E w \in Work : IrqSubmit(w)
  BY <1>6, IrqSubmitWq
<1>7. CASE \E w \in Work : CancelSync(w)
  BY <1>7, CancelSyncWq
<1>8. CASE UNCHANGED wqVars
  <2>1. NoKernelStep /\ UNCHANGED <<work_list, work_current, pending, sync>>
    BY <1>8 DEF wqVars, NoKernelStep
  <2>2. ListInv' /\ WorkerPlaces' /\ op' = op /\ k' = k
    BY <2>1, QueueOnly
  <2> QED BY <2>1, <2>2 DEF WqInv, Works, Syncs
<1> QED BY <1>1, <1>2, <1>3, <1>4, <1>5, <1>6, <1>7, <1>8 DEF WqNext

-----------------------------------------------------------------------------
(* The theorems of the work queue.                                          *)

\* The queue, the worker and the threads that submit, cancel and wait fit together after
\* every step, an interrupt that submits while a thread resumes the worker included
\* (workqueue.c:19-168).
THEOREM WqInvariance ==
  ASSUME Ordinary
  PROVE  WqSpec => []WqInv
<1>1. WqInit => WqInv
  BY WqInitOK
<1>2. WqInv /\ [WqNext]_wqVars => WqInv'
  BY WqStep
<1> QED BY <1>1, <1>2, PTL DEF WqSpec

\* Every work is in one place: pending and listed once, running, or neither, however
\* it is submitted and cancelled while the worker takes and runs works.
THEOREM WqWorkConsistent ==
  ASSUME Ordinary
  PROVE  WqSpec => []WorkConsistent
<1>1. WqInv => WorkConsistent
  BY DEF WqInv, ListInv, IInv, WorkerPlaces, Works, WorkConsistent
<1> QED BY <1>1, WqInvariance, PTL

\* A cancel_work_sync that waits has its work running, or about to be acknowledged.
THEOREM WqSyncWaits ==
  ASSUME Ordinary
  PROVE  WqSpec => []SyncWaits
<1>1. WqInv => SyncWaits
  <2> SUFFICES ASSUME WqInv, NEW t \in ToSet(k.wait[WqSem])
               PROVE  work_current = sync[t] \/ op[Worker] = "ack"
    BY DEF SyncWaits
  <2>1. k.wait[WqSem] \in Seq(Thread)
    BY WqFacts DEF Kernel
  <2>2. t \in Thread /\ Contains(k.wait[WqSem], t)
    BY <2>1 DEF ToSet, Contains
  <2> QED BY <2>2 DEF WqInv, Syncs
<1> QED BY <1>1, WqInvariance, PTL

\* The ready table stays in order although rt_thread_resume of the worker is interrupted
\* and the worker suspends itself meanwhile (thread.c:699-741).
THEOREM WqReadyTable ==
  ASSUME Ordinary
  PROVE  WqSpec => []ReadyTable
<1>1. WqInv => ReadyTable
  <2> SUFFICES ASSUME WqInv PROVE ReadyTable
    OBVIOUS
  <2>1. IInv
    BY WqFacts
  <2>2. \A t \in Thread : ~BeingDeleted(t)
    BY <2>1 DEF IInv, Places, BeingDeleted
  <2> QED BY <2>1, <2>2 DEF IInv, KernelOK, TableOK, ListsOK, ReadyTable
<1> QED BY <1>1, WqInvariance, PTL

=============================================================================
