----------------------------- MODULE Semaphore -----------------------------
(***************************************************************************)
(* One semaphore of ipc.c, used by the threads of Scheduler and by an      *)
(* interrupt handler.                                                      *)
(***************************************************************************)
EXTENDS RtIpc

CONSTANTS
  SemFlags,    \* the flags rt_sem_init may get: RT_IPC_FLAG_FIFO, RT_IPC_FLAG_PRIO
  InitValue,   \* the value rt_sem_init gives
  MaxValue,    \* bound: nobody releases above it (the counter has 16 bits)
  Times,       \* waiting times: -1 for ever, 0 not at all, else ticks
  Services     \* the semaphore calls that are made

ASSUME SemFlagsAssumption == SemFlags \subseteq {"FIFO", "PRIO"}
ASSUME ValueAssumption    == MaxValue \in Nat /\ MaxValue <= 65535 /\ InitValue \in 0 .. MaxValue
ASSUME TimesAssumption    == Times \subseteq Int
ASSUME ServicesAssumption ==
  Services \subseteq {"take", "release", "irq_release", "reset", "delete"}

VARIABLES
  value,   \* sem->value
  flag,    \* sem->parent.parent.flag
  alive,   \* FALSE once rt_sem_delete has been called
  releases \* history, not in the code: the calls of rt_sem_release, modulo 2

semVars == <<k, pc, tgt, isr, op, value, flag, alive, releases>>

Sem == "sem"     \* its suspend list
ASSUME SemListAssumption == Sem \in WaitList

SemTypeOK ==
  /\ TypeOK
  /\ value \in 0 .. MaxValue
  /\ flag \in {"FIFO", "PRIO"}
  /\ alive \in BOOLEAN
  /\ releases \in {0, 1}
  /\ op \in [Thread -> {"none", "take", "delete", "delete_resume"}]

\* rt_sem_init
SemInit == IpcInit /\ value = InitValue /\ flag \in SemFlags /\ alive = TRUE /\ releases = 0

\* Nobody uses a semaphore after rt_sem_delete.
SemCall(c) == Outside /\ c \in Services /\ alive

-----------------------------------------------------------------------------
\* rt_sem_take with sem->value > 0
TakeNow ==
  /\ SemCall("take")
  /\ value > 0
  /\ value' = value - 1
  /\ UNCHANGED <<k, pc, tgt, isr, op, flag, alive, releases>>

\* Mutant: the thread is suspended, but not on the list of the semaphore.
TakeWait_NotListed(n) ==
  /\ SemCall("take")
  /\ value = 0 /\ n # 0
  /\ Then_schedule(rt_thread_suspend(k, k.cur), "take")
  /\ UNCHANGED <<value, flag, alive, releases>>

\* rt_sem_take that waits.  (With n = 0 it fails and changes nothing.)
TakeWait(n) ==
  /\ SemCall("take")
  /\ value = 0 /\ n # 0
  /\ Then_schedule(WaitOn(k, Sem, k.cur, flag, n), "take")
  /\ UNCHANGED <<value, flag, alive, releases>>

\* rt_sem_take after its rt_schedule: thread->error is the result.
TakeReturn ==
  /\ Inside("take")
  /\ Then_return(k, "none")
  /\ UNCHANGED <<value, flag, alive, releases>>

\* Mutant: a release that finds nobody waiting is lost.
Released_Lost == value

\* sem->value after a release, a 16-bit counter.
Released == IF k.wait[Sem] = << >> THEN (value + 1) % 65536 ELSE value

Counted == releases' = 1 - releases

\* rt_sem_release: a waiter gets the semaphore directly, and rt_schedule follows.
Release ==
  /\ SemCall("release")
  /\ value < MaxValue
  /\ value' = Released
  /\ IF k.wait[Sem] = << >> THEN Then_return(k, "none")
     ELSE Then_schedule(rt_ipc_list_resume(k, Sem), "none")
  /\ Counted
  /\ UNCHANGED <<flag, alive>>

\* rt_sem_release in an interrupt handler.
IrqRelease ==
  /\ "irq_release" \in Services /\ alive
  /\ value < MaxValue
  /\ value' = Released
  /\ IrqResume(Sem)
  /\ Counted
  /\ UNCHANGED <<flag, alive>>

\* Mutant: the waiters are left on the list.
Reset_KeepsWaiters(v) ==
  /\ SemCall("reset")
  /\ value' = v
  /\ Then_schedule(k, "none")
  /\ UNCHANGED <<flag, alive, releases>>

\* rt_sem_control(RT_IPC_CMD_RESET), all of it with interrupts disabled.
Reset(v) ==
  /\ SemCall("reset")
  /\ value' = v
  /\ Then_schedule(rt_ipc_list_resume_all(k, Sem), "none")
  /\ UNCHANGED <<flag, alive, releases>>

\* rt_sem_delete, whose rt_ipc_list_resume_all runs with interrupts enabled.
Delete_call ==
  /\ SemCall("delete")
  /\ alive' = FALSE
  /\ Then_return(k, "delete")
  /\ UNCHANGED <<value, flag, releases>>

\* Mutant: the loop body runs once.
DeleteLoop_Once ==
  /\ \/ ResumeAllTest(Sem, "delete", "delete_resume", "none")
     \/ ResumeAllBody(Sem, "delete_resume", "none")
  /\ UNCHANGED <<value, flag, alive, releases>>

DeleteLoop ==
  /\ \/ ResumeAllTest(Sem, "delete", "delete_resume", "none")
     \/ ResumeAllBody(Sem, "delete_resume", "delete")
  /\ UNCHANGED <<value, flag, alive, releases>>

-----------------------------------------------------------------------------
SemNext ==
  \/ SystemStep /\ UNCHANGED <<value, flag, alive, releases>>
  \/ TakeNow \/ (\E n \in Times : TakeWait(n)) \/ TakeReturn
  \/ Release \/ IrqRelease
  \/ (\E v \in 0 .. MaxValue : Reset(v))
  \/ Delete_call \/ DeleteLoop

SemSpec == SemInit /\ [][SemNext]_semVars

\* The hardware timer keeps interrupting and its handler runs to the end; nothing
\* is assumed of the threads, which may loop in their own code for ever, and of
\* the releasing interrupt.  This is weak fairness of SysTick and of TimerCheck,
\* with the states in which they can take a step that changes something spelled out.
TickMoves == isr = "none" /\ TickIncrease(k) # k
SemFairSpec ==
  /\ SemSpec
  /\ []<>~TickMoves \/ []<><<SysTick>>_semVars
  /\ []<>(isr = "none") \/ []<><<TimerCheck>>_semVars

-----------------------------------------------------------------------------
(* Properties *)

\* No lost wake-up: nobody waits for a semaphore that is available, and whoever
\* waits was suspended by rt_sem_take (ipc.c:453-460 decides between the counter
\* and the list in one section).
NoWaiterWhileAvailable ==
  /\ SemTypeOK
  /\ value > 0 => k.wait[Sem] = << >>
  /\ \A t \in ToSet(k.wait[Sem]) : op[t] = "take"

\* The waiters of a RT_IPC_FLAG_PRIO semaphore are sorted by priority, so that
\* rt_sem_release serves the highest (ipc.c:92-117).
PrioOrder ==
  flag = "PRIO" =>
    \A i, j \in 1 .. Len(k.wait[Sem]) :
      i < j => k.prio[k.wait[Sem][i]] <= k.prio[k.wait[Sem][j]]

\* A waiter is never overtaken by a later one of its priority (FIFO: by any
\* later one): new waiters go behind (ipc.c:86-117).
NoOvertaking ==
  [][\A t \in ToSet(k'.wait[Sem]) \ ToSet(k.wait[Sem]) :
       \A w \in ToSet(k.wait[Sem]) \cap ToSet(k'.wait[Sem]) :
         flag = "FIFO" \/ k.prio[w] <= k.prio[t] => Behind(k'.wait[Sem], w, t)]_semVars

\* The semaphore does what SemaphoreSpec promises: every rt_sem_release serves
\* one waiting take or, when nobody waits, goes to the counter, and a take that
\* had to wait succeeds only because one release served it, whatever times out,
\* is reset or preempted in between (ipc.c:389-470).
TakeState(t) ==
  IF op[t] # "take" THEN "out"
  ELSE IF Waiting(Sem, t) THEN "waiting"
  ELSE IF k.error[t] = "EOK" THEN "granted" ELSE "failed"
Promise == INSTANCE SemaphoreSpec WITH
             MaxAvail <- MaxValue, avail <- value, call <- [t \in Thread |-> TakeState(t)],
             releases <- releases
ImplementsSemaphore == Promise!Spec

\* rt_sem_delete leaves nobody behind: once it is over no thread waits on the
\* freed list (ipc.c:303).
NobodyLeft ==
  ~alive /\ (\A t \in Thread : op[t] \notin {"delete", "delete_resume"}) => k.wait[Sem] = << >>

=============================================================================
