----------------------------- MODULE Scheduler -----------------------------
(***************************************************************************)
(* Threads, the priority scheduler and the tick interrupt: scheduler.c,    *)
(* thread.c, idle.c, clock.c and the thread timers of timer.c.             *)
(*                                                                         *)
(* On one core only rt_current_thread executes.  A step is a stretch of    *)
(* code that runs with interrupts disabled (or a single read); between two *)
(* steps the tick interrupt may come and may change rt_current_thread, so  *)
(* pc[t] remembers where inside a kernel call thread t was interrupted.    *)
(***************************************************************************)
EXTENDS RtKernel

CONSTANTS
  Static,      \* threads of rt_thread_init without cleanup; the others come from rt_thread_create
  Ticks,       \* arguments of rt_thread_sleep
  MaxNest,     \* bound: deepest nesting of rt_enter_critical
  Calls        \* the kernel calls that the threads of the instance make

ASSUME StaticAssumption  == Static \subseteq Thread \ {Idle}
ASSUME TicksAssumption   == Ticks \subseteq Nat \ {0}
ASSUME MaxNestAssumption == MaxNest \in Nat
ASSUME CallsAssumption   ==
  Calls \subseteq {"yield", "sleep", "suspend", "resume", "startup", "control",
                   "exit", "delete", "critical", "create"}

VARIABLES
  k,       \* the kernel state
  pc,      \* where each thread is inside a kernel call; "run": in its own code
  tgt,     \* the thread argument of the call in progress
  isr      \* "timer" while SysTick_Handler is in the loop of rt_timer_check

vars == <<k, pc, tgt, isr>>

\* The places inside a call where interrupts are enabled.
Pc == {"run", "dead", "sched", "sleep", "slept", "suspend", "resume", "unlink",
       "insert", "detach", "close", "defunct", "reap", "exited"}

TypeOK ==
  /\ k \in Kernel
  /\ pc \in [Thread -> Pc]
  /\ tgt \in [Thread -> Thread]
  /\ isr \in {"none", "timer"}

Init ==
  /\ k = KernelAtStart
  /\ pc = [t \in Thread |-> "run"]
  /\ tgt = [t \in Thread |-> t]
  /\ isr = "none"

-----------------------------------------------------------------------------
(* The tick interrupt, which may come between any two steps of a thread.    *)

\* SysTick_Handler up to the first expired timer (to its end if there is none).
SysTick ==
  /\ isr = "none"
  /\ k' = TickIncrease(k)
  /\ isr' = IF TimerDue(k') THEN "timer" ELSE "none"
  /\ UNCHANGED <<pc, tgt>>

\* One expired timer inside the handler.
TimerCheck ==
  /\ isr = "timer"
  /\ k' = TimerCheckOne(k)
  /\ isr' = IF TimerDue(k') THEN "timer" ELSE "none"
  /\ UNCHANGED <<pc, tgt>>

-----------------------------------------------------------------------------
(* Steps of the current thread.                                             *)

\* The current thread is at place p and no interrupt handler runs.
At(p) == isr = "none" /\ pc[k.cur] = p

\* An application thread is about to make the call c.
Call(c) == At("run") /\ k.cur # Idle /\ c \in Calls

Goto(p) == pc' = [pc EXCEPT ![k.cur] = p]

\* The thread argument of a call, kept until the call returns.
SetTarget(t) == tgt' = [tgt EXCEPT ![k.cur] = t]
ForgetTarget == SetTarget(k.cur)

\* The rt_schedule that ends a call, with interrupts enabled before it.
Reschedule ==
  /\ At("sched")
  /\ k' = rt_schedule(k)
  /\ Goto("run")
  /\ ForgetTarget /\ UNCHANGED isr

\* rt_thread_yield
Yield ==
  /\ Call("yield")
  /\ k' = rt_schedule(k)
  /\ UNCHANGED <<pc, tgt, isr>>

\* Mutant: the timer is started first, and the suspension stops it.
Sleep_TimerFirst(n) ==
  /\ Call("sleep")
  /\ k' = rt_thread_suspend(rt_timer_start(k, k.cur, n), k.cur)
  /\ Goto("sleep")
  /\ UNCHANGED <<tgt, isr>>

\* rt_thread_sleep: suspended with the timer running, interrupts enabled, and
\* only then rt_schedule.
Sleep(n) ==
  /\ Call("sleep")
  /\ k' = rt_timer_start(rt_thread_suspend(k, k.cur), k.cur, n)
  /\ Goto("sleep")
  /\ UNCHANGED <<tgt, isr>>

SleepSchedule ==
  /\ At("sleep")
  /\ k' = rt_schedule(k)
  /\ Goto("slept")
  /\ UNCHANGED <<tgt, isr>>

SleepReturn ==
  /\ At("slept")
  /\ k' = [k EXCEPT !.error[k.cur] = IF @ = "ETIMEOUT" THEN "EOK" ELSE @]
  /\ Goto("run")
  /\ UNCHANGED <<tgt, isr>>

\* rt_enter_critical and rt_exit_critical.  A thread leaves only what it entered.
EnterCritical ==
  /\ Call("critical")
  /\ k.nest < MaxNest
  /\ k' = [k EXCEPT !.nest = @ + 1]
  /\ UNCHANGED <<pc, tgt, isr>>

ExitCritical ==
  /\ Call("critical")
  /\ k.nest > 0
  /\ k' = [k EXCEPT !.nest = @ - 1]
  /\ Goto(IF k.nest = 1 THEN "sched" ELSE "run")
  /\ UNCHANGED <<tgt, isr>>

\* Thread t is between the first and the last section of rt_thread_delete.
BeingDeleted(t) ==
  \E c \in Thread : pc[c] \in {"detach", "close"} /\ tgt[c] = t

\* Handles of threads: the kernel has no way to tell a stale one (RT_ASSERT looks
\* only at the object type), so callers pass live threads that nobody deletes.
Valid(t) == k.stat[t] \notin {"NONE", "CLOSE"} /\ ~BeingDeleted(t)

-----------------------------------------------------------------------------
(* rt_thread_create / rt_thread_init and rt_thread_startup.                 *)

\* A control block that may become a thread: never used, freed by the idle
\* thread, or a static one whose thread has ended.
Unused(t) == \/ k.stat[t] = "NONE"
             \/ t \in Static /\ k.stat[t] = "CLOSE" /\ t # k.cur

Create(t) ==
  /\ Call("create")
  /\ Unused(t)
  /\ k' = [k EXCEPT !.stat[t]  = "INIT",
                    !.prio[t]  = InitPrio[t],
                    !.slice[t] = InitTick[t],
                    !.error[t] = "EOK"]
  /\ pc' = [pc EXCEPT ![t] = "run"]
  /\ UNCHANGED <<tgt, isr>>

\* rt_thread_startup up to its call of rt_thread_resume.
Startup(t) ==
  /\ Call("startup")
  /\ Valid(t) /\ k.stat[t] = "INIT"
  /\ k' = [k EXCEPT !.prio[t] = InitPrio[t], !.stat[t] = "SUSPEND"]
  /\ Goto("resume")
  /\ SetTarget(t)
  /\ UNCHANGED isr

-----------------------------------------------------------------------------
(* rt_thread_resume of another thread, followed by rt_schedule as in        *)
(* rt_thread_startup and workqueue.c; rt_thread_suspend likewise.           *)

Resume(t) ==
  /\ Call("resume")
  /\ t # k.cur /\ Valid(t)
  /\ Goto("resume")
  /\ SetTarget(t)
  /\ UNCHANGED <<k, isr>>

\* The status is read with interrupts still enabled.
ResumeTest ==
  /\ At("resume")
  /\ Goto(IF k.stat[tgt[k.cur]] = "SUSPEND" THEN "unlink" ELSE "sched")
  /\ UNCHANGED <<k, tgt, isr>>

ResumeRemove ==
  /\ At("unlink")
  /\ k' = ResumeUnlink(k, tgt[k.cur])
  /\ Goto("insert")
  /\ UNCHANGED <<tgt, isr>>

\* Mutant: no rt_schedule after the resume.
ResumeInsert_NoSchedule ==
  /\ At("insert")
  /\ k' = rt_schedule_insert_thread(k, tgt[k.cur])
  /\ Goto("run")
  /\ UNCHANGED <<tgt, isr>>

\* Interrupts were enabled in between.
ResumeInsert ==
  /\ At("insert")
  /\ k' = rt_schedule_insert_thread(k, tgt[k.cur])
  /\ Goto("sched")
  /\ UNCHANGED <<tgt, isr>>

\* The test of rt_thread_suspend, also with interrupts enabled.
SuspendTest(t) ==
  /\ Call("suspend")
  /\ t # Idle /\ Valid(t)
  /\ k.stat[t] \in {"READY", "RUNNING"}
  /\ Goto("suspend")
  /\ SetTarget(t)
  /\ UNCHANGED <<k, isr>>

SuspendRemove ==
  /\ At("suspend")
  /\ k' = SuspendThread(k, tgt[k.cur])
  /\ Goto("sched")
  /\ UNCHANGED <<tgt, isr>>

\* rt_thread_control(RT_THREAD_CTRL_CHANGE_PRIORITY)
Control(t, p) ==
  /\ Call("control")
  /\ t # Idle /\ Valid(t)
  /\ k' = ChangePriority(k, t, p)
  /\ UNCHANGED <<pc, tgt, isr>>

-----------------------------------------------------------------------------
(* The end of a thread.                                                     *)

\* rt_thread_exit, entered when the entry function returns; one section with
\* interrupts disabled, then rt_schedule.
Exit ==
  /\ Call("exit")
  /\ k.nest = 0
  /\ LET t == k.cur
         u == rt_timer_stop(SetStat(rt_schedule_remove_thread(k, t), t, "CLOSE"), t)
     IN  k' = IF t \in Static THEN u ELSE [u EXCEPT !.defunct = <<t>> \o @]
  /\ Goto("exited")
  /\ UNCHANGED <<tgt, isr>>

ExitSchedule ==
  /\ At("exited")
  /\ k' = rt_schedule(k)
  /\ Goto("dead")
  /\ UNCHANGED <<tgt, isr>>

\* Mutant: the thread stays in the ready table.
Delete_StillQueued(t) ==
  /\ Call("delete")
  /\ t \notin {k.cur, Idle} /\ Valid(t)
  /\ tgt[t] = t /\ \A c \in Thread \ {t} : tgt[c] # t
  /\ Goto("detach")
  /\ SetTarget(t)
  /\ UNCHANGED <<k, isr>>

\* rt_thread_delete (rt_thread_detach for a static thread) of another thread:
\* four stretches of code with interrupts enabled in between.  Its caller owns
\* the thread: nobody else is in the middle of a call about it, and it is not
\* itself in the middle of a call about another thread.
Delete(t) ==
  /\ Call("delete")
  /\ t \notin {k.cur, Idle} /\ Valid(t)
  /\ tgt[t] = t /\ \A c \in Thread \ {t} : tgt[c] # t
  /\ k' = IF k.stat[t] = "INIT" THEN k ELSE rt_schedule_remove_thread(k, t)
  /\ Goto("detach")
  /\ SetTarget(t)
  /\ UNCHANGED isr

DeleteTimer ==
  /\ At("detach")
  /\ k' = rt_timer_stop(k, tgt[k.cur])
  /\ Goto("close")
  /\ UNCHANGED <<tgt, isr>>

DeleteClose ==
  /\ At("close")
  /\ k' = SetStat(k, tgt[k.cur], "CLOSE")
  /\ \/ tgt[k.cur] \in Static /\ Goto("run") /\ ForgetTarget
     \/ tgt[k.cur] \notin Static /\ Goto("defunct") /\ UNCHANGED tgt
  /\ UNCHANGED isr

DeleteDefunct ==
  /\ At("defunct")
  /\ k' = [k EXCEPT !.defunct = <<tgt[k.cur]>> \o @]
  /\ Goto("run")
  /\ ForgetTarget /\ UNCHANGED isr

\* Mutant: the defunct thread stays on the list while it is freed.
IdleReap_StaysListed ==
  /\ At("run") /\ k.cur = Idle
  /\ k.defunct # << >>
  /\ k' = rt_schedule(k)
  /\ Goto("reap")
  /\ SetTarget(Head(k.defunct))
  /\ UNCHANGED isr

\* rt_thread_idle_excute: the first defunct thread leaves the list and its
\* cleanup runs inside rt_enter_critical / rt_exit_critical, whose rt_schedule
\* is part of the same section with interrupts disabled.
IdleReap ==
  /\ At("run") /\ k.cur = Idle
  /\ k.defunct # << >>
  /\ k' = rt_schedule(rt_list_remove(k, Head(k.defunct)))
  /\ Goto("reap")
  /\ SetTarget(Head(k.defunct))
  /\ UNCHANGED isr

\* Stack and control block are freed with interrupts enabled.
IdleFree ==
  /\ At("reap")
  /\ k' = SetStat(k, tgt[k.cur], "NONE")
  /\ Goto("run")
  /\ ForgetTarget /\ UNCHANGED isr

-----------------------------------------------------------------------------
ThreadStep ==
  \/ Reschedule \/ Yield
  \/ (\E n \in Ticks : Sleep(n)) \/ SleepSchedule \/ SleepReturn
  \/ EnterCritical \/ ExitCritical
  \/ \E t \in Thread : Create(t) \/ Startup(t) \/ Resume(t) \/ SuspendTest(t) \/ Delete(t)
  \/ ResumeTest \/ ResumeRemove \/ ResumeInsert \/ SuspendRemove
  \/ \E t \in Thread, p \in Prio : Control(t, p)
  \/ Exit \/ ExitSchedule
  \/ DeleteTimer \/ DeleteClose \/ DeleteDefunct
  \/ IdleReap \/ IdleFree

Next == SysTick \/ TimerCheck \/ ThreadStep

Spec == Init /\ [][Next]_vars

-----------------------------------------------------------------------------
(* Properties *)

\* The ready table, its bitmap and the status words agree: a bit is set exactly
\* when its list is not empty, and a thread is on the list of its priority, once,
\* exactly when it is READY (and not being deleted).  rt_schedule takes the first
\* node of the list of the first bit without looking (scheduler.c:177).
ReadyTable ==
  /\ k.group = {p \in Prio : k.ready[p] # << >>}
  /\ \A t \in Thread, p \in Prio :
       Contains(k.ready[p], t) <=>
         k.stat[t] = "READY" /\ p = k.prio[t] /\ ~BeingDeleted(t)
  /\ \A p \in Prio : IsInjective(k.ready[p])

\* Preemption: whenever the scheduler is not locked and the current thread has
\* no rt_schedule of its own still to come, it is RUNNING and no READY thread
\* has a higher priority, whatever the tick and the other threads did.
HighestRuns ==
  k.nest = 0 /\ pc[k.cur] \notin {"sched", "sleep", "exited"} =>
    /\ k.stat[k.cur] = "RUNNING"
    /\ \A t \in Thread : k.stat[t] = "READY" => k.prio[k.cur] <= k.prio[t]

\* A thread timer runs only while its thread is suspended: the RT_ASSERT at the
\* head of rt_thread_timeout (thread.c:757) never fails.
TimeoutAssert == \A t \in Thread : TimerActive(k, t) => k.stat[t] = "SUSPEND"

\* No sleep is lost: a thread suspended by rt_thread_sleep has a timer that will
\* wake it (thread.c:501-508 suspends, which stops the timer, and then starts it).
SleepEnds ==
  \A t \in Thread :
    pc[t] \in {"sleep", "slept"} /\ k.stat[t] = "SUSPEND" => TimerActive(k, t)

\* A closed thread is in no list of the ready table and has no timer: "The thread
\* object will be removed from thread queue" (thread.c:323, 422).
ClosedNotReady ==
  \A t \in Thread : k.stat[t] = "CLOSE" =>
    ~TimerActive(k, t) /\ \A p \in Prio : ~Contains(k.ready[p], t)

\* The thread whose memory the idle thread is about to free.
BeingFreed(t) == pc[Idle] = "reap" /\ tgt[Idle] = t

\* The end of a thread: it never runs again, it waits on the defunct list (once)
\* until the idle thread takes it off, and the idle thread frees nothing but
\* closed threads that are not running (thread.c:80-115, idle.c:149-229).
DeadUntilFreed ==
  /\ pc[k.cur] # "dead"
  /\ IsInjective(k.defunct)
  /\ \A t \in Thread :
       /\ Contains(k.defunct, t) \/ BeingFreed(t) => k.stat[t] = "CLOSE"
       /\ BeingFreed(t) => t # k.cur /\ ~Contains(k.defunct, t)
       /\ pc[t] \in {"exited", "dead"} /\ t \notin Static /\ k.stat[t] # "NONE" =>
            Contains(k.defunct, t) \/ BeingFreed(t)

\* Threads of one priority take turns in order: in a list of the ready table a
\* thread stays behind those it was behind, and a newcomer goes behind all
\* (insertion at the tail, scheduler.c:709, dispatch from the head, scheduler.c:178).
\* Only a thread whose priority is set again loses its place (thread.c:580-601).
Behind(s, a, b) == \E i, j \in 1 .. Len(s) : i < j /\ s[i] = a /\ s[j] = b
FifoStep ==
  \A p \in Prio : \A b \in ToSet(k'.ready[p]) :
    \A a \in (ToSet(k.ready[p]) \cap ToSet(k'.ready[p])) \ {b} :
      (b \in ToSet(k.ready[p]) => Behind(k.ready[p], a, b)) =>
        Behind(k'.ready[p], a, b) \/ k' = ChangePriority(k, a, p)
FifoWithinPriority == [][FifoStep]_vars

\* While the scheduler is locked no interrupt and no call of the current thread
\* takes the processor away from it (scheduler.c:423).
LockedStep == k.nest > 0 /\ k'.nest > 0 => k'.cur = k.cur
LockHolds == [][LockedStep]_vars

\* Round robin: a READY thread gets the processor unless a thread of higher
\* priority can use it, because the tick takes it from a thread of the same
\* priority whose time slice is used up, even when that thread never calls the
\* kernel (clock.c:86-94).
RoundRobin ==
  \A t \in Thread \ {Idle} :
    k.stat[t] = "READY" ~>
      \/ k.cur = t
      \/ \E u \in Thread : k.prio[u] < k.prio[t] /\ k.stat[u] \in {"READY", "RUNNING"}

\* A wait for a limited time ends, be it a sleep or a call of a service, even if
\* nobody resumes the thread (thread.c:749-771).
TimedWaitsEnd ==
  \A t \in Thread : k.stat[t] = "SUSPEND" /\ TimerActive(k, t) ~> k.stat[t] # "SUSPEND"

=============================================================================
