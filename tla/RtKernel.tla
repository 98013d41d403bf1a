------------------------------ MODULE RtKernel ------------------------------
(***************************************************************************)
(* The state of the RT-Thread kernel that every blocking service shares,   *)
(* and the kernel routines as functions from a kernel state to the next.   *)
(*                                                                         *)
(* A routine that the source runs with interrupts disabled is one operator *)
(* here; a routine with interrupts enabled in between is several, and the  *)
(* modules that EXTEND this one make one action of each.  The build is the *)
(* one of bsp/imxrt: a single core, at most 32 priorities (one bitmap      *)
(* word), no signals, no soft timers.                                      *)
(***************************************************************************)
EXTENDS Integers, Sequences, FiniteSets, SequencesExt

CONSTANTS
  Thread,      \* all thread control blocks, the idle thread included
  Idle,        \* the idle thread (idle.c)
  Main,        \* the main thread (components.c), the first to run
  MaxPrio,     \* RT_THREAD_PRIORITY_MAX: priorities are 0 .. MaxPrio-1, 0 is the highest
  InitPrio,    \* init_priority of each thread
  InitTick,    \* init_tick of each thread, its time slice
  WaitList     \* the suspend lists of the IPC objects of the instance

ASSUME ThreadAssumption   == Idle \in Thread /\ Main \in Thread /\ Main # Idle
ASSUME ThreadFinite       == IsFiniteSet(Thread)
ASSUME PrioAssumption     == MaxPrio \in Nat \ {0}
ASSUME InitPrioAssumption == /\ InitPrio \in [Thread -> 0 .. MaxPrio - 1]
                             /\ InitPrio[Idle] = MaxPrio - 1
ASSUME InitTickAssumption == InitTick \in [Thread -> Nat \ {0}]

Prio == 0 .. MaxPrio - 1

\* thread->stat; "NONE" is a control block that is not (or no longer) a thread.
Stat == {"NONE", "INIT", "READY", "RUNNING", "SUSPEND", "CLOSE"}

\* thread->error, as far as the callers tell its values apart.
Error == {"EOK", "ETIMEOUT", "ERROR"}

-----------------------------------------------------------------------------
(***************************************************************************)
(* The kernel state.                                                       *)
(*   cur     rt_current_thread                                             *)
(*   stat, prio, slice, error   fields of struct rt_thread                 *)
(*   ready   rt_thread_priority_table, one list per priority               *)
(*   group   rt_thread_ready_priority_group: the bits that are set         *)
(*   nest    rt_scheduler_lock_nest                                        *)
(*   wait    the suspend lists of IPC objects                              *)
(*   defunct rt_thread_defunct                                             *)
(*   timers  the active thread timers, oldest start first                  *)
(*   left    ticks until timer of a thread expires (timeout_tick - rt_tick)*)
(***************************************************************************)
Kernel ==
  [cur     : Thread,
   stat    : [Thread -> Stat],
   prio    : [Thread -> Prio],
   slice   : [Thread -> Nat \ {0}],
   error   : [Thread -> Error],
   ready   : [Prio -> Seq(Thread)],
   group   : SUBSET Prio,
   nest    : Int,
   wait    : [WaitList -> Seq(Thread)],
   defunct : Seq(Thread),
   timers  : Seq(Thread),
   left    : [Thread -> Int]]

\* The list s without the node of t (s itself when t is not on it): the nodes
\* behind it move up.
Place(s, t) == CHOOSE i \in 1 .. Len(s) : s[i] = t
Unlinked(s, t) ==
  IF Contains(s, t)
  THEN [i \in 1 .. Len(s) - 1 |-> IF i < Place(s, t) THEN s[i] ELSE s[i + 1]]
  ELSE s

\* rt_list_remove(&thread->tlist): tlist is linked into at most one list, and
\* the node does not know which one.
rt_list_remove(k, t) ==
  [k EXCEPT !.ready   = [p \in Prio |-> Unlinked(k.ready[p], t)],
            !.wait    = [w \in WaitList |-> Unlinked(k.wait[w], t)],
            !.defunct = Unlinked(k.defunct, t)]

SetStat(k, t, s) == [k EXCEPT !.stat[t] = s]

-----------------------------------------------------------------------------
(* Thread timers: one-shot timers whose function is rt_thread_timeout.      *)

TimerActive(k, t) == Contains(k.timers, t)

\* (left is meaningless for a timer that is not in the list; it is kept at 0.)
rt_timer_stop(k, t) == [k EXCEPT !.timers = Unlinked(k.timers, t), !.left[t] = 0]

\* RT_TIMER_CTRL_SET_TIME followed by rt_timer_start: the timer leaves the
\* list and enters it again after every timer that expires no later.
rt_timer_start(k, t, ticks) ==
  [k EXCEPT !.timers = Append(Unlinked(k.timers, t), t), !.left[t] = ticks]

-----------------------------------------------------------------------------
(* scheduler.c *)

\* What rtthread_startup leaves: rt_system_scheduler_init, the main and the idle
\* thread started, and rt_system_scheduler_start has switched to the main thread.
KernelAtStart ==
  [cur     |-> Main,
   stat    |-> [t \in Thread |-> IF t = Main THEN "RUNNING"
                                 ELSE IF t = Idle THEN "READY" ELSE "NONE"],
   prio    |-> InitPrio,
   slice   |-> InitTick,
   error   |-> [t \in Thread |-> "EOK"],
   ready   |-> [p \in Prio |-> IF p = InitPrio[Idle] THEN <<Idle>> ELSE << >>],
   group   |-> {InitPrio[Idle]},
   nest    |-> 0,
   wait    |-> [w \in WaitList |-> << >>],
   defunct |-> << >>,
   timers  |-> << >>,
   left    |-> [t \in Thread |-> 0]]

\* Mutant: a thread that becomes ready jumps the queue of its priority.
InsertAtHead(k, t) ==
  IF t = k.cur
  THEN SetStat(k, t, "RUNNING")
  ELSE [SetStat(k, t, "READY") EXCEPT
          !.ready[k.prio[t]] = <<t>> \o @,
          !.group = @ \union {k.prio[t]}]

\* The current thread is never linked into the ready table.
rt_schedule_insert_thread(k, t) ==
  IF t = k.cur
  THEN SetStat(k, t, "RUNNING")
  ELSE [SetStat(k, t, "READY") EXCEPT
          !.ready[k.prio[t]] = Append(@, t),
          !.group = @ \union {k.prio[t]}]

\* Mutant: the bitmap is not maintained on removal.
RemoveKeepsBit(k, t) == rt_list_remove(k, t)

\* The bit of the thread's priority is cleared when its list becomes empty.
rt_schedule_remove_thread(k, t) ==
  LET u == rt_list_remove(k, t)
  IN  IF u.ready[k.prio[t]] = << >>
      THEN [u EXCEPT !.group = @ \ {k.prio[t]}]
      ELSE u

\* _get_highest_priority_thread: the first bit set (__rt_ffs) and the first
\* thread of its list.
HighestReady(k)  == Min(k.group)
HighestThread(k) == Head(k.ready[HighestReady(k)])

\* rt_schedule when the scheduler is not locked and some thread is ready.  The
\* context switch itself is only requested (PendSV); rt_current_thread is
\* already the new thread.
Dispatch(k) ==
  LET from == k.cur
      to   == HighestThread(k)
      running == k.stat[from] = "RUNNING"
      keep    == running /\ k.prio[from] < HighestReady(k)
      moved   == [k EXCEPT !.cur = to]
      queued  == IF running THEN rt_schedule_insert_thread(moved, from) ELSE moved
  IN  IF keep \/ to = from
      THEN SetStat(rt_schedule_remove_thread(k, from), from, "RUNNING")
      ELSE SetStat(rt_schedule_remove_thread(queued, to), to, "RUNNING")

\* Mutant: the lock count is not looked at.
ScheduleIgnoresLock(k) == IF k.group # {} THEN Dispatch(k) ELSE k

rt_schedule(k) ==
  IF k.nest = 0 /\ k.group # {} THEN Dispatch(k) ELSE k

-----------------------------------------------------------------------------
(* thread.c: the parts that run with interrupts disabled.                   *)

\* Mutant: the thread stays in the ready table.
SuspendStaysQueued(k, t) == rt_timer_stop(SetStat(k, t, "SUSPEND"), t)

\* rt_thread_suspend, after it has found the thread READY or RUNNING.
SuspendThread(k, t) ==
  rt_timer_stop(SetStat(rt_schedule_remove_thread(k, t), t, "SUSPEND"), t)

\* rt_thread_suspend called with interrupts disabled.
rt_thread_suspend(k, t) ==
  IF k.stat[t] \in {"READY", "RUNNING"} THEN SuspendThread(k, t) ELSE k

\* rt_thread_resume up to where it enables interrupts: off the suspend list,
\* timer stopped, not yet in the ready table.
ResumeUnlink(k, t) == rt_timer_stop(rt_list_remove(k, t), t)

\* rt_thread_resume called with interrupts disabled.
rt_thread_resume(k, t) ==
  IF k.stat[t] = "SUSPEND"
  THEN rt_schedule_insert_thread(ResumeUnlink(k, t), t)
  ELSE k

\* Mutant: the thread is not put back into the ready table.
TimeoutNotReady(k, t) ==
  rt_schedule([rt_list_remove(k, t) EXCEPT !.error[t] = "ETIMEOUT"])

\* rt_thread_timeout, the function of a thread timer.
rt_thread_timeout(k, t) ==
  rt_schedule(
    rt_schedule_insert_thread(
      [rt_list_remove(k, t) EXCEPT !.error[t] = "ETIMEOUT"], t))

\* Mutant: a READY thread stays in the list of its old priority.
ChangePriorityInPlace(k, t, p) == [k EXCEPT !.prio[t] = p]

\* RT_THREAD_CTRL_CHANGE_PRIORITY: a READY thread changes lists, any other
\* thread only its priority.  Neither is followed by a rt_schedule.
ChangePriority(k, t, p) ==
  IF k.stat[t] = "READY"
  THEN rt_schedule_insert_thread(
         [rt_schedule_remove_thread(k, t) EXCEPT !.prio[t] = p], t)
  ELSE [k EXCEPT !.prio[t] = p]

-----------------------------------------------------------------------------
(***************************************************************************)
(* The tick interrupt.  SysTick_Handler runs to its end before any thread  *)
(* does; its loop over expired timers is cut into one step per timer, and  *)
(* a module takes no thread step while TimerDue holds inside the handler.  *)
(***************************************************************************)

\* The timers of all threads one tick later.
Aged(k) ==
  [k EXCEPT !.left = [t \in Thread |-> IF TimerActive(k, t) THEN k.left[t] - 1 ELSE k.left[t]]]

\* Mutant: off by one, the slice reaches 0 before it is reloaded.
TickReloadsLate(k) ==
  IF k.slice[k.cur] = 0
  THEN rt_schedule([Aged(k) EXCEPT !.slice[k.cur] = InitTick[k.cur]])
  ELSE [Aged(k) EXCEPT !.slice[k.cur] = @ - 1]

\* Mutant: the slice is reloaded and the thread goes on.
TickNoYield(k) ==
  [Aged(k) EXCEPT !.slice[k.cur] = IF @ = 1 THEN InitTick[k.cur] ELSE @ - 1]

\* rt_tick_increase up to rt_timer_check: time passes, and the thread that used
\* up its time slice gives way to the others of its priority.
TickIncrease(k) ==
  IF k.slice[k.cur] = 1
  THEN rt_schedule([Aged(k) EXCEPT !.slice[k.cur] = InitTick[k.cur]])
  ELSE [Aged(k) EXCEPT !.slice[k.cur] = @ - 1]

TimerDue(k) == \E i \in 1 .. Len(k.timers) : k.left[k.timers[i]] <= 0

\* The timer at the head of the timer list: the earliest to expire, and among
\* equals the one started first.
FirstDue(k) ==
  k.timers[CHOOSE i \in 1 .. Len(k.timers) :
             /\ k.left[k.timers[i]] <= 0
             /\ \A j \in 1 .. i - 1 : k.left[k.timers[j]] > 0]

\* Mutant: the timer stays in the list.
TimerCheckKeeps(k) == rt_thread_timeout(k, FirstDue(k))

\* One turn of the loop of rt_timer_check: unlink the timer, call its function.
TimerCheckOne(k) == rt_thread_timeout(rt_timer_stop(k, FirstDue(k)), FirstDue(k))

=============================================================================
