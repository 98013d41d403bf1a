------------------------------- MODULE RtIpc -------------------------------
(***************************************************************************)
(* What the blocking services of ipc.c and mempool.c have in common: the   *)
(* suspend lists, the wake-up helpers, and threads that stay inside a call *)
(* across a rt_schedule.                                                   *)
(*                                                                         *)
(* The threads are those of Scheduler, with the same steps; op[t] is the   *)
(* service call thread t is inside of.  A call that blocks suspends its    *)
(* thread with interrupts disabled, enables them, calls rt_schedule (the   *)
(* Reschedule step of Scheduler) and goes on when the thread runs again.   *)
(***************************************************************************)
EXTENDS Scheduler

VARIABLE op

\* The system as it is once the main thread has started every thread with the
\* scheduler locked (each goes to the tail of the list of its priority) ...
KernelStarted ==
  [KernelAtStart EXCEPT
     !.stat  = [t \in Thread |-> IF t = Main THEN "RUNNING" ELSE "READY"],
     !.ready = [p \in Prio |-> @[p] \o SetToSeq({t \in Thread \ {Main, Idle} : InitPrio[t] = p})],
     !.group = {InitPrio[t] : t \in Thread \ {Main}}]

\* ... and has unlocked it.
KernelRunning == rt_schedule(KernelStarted)

IpcInit ==
  /\ k = KernelRunning
  /\ pc = [t \in Thread |-> "run"]
  /\ tgt = [t \in Thread |-> t]
  /\ isr = "none"
  /\ op = [t \in Thread |-> "none"]

\* The current thread runs its own code, or is at place p of a service call.
Outside  == At("run") /\ k.cur # Idle /\ op[k.cur] = "none"
Inside(p) == At("run") /\ op[k.cur] = p

Enter(p) == op' = [op EXCEPT ![k.cur] = p]
Leave == Enter("none")

\* A section of a service call that changes the kernel to u, stays in (or enters)
\* place p and has rt_schedule as its next step.
Then_schedule(u, p) == k' = u /\ Enter(p) /\ Goto("sched") /\ UNCHANGED <<tgt, isr>>

\* The same without a rt_schedule.
Then_return(u, p) == k' = u /\ Enter(p) /\ UNCHANGED <<pc, tgt, isr>>

\* An interrupt handler runs between two steps of a thread and leaves the kernel u.
\* The switch that a rt_schedule of its calls asks for takes place when it returns.
Interrupt(u) == isr = "none" /\ k' = u /\ UNCHANGED <<pc, tgt, isr, op>>

\* The steps of Scheduler: interrupts and the rt_schedule that is due come at
\* any place; the calls of Scheduler are made outside the services.
TickComes == SysTick /\ UNCHANGED op
OtherStep ==
  /\ UNCHANGED op
  /\ \/ TimerCheck
     \/ Reschedule
     \/ pc[k.cur] # "sched" /\ op[k.cur] = "none" /\ ThreadStep
SystemStep == TickComes \/ OtherStep

-----------------------------------------------------------------------------
(* Suspend lists, with interrupts disabled.                                 *)

\* Mutant: the place of equal priority, instead of the first lower one.
PrioPlace_Equal(u, s, t) == {i \in 1 .. Len(s) : u.prio[t] <= u.prio[s[i]]}

\* Mutant: the flag is ignored, new waiters go to the tail.
PrioPlace_None(u, s, t) == {}

\* Where the waiters of lower priority are.
PrioPlace(u, s, t) == {i \in 1 .. Len(s) : u.prio[t] < u.prio[s[i]]}

\* rt_ipc_list_suspend: at the tail, or before the first waiter of lower priority.
rt_ipc_list_suspend(u, w, t, flag) ==
  LET v == rt_thread_suspend(u, t)
      s == v.wait[w]
      lower == PrioPlace(v, s, t)
  IN  [v EXCEPT !.wait[w] = IF flag = "FIFO" \/ lower = {} THEN Append(s, t)
                            ELSE InsertAt(s, Min(lower), t)]

\* Suspended on w, for n ticks (for ever when n is negative).
WaitOn(u, w, t, flag, n) ==
  LET v == rt_ipc_list_suspend([u EXCEPT !.error[t] = "EOK"], w, t, flag)
  IN  IF n > 0 THEN rt_timer_start(v, t, n) ELSE v

Waiting(w, t) == Contains(k.wait[w], t)

\* rt_ipc_list_resume: the first waiter becomes ready.
rt_ipc_list_resume(u, w) == rt_thread_resume(u, Head(u.wait[w]))

\* The end of a release or send in an interrupt handler: the first waiter is
\* resumed, and rt_schedule called only if there was one.
IrqResume(w) ==
  Interrupt(IF k.wait[w] = << >> THEN k ELSE rt_schedule(rt_ipc_list_resume(k, w)))

\* One turn of rt_ipc_list_resume_all, whose interrupts are disabled.
ResumeWithError(u, t) == rt_thread_resume([u EXCEPT !.error[t] = "ERROR"], t)

\* The kernel after i turns for the threads of list s.
ResumeTurns(u, s) ==
  LET turn[i \in 0 .. Len(s)] == IF i = 0 THEN u ELSE ResumeWithError(turn[i - 1], s[i])
  IN  turn

\* rt_ipc_list_resume_all called with interrupts disabled: until the list is empty.
rt_ipc_list_resume_all(u, w) == ResumeTurns(u, u.wait[w])[Len(u.wait[w])]

\* rt_ipc_list_resume_all called with interrupts enabled: it looks at the list at
\* place test, and takes the first thread with interrupts disabled at place body.
\* What it does there with a list that is empty again is undefined.
ResumeAllTest(w, test, body, done) ==
  Inside(test) /\ Then_return(k, IF k.wait[w] = << >> THEN done ELSE body)
ResumeAllBody(w, body, test) ==
  /\ Inside(body)
  /\ k.wait[w] # << >>
  /\ Then_return(ResumeWithError(k, Head(k.wait[w])), test)

-----------------------------------------------------------------------------
(* Properties of every suspend list. *)

\* The suspend lists, the status words and the timers agree: a listed thread is
\* SUSPENDed, once, on one list only; nobody is left SUSPENDed off every list
\* without the timer that will wake it (rt_thread_suspend, rt_thread_resume and
\* rt_thread_timeout each touch list, status and timer).
WaitLists ==
  /\ \A w \in WaitList :
       /\ IsInjective(k.wait[w])
       /\ \A t \in ToSet(k.wait[w]) :
            /\ k.stat[t] = "SUSPEND"
            /\ \A v \in WaitList \ {w} : ~Contains(k.wait[v], t)
  /\ \A t \in Thread : k.stat[t] = "SUSPEND" =>
       TimerActive(k, t) \/ \E w \in WaitList : Contains(k.wait[w], t)

=============================================================================
