----------------------------- MODULE WorkQueue -----------------------------
(***************************************************************************)
(* One work queue of components/drivers/src/workqueue.c: a list of works,  *)
(* the worker thread that runs them, threads that submit and cancel works, *)
(* and an interrupt handler that submits.  The semaphore of the queue is   *)
(* that of ipc.c and has only its list here: its value is 0 whenever the   *)
(* scheduler is not locked.                                                *)
(***************************************************************************)
EXTENDS RtIpc

CONSTANTS
  Worker,      \* queue->work_thread
  Work,
  NULL,
  WorkCalls    \* the calls that are made

ASSUME WorkerAssumption   == Worker \in Thread \ {Main, Idle}
ASSUME NullAssumption     == NULL \notin Work
ASSUME WorkCallsAssumption ==
  WorkCalls \subseteq {"submit", "irq_submit", "cancel", "cancel_sync"}

WqSem == "wqueue"    \* queue->sem
ASSUME WqSemAssumption == WqSem \in WaitList

VARIABLES
  work_list, work_current,   \* fields of struct rt_workqueue
  pending,                   \* the works with RT_WORK_STATE_PENDING
  sync                       \* the work whose end a cancel_work_sync waits for

wqVars == <<k, pc, tgt, isr, op, work_list, work_current, pending, sync>>

\* rt_workqueue_create; the worker is ready and has not run yet.
WqInit ==
  /\ k = KernelRunning
  /\ pc = [t \in Thread |-> "run"]
  /\ tgt = [t \in Thread |-> t]
  /\ isr = "none"
  /\ op = [t \in Thread |-> IF t = Worker THEN "test" ELSE "none"]
  /\ work_list = << >> /\ work_current = NULL
  /\ pending = {}
  /\ sync = [t \in Thread |-> NULL]

\* rt_list_remove(&work->list), which does nothing to a node that is not linked.
Without(w) == Unlinked(work_list, w)

\* Stays where it is, with the kernel as it is.
NoKernelStep == UNCHANGED <<k, pc, tgt, isr, op>>

-----------------------------------------------------------------------------
(* _workqueue_thread_entry *)

\* The list is looked at with interrupts enabled.
WorkerTest ==
  /\ Inside("test")
  /\ Then_return(k, IF work_list = << >> THEN "suspend" ELSE "take")
  /\ UNCHANGED <<work_list, work_current, pending, sync>>

WorkerSuspend ==
  /\ Inside("suspend")
  /\ Then_schedule(SuspendThread(k, k.cur), "take")
  /\ UNCHANGED <<work_list, work_current, pending, sync>>

\* The first work becomes the current one.  The list is not looked at again; what
\* happens when it is empty (a cancel came after the submit) is undefined.
WorkerTake ==
  /\ Inside("take")
  /\ work_list # << >>
  /\ work_list' = Tail(work_list)
  /\ work_current' = Head(work_list)
  /\ pending' = pending \ {Head(work_list)}
  /\ Then_return(k, "work")
  /\ UNCHANGED sync

\* The function of the work returns.
WorkerDone ==
  /\ Inside("work")
  /\ work_current' = NULL
  /\ Then_return(k, "ack")
  /\ UNCHANGED <<work_list, pending, sync>>

\* Mutant: one release, for one waiting thread.
WorkerAck_One ==
  /\ Inside("ack")
  /\ Then_schedule(IF k.wait[WqSem] = << >> THEN k ELSE rt_ipc_list_resume(k, WqSem), "test")
  /\ UNCHANGED <<work_list, work_current, pending, sync>>

\* The kernel after i releases for the threads of list s.
ReleaseTurns(u, s) ==
  LET turn[i \in 0 .. Len(s)] == IF i = 0 THEN u ELSE rt_thread_resume(turn[i - 1], s[i])
  IN  turn
ReleaseAll(u, w) == ReleaseTurns(u, u.wait[w])[Len(u.wait[w])]

\* _workqueue_work_completion: with the scheduler locked, releases as often as a
\* thread waits, and once more for the trytake that ends the loop.
WorkerAck ==
  /\ Inside("ack")
  /\ Then_schedule(ReleaseAll(k, WqSem), "test")
  /\ sync' = [t \in Thread |-> IF Waiting(WqSem, t) THEN NULL ELSE sync[t]]
  /\ UNCHANGED <<work_list, work_current, pending>>

-----------------------------------------------------------------------------
(* The calls of the other threads, and of the function of the current work. *)

Caller(c) == (Outside \/ Inside("work")) /\ c \in WorkCalls

\* Mutant: a work may be submitted while it runs.
Queued_Current(w) ==
  /\ w \notin pending
  /\ work_list' = Append(Without(w), w)
  /\ pending' = pending \union {w}
  /\ UNCHANGED <<work_current, sync>>

\* What the section of _workqueue_submit_work does to the queue (-RT_EBUSY for a
\* work that is pending or runs).
Queued(w) ==
  /\ w \notin pending /\ w # work_current
  /\ work_list' = Append(Without(w), w)
  /\ pending' = pending \union {w}
  /\ UNCHANGED <<work_current, sync>>

\* The worker is resumed with interrupts enabled (ResumeTest of Scheduler and the
\* steps after it), and only if no work runs.
Submit(w) ==
  /\ Caller("submit")
  /\ Queued(w)
  /\ IF work_current = NULL
     THEN Goto("resume") /\ SetTarget(Worker) /\ UNCHANGED <<k, isr, op>>
     ELSE NoKernelStep

\* A call of rt_thread_resume(queue->work_thread) is between its test of the
\* status and its end.
Resuming == {t \in Thread \ {Worker} : pc[t] \in {"unlink", "insert"} /\ tgt[t] = Worker}

\* rt_workqueue_dowork in an interrupt handler.
IrqSubmit(w) ==
  /\ "irq_submit" \in WorkCalls
  /\ Queued(w)
  /\ \/ work_current = NULL /\ Resuming = {} /\ Interrupt(rt_schedule(rt_thread_resume(k, Worker)))
     \/ work_current # NULL /\ isr = "none" /\ NoKernelStep

\* rt_workqueue_cancel_work (-RT_EBUSY for the current work).
Cancel(w) ==
  /\ Caller("cancel")
  /\ w # work_current
  /\ work_list' = Without(w)
  /\ pending' = pending \ {w}
  /\ NoKernelStep
  /\ UNCHANGED <<work_current, sync>>

\* rt_workqueue_cancel_work_sync of another thread than the worker.  Interrupts
\* are disabled around rt_sem_take: the switch it requests takes place, and the
\* wait begins, when they are enabled at the end of the call.
CancelSync(w) ==
  /\ Outside /\ "cancel_sync" \in WorkCalls
  /\ IF work_current = w
     THEN /\ k' = rt_schedule(WaitOn(k, WqSem, k.cur, "FIFO", -1))
          /\ sync' = [sync EXCEPT ![k.cur] = w]
          /\ UNCHANGED <<pc, tgt, isr, op, work_list>>
     ELSE /\ work_list' = Without(w)
          /\ NoKernelStep /\ UNCHANGED sync
  /\ pending' = pending \ {w}
  /\ UNCHANGED work_current

-----------------------------------------------------------------------------
\* What two calls of rt_thread_resume for one thread do to the ready table when
\* they overlap is undefined (a linked node is linked again): they do not.
OneResume == \A c, d \in Resuming' : c = d

WqNext ==
  \/ SystemStep /\ OneResume /\ UNCHANGED <<work_list, work_current, pending, sync>>
  \/ WorkerTest \/ WorkerSuspend \/ WorkerTake \/ WorkerDone \/ WorkerAck
  \/ \E w \in Work : Submit(w) \/ IrqSubmit(w) \/ Cancel(w) \/ CancelSync(w)

WqSpec == WqInit /\ [][WqNext]_wqVars

-----------------------------------------------------------------------------
(* Properties *)

\* A work is in one place: the list holds each pending work once and no other,
\* and the work that runs is neither in the list nor pending, whoever submits,
\* cancels or submits again while it runs (workqueue.c:69-74, 92-109, 131-139).
WorkConsistent ==
  /\ TypeOK
  /\ op \in [Thread -> {"none", "test", "suspend", "take", "work", "ack"}]
  /\ work_current \in Work \union {NULL}
  /\ IsInjective(work_list)
  /\ pending = ToSet(work_list)
  /\ work_current \notin pending
  /\ work_current # NULL <=> op[Worker] = "work"

\* A cancel_work_sync is neither forgotten nor left to wait for somebody else's
\* work: a thread that waits has its work running, or the worker is about to
\* acknowledge the end of it (workqueue.c:23-45, 359-364).
SyncWaits ==
  \A t \in ToSet(k.wait[WqSem]) : work_current = sync[t] \/ op[Worker] = "ack"

=============================================================================
