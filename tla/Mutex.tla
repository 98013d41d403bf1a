------------------------------- MODULE Mutex -------------------------------
(***************************************************************************)
(* The mutexes of ipc.c, recursive locks with priority inheritance, used   *)
(* by the threads of Scheduler.  The suspend list of mutex m is k.wait[m]. *)
(***************************************************************************)
EXTENDS RtIpc

CONSTANTS
  NULL,
  MutexFlag,   \* RT_IPC_FLAG_FIFO or RT_IPC_FLAG_PRIO
  MaxHold,     \* bound: deepest recursive take (the counter has 8 bits)
  Times,       \* waiting times: -1 for ever, 0 not at all, else ticks
  Services     \* "delete" if a mutex is deleted

ASSUME NullAssumption      == NULL \notin Thread
ASSUME MutexFlagAssumption == MutexFlag \in {"FIFO", "PRIO"}
ASSUME MaxHoldAssumption   == MaxHold \in 1 .. 255
ASSUME NoPrioAssumption    == MaxPrio <= 255     \* 255 is the priority of nobody
ASSUME TimesAssumption     == Times \subseteq Int
ASSUME ServicesAssumption  == Services \subseteq {"delete"}
ASSUME MutexNameAssumption == WaitList \cap {"none", "delete", "delete_resume"} = {}

VARIABLES
  value,      \* mutex->value
  owner,      \* mutex->owner
  hold,       \* mutex->hold
  original,   \* mutex->original_priority
  gone        \* the mutex that rt_mutex_delete was called for (one at most), or "none"

mutexVars == <<value, owner, hold, original, gone>>
allVars == <<k, pc, tgt, isr, op, value, owner, hold, original, gone>>

NoPrio == 255

MutexTypeOK ==
  /\ TypeOK
  /\ op \in [Thread -> WaitList \union {"none", "delete", "delete_resume"}]
  /\ gone \in WaitList \union {"none"}
  /\ value \in [WaitList -> {0, 1}]
  /\ owner \in [WaitList -> Thread \union {NULL}]
  /\ hold \in [WaitList -> 0 .. MaxHold]
  /\ original \in [WaitList -> Prio \union {NoPrio}]

\* rt_mutex_init
MutexInit ==
  /\ IpcInit
  /\ value = [m \in WaitList |-> 1]
  /\ owner = [m \in WaitList |-> NULL]
  /\ hold = [m \in WaitList |-> 0]
  /\ original = [m \in WaitList |-> NoPrio]
  /\ gone = "none"

\* Nobody uses a mutex after rt_mutex_delete.
MutexCall(m) == Outside /\ gone # m

SetError(u, t, e) == [u EXCEPT !.error[t] = e]

-----------------------------------------------------------------------------
(* rt_mutex_take *)

\* The owner takes its mutex again; hold is an 8-bit counter.
TakeAgain(m) ==
  /\ MutexCall(m)
  /\ owner[m] = k.cur
  /\ hold[m] < MaxHold
  /\ hold' = [hold EXCEPT ![m] = (@ + 1) % 256]
  /\ Then_return(SetError(k, k.cur, "EOK"), "none")
  /\ UNCHANGED <<value, owner, original, gone>>

TakeFree(m) ==
  /\ MutexCall(m)
  /\ owner[m] # k.cur /\ value[m] > 0
  /\ value' = [value EXCEPT ![m] = @ - 1]
  /\ owner' = [owner EXCEPT ![m] = k.cur]
  /\ original' = [original EXCEPT ![m] = k.prio[k.cur]]
  /\ hold' = [hold EXCEPT ![m] = (@ + 1) % 256]
  /\ Then_return(SetError(k, k.cur, "EOK"), "none")
  /\ UNCHANGED gone

Unavailable(m) == MutexCall(m) /\ owner[m] # k.cur /\ value[m] = 0

TakeFail(m) ==
  /\ Unavailable(m)
  /\ 0 \in Times
  /\ Then_return(SetError(k, k.cur, "ETIMEOUT"), "none")
  /\ UNCHANGED mutexVars

\* Mutant: no priority inheritance.
Boost_Not(u, m, t) == u

\* The owner inherits the priority of a waiter that has a higher one.
Boost(u, m, t) ==
  IF u.prio[t] < u.prio[owner[m]] THEN ChangePriority(u, owner[m], u.prio[t]) ELSE u

TakeWait(m, n) ==
  /\ Unavailable(m)
  /\ n # 0
  /\ Then_schedule(WaitOn(Boost(k, m, k.cur), m, k.cur, MutexFlag, n), m)
  /\ UNCHANGED mutexVars

\* After the rt_schedule: thread->error is the result.
TakeReturn(m) ==
  /\ Inside(m)
  /\ Then_return(k, "none")
  /\ UNCHANGED mutexVars

-----------------------------------------------------------------------------
(* rt_mutex_release *)

ReleaseNotOwner(m) ==
  /\ MutexCall(m)
  /\ owner[m] # k.cur
  /\ Then_return(SetError(k, k.cur, "ERROR"), "none")
  /\ UNCHANGED mutexVars

ReleaseOnce(m) ==
  /\ MutexCall(m)
  /\ owner[m] = k.cur /\ hold[m] > 1
  /\ hold' = [hold EXCEPT ![m] = @ - 1]
  /\ Then_return(k, "none")
  /\ UNCHANGED <<value, owner, original, gone>>

\* Mutant: the inherited priority is kept.
Restored_Not(m) == k

\* "change the owner thread to original priority", with no rt_schedule.
Restored(m) ==
  IF original[m] # k.prio[k.cur] THEN ChangePriority(k, k.cur, original[m]) ELSE k

ReleaseFree(m) ==
  /\ MutexCall(m)
  /\ owner[m] = k.cur /\ hold[m] = 1
  /\ k.wait[m] = << >>
  /\ hold' = [hold EXCEPT ![m] = 0]
  /\ value' = [value EXCEPT ![m] = @ + 1]
  /\ owner' = [owner EXCEPT ![m] = NULL]
  /\ original' = [original EXCEPT ![m] = NoPrio]
  /\ Then_return(Restored(m), "none")
  /\ UNCHANGED gone

\* Mutant: the mutex counts as free although a waiter gets it.
HandOver_AlsoFree(m) ==
  /\ MutexCall(m)
  /\ owner[m] = k.cur /\ hold[m] = 1
  /\ k.wait[m] # << >>
  /\ LET w == Head(k.wait[m])
     IN  /\ owner' = [owner EXCEPT ![m] = w]
         /\ original' = [original EXCEPT ![m] = k.prio[w]]
  /\ value' = [value EXCEPT ![m] = @ + 1]
  /\ Then_schedule(rt_ipc_list_resume(Restored(m), m), "none")
  /\ UNCHANGED <<hold, gone>>

\* Mutant: the new owner is not recorded.
HandOver_KeepsOwner(m) ==
  /\ MutexCall(m)
  /\ owner[m] = k.cur /\ hold[m] = 1
  /\ k.wait[m] # << >>
  /\ Then_schedule(rt_ipc_list_resume(Restored(m), m), "none")
  /\ UNCHANGED mutexVars

\* The first waiter becomes the owner (hold goes 1, 0, 1), and rt_schedule follows.
HandOver(m) ==
  /\ MutexCall(m)
  /\ owner[m] = k.cur /\ hold[m] = 1
  /\ k.wait[m] # << >>
  /\ LET w == Head(k.wait[m])
     IN  /\ owner' = [owner EXCEPT ![m] = w]
         /\ original' = [original EXCEPT ![m] = k.prio[w]]
  /\ Then_schedule(rt_ipc_list_resume(Restored(m), m), "none")
  /\ UNCHANGED <<value, hold, gone>>

-----------------------------------------------------------------------------
(* rt_mutex_delete, whose rt_ipc_list_resume_all runs with interrupts enabled. *)

Delete_call(m) ==
  /\ MutexCall(m) /\ "delete" \in Services
  /\ gone = "none"
  /\ gone' = m
  /\ Then_return(k, "delete")
  /\ UNCHANGED <<value, owner, hold, original>>

DeleteLoop ==
  /\ \/ ResumeAllTest(gone, "delete", "delete_resume", "none")
     \/ ResumeAllBody(gone, "delete_resume", "delete")
  /\ UNCHANGED mutexVars

-----------------------------------------------------------------------------
MutexNext ==
  \/ SystemStep /\ UNCHANGED mutexVars
  \/ \E m \in WaitList :
       \/ TakeAgain(m) \/ TakeFree(m) \/ TakeFail(m) \/ TakeReturn(m)
       \/ \E n \in Times : TakeWait(m, n)
       \/ ReleaseNotOwner(m) \/ ReleaseOnce(m) \/ ReleaseFree(m) \/ HandOver(m)
       \/ Delete_call(m)
  \/ DeleteLoop

MutexSpec == MutexInit /\ [][MutexNext]_allVars

-----------------------------------------------------------------------------
(* Properties *)

\* The fields of a mutex agree at every step: it is free exactly when it has no
\* owner, no hold and no remembered priority, and nobody waits for a free mutex
\* or for one of its own (ipc.c:691-699, 830-868).  Nobody is left on the list
\* of a mutex when its rt_mutex_delete is over (ipc.c:634).
MutexConsistent ==
  /\ MutexTypeOK
  /\ \A m \in WaitList :
       /\ value[m] = 1 <=> owner[m] = NULL
       /\ hold[m] = 0 <=> owner[m] = NULL
       /\ original[m] = NoPrio <=> owner[m] = NULL
       /\ \A t \in ToSet(k.wait[m]) : op[t] = m /\ owner[m] \notin {NULL, t}
  /\ \A m \in WaitList \cap {gone} :
       k.wait[m] = << >> \/ \E t \in Thread : op[t] \in {"delete", "delete_resume"}

\* The mutexes do what LockSpec promises: one holder at a time; a take that had
\* to wait succeeds exactly when the release that freed the mutex chose it, and
\* fails without it, whatever times out or preempts in between.
TakeState(t) ==
  IF op[t] \notin WaitList THEN <<"out">>
  ELSE IF Waiting(op[t], t) THEN <<"waiting", op[t]>>
  ELSE IF k.error[t] = "EOK" THEN <<"granted", op[t]>> ELSE <<"failed", op[t]>>
Promise == INSTANCE LockSpec WITH
             Lock <- WaitList, Nobody <- NULL, MaxDepth <- MaxHold,
             holder <- owner, depth <- hold, call <- [t \in Thread |-> TakeState(t)]
ImplementsLock == Promise!Spec

\* No priority inversion: the owner of a mutex has at least the priority of every
\* thread that waits for it (ipc.c:721-727), from the moment of the wait to the
\* hand-over and beyond.
Inheritance ==
  \A m \in WaitList : \A t \in ToSet(k.wait[m]) : k.prio[owner[m]] <= k.prio[t]

\* Inheritance ends: a thread that owns no mutex has its own priority again
\* ("change the owner thread to original priority", ipc.c:832).
OwnPriority ==
  \A t \in Thread : (\A m \in WaitList : owner[m] # t) => k.prio[t] = InitPrio[t]

=============================================================================
