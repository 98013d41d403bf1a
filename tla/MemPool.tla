------------------------------ MODULE MemPool ------------------------------
(***************************************************************************)
(* One memory pool of mempool.c: blocks of fixed size on a free list, and  *)
(* threads that wait for one.  A waiter that is resumed has no block yet:  *)
(* it looks again, and may find that another thread was faster.            *)
(***************************************************************************)
EXTENDS RtRetry

CONSTANTS
  Block,       \* the blocks of the pool
  MaxSuspended, \* bound: largest suspend_thread_count (timeouts never decrease it)
  Services     \* "delete" if the pool is deleted

ASSUME BlockAssumption    == IsFiniteSet(Block)
ASSUME MaxSuspendedAssumption == MaxSuspended \in Nat
ASSUME ServicesAssumption == Services \subseteq {"delete"}

VARIABLES
  block_list,        \* mp->block_list: the free blocks in the order of their links
  block_free_count,
  suspend_thread_count,
  allocated,         \* the blocks that rt_mp_alloc has returned
  alive              \* FALSE once rt_mp_delete has been called

poolVars == <<block_list, block_free_count, suspend_thread_count, allocated, alive>>
mpVars == <<k, pc, tgt, isr, op, poolVars, time>>

Pool == "mp"         \* mp->suspend_thread
ASSUME PoolAssumption == Pool \in WaitList

MpTypeOK ==
  /\ TypeOK
  /\ op \in [Thread -> {"none", "alloc", "alloc_wait", "delete", "delete_resume"}]
  /\ block_list \in Seq(Block)
  /\ block_free_count \in Nat
  /\ suspend_thread_count \in Nat
  /\ allocated \in SUBSET Block
  /\ time \in [Thread -> Int]
  /\ alive \in BOOLEAN

\* rt_mp_init
MpInit ==
  /\ IpcInit
  /\ block_list = SetToSeq(Block)
  /\ block_free_count = Cardinality(Block)
  /\ suspend_thread_count = 0
  /\ allocated = {}
  /\ time = [t \in Thread |-> 0]
  /\ alive = TRUE

-----------------------------------------------------------------------------
(* rt_mp_alloc *)

Alloc(n) ==
  /\ Outside /\ alive
  /\ SetTime(n)
  /\ Then_return(k, "alloc")
  /\ UNCHANGED poolVars

\* Mutant: the block stays on the free list.
AllocTake_Shared ==
  /\ Inside("alloc")
  /\ block_free_count > 0
  /\ block_free_count' = block_free_count - 1
  /\ allocated' = allocated \union {Head(block_list)}
  /\ SetTime(0)
  /\ Then_return(k, "none")
  /\ UNCHANGED <<block_list, suspend_thread_count, alive>>

\* The loop is left: the first free block is unlinked.
AllocTake ==
  /\ Inside("alloc")
  /\ block_free_count > 0
  /\ block_free_count' = block_free_count - 1
  /\ block_list' = Tail(block_list)
  /\ allocated' = allocated \union {Head(block_list)}
  /\ SetTime(0)
  /\ Then_return(k, "none")
  /\ UNCHANGED <<suspend_thread_count, alive>>

AllocFail ==
  /\ Inside("alloc")
  /\ block_free_count = 0 /\ time[k.cur] = 0
  /\ Then_return(k, "none")
  /\ UNCHANGED <<poolVars, time>>

\* Suspended at the HEAD of the list: the last to come is the first to be served.
SuspendOnPool(u, t) ==
  LET v == rt_thread_suspend([u EXCEPT !.error[t] = "EOK"], t)
      x == [v EXCEPT !.wait[Pool] = <<t>> \o @]
  IN  IF time[t] > 0 THEN rt_timer_start(x, t, time[t]) ELSE x

AllocWait ==
  /\ Inside("alloc")
  /\ block_free_count = 0 /\ time[k.cur] # 0
  /\ suspend_thread_count < MaxSuspended
  /\ suspend_thread_count' = suspend_thread_count + 1
  /\ Then_schedule(SuspendOnPool(k, k.cur), "alloc_wait")
  /\ UNCHANGED <<block_list, block_free_count, allocated, time, alive>>

\* After the rt_schedule, with interrupts enabled: an error ends the call, else
\* the time that has passed is subtracted (see Tick) and the loop goes on.
AllocWake == WakeUp("alloc_wait", "alloc") /\ UNCHANGED poolVars

-----------------------------------------------------------------------------
(* rt_mp_free *)

\* What happens when the list is empty and the count is not is undefined: see
\* FreeFindsThread.
Defined == suspend_thread_count > 0 => k.wait[Pool] # << >>

Linked(b) == <<b>> \o block_list

\* Mutant: a free block wakes nobody.
Free_WakesNobody(b) ==
  /\ Outside /\ alive /\ Defined
  /\ b \in allocated
  /\ allocated' = allocated \ {b}
  /\ block_list' = Linked(b)
  /\ block_free_count' = block_free_count + 1
  /\ Then_return(k, "none")
  /\ UNCHANGED <<suspend_thread_count, time, alive>>

\* The first waiter is resumed, and rt_schedule follows.
Free(b) ==
  /\ Outside /\ alive /\ Defined
  /\ b \in allocated
  /\ allocated' = allocated \ {b}
  /\ block_list' = Linked(b)
  /\ block_free_count' = block_free_count + 1
  /\ IF suspend_thread_count > 0
     THEN LET t == Head(k.wait[Pool])
          IN  /\ suspend_thread_count' = suspend_thread_count - 1
              /\ Then_schedule(rt_thread_resume([k EXCEPT !.error[t] = "EOK"], t), "none")
     ELSE /\ UNCHANGED suspend_thread_count
          /\ Then_return(k, "none")
  /\ UNCHANGED <<time, alive>>

-----------------------------------------------------------------------------
(* rt_mp_delete, whose loop is that of rt_ipc_list_resume_all and a count.  *)

Delete_call ==
  /\ Outside /\ alive /\ "delete" \in Services
  /\ alive' = FALSE
  /\ Then_return(k, "delete")
  /\ UNCHANGED <<block_list, block_free_count, suspend_thread_count, allocated, time>>

\* What it does with a list that is empty again is undefined.
DeleteLoop ==
  /\ \/ ResumeAllTest(Pool, "delete", "delete_resume", "none") /\ UNCHANGED suspend_thread_count
     \/ /\ ResumeAllBody(Pool, "delete_resume", "delete")
        /\ suspend_thread_count' = suspend_thread_count - 1
  /\ UNCHANGED <<block_list, block_free_count, allocated, time, alive>>

-----------------------------------------------------------------------------
\* rt_tick_get() - before_sleep is subtracted from the time of the threads that
\* have not read it yet.
Tick ==
  /\ TickComes
  /\ time' = TimeAfterTick({"alloc_wait"})
  /\ UNCHANGED poolVars

MpNext ==
  \/ Tick
  \/ OtherStep /\ UNCHANGED <<poolVars, time>>
  \/ (\E n \in Times : Alloc(n))
  \/ AllocTake \/ AllocFail \/ AllocWait \/ AllocWake
  \/ (\E b \in Block : Free(b))
  \/ Delete_call \/ DeleteLoop

MpSpec == MpInit /\ [][MpNext]_mpVars

-----------------------------------------------------------------------------
(* Properties *)

\* Blocks are neither lost nor handed out twice: each one is on the free list,
\* once, or allocated, and the counter that rt_mp_alloc tests is the length of
\* the list it then takes a block from (mempool.c:315, 371-378).
BlockConservation ==
  /\ MpTypeOK
  /\ block_free_count = Len(block_list)
  /\ IsInjective(block_list)
  /\ ToSet(block_list) \cap allocated = {}
  /\ ToSet(block_list) \union allocated = Block

\* No lost wake-up: blocks are free while threads wait only as long as at least
\* as many resumed threads are on their way to them, although a resumed thread
\* may find its block taken and wait again; and no waiter is invisible to
\* rt_mp_free, which looks only at the count (mempool.c:315-369, 415-440).
NoLostWakeup ==
  /\ suspend_thread_count >= Len(k.wait[Pool])
  /\ alive => NoneForgotten(Pool, block_free_count, {"alloc", "alloc_wait"})

\* rt_mp_free finds a thread where it looks for "the suspended thread"
\* (mempool.c:423).
FreeFindsThread == alive => Defined

=============================================================================
