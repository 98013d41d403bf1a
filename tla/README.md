# The RT-Thread kernel of New200m in TLA+

New200m is an application for the i.MX RT1060 on RT-Thread 4.0.2
(`src/rt-thread-master`). This directory holds a verification project for the
kernel of that system: the scheduler, threads, the tick, timers, and the
blocking services built on them. File and line numbers in the modules refer to
`src/rt-thread-master/src/` unless a directory is given.

The build that is modelled is that of `bsp/imxrt/imxrt1060-nxp-evk`
(`rtconfig.h`): one core, 32 priorities (one bitmap word), hooks and `RT_ASSERT`
compiled in, no signals, no soft timers, a timer list of one level. On a Cortex-M
`rt_hw_interrupt_disable` saves the mask (sections nest) and a context switch is
only requested and takes place when interrupts are enabled again.

## 1. Inventory

| Component | Source | State | Operations | Hard because |
|---|---|---|---|---|
| Scheduler | scheduler.c | ready table, bitmap, current thread, lock count | rt_schedule, insert, remove, enter/exit_critical | called from threads and from the tick in the middle of thread calls |
| Threads | thread.c | status, priority, slice, error, list node, timer | create, startup, yield, sleep, suspend, resume, control, exit, delete, timeout | several sections with interrupts disabled per call, gaps in between |
| Idle thread | idle.c | defunct list | reap and free | frees memory other lists may lead to |
| Tick | clock.c, irq.c, board.c | tick, remaining slice | rt_tick_increase | reschedules and expires timers inside the interrupt |
| Timers | timer.c | timer list, expiry, flags | start, stop, control, check | wrap-around, gaps in start and stop, functions that use their own timer |
| Suspend lists | ipc.c:60-184 | list of waiting threads | suspend (FIFO or by priority), resume, resume_all | timeout, release and deletion compete for a waiter |
| Semaphore | ipc.c:198-514 | value, list | take, release, control, delete | direct hand-over, release in interrupts |
| Mutex | ipc.c:529-880 | owner, hold, original priority, value, list | take, release, delete | recursion, inheritance, several mutexes per thread |
| Event | ipc.c:914-1276 | set of bits, what each waiter wants, list | send, recv, control, delete | one send serves several waiters that clear bits of one another |
| Mailbox | ipc.c:1293-1757 | ring, offsets, count, lists of receivers and senders | send_wait, recv, control, delete | retry with the time left on both sides, sends in interrupts |
| Message queue | ipc.c:1780-2325 | queue and free list of nodes, count, list | send, urgent, recv, control, delete | copies with interrupts enabled, retry with the time left |
| Memory pool | mempool.c | free list, two counters, list | alloc, free, delete | retry loop, counter apart from the list |
| Heap, objects, devices, library | mem.c, memheap.c, slab.c, object.c, device.c, kservice.c | heap lists, object lists | | mostly sequential |
| Work queue | components/drivers/src/workqueue.c | list of works, current work, flags, semaphore | submit, cancel, cancel_sync, the worker | tests with interrupts enabled, works that submit themselves |
| Other driver services, DFS, SAL, netdev, ulog, finsh, serial | components/ | | | users of the kernel services |

Components interact by calls and by shared state. All blocking services suspend
the calling thread (`rt_thread_suspend`, off the ready table), link its one list
node `tlist` into the list of the object, start its one timer, and call
`rt_schedule`; a release, the timer or a deletion takes it back. So every
property of a service rests on the scheduler's, and a fault in one section shows
in another module. What makes them correct:

- scheduler: table, bitmap and status agree; the highest ready thread runs; equals
  take turns; nothing runs that has ended; the lock is respected;
- timers: the list is in order across the wrap, nothing expires early or late;
- services: a wake-up goes to exactly one waiter or to the counter, in order, and
  is never lost; a timed wait ends; deletion leaves nobody behind;
- mutex: one owner, inheritance as long as somebody waits and no longer;
- mailbox and message queue: every message goes to one receiver, in order, and no
  slot or node is lost;
- event: nobody waits for what is set, and cleared bits go to one receive;
- work queue: a work is in one place, and a synchronous cancel waits for its work.

`PROJECT.json` lists all components, also those left out, and under "hazards"
the places where the code can go wrong in a way a test would hardly reach.

## 2. Modules

| Module | Models | Uses |
|---|---|---|
| `RtKernel` | the kernel state as one record, and every routine that runs with interrupts disabled as an operator from state to state | |
| `Scheduler` | threads, idle thread and tick as actions; `pc[t]` is the place in a kernel call at which interrupts are enabled, `tgt[t]` the thread argument of the call | `RtKernel` |
| `RtIpc` | suspend lists; `op[t]` is the service call a thread is inside of | `Scheduler` |
| `Semaphore`, `SemaphoreSpec` | the semaphore, and what it promises | `RtIpc` |
| `Mutex`, `LockSpec` | the mutexes, and what recursive locks promise | `RtIpc` |
| `Event`, `EventSpec` | the event object, and what it promises | `RtIpc` |
| `RtRetry` | what calls that wait in a loop have in common: `time[t]` is the waiting time that is left | `RtIpc` |
| `MemPool` | the memory pool | `RtRetry` |
| `Mailbox`, `MessageQueue`, `ChannelSpec` | mailbox and message queue, and the channel both promise | `RtRetry` |
| `WorkQueue` | the work queue, a client of suspend and resume by handle | `RtIpc` |
| `Timer` | hard timers and tick arithmetic, without threads' scheduling | |
| `KernelProofs` | lemmas on `RtKernel`, theorems on `Scheduler`, lemmas on `RtIpc` that the proofs of all services use | `RtIpc`, TLAPS |
| `MutexProofs`, `MemPoolProofs`, `MailboxProofs`, `EventProofs`, `MessageQueueProofs` | theorems on these services | `KernelProofs` |
| `SemaphoreProofs` | theorems on the semaphore, and on the work queue, whose synchronous cancel waits for one | `KernelProofs` |
| `TimerProofs` | theorems on `Timer` | TLAPS |
| `MC*` | small instances for TLC | |

How code becomes steps. Only `rt_current_thread` executes, and an interrupt may
come wherever interrupts are enabled. A stretch of code between
`rt_hw_interrupt_disable` and `rt_hw_interrupt_enable` is one step; so is a read
of shared state outside such a stretch (the status test of `rt_thread_suspend`,
the list test of `rt_ipc_list_resume_all`). Between two steps the tick
(`SysTick`, then `TimerCheck` once per expired timer, no thread step in between)
may move `k.cur` to another thread. `rt_schedule` at the end of a call is a step
of its own, since the code enables interrupts before it. An interrupt handler
that releases a semaphore, sends or submits is one step, with `rt_schedule` where
the call makes it: a release or a send calls it only if it resumed a thread
(`need_schedule`; `IrqResume`), a submit always. With nobody waiting the handler
returns to the thread it interrupted, even if one of its priority is READY.
`rt_workqueue_cancel_work_sync` calls `rt_sem_take` with interrupts disabled: the
switch is only requested there, so the call is one step and the wait begins at its
end.

Abstractions. A list is a sequence of its nodes; `rt_list_remove` takes a node off
whichever list it is on, as the node does not know. In `RtKernel` thread timers
are kept in the order of their start with the ticks left to each, which `Timer`
justifies: the real list is sorted by that number, equals in the order of their
start, and nothing else of it is used. Names, hooks, stacks, logging and
`RT_DEBUG` context checks are left out. Fields that nobody reads any more (the
error and the waiting time of a call that is over, a slot or a node that holds no
message) are kept at one value.

Where the source is undefined the action is not taken, and behaviours end or go
another way: the head of an empty list is taken for a thread by `rt_mp_free`
(`Defined`; run mp_timeout shows that it happens) and by `rt_ipc_list_resume_all`
after its unprotected test (`ResumeAllBody`), or for a work by the worker
(`WorkerTake`); two resumes of the worker overlap (`OneResume`). The properties of
these modules hold up to that point. Threads that are still inside a call when
their object is deleted finish on its old contents.

Assumptions on callers. The kernel cannot tell a stale handle, so threads are
passed by handle only while they are live and nobody deletes them
(`Valid`), a thread in the middle of a call about another one is not deleted, a
thread ends with the scheduler unlocked, and nobody uses an object after deleting
it (`alive`). An operator whose comment begins with "Mutant" is a plausible wrong
version of the definition after it; no specification uses it. PROJECT.json says
which property each one breaks.

## 3. Runs

Every run but those of `Timer` has three application threads (`main`, `w1`, `w2`; in wq_core the worker is one of them)
and the idle thread: enough for a running thread, a waiter and a third that comes in between, or two waiters and a
releaser. Time slices are 1 or 2 ticks, waiting times up to 2 ticks, so that slices and waits end both before and after
one another.

| Run | Checks | Shows |
|---|---|---|
| sched_core | TypeOK, ReadyTable, TimeoutAssert, SleepEnds, FifoWithinPriority, LockHolds | create, start, yield, sleep, lock, change of priority at any time, exit, the idle thread; one static thread that is reused |
| sched_handles | ReadyTable, HighestRuns, ClosedNotReady, DeadUntilFreed | suspend, resume and delete by handle, without timed waits; a thread outranks those that compete to resume it |
| sem_core | WaitLists, NoWaiterWhileAvailable, PrioOrder, NobodyLeft, NoOvertaking, ImplementsSemaphore, TimedWaitsEnd, RoundRobin | both flags, all waiting times, release by threads and interrupts, reset, delete; two threads of one priority below a third |
| mutex_core | MutexConsistent, Inheritance, OwnPriority, ImplementsLock | one mutex ordered by priority, recursion up to 2, owners that sleep, delete |
| mp_core | BlockConservation, NoLostWakeup | two blocks, all waiting times, delete |
| mb_core | RingConsistent, NoLostWakeup, ImplementsMailbox | two slots, all waiting times on both sides, an interrupt handler that sends, reset, delete |
| mq_core | QueueConsistent, NoLostWakeup, ImplementsQueue | three nodes, sends, urgent sends and sends of an interrupt handler between the sections of others, reset, delete |
| event_core | NoMissedEvent, ImplementsEvent | two bits; waits for both, for one of them, and without clearing; reset, delete |
| wq_core | ReadyTable, WorkConsistent, SyncWaits | two works; submit, cancel and synchronous cancel by two threads, the works and an interrupt handler; priorities change at any time |
| timer_core | Sorted, FlagTellsLinked, Punctual, EarlyFirst | three timers, a counter of 10 values from every start value |
| timer_fair | TimersExpire | two timers under fairness, a counter of 12 values; timer functions that do nothing, stop or start their timer |
| mp_timeout | FreeFindsThread violated | a timed-out waiter stays in `suspend_thread_count`; the next free writes to the list head |

The type invariants of the services are conjuncts of their first invariant. The
nodes of the message queue and the timers of timer_core are symmetric: no
definition tells them apart. Three nodes let a node be linked before or behind two
others, or two be in hands while one is queued; two slots let the ring wrap around
with a mail in it.

Larger or other instances that TLC refutes, beside mp_timeout (hazards in
PROJECT.json give the line and the setting): `ClosedNotReady` when timed waits meet
`rt_thread_delete`; `SleepEnds` when they meet `rt_thread_suspend`; `ReadyTable`
when two threads of one priority resume a third; `OwnPriority` when a thread holds
two mutexes and releases them in the order of taking; `HighestRuns` when priorities
change; `ImplementsSemaphore` when a thread blocks with the scheduler locked;
`FlagTellsLinked` when a one-shot timer restarts itself.

Bounds: `MaxNest` (nesting of the scheduler lock), `MaxValue` (semaphore),
`MaxHold` (recursion), `MaxSuspended` (the count that timeouts never decrease),
`MaxLate` (ticks a thread is held up inside `rt_timer_start`). None cuts off a
branch of the code: each counter is only compared with 0 or 1, except for its
overflow, which stays out (65536 releases, 256 recursive takes). In `Timer` the
assumption `n + MaxLate < TICK_MAX \div 2` is what the order of the list needs: the
limit of the code, `init_tick < RT_TICK_MAX / 2`, is enough only for threads that
are not held up between reading the tick and inserting the timer.

Fairness. Weak fairness of the tick and of its handler, and nothing else of the
system: the hardware timer keeps interrupting, and the handler runs to its end.
Threads may loop for ever in their own code and other interrupts may never come.
`Timer` states it with `WF_vars`, and adds that a thread held up inside
`rt_timer_start` goes on, which `MaxLate` already bounds. `SemFairSpec` spells the
same out with the states in which a tick or a timeout can change something, since
TLC would evaluate ENABLED of the whole handler in every state. `RoundRobin` lets a
READY thread wait for threads of higher priority only; `TimedWaitsEnd` holds for
sleeps and for waits on the semaphore, with no release and no running thread to
help. The liveness of the services themselves would need fair threads, which the
kernel does not promise: that no wake-up is lost is stated as an invariant there.

Refinement. `ImplementsSemaphore` maps `sem->value` to `avail`, and a thread inside
`rt_sem_take` to "waiting" while it is on the list, then to "granted" or "failed"
according to `thread->error`. `value` and the calls alone would not tell a release
that does nothing from a step in which nothing happens, nor a timeout that leaves
`RT_EOK` from a release, so `Semaphore` has a history variable that is not in the
code: `releases`, the calls of `rt_sem_release` modulo 2, mapped to the variable of
that name in `SemaphoreSpec`, which its `Release` flips and every other step keeps.
So a release that resumes nobody though threads wait, that resumes two, or that is
not added to the value when nobody waits, a wait that ends with success by anything
but a release, and a wait while the value is positive are no steps of
`SemaphoreSpec`. No guard reads `releases`. `ImplementsLock` does the same for
mutexes; its abstract `Return` lets only the holder return with success.

`ImplementsMailbox` and `ImplementsQueue` map the ring between its offsets, and the
contents of the linked nodes, to one bounded sequence `chan`; a message leaves it
for the hand of one receiver and stays there until the receiver has copied it. A
reused node, a message overwritten during the copy, an urgent message that comes
last, or a sender that puts a mail into a full ring would be no step of
`ChannelSpec`. `ImplementsEvent` maps a thread inside `rt_event_recv` to what it
waits for, then to the bits it was given: one send may serve any set of waiters
whose clears do not overlap, and `EventSpec` has no notion of list or walk.
`NoneForgotten` (`RtRetry`) is the invariant behind the retry loops: as long as
threads wait there is no more to be had than resumed threads on their way to it.

## 4. Proofs

Every theorem holds for any number of threads, priorities, slices and waiting times, any number of bits, messages, nodes
and works, any size of pool, ring or counter, and any range of the tick counter, under the assumptions that the modules
name: the idle thread has the lowest priority, slices and waiting times are positive, there are finitely many threads
(`ThreadFinite`) and nodes of a message queue (`NodeAssumption`), no priority is the value that marks a free mutex
(`NoPrioAssumption`), a timer is started for less than half the range of the counter.

| Module | Theorem | States | Needs |
|---|---|---|---|
| `KernelProofs` | `TypeCorrect`, `ReadyTableCorrect`, `TimeoutAssertHolds`, `SleepsEnd`, `EndedThreadsFreed`, `ClosedThreadsRemoved`, `LockRespected`, `TakeTurns` | `TypeOK`, `ReadyTable`, `TimeoutAssert`, `SleepEnds`, `DeadUntilFreed`, `ClosedNotReady`, `LockHolds`, `FifoWithinPriority` | `NoHandles` |
| | `Preemption` | `HighestRuns` | and fixed priorities |
| `SemaphoreProofs` | `SemWaitLists`, `SemNoLostWakeup`, `SemNobodyLeft`, `SemRefinement` | `WaitLists`, `NoWaiterWhileAvailable`, `NobodyLeft`, `ImplementsSemaphore` | `Ordinary` |
| | `SemPrioOrder`, `SemNoOvertaking` | `PrioOrder`, `NoOvertaking` | and fixed priorities |
| | `WqWorkConsistent`, `WqSyncWaits`, `WqReadyTable` | `WorkConsistent`, `SyncWaits`, `ReadyTable` of the work queue | `Ordinary` |
| `MutexProofs` | `MutexFieldsAgree`, `MutexWaitLists`, `MutexRefinement` | `MutexConsistent`, `WaitLists`, `ImplementsLock`, for any number of mutexes | `Ordinary` |
| | `MutexInheritance`, `MutexOwnPriority` | `Inheritance`, `OwnPriority` | and fixed priorities, one mutex ordered by priority |
| `MemPoolProofs` | `MpBlockConservation`, `MpNoLostWakeup`, `MpWaitLists` | `BlockConservation`, `NoLostWakeup`, `WaitLists` | `Ordinary` |
| `MailboxProofs` | `MbRingConsistent`, `MbNoLostWakeup`, `MbWaitLists`, `MbRefinement` | `RingConsistent`, `NoLostWakeup`, `WaitLists`, `ImplementsMailbox` | `Ordinary` |
| `EventProofs` | `EvNoMissedEvent`, `EvWaitLists`, `EvRefinement` | `NoMissedEvent`, `WaitLists`, `ImplementsEvent` | `Ordinary` |
| `MessageQueueProofs` | `MqQueueConsistent`, `MqNoLostWakeup`, `MqWaitLists`, `MqRefinement` | `QueueConsistent`, `NoLostWakeup`, `WaitLists`, `ImplementsQueue` | `Ordinary` |
| `TimerProofs` | `TimerSorted`, `TimerPunctual`, `TimerEarlyFirst` | `Sorted`, `Punctual`, `EarlyFirst` | |
| | `TimerFlagTellsLinked` | `FlagTellsLinked` | timer functions do not start their own timer |

What the hypotheses exclude, and why. `NoHandles`: threads are not suspended, resumed or deleted by handle, for with
these calls several of the properties are false (hazards at thread.c:443, 668, 733). `Ordinary`: beside the calls of the
service, threads yield, sleep, change priorities and end. So none blocks with the scheduler locked
(`ImplementsSemaphore` is false then), and none is taken off a list by handle. `Ordinary` also leaves out that threads
are created while the service is in use; this refutes nothing, but a thread that is being started is suspended without
being on a list, which `Waits` does not allow for. The worker of a work queue is suspended and resumed by handle, but
only by the calls of the queue; that two resumes of it do not overlap (`OneResume`) is part of the model. Fixed
priorities, that is no `RT_THREAD_CTRL_CHANGE_PRIORITY` in thread code: it does not move a waiter in its list. One mutex
for `OwnPriority`: with two it is false (ipc.c:698). Timer functions: one that restarts its own one-shot timer loses the
flag (timer.c:542).

### The invariants

None of the properties is inductive, and each module strengthens them to one that
is; the theorem with `Invariance` in its name says that it always holds.

`IInv` (scheduler). `ReadyTable` after a tick needs that the
thread of an expired timer is SUSPENDed and on no ready list (`TimeoutAssert`),
which needs that a started thread is not yet in the table and has no timer, which
depends on the place of its starter (`Started`). That the idle thread frees only
what nothing refers to needs what is on the defunct list (`Defunct`), where the
idle thread is (`Reaping`), and that an ended thread never becomes current, which
in turn needs that the rt_schedule after its end does switch: the idle thread is
always READY when it is not running. `IInv` is the conjunction of `TypeOK`,
`KernelOK` (table, bitmap, current thread, timers), `Places` (which places the
threads and the idle thread can be at), `Started`, `Reaping`, `Defunct`,
`Running`, `Ticking` (the handler runs while timers are due) and `SleepEnds`. In an
instance with `rt_thread_startup` every thread in `rt_thread_resume` makes ready a
thread that nobody else can (`Starting`); in one without, as a work queue is, this holds
only once the status has been tested, and `OnlyStarts`, proved along with `IInv`, says
that the scheduler's own threads then never get there.

`TakeTurns` needs no more than `IInv`. Each routine keeps the order of each list
(`InTurn`): unlinking does, appending does, and so do both together (`InTurnTwice`),
as `rt_schedule` appends one thread and unlinks another and no thread that is taken
off a list comes back to it in the same step, except by a change of priority.

`IpcInv` (suspend lists). `IInv`, the scheduler unlocked, `CallPlaces` (a thread
inside a service call runs the service or is about to reschedule) and `Waits` (no
thread is on two lists or twice on one, a listed thread is suspended and inside a
service, and a suspended thread that is on no list sleeps and has a timer). It does not mention the service, so the steps of
the scheduler, the tick and the timeouts are treated once: `SystemStepOK` says that
they keep `IpcInv` and take a thread off a list only with an error. A step of a
service is described by what it does to the kernel (`Gentle`, `Joined`, `Resumes`),
and `ServiceStep` concludes that `IpcInv` is kept. `rt_ipc_list_resume_all` inside
one section is the iterated `ResumeTurns`; induction over data is out of reach, so
`ResumeAllOK` takes the least number of turns at which the claim would fail.

`SemInv` adds where waiters are: a listed thread is inside `rt_sem_take` with error
RT_EOK, and nobody is listed while the value is positive. Without the error a thread
that is taken off with a timeout could not be told from one that was granted the
semaphore, which is what the refinement rests on: a step that keeps `releases` and
takes waiters off leaves an error with each, a step that flips it takes off exactly
one and leaves `RT_EOK`, or adds to the value with the list empty.

`MutexInv` adds `Fields` (owner, hold, value and original priority of a mutex agree),
`Waiters`, `Results` (who is off the list with RT_EOK has become the owner) and
`Deleting`. `PrioInv(m)` adds that the list is in the order of the priorities, that
the owner is at least as urgent as the head, and that nobody but the owner runs with
a priority that is not its own.

`EvInv` says of each waiter that what it waits for is not set. The walk of
`rt_event_send` serves the waiters one after the other, and a served one may clear
bits: `WalkTurns` is what each turn leaves, and the least turn at which the claim of
`WalkOK` would fail leads to a contradiction, as for `ResumeAllOK`. The claim has two
sides: those already passed over still wait for something that is not set, since bits are
only cleared on the way; and those served (`ServedTo`) got bits that were set and that
no other of them has cleared, which is what `EventSpec` allows one send to do.

`MqInv` is `Calling` (who is where), `Hands` (which calls have a node in hand, no two
the same), `Nodes` and `NoLostWakeup`. `Nodes` says that the queue and the free list,
found by following the links, share out the nodes with the hands, and that the three
pointers and the count agree with them. Induction along the links is out of reach, so
the lemmas are about any sequences that the links lead through (`Linked`, `Pool`):
taking or linking a node changes such a sequence by one element, and `ChainOf` shows
that following the links then finds it.

`WqInv` adds to the suspend lists where the worker is (`WorkerPlaces`: it alone is
inside the queue's code, it has no timer and waits for nobody), `Works` (a work is in
one place) and `Syncs` (whoever waits for a work has it running or about to be
acknowledged). It rests on `ListInv`, the part of `IpcInv` that does not say who is on a
list, because the worker suspends itself on none.

`MpInv`, `MbInv` and `MqInv` are about calls that retry. A resumed waiter has no claim on the
block, mail or slot it was resumed for: anyone may take it first, and a
waiter of higher priority does. `NoLostWakeup` therefore counts: as long as threads
wait, there is no more to be had than threads that are on the way. `Fits` and `FitsOK`
carry that count over a step in which one thread leaves or joins the ones on the
way; `Hands` of the mailbox says which calls hold a mail. `Ring` states that count
and offsets agree and that the slots between them hold mails; `%` is replaced by the
case distinction of the code (`Slot`), after which the solver decides where a put or
a take lands (`RingPut`, `RingTake`).

`TInv` (timers) relates each linked timer to the ticks it has left (`Left`), a signed
number in place of the difference modulo the range. With it the comparison of
timer.c, `next - new < RT_TICK_MAX / 2`, becomes an ordinary one (`AfterLeft`,
`ExpiredLeft`); it holds while no timer is later than `MaxLate` (`Near`), also while the
handler is in its loop (`Lateness`).

### How the proofs are laid out

`KernelProofs` has three parts. The first shows for each operator of `RtKernel` that
it preserves `KernelOK` and what else it leaves alone (`Harmless`, `SameWaits`,
`TakenOff`): first for lists, then for insertion, removal and dispatch, then for
`rt_schedule`, ticks, timeouts, sleep, exit, suspend and resume. The second has the
theorems on `Scheduler`, the third the lemmas on `RtIpc`. Every other module has one
lemma per action or group of actions, for the invariant and, where there is an abstract
specification, for its step (`PromiseStep`), and one lemma that puts them together
(`Steps`, `SemStep`, `WqStep`, `MutexStep`, `MpStep`, `MbStep`, `EvStep`, `MqStep`,
`TimerNext`). The recursive definitions of the models (`ResumeTurns`, `ReleaseTurns`,
`WalkTurns`, `NodesFrom`) are functions on an interval; that such a function exists is
a lemma of its own (`TurnsDefined`, `ReleasesDefined`, `WalkDefined`), or a step of
`ChainOf`.

### Only model-checked

Every invariant and every action property that a passing run checks, and every
refinement, has a theorem. What remains with TLC:

- Liveness (`TimedWaitsEnd`, `RoundRobin`, `TimersExpire`): outside the prover.
- Everything with calls by handle (run sched_handles), with threads that are created
  or lock the scheduler while a service is in use, and the instances of section 3
  that are beyond the hypotheses of the theorems.
- `FreeFindsThread`, which the code violates (run mp_timeout).

## 5. Plan

Done: the scheduler, suspend lists, semaphore, mutex, event, mailbox, message queue,
memory pool, timers and work queue; the proofs of section 4. Next:

1. Proofs: `Ordinary` without its exclusion of `create` and `startup`, for which
   `Waits` has to allow for threads that are being started, as `ListInv` already does.
2. Threads that end or are deleted while they wait for or own something.
3. Completion and data queue; delayed works; memheap as an algorithm against a set
   of disjoint blocks.

Not modelled: the multi-core scheduler and signals (not compiled), formatting and string functions (no state), device
dispatch, vendored code (lwIP, FatFs, NXP libraries, wolfSSL, WICED), and the services under `components/`, which are
users of what is modelled here. By far the most of the repository's two million lines are board support packages,
register definitions and vendored middleware; the kernel under `src/` with the parts this build leaves out is about
11,600 lines. Of the work queue, delayed works are left out: cancelling a pending one calls itself without end
(`rt_workqueue_cancel_work` and `_workqueue_cancel_delayed_work`, workqueue.c:158 and 344), and the flags they test with
interrupts enabled belong to no section.
