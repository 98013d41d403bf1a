---------------------------- MODULE MutexProofs ----------------------------
(***************************************************************************)
(* The properties of Mutex for any number of threads and mutexes, any      *)
(* priorities and waiting times.                                           *)
(***************************************************************************)
EXTENDS Mutex, KernelProofs

-----------------------------------------------------------------------------
(* The inductive invariant.                                                 *)

\* A mutex is free exactly when it has no owner, no hold and no remembered priority.
Fields ==
  \A m \in WaitList : /\ value[m] = 1 <=> owner[m] = NULL
                      /\ hold[m] = 0 <=> owner[m] = NULL
                      /\ original[m] = NoPrio <=> owner[m] = NULL

\* The waiters of a mutex are inside rt_mutex_take, no result has been written for
\* them yet, and the mutex has another owner.
Waiters ==
  \A m \in WaitList, t \in Thread : Contains(k.wait[m], t) =>
    op[t] = m /\ k.error[t] = "EOK" /\ owner[m] \notin {NULL, t}

\* The take of a thread that waits no longer will return success if and only if
\* the thread has the mutex, held once.
Results ==
  \A t \in Thread : op[t] \in WaitList /\ ~Contains(k.wait[op[t]], t) =>
    IF k.error[t] = "EOK" THEN owner[op[t]] = t /\ hold[op[t]] = 1 ELSE owner[op[t]] # t

\* A deleted mutex has waiters only as long as its rt_mutex_delete runs.
Deleting ==
  /\ \A t \in Thread : op[t] \in {"delete", "delete_resume"} => gone \in WaitList
  /\ \A m \in WaitList \cap {gone} :
       k.wait[m] = << >> \/ \E t \in Thread : op[t] \in {"delete", "delete_resume"}

Op == WaitList \union {"none", "delete", "delete_resume"}

MutexInv ==
  /\ IpcInv /\ op \in [Thread -> Op] /\ gone \in WaitList \union {"none"}
  /\ value \in [WaitList -> {0, 1}] /\ owner \in [WaitList -> Thread \union {NULL}]
  /\ hold \in [WaitList -> 0 .. MaxHold] /\ original \in [WaitList -> Prio \union {NoPrio}]
  /\ Fields /\ Waiters /\ Results /\ Deleting

-----------------------------------------------------------------------------
(* The steps of LockSpec, thread by thread.                                 *)

\* The state of every call but that of thread t is unchanged.
OthersStay(t) == \A x \in Thread \ {t} : TakeState(x)' = TakeState(x)

\* Nothing happens.
LEMMA PromiseStutter ==
  ASSUME owner' = owner, hold' = hold, \A t \in Thread : TakeState(t)' = TakeState(t)
  PROVE  UNCHANGED Promise!vars
BY DEF Promise!vars

\* One thread's call goes on.
LEMMA PromiseMove ==
  ASSUME NEW t \in Thread, NEW m \in WaitList, OthersStay(t), owner' = owner, hold' = hold,
         \/ /\ TakeState(t) = <<"out">> /\ owner[m] \notin {NULL, t}
            /\ TakeState(t)' = <<"waiting", m>>
         \/ TakeState(t) = <<"waiting", m>> /\ TakeState(t)' = <<"failed", m>>
         \/ /\ TakeState(t) = <<"granted", m>> /\ owner[m] = t /\ hold[m] = 1
            /\ TakeState(t)' = <<"out">>
         \/ /\ TakeState(t) = <<"failed", m>> /\ owner[m] # t
            /\ TakeState(t)' = <<"out">>
  PROVE  Promise!Next
<1> DEFINE c == [x \in Thread |-> TakeState(x)]
           d == [x \in Thread |-> TakeState(x)']
<1>1. c[t] = TakeState(t) /\ d = [c EXCEPT ![t] = TakeState(t)']
  BY DEF OthersStay
<1>2. Promise!Wait(t, m) \/ Promise!GiveUp(t, m) \/ Promise!Return(t, m)
  <2> HIDE DEF TakeState
  <2> QED BY <1>1 DEF Promise!Wait, Promise!GiveUp, Promise!Return, Promise!Out
<1> QED BY <1>2 DEF Promise!Next

\* A mutex is taken at once.
LEMMA PromiseTake ==
  ASSUME NEW t \in Thread, NEW m \in WaitList, \A x \in Thread : TakeState(x)' = TakeState(x),
         TakeState(t) = <<"out">>, owner[m] \in {NULL, t}, hold[m] < MaxHold,
         owner' = [owner EXCEPT ![m] = t], hold' = [hold EXCEPT ![m] = hold[m] + 1]
  PROVE  Promise!Next
<1> DEFINE c == [x \in Thread |-> TakeState(x)]
           d == [x \in Thread |-> TakeState(x)']
<1>1. c[t] = TakeState(t) /\ d = c
  OBVIOUS
<1>2. Promise!Take(t, m)
  <2> HIDE DEF TakeState
  <2> QED BY <1>1 DEF Promise!Take, Promise!Out
<1> QED BY <1>2 DEF Promise!Next

\* A mutex is released once, or for good while nobody waits.
LEMMA PromiseRelease ==
  ASSUME NEW t \in Thread, NEW m \in WaitList, \A x \in Thread : TakeState(x)' = TakeState(x),
         TakeState(t) = <<"out">>, owner[m] = t,
         \/ hold[m] > 1 /\ hold' = [hold EXCEPT ![m] = hold[m] - 1] /\ owner' = owner
         \/ /\ hold[m] = 1 /\ \A x \in Thread : TakeState(x) # <<"waiting", m>>
            /\ owner' = [owner EXCEPT ![m] = NULL] /\ hold' = [hold EXCEPT ![m] = 0]
  PROVE  Promise!Next
<1> DEFINE c == [x \in Thread |-> TakeState(x)]
           d == [x \in Thread |-> TakeState(x)']
<1>1. c[t] = TakeState(t) /\ d = c
  OBVIOUS
<1>2. (\A x \in Thread : TakeState(x) # <<"waiting", m>>) => Promise!WaitingFor(m) = {}
  BY DEF Promise!WaitingFor
<1>3. Promise!Release(t, m)
  <2> HIDE DEF TakeState
  <2> QED BY <1>1, <1>2 DEF Promise!Release, Promise!Out
<1> QED BY <1>3 DEF Promise!Next

\* A mutex passes from thread t to thread w.
LEMMA PromiseHandOver ==
  ASSUME NEW t \in Thread, NEW w \in Thread, NEW m \in WaitList, OthersStay(w),
         TakeState(t) = <<"out">>, owner[m] = t, hold[m] = 1, hold' = hold,
         TakeState(w) = <<"waiting", m>>, TakeState(w)' = <<"granted", m>>,
         owner' = [owner EXCEPT ![m] = w]
  PROVE  Promise!Next
<1> DEFINE c == [x \in Thread |-> TakeState(x)]
           d == [x \in Thread |-> TakeState(x)']
<1>1. c[t] = TakeState(t) /\ c[w] = TakeState(w) /\ d = [c EXCEPT ![w] = TakeState(w)']
  BY DEF OthersStay
<1>2. w \in Promise!WaitingFor(m)
  BY <1>1 DEF Promise!WaitingFor
<1>3. Promise!Release(t, m)
  <2> HIDE DEF TakeState
  <2> QED BY <1>1, <1>2 DEF Promise!Release, Promise!Out
<1> QED BY <1>3 DEF Promise!Next

\* A step of the mutexes is a step of LockSpec, or none.
PromiseStep == Promise!Next \/ UNCHANGED Promise!vars

-----------------------------------------------------------------------------
(* What the steps have in common.                                           *)

\* What the invariant says of the kernel, the lists and a thread on one of them.
LEMMA MutexFacts ==
  ASSUME MutexInv
  PROVE  /\ k \in Kernel /\ KernelOK(k) /\ WaitsOK(k) /\ k.nest = 0 /\ k.cur \in Thread
         /\ k.wait \in [WaitList -> Seq(Thread)] /\ k.error \in [Thread -> Error]
         /\ \A t \in Thread, m \in WaitList : Contains(k.wait[m], t) => k.stat[t] = "SUSPEND"
         /\ \A t \in Thread : k.stat[t] = "SUSPEND" =>
              op[t] = "none" \/ (op[t] \in WaitList /\ Contains(k.wait[op[t]], t))
         /\ \A t \in Thread : Contains(k.defunct, t) => k.stat[t] \notin {"SUSPEND", "READY"}
         /\ "none" \notin WaitList /\ "delete" \notin WaitList /\ "delete_resume" \notin WaitList
<1>1. /\ k \in Kernel /\ KernelOK(k) /\ WaitsOK(k) /\ k.nest = 0 /\ k.cur \in Thread
  BY Types DEF MutexInv, IpcInv, IInv, Waits
<1>2. /\ k.wait \in [WaitList -> Seq(Thread)] /\ k.error \in [Thread -> Error]
      /\ \A t \in Thread, m \in WaitList : Contains(k.wait[m], t) => k.stat[t] = "SUSPEND"
  BY <1>1 DEF Kernel, WaitsOK
<1>3. \A t \in Thread : k.stat[t] = "SUSPEND" /\ op[t] # "none" =>
        \E m \in WaitList : Contains(k.wait[m], t)
  BY DEF MutexInv, IpcInv, Waits, Listed
<1>4. \A t \in Thread : k.stat[t] = "SUSPEND" =>
        op[t] = "none" \/ (op[t] \in WaitList /\ Contains(k.wait[op[t]], t))
  BY <1>3 DEF MutexInv, Waiters
<1>5. \A t \in Thread : Contains(k.defunct, t) => k.stat[t] \notin {"SUSPEND", "READY"}
  BY DEF MutexInv, IpcInv, IInv, Defunct
<1>6. "none" \notin WaitList /\ "delete" \notin WaitList /\ "delete_resume" \notin WaitList
  BY MutexNameAssumption
<1> QED BY <1>1, <1>2, <1>4, <1>5, <1>6

\* A section of a call of mutex m that ends with it and wakes nobody: the lists and
\* the results of the other calls are as before.
LEMMA LocalSection ==
  ASSUME MutexInv, NEW c \in Thread, c = k.cur, Outside, NEW u, Resumes(k, u), u.wait = k.wait,
         \A t \in Thread \ {c} : u.error[t] = k.error[t], Then_return(u, "none")
  PROVE  /\ IpcInv' /\ op' = op /\ op[c] = "none" /\ k' = u /\ k'.wait = k.wait
         /\ \A t \in Thread \ {c} : k'.error[t] = k.error[t]
         /\ \A t \in Thread : TakeState(t)' = TakeState(t)
         /\ TakeState(c) = <<"out">>
<1>1. At("run") /\ op[c] = "none"
  BY DEF Outside
<1>2. IpcInv'
  BY <1>1, ResumeStep DEF MutexInv
<1>3. k' = u /\ op' = op
  BY <1>1 DEF Then_return, Enter, MutexInv
<1>4. k'.wait = k.wait /\ \A t \in Thread \ {c} : k'.error[t] = k.error[t]
  BY <1>3
<1>5. \A t \in Thread : TakeState(t)' = TakeState(t)
  BY <1>1, <1>3, <1>4, MutexFacts DEF TakeState, Waiting
<1>6. TakeState(c) = <<"out">>
  BY <1>1, MutexFacts DEF TakeState
<1> QED BY <1>1, <1>2, <1>3, <1>4, <1>5, <1>6

\* What is left to show for such a section: the fields of mutex m, which nobody but
\* the caller has (any more), agree, and nobody waits for it in vain.
LEMMA LocalFields ==
  ASSUME MutexInv, NEW c \in Thread, NEW m \in WaitList,
         IpcInv', op' = op, op[c] = "none", k'.wait = k.wait, gone' = gone,
         \A t \in Thread \ {c} : k'.error[t] = k.error[t],
         value' \in [WaitList -> {0, 1}], owner' \in [WaitList -> Thread \union {NULL}],
         hold' \in [WaitList -> 0 .. MaxHold], original' \in [WaitList -> Prio \union {NoPrio}],
         \A x \in WaitList \ {m} : /\ value'[x] = value[x] /\ owner'[x] = owner[x]
                                   /\ hold'[x] = hold[x] /\ original'[x] = original[x],
         value'[m] = 1 <=> owner'[m] = NULL, hold'[m] = 0 <=> owner'[m] = NULL,
         original'[m] = NoPrio <=> owner'[m] = NULL,
         owner[m] \in {NULL, c}, owner'[m] \in {NULL, c},
         owner'[m] = c \/ k.wait[m] = << >>
  PROVE  MutexInv'
<1>1. Fields'
  BY DEF MutexInv, Fields
<1>2. Waiters'
  <2> SUFFICES ASSUME NEW x \in WaitList, NEW t \in Thread, Contains(k'.wait[x], t)
               PROVE  op'[t] = x /\ k'.error[t] = "EOK" /\ owner'[x] \notin {NULL, t}
    BY DEF Waiters
  <2>1. op[t] = x /\ k.error[t] = "EOK" /\ owner[x] \notin {NULL, t}
    BY DEF MutexInv, Waiters
  <2>2. t # c
    BY <2>1, MutexFacts
  <2>3. owner'[x] \notin {NULL, t}
    <3>1. CASE x = m
      <4>1. k.wait[m] # << >>
        BY <3>1, EmptyHasNone, MutexFacts
      <4> QED BY <2>2, <3>1, <4>1, NullAssumption
    <3>2. CASE x # m
      BY <2>1, <3>2
    <3> QED BY <3>1, <3>2
  <2> QED BY <2>1, <2>2, <2>3
<1>3. Results'
  <2> SUFFICES ASSUME NEW t \in Thread, op[t] \in WaitList, ~Contains(k.wait[op[t]], t)
               PROVE  IF k'.error[t] = "EOK" THEN owner'[op[t]] = t /\ hold'[op[t]] = 1
                      ELSE owner'[op[t]] # t
    BY DEF Results
  <2>1. t # c /\ k'.error[t] = k.error[t]
    BY MutexFacts
  <2>2. IF k.error[t] = "EOK" THEN owner[op[t]] = t /\ hold[op[t]] = 1 ELSE owner[op[t]] # t
    BY DEF MutexInv, Results
  <2>3. CASE op[t] = m
    BY <2>1, <2>2, <2>3, NullAssumption
  <2>4. CASE op[t] # m
    BY <2>1, <2>2, <2>4
  <2> QED BY <2>3, <2>4
<1>4. Deleting'
  BY DEF MutexInv, Deleting
<1> QED BY <1>1, <1>2, <1>3, <1>4 DEF MutexInv

\* A change of an error number, or of the priority of one thread: what a section
\* that wakes nobody may do to the kernel.
LEMMA QuietKernel ==
  ASSUME MutexInv, NEW t \in Thread, NEW p \in Prio, NEW e \in Error
  PROVE  /\ LET u == SetError(k, t, e)
            IN  /\ Resumes(k, u) /\ u.wait = k.wait /\ u.prio = k.prio
                /\ \A x \in Thread \ {t} : u.error[x] = k.error[x]
         /\ LET u == ChangePriority(k, t, p)
            IN  /\ Resumes(k, u) /\ u.wait = k.wait /\ u.error = k.error
                /\ u.prio = [k.prio EXCEPT ![t] = p] /\ u.stat = k.stat /\ u.cur = k.cur
                /\ u.timers = k.timers /\ u.defunct = k.defunct
<1> DEFINE u == SetError(k, t, e)
           v == ChangePriority(k, t, p)
<1>1. KernelOK(k) /\ WaitsOK(k) /\ k.error \in [Thread -> Error]
  BY MutexFacts
<1>2. /\ KernelOK(u) /\ SameCore(k, u) /\ u.nest = k.nest /\ u.defunct = k.defunct
      /\ u.wait = k.wait /\ u.error = [k.error EXCEPT ![t] = e]
  BY <1>1, ErrorOK DEF SetError
<1>3. /\ KernelOK(v) /\ v.cur = k.cur /\ v.stat = k.stat /\ v.nest = k.nest
      /\ v.timers = k.timers
      /\ v.defunct = k.defunct \/ (k.stat[t] = "READY" /\ v.defunct = Unlinked(k.defunct, t))
  BY <1>1, ChangePriorityOK
<1>4. v.wait = k.wait /\ v.error = k.error /\ v.prio = [k.prio EXCEPT ![t] = p]
  BY <1>1, ChangePriorityWaits
<1> HIDE DEF u, v
<1>5. v.defunct = k.defunct
  BY <1>3, MutexFacts, UnlinkedAbsent
<1>6. Resumes(k, u)
  BY <1>1, <1>2, SameWaitsResumes DEF SameCore
<1>7. Resumes(k, v)
  BY <1>1, <1>3, <1>4, <1>5, SameWaitsResumes
<1>8. u.prio = k.prio /\ \A x \in Thread \ {t} : u.error[x] = k.error[x]
  BY <1>1, <1>2 DEF SameCore
<1> QED BY <1>2, <1>3, <1>4, <1>5, <1>6, <1>7, <1>8 DEF u, v

-----------------------------------------------------------------------------
(* The calls that return at once.                                           *)

\* rt_mutex_take of a free mutex, or of one that the caller has.
LEMMA TakeNowMutex ==
  ASSUME MutexInv, NEW m \in WaitList, TakeAgain(m) \/ TakeFree(m)
  PROVE  MutexInv' /\ PromiseStep
<1>0. MaxHold \in Nat /\ MaxHold >= 1 /\ MaxHold <= 255
  BY MaxHoldAssumption
<1>1. PICK c \in Thread : c = k.cur
  BY MutexFacts
<1> DEFINE u == SetError(k, c, "EOK")
<1>2. Outside /\ Then_return(u, "none") /\ gone' = gone
  BY <1>1 DEF TakeAgain, TakeFree, MutexCall
<1>3. /\ Resumes(k, u) /\ u.wait = k.wait
      /\ \A x \in Thread \ {c} : u.error[x] = k.error[x]
  <2>1. k.prio[c] \in Prio /\ "EOK" \in Error
    BY MutexFacts DEF Kernel, Error
  <2> QED BY <2>1, QuietKernel
<1> HIDE DEF u
<1>4. /\ IpcInv' /\ op' = op /\ op[c] = "none" /\ k'.wait = k.wait
      /\ \A t \in Thread \ {c} : k'.error[t] = k.error[t]
      /\ \A t \in Thread : TakeState(t)' = TakeState(t)
      /\ TakeState(c) = <<"out">>
  BY <1>1, <1>2, <1>3, LocalSection
<1>5. /\ value \in [WaitList -> {0, 1}] /\ owner \in [WaitList -> Thread \union {NULL}]
      /\ hold \in [WaitList -> 0 .. MaxHold] /\ original \in [WaitList -> Prio \union {NoPrio}]
      /\ value[m] = 1 <=> owner[m] = NULL
      /\ hold[m] = 0 <=> owner[m] = NULL
      /\ original[m] = NoPrio <=> owner[m] = NULL
      /\ k.prio[c] \in Prio /\ k.prio[c] # NoPrio
  <2>1. k.prio[c] \in Prio
    BY MutexFacts DEF Kernel
  <2>2. k.prio[c] # NoPrio
    BY <2>1, PrioAssumption, NoPrioAssumption DEF Prio, NoPrio
  <2> QED BY <2>1, <2>2 DEF MutexInv, Fields
<1>6. CASE TakeAgain(m)
  <2>1. /\ owner[m] = c /\ hold[m] < MaxHold /\ hold' = [hold EXCEPT ![m] = (hold[m] + 1) % 256]
        /\ value' = value /\ owner' = owner /\ original' = original
    BY <1>1, <1>6 DEF TakeAgain
  <2>2. hold[m] \in 0 .. MaxHold /\ (hold[m] + 1) % 256 = hold[m] + 1
    BY <1>0, <1>5, <2>1
  <2>3. hold' = [hold EXCEPT ![m] = hold[m] + 1]
    BY <2>1, <2>2
  <2>4. /\ hold' \in [WaitList -> 0 .. MaxHold] /\ hold'[m] # 0
        /\ \A x \in WaitList \ {m} : hold'[x] = hold[x]
    <3>1. hold[m] + 1 \in 0 .. MaxHold /\ hold[m] + 1 # 0
      BY <1>0, <2>1, <2>2
    <3> QED BY <1>5, <2>3, <3>1
  <2>5. owner[m] # NULL
    BY <2>1, NullAssumption
  <2>6. MutexInv'
    BY <1>2, <1>4, <1>5, <2>1, <2>4, <2>5, LocalFields
  <2>7. owner' = [owner EXCEPT ![m] = c]
    BY <1>5, <2>1
  <2>8. PromiseStep
    BY <1>4, <2>1, <2>3, <2>7, PromiseTake DEF PromiseStep
  <2> QED BY <2>6, <2>8
<1>7. CASE TakeFree(m)
  <2>1. /\ value[m] > 0 /\ value' = [value EXCEPT ![m] = value[m] - 1]
        /\ owner' = [owner EXCEPT ![m] = c] /\ original' = [original EXCEPT ![m] = k.prio[c]]
        /\ hold' = [hold EXCEPT ![m] = (hold[m] + 1) % 256]
    BY <1>1, <1>7 DEF TakeFree
  <2>2. value[m] = 1 /\ owner[m] = NULL /\ hold[m] = 0
    BY <1>5, <2>1
  <2>3. hold' = [hold EXCEPT ![m] = 1] /\ value' = [value EXCEPT ![m] = 0]
    BY <2>1, <2>2
  <2>4. /\ value' \in [WaitList -> {0, 1}] /\ owner' \in [WaitList -> Thread \union {NULL}]
        /\ hold' \in [WaitList -> 0 .. MaxHold] /\ original' \in [WaitList -> Prio \union {NoPrio}]
    <3>1. 1 \in 0 .. MaxHold
      BY <1>0
    <3> QED BY <1>5, <2>1, <2>3, <3>1
  <2>5. /\ value'[m] = 0 /\ owner'[m] = c /\ hold'[m] = 1 /\ original'[m] = k.prio[c]
        /\ c # NULL
        /\ \A x \in WaitList \ {m} : /\ value'[x] = value[x] /\ owner'[x] = owner[x]
                                     /\ hold'[x] = hold[x] /\ original'[x] = original[x]
    BY <1>5, <2>1, <2>3, NullAssumption
  <2>6. MutexInv'
    <3>1. ~(value'[m] = 1) /\ ~(hold'[m] = 0) /\ ~(original'[m] = NoPrio) /\ ~(owner'[m] = NULL)
      BY <1>5, <2>5
    <3>2. owner[m] \in {NULL, c} /\ owner'[m] \in {NULL, c} /\ owner'[m] = c
      BY <2>2, <2>5
    <3>3. \A x \in WaitList \ {m} : /\ value'[x] = value[x] /\ owner'[x] = owner[x]
                                     /\ hold'[x] = hold[x] /\ original'[x] = original[x]
      BY <2>5
    <3> QED BY <1>2, <1>4, <2>4, <3>1, <3>2, <3>3, LocalFields
  <2>7. hold[m] < MaxHold /\ hold' = [hold EXCEPT ![m] = hold[m] + 1]
    BY <1>0, <2>2, <2>3
  <2>8. PromiseStep
    BY <1>4, <2>1, <2>2, <2>7, PromiseTake DEF PromiseStep
  <2> QED BY <2>6, <2>8
<1> QED BY <1>6, <1>7

\* A call that fails at once: a take that does not wait, and a release by a thread
\* that is not the owner.
LEMMA FailMutex ==
  ASSUME MutexInv, NEW m \in WaitList, TakeFail(m) \/ ReleaseNotOwner(m)
  PROVE  MutexInv' /\ PromiseStep
<1>1. PICK c \in Thread : c = k.cur
  BY MutexFacts
<1>2. PICK e \in {"ETIMEOUT", "ERROR"} : Then_return(SetError(k, c, e), "none")
  BY <1>1 DEF TakeFail, ReleaseNotOwner
<1> DEFINE u == SetError(k, c, e)
<1>3. Outside /\ UNCHANGED mutexVars
  BY <1>1 DEF TakeFail, ReleaseNotOwner, Unavailable, MutexCall
<1>4. /\ Resumes(k, u) /\ u.wait = k.wait
      /\ \A x \in Thread \ {c} : u.error[x] = k.error[x]
  <2>1. k.prio[c] \in Prio /\ e \in Error
    BY MutexFacts DEF Kernel, Error
  <2> QED BY <2>1, QuietKernel
<1> HIDE DEF u
<1>5. /\ IpcInv' /\ op' = op /\ op[c] = "none" /\ k'.wait = k.wait
      /\ \A t \in Thread \ {c} : k'.error[t] = k.error[t]
      /\ \A t \in Thread : TakeState(t)' = TakeState(t)
  BY <1>1, <1>2, <1>3, <1>4, LocalSection DEF u
<1>6. value' = value /\ owner' = owner /\ hold' = hold /\ original' = original /\ gone' = gone
  BY <1>3 DEF mutexVars
<1>7. Waiters'
  <2> SUFFICES ASSUME NEW x \in WaitList, NEW t \in Thread, Contains(k.wait[x], t)
               PROVE  op[t] = x /\ k'.error[t] = "EOK" /\ owner[x] \notin {NULL, t}
    BY <1>5, <1>6 DEF Waiters
  <2>1. op[t] = x /\ k.error[t] = "EOK" /\ owner[x] \notin {NULL, t}
    BY DEF MutexInv, Waiters
  <2>2. t # c
    BY <1>5, <2>1, MutexFacts
  <2> QED BY <1>5, <2>1, <2>2
<1>8. Results'
  <2> SUFFICES ASSUME NEW t \in Thread, op[t] \in WaitList, ~Contains(k.wait[op[t]], t)
               PROVE  IF k'.error[t] = "EOK" THEN owner[op[t]] = t /\ hold[op[t]] = 1
                      ELSE owner[op[t]] # t
    BY <1>5, <1>6 DEF Results
  <2>1. t # c /\ k'.error[t] = k.error[t]
    BY <1>5, MutexFacts
  <2> QED BY <2>1 DEF MutexInv, Results
<1>9. Fields' /\ Deleting'
  BY <1>5, <1>6 DEF MutexInv, Fields, Deleting
<1>10. MutexInv'
  BY <1>5, <1>6, <1>7, <1>8, <1>9 DEF MutexInv
<1>11. PromiseStep
  BY <1>5, <1>6, PromiseStutter DEF PromiseStep
<1> QED BY <1>10, <1>11

\* rt_mutex_release that wakes nobody.
LEMMA ReleaseMutex ==
  ASSUME MutexInv, NEW m \in WaitList, ReleaseOnce(m) \/ ReleaseFree(m)
  PROVE  MutexInv' /\ PromiseStep
<1>0. MaxHold \in Nat /\ MaxHold >= 1
  BY MaxHoldAssumption
<1>1. PICK c \in Thread : c = k.cur
  BY MutexFacts
<1>2. Outside /\ owner[m] = c /\ gone' = gone
  BY <1>1 DEF ReleaseOnce, ReleaseFree, MutexCall
<1>3. /\ value \in [WaitList -> {0, 1}] /\ owner \in [WaitList -> Thread \union {NULL}]
      /\ hold \in [WaitList -> 0 .. MaxHold] /\ original \in [WaitList -> Prio \union {NoPrio}]
      /\ value[m] # 1 /\ original[m] # NoPrio /\ c # NULL
      /\ hold[m] = 0 <=> owner[m] = NULL
  BY <1>2, NullAssumption DEF MutexInv, Fields
<1>4. CASE ReleaseOnce(m)
  <2>1. /\ hold[m] > 1 /\ hold' = [hold EXCEPT ![m] = hold[m] - 1] /\ Then_return(k, "none")
        /\ value' = value /\ owner' = owner /\ original' = original
    BY <1>4 DEF ReleaseOnce
  <2>2. Resumes(k, k)
    BY MutexFacts, SameWaitsResumes
  <2>3. /\ IpcInv' /\ op' = op /\ op[c] = "none" /\ k'.wait = k.wait
        /\ \A t \in Thread \ {c} : k'.error[t] = k.error[t]
        /\ \A t \in Thread : TakeState(t)' = TakeState(t)
        /\ TakeState(c) = <<"out">>
    BY <1>1, <1>2, <2>1, <2>2, LocalSection
  <2>4. hold[m] - 1 \in 0 .. MaxHold /\ hold[m] - 1 # 0
    BY <1>0, <1>3, <2>1
  <2>5. /\ hold' \in [WaitList -> 0 .. MaxHold] /\ hold'[m] # 0
        /\ \A x \in WaitList \ {m} : hold'[x] = hold[x]
    BY <1>3, <2>1, <2>4
  <2>6. MutexInv'
    BY <1>2, <1>3, <2>1, <2>3, <2>5, LocalFields
  <2>7. PromiseStep
    BY <1>2, <2>1, <2>3, PromiseRelease DEF PromiseStep
  <2> QED BY <2>6, <2>7
<1>5. CASE ReleaseFree(m)
  <2> DEFINE u == Restored(m)
  <2>1. /\ hold[m] = 1 /\ k.wait[m] = << >> /\ hold' = [hold EXCEPT ![m] = 0]
        /\ value' = [value EXCEPT ![m] = value[m] + 1] /\ owner' = [owner EXCEPT ![m] = NULL]
        /\ original' = [original EXCEPT ![m] = NoPrio] /\ Then_return(u, "none")
    BY <1>5 DEF ReleaseFree
  <2>2. Resumes(k, u) /\ u.wait = k.wait /\ u.error = k.error
    <3>1. original[m] \in Prio /\ "EOK" \in Error
      BY <1>3 DEF Error
    <3>2. Resumes(k, k)
      BY MutexFacts, SameWaitsResumes
    <3> QED BY <1>1, <3>1, <3>2, QuietKernel DEF Restored
  <2> HIDE DEF u
  <2>3. /\ IpcInv' /\ op' = op /\ op[c] = "none" /\ k'.wait = k.wait
        /\ \A t \in Thread \ {c} : k'.error[t] = k.error[t]
        /\ \A t \in Thread : TakeState(t)' = TakeState(t)
        /\ TakeState(c) = <<"out">>
    BY <1>1, <1>2, <2>1, <2>2, LocalSection
  <2>4. value[m] = 0 /\ value' = [value EXCEPT ![m] = 1]
    <3>1. value[m] = 0
      BY <1>3
    <3> QED BY <2>1, <3>1
  <2>5. /\ value' \in [WaitList -> {0, 1}] /\ owner' \in [WaitList -> Thread \union {NULL}]
        /\ hold' \in [WaitList -> 0 .. MaxHold] /\ original' \in [WaitList -> Prio \union {NoPrio}]
    <3>1. 0 \in 0 .. MaxHold
      BY <1>0
    <3> QED BY <1>3, <2>1, <2>4, <3>1
  <2>6. /\ value'[m] = 1 /\ owner'[m] = NULL /\ hold'[m] = 0 /\ original'[m] = NoPrio
        /\ \A x \in WaitList \ {m} : /\ value'[x] = value[x] /\ owner'[x] = owner[x]
                                     /\ hold'[x] = hold[x] /\ original'[x] = original[x]
    BY <1>3, <2>1, <2>4
  <2>7. MutexInv'
    BY <1>2, <1>3, <2>1, <2>3, <2>5, <2>6, LocalFields
  <2>8. ASSUME NEW t \in Thread PROVE TakeState(t) # <<"waiting", m>>
    <3>1. ~Contains(k.wait[m], t)
      BY <2>1, EmptyHasNone, MutexFacts
    <3> QED BY <3>1 DEF TakeState, Waiting
  <2>9. PromiseStep
    BY <1>2, <2>1, <2>3, <2>8, PromiseRelease DEF PromiseStep
  <2> QED BY <2>7, <2>9
<1> QED BY <1>4, <1>5

-----------------------------------------------------------------------------
(* Waiting and waking.                                                      *)

\* Only the lists and the results of the calls of some threads change: what is left
\* to show for a step that leaves the fields of the mutexes alone.
LEMMA SameFields ==
  ASSUME MutexInv, IpcInv', op' \in [Thread -> Op], UNCHANGED <<value, owner, hold, original>>,
         gone' \in WaitList \union {"none"}, Waiters', Results', Deleting'
  PROVE  MutexInv'
<1>1. Fields'
  BY DEF MutexInv, Fields
<1> QED BY <1>1 DEF MutexInv

\* rt_mutex_take that waits: the owner inherits the caller's priority if it is
\* higher, and the caller joins the list.
LEMMA WaitMutex ==
  ASSUME MutexInv, NEW m \in WaitList, NEW n \in Times, TakeWait(m, n)
  PROVE  /\ MutexInv' /\ PromiseStep
         /\ owner[m] \in Thread
         /\ \E i : /\ Enlisted(k.wait[m], k'.wait[m], k.cur, i) /\ k'.wait[m] \in Seq(Thread)
                   /\ RightPlace(Boost(k, m, k.cur), k.wait[m], k.cur, MutexFlag, i)
         /\ k'.prio = Boost(k, m, k.cur).prio
         /\ \A x \in WaitList \ {m} : k'.wait[x] = k.wait[x]
<1>1. PICK c \in Thread : c = k.cur
  BY MutexFacts
<1> DEFINE a == Boost(k, m, c)
           b == WaitOn(a, m, c, MutexFlag, n)
<1>2. /\ At("run") /\ c # Idle /\ op[c] = "none" /\ gone # m /\ owner[m] # c /\ value[m] = 0
      /\ Then_schedule(b, m) /\ UNCHANGED mutexVars
  BY <1>1 DEF TakeWait, Unavailable, MutexCall, Outside
<1>3. owner[m] \in Thread
  BY <1>2 DEF MutexInv, Fields
<1>4. /\ Resumes(k, a) /\ a.wait = k.wait /\ a.error = k.error /\ a.stat = k.stat /\ a.cur = k.cur
      /\ a.timers = k.timers /\ a.defunct = k.defunct
  <2>1. k.prio[c] \in Prio /\ "EOK" \in Error
    BY MutexFacts DEF Kernel, Error
  <2>2. Resumes(k, k)
    BY MutexFacts, SameWaitsResumes
  <2> QED BY <1>3, <2>1, <2>2, QuietKernel DEF Boost
<1> HIDE DEF a
<1>5. /\ k.stat[c] = "RUNNING" /\ IsInjective(k.defunct) /\ ~Contains(k.defunct, c) /\ ~Listed(k, c)
      /\ k \in Kernel /\ WaitsOK(k)
  BY <1>1, <1>2, RunningThread, IpcList, MutexFacts DEF MutexInv
<1>6. KernelOK(a) /\ WaitsOK(a) /\ n \in Int
  BY <1>4, TimesAssumption DEF Resumes, Shrunk
<1>7. /\ KernelOK(b) /\ Gentle(a, b) /\ b.cur = a.cur /\ b.prio = a.prio
      /\ \E i : Joined(a, b, m, c, i) /\ RightPlace(a, a.wait[m], c, MutexFlag, i)
  <2>1. /\ a.cur = c /\ a.cur # Idle /\ a.stat[a.cur] = "RUNNING" /\ IsInjective(a.defunct)
        /\ ~Contains(a.defunct, a.cur)
    BY <1>1, <1>2, <1>4, <1>5
  <2>2. LET d == WaitOn(a, m, a.cur, MutexFlag, n)
        IN  /\ KernelOK(d) /\ Gentle(a, d) /\ d.cur = a.cur /\ d.prio = a.prio
            /\ \E i : Joined(a, d, m, a.cur, i) /\ RightPlace(a, a.wait[m], a.cur, MutexFlag, i)
    BY <1>6, <2>1, WaitOnOK
  <2> QED BY <2>1, <2>2
<1>8. PICK i : Joined(a, b, m, c, i) /\ RightPlace(a, a.wait[m], c, MutexFlag, i)
  BY <1>7
<1> HIDE DEF b
<1>9. Gentle(k, b)
  BY <1>4, <1>7, GentleThen
<1>10. Joined(k, b, m, c, i)
  BY <1>4, <1>8 DEF Joined, TimerActive
<1>11. m # "none"
  BY MutexFacts
<1>12. IpcInv'
  BY <1>1, <1>2, <1>4, <1>7, <1>9, <1>10, <1>11, JoinStep DEF MutexInv
<1>13. /\ \A x \in Thread : Contains(b.wait[m], x) <=> Contains(k.wait[m], x) \/ x = c
       /\ b.wait[m] # << >>
  BY <1>5, <1>7, <1>10, JoinedWaits DEF KernelOK
<1>14. k' = b /\ op' = [op EXCEPT ![c] = m]
  BY <1>1, <1>2 DEF Then_schedule, Enter
<1>15. /\ \A w \in WaitList \ {m} : b.wait[w] = k.wait[w]
       /\ b.error[c] = "EOK" /\ \A x \in Thread \ {c} : b.error[x] = k.error[x]
  BY <1>10, MutexFacts DEF Joined
<1>16. /\ op' \in [Thread -> Op] /\ op'[c] = m /\ \A x \in Thread \ {c} : op'[x] = op[x]
  BY <1>14 DEF MutexInv, Op
<1>17. value' = value /\ owner' = owner /\ hold' = hold /\ original' = original /\ gone' = gone
  BY <1>2 DEF mutexVars
<1>18. \A w \in WaitList, x \in Thread :
         Contains(k'.wait[w], x) <=> Contains(k.wait[w], x) \/ (w = m /\ x = c)
  BY <1>13, <1>14, <1>15
<1>19. Waiters'
  <2> SUFFICES ASSUME NEW w \in WaitList, NEW x \in Thread, Contains(k'.wait[w], x)
               PROVE  op'[x] = w /\ k'.error[x] = "EOK" /\ owner[w] \notin {NULL, x}
    BY <1>17 DEF Waiters
  <2>1. CASE w = m /\ x = c
    BY <1>2, <1>3, <1>14, <1>15, <1>16, <2>1, NullAssumption
  <2>2. CASE Contains(k.wait[w], x)
    <3>1. op[x] = w /\ k.error[x] = "EOK" /\ owner[w] \notin {NULL, x}
      BY <2>2 DEF MutexInv, Waiters
    <3>2. x # c
      BY <1>2, <3>1, MutexFacts
    <3> QED BY <1>14, <1>15, <1>16, <3>1, <3>2
  <2> QED BY <1>18, <2>1, <2>2
<1>20. Results'
  <2> SUFFICES ASSUME NEW x \in Thread, op'[x] \in WaitList, ~Contains(k'.wait[op'[x]], x)
               PROVE  IF k'.error[x] = "EOK" THEN owner[op'[x]] = x /\ hold[op'[x]] = 1
                      ELSE owner[op'[x]] # x
    BY <1>17 DEF Results
  <2>1. x # c
    BY <1>16, <1>18
  <2> QED BY <1>14, <1>15, <1>16, <1>18, <2>1 DEF MutexInv, Results
<1>21. Deleting'
  <2>1. \A x \in Thread : op[x] \in {"delete", "delete_resume"} <=> op'[x] \in {"delete", "delete_resume"}
    BY <1>2, <1>16, MutexFacts
  <2> QED BY <1>2, <1>14, <1>15, <1>17, <2>1 DEF MutexInv, Deleting
<1>22. MutexInv'
  BY <1>12, <1>16, <1>17, <1>19, <1>20, <1>21, SameFields DEF MutexInv
<1>23. TakeState(c) = <<"out">> /\ TakeState(c)' = <<"waiting", m>>
  BY <1>2, <1>16, <1>18, MutexFacts DEF TakeState, Waiting
<1>24. OthersStay(c)
  <2> SUFFICES ASSUME NEW x \in Thread, x # c PROVE TakeState(x)' = TakeState(x)
    BY DEF OthersStay
  <2>1. op'[x] = op[x] /\ k'.error[x] = k.error[x]
    BY <1>14, <1>15, <1>16
  <2>2. op[x] \in WaitList => (Contains(k'.wait[op[x]], x) <=> Contains(k.wait[op[x]], x))
    BY <1>18
  <2> QED BY <2>1, <2>2 DEF TakeState, Waiting
<1>25. owner[m] \notin {NULL, c}
  BY <1>2, <1>3, NullAssumption
<1>26. PromiseStep
  BY <1>17, <1>23, <1>24, <1>25, PromiseMove DEF PromiseStep
<1>27. /\ Enlisted(k.wait[m], k'.wait[m], c, i) /\ k'.wait[m] \in Seq(Thread)
       /\ RightPlace(a, k.wait[m], c, MutexFlag, i) /\ k'.prio = a.prio
       /\ \A x \in WaitList \ {m} : k'.wait[x] = k.wait[x]
  BY <1>4, <1>7, <1>8, <1>10, <1>14, <1>15 DEF Joined
<1> QED BY <1>1, <1>3, <1>22, <1>26, <1>27 DEF a

\* The return of a rt_mutex_take that has waited.
LEMMA ReturnMutex ==
  ASSUME MutexInv, NEW m \in WaitList, TakeReturn(m)
  PROVE  MutexInv' /\ PromiseStep /\ k' = k /\ UNCHANGED mutexVars
<1>1. PICK c \in Thread : c = k.cur
  BY MutexFacts
<1>2. At("run") /\ op[c] = m /\ Then_return(k, "none") /\ UNCHANGED mutexVars
  BY <1>1 DEF TakeReturn, Inside
<1>3. k' = k /\ op' = [op EXCEPT ![c] = "none"]
  BY <1>1, <1>2 DEF Then_return, Enter
<1>4. Resumes(k, k)
  BY MutexFacts, SameWaitsResumes
<1>5. IpcInv'
  BY <1>2, <1>4, ResumeStep DEF MutexInv
<1>6. value' = value /\ owner' = owner /\ hold' = hold /\ original' = original /\ gone' = gone
  BY <1>2 DEF mutexVars
<1>7. op' \in [Thread -> Op] /\ op'[c] = "none" /\ \A x \in Thread \ {c} : op'[x] = op[x]
  BY <1>3 DEF MutexInv, Op
<1>8. \A w \in WaitList : ~Contains(k.wait[w], c)
  BY <1>1, <1>2, RunningThread, IpcList DEF MutexInv, Listed
<1>9. Waiters'
  BY <1>3, <1>6, <1>7, <1>8 DEF MutexInv, Waiters
<1>10. Results'
  <2> SUFFICES ASSUME NEW x \in Thread, op'[x] \in WaitList, ~Contains(k.wait[op'[x]], x)
               PROVE  IF k.error[x] = "EOK" THEN owner[op'[x]] = x /\ hold[op'[x]] = 1
                      ELSE owner[op'[x]] # x
    BY <1>3, <1>6 DEF Results
  <2>1. x # c
    BY <1>7, MutexFacts
  <2> QED BY <1>7, <2>1 DEF MutexInv, Results
<1>11. Deleting'
  <2>1. \A x \in Thread : op[x] \in {"delete", "delete_resume"} <=> op'[x] \in {"delete", "delete_resume"}
    BY <1>2, <1>7, MutexFacts
  <2> QED BY <1>3, <1>6, <2>1 DEF MutexInv, Deleting
<1>12. MutexInv'
  BY <1>5, <1>6, <1>7, <1>9, <1>10, <1>11, SameFields DEF MutexInv
<1>13. OthersStay(c)
  BY <1>3, <1>7 DEF OthersStay, TakeState, Waiting
<1>14. TakeState(c)' = <<"out">>
  BY <1>7, MutexFacts DEF TakeState
<1>15. \/ TakeState(c) = <<"granted", m>> /\ owner[m] = c /\ hold[m] = 1
       \/ TakeState(c) = <<"failed", m>> /\ owner[m] # c
  BY <1>2, <1>8 DEF TakeState, Waiting, MutexInv, Results
<1>16. PromiseStep
  BY <1>6, <1>13, <1>14, <1>15, PromiseMove DEF PromiseStep
<1> QED BY <1>2, <1>3, <1>12, <1>16

\* A thread leaves its list: the others wait as before, and its call has a result.
LEMMA MutexTakenOff ==
  ASSUME MutexInv, NEW t \in Thread, k.stat[t] = "SUSPEND",
         k'.wait = WaitWithout(k, t), \A x \in Thread \ {t} : k'.error[x] = k.error[x],
         \A x \in Thread : op'[x] = op[x] \/ {op[x], op'[x]} \cap WaitList = {}
  PROVE  /\ \A w \in WaitList, x \in Thread :
              Contains(k'.wait[w], x) <=> Contains(k.wait[w], x) /\ x # t
         /\ \A w \in WaitList : /\ k'.wait[w] = Unlinked(k.wait[w], t)
                                /\ k.wait[w] = << >> => k'.wait[w] = << >>
         /\ OthersStay(t)
         /\ IF op[t] \in WaitList
            THEN /\ TakeState(t) = <<"waiting", op[t]>>
                 /\ TakeState(t)' = IF k'.error[t] = "EOK" THEN <<"granted", op[t]>>
                                                          ELSE <<"failed", op[t]>>
            ELSE TakeState(t)' = TakeState(t)
<1>1. /\ k.wait \in [WaitList -> Seq(Thread)] /\ WaitsOK(k)
      /\ op[t] = "none" \/ (op[t] \in WaitList /\ Contains(k.wait[op[t]], t))
      /\ "none" \notin WaitList
  BY MutexFacts
<1>2. ASSUME NEW w \in WaitList
      PROVE  /\ k'.wait[w] = Unlinked(k.wait[w], t)
             /\ k.wait[w] = << >> => k'.wait[w] = << >>
             /\ \A x \in Thread : Contains(k'.wait[w], x) <=> Contains(k.wait[w], x) /\ x # t
  <2>1. k.wait[w] \in Seq(Thread) /\ IsInjective(k.wait[w]) /\ k'.wait[w] = Unlinked(k.wait[w], t)
    BY <1>1 DEF WaitsOK, WaitWithout
  <2>2. k.wait[w] = << >> => k'.wait[w] = << >>
    BY <2>1, EmptyHasNone, UnlinkedAbsent
  <2> QED BY <2>1, <2>2, UnlinkedElements
<1>3. OthersStay(t)
  <2> SUFFICES ASSUME NEW x \in Thread, x # t PROVE TakeState(x)' = TakeState(x)
    BY DEF OthersStay
  <2>1. CASE op[x] \in WaitList \/ op'[x] \in WaitList
    <3>1. op'[x] = op[x] /\ op[x] \in WaitList
      BY <2>1
    <3>2. Contains(k'.wait[op[x]], x) <=> Contains(k.wait[op[x]], x)
      BY <1>2, <3>1
    <3> QED BY <3>1, <3>2 DEF TakeState, Waiting
  <2>2. CASE op[x] \notin WaitList /\ op'[x] \notin WaitList
    BY <2>2 DEF TakeState
  <2> QED BY <2>1, <2>2
<1>4. CASE op[t] \in WaitList
  <2>1. op'[t] = op[t] /\ Contains(k.wait[op[t]], t) /\ ~Contains(k'.wait[op[t]], t)
    BY <1>1, <1>2, <1>4
  <2>2. TakeState(t) = <<"waiting", op[t]>>
    BY <1>4, <2>1 DEF TakeState, Waiting
  <2>3. TakeState(t)' = IF k'.error[t] = "EOK" THEN <<"granted", op[t]>> ELSE <<"failed", op[t]>>
    BY <1>4, <2>1 DEF TakeState, Waiting
  <2> QED BY <1>2, <1>3, <1>4, <2>2, <2>3
<1>5. CASE op[t] \notin WaitList
  <2>1. op'[t] \notin WaitList
    BY <1>5
  <2>2. TakeState(t)' = TakeState(t)
    BY <1>5, <2>1 DEF TakeState
  <2> QED BY <1>2, <1>3, <1>5, <2>2
<1> QED BY <1>4, <1>5

\* A thread gives up: its time is over, or the mutex is deleted.
LEMMA GiveUpMutex ==
  ASSUME MutexInv, NEW t \in Thread, k.stat[t] = "SUSPEND", IpcInv', op' \in [Thread -> Op],
         k'.wait = WaitWithout(k, t), \A x \in Thread \ {t} : k'.error[x] = k.error[x],
         k'.error[t] # "EOK", UNCHANGED mutexVars,
         \A x \in Thread : op'[x] = op[x] \/ {op[x], op'[x]} \subseteq {"delete", "delete_resume"}
  PROVE  /\ MutexInv' /\ PromiseStep
         /\ \A w \in WaitList : k'.wait[w] = Unlinked(k.wait[w], t)
<1>1. \A x \in Thread : op'[x] = op[x] \/ {op[x], op'[x]} \cap WaitList = {}
  BY MutexFacts
<1>2. /\ \A w \in WaitList, x \in Thread :
           Contains(k'.wait[w], x) <=> Contains(k.wait[w], x) /\ x # t
      /\ \A w \in WaitList : /\ k'.wait[w] = Unlinked(k.wait[w], t)
                             /\ k.wait[w] = << >> => k'.wait[w] = << >>
      /\ OthersStay(t)
      /\ IF op[t] \in WaitList
         THEN TakeState(t) = <<"waiting", op[t]>> /\ TakeState(t)' = <<"failed", op[t]>>
         ELSE TakeState(t)' = TakeState(t)
  BY <1>1, MutexTakenOff
<1>3. value' = value /\ owner' = owner /\ hold' = hold /\ original' = original /\ gone' = gone
  BY DEF mutexVars
<1>4. Waiters'
  <2> SUFFICES ASSUME NEW w \in WaitList, NEW x \in Thread, Contains(k'.wait[w], x)
               PROVE  op'[x] = w /\ k'.error[x] = "EOK" /\ owner[w] \notin {NULL, x}
    BY <1>3 DEF Waiters
  <2>1. Contains(k.wait[w], x) /\ x # t
    BY <1>2
  <2>2. op[x] = w /\ k.error[x] = "EOK" /\ owner[w] \notin {NULL, x}
    BY <2>1 DEF MutexInv, Waiters
  <2> QED BY <1>1, <2>1, <2>2
<1>5. Results'
  <2> SUFFICES ASSUME NEW x \in Thread, op'[x] \in WaitList, ~Contains(k'.wait[op'[x]], x)
               PROVE  IF k'.error[x] = "EOK" THEN owner[op'[x]] = x /\ hold[op'[x]] = 1
                      ELSE owner[op'[x]] # x
    BY <1>3 DEF Results
  <2>1. op'[x] = op[x]
    BY <1>1
  <2>2. CASE x = t
    <3>1. Contains(k.wait[op[t]], t)
      BY <2>1, <2>2, MutexFacts
    <3> QED BY <2>1, <2>2, <3>1 DEF MutexInv, Waiters
  <2>3. CASE x # t
    BY <1>2, <2>1, <2>3 DEF MutexInv, Results
  <2> QED BY <2>2, <2>3
<1>6. Deleting'
  <2>1. \A x \in Thread : op[x] \in {"delete", "delete_resume"} <=> op'[x] \in {"delete", "delete_resume"}
    OBVIOUS
  <2> QED BY <1>2, <1>3, <2>1 DEF MutexInv, Deleting
<1>7. MutexInv'
  BY <1>3, <1>4, <1>5, <1>6, SameFields DEF MutexInv
<1>8. PromiseStep
  <2>1. CASE op[t] \in WaitList
    BY <1>2, <1>3, <2>1, PromiseMove DEF PromiseStep
  <2>2. CASE op[t] \notin WaitList
    <3>1. \A x \in Thread : TakeState(x)' = TakeState(x)
      BY <1>2, <2>2 DEF OthersStay
    <3> QED BY <1>3, <3>1, PromiseStutter DEF PromiseStep
  <2> QED BY <2>1, <2>2
<1> QED BY <1>2, <1>7, <1>8

\* The tick, the timeouts and the scheduler.
LEMMA SystemMutex ==
  ASSUME Ordinary, MutexInv, SystemStep, UNCHANGED mutexVars
  PROVE  /\ MutexInv' /\ PromiseStep
         /\ "control" \notin Calls => k'.prio = k.prio
         /\ \/ k'.wait = k.wait
            \/ \E t \in Thread : \A w \in WaitList : k'.wait[w] = Unlinked(k.wait[w], t)
<1>1. IpcInv' /\ SystemEffect
  BY SystemStepOK DEF MutexInv
<1>2. op' = op /\ ("control" \notin Calls => k'.prio = k.prio)
  BY <1>1 DEF SystemEffect
<1>3. value' = value /\ owner' = owner /\ hold' = hold /\ original' = original /\ gone' = gone
  BY DEF mutexVars
<1>4. CASE k'.wait = k.wait /\ \A t \in Thread : op[t] # "none" => k'.error[t] = k.error[t]
  <2>1. Waiters'
    <3>1. \A t \in Thread : op[t] \in WaitList => k'.error[t] = k.error[t]
      BY <1>4, MutexFacts
    <3> QED BY <1>2, <1>3, <1>4, <3>1 DEF MutexInv, Waiters
  <2>2. Results'
    <3> SUFFICES ASSUME NEW x \in Thread, op[x] \in WaitList, ~Contains(k.wait[op[x]], x)
                 PROVE  IF k'.error[x] = "EOK" THEN owner[op[x]] = x /\ hold[op[x]] = 1
                        ELSE owner[op[x]] # x
      BY <1>2, <1>3, <1>4 DEF Results
    <3>1. k'.error[x] = k.error[x]
      BY <1>4, MutexFacts
    <3> QED BY <3>1 DEF MutexInv, Results
  <2>3. Deleting'
    BY <1>2, <1>3, <1>4 DEF MutexInv, Deleting
  <2>4. MutexInv'
    BY <1>1, <1>2, <1>3, <2>1, <2>2, <2>3, SameFields DEF MutexInv
  <2>5. \A t \in Thread : TakeState(t)' = TakeState(t)
    <3>1. \A t \in Thread : op[t] \in WaitList => k'.error[t] = k.error[t]
      BY <1>4, MutexFacts
    <3> QED BY <1>2, <1>4, <3>1 DEF TakeState, Waiting
  <2>6. PromiseStep
    BY <1>3, <2>5, PromiseStutter DEF PromiseStep
  <2> QED BY <1>2, <1>4, <2>4, <2>6
<1>5. CASE \E t \in Thread : k.stat[t] = "SUSPEND" /\ TakenOff(k, k', t, "ETIMEOUT")
  <2>1. PICK t \in Thread : k.stat[t] = "SUSPEND" /\ TakenOff(k, k', t, "ETIMEOUT")
    BY <1>5
  <2>2. /\ k'.wait = WaitWithout(k, t) /\ k'.error[t] # "EOK"
        /\ \A x \in Thread \ {t} : k'.error[x] = k.error[x]
    BY <2>1, MutexFacts DEF TakenOff
  <2>3. op' \in [Thread -> Op] /\ \A x \in Thread : op'[x] = op[x]
    BY <1>2 DEF MutexInv
  <2>4. /\ MutexInv' /\ PromiseStep
        /\ \A w \in WaitList : k'.wait[w] = Unlinked(k.wait[w], t)
    BY <1>1, <2>1, <2>2, <2>3, GiveUpMutex
  <2> QED BY <1>2, <2>4
<1> QED BY <1>1, <1>4, <1>5 DEF SystemEffect

\* rt_mutex_release that passes the mutex on: the caller has its priority back, the
\* first waiter leaves the list and is the owner.
LEMMA HandOverMutex ==
  ASSUME MutexInv, NEW m \in WaitList, HandOver(m)
  PROVE  /\ MutexInv' /\ PromiseStep
         /\ k'.prio = Restored(m).prio
         /\ \A w \in WaitList : k'.wait[w] = Unlinked(k.wait[w], Head(k.wait[m]))
<1>1. PICK c \in Thread : c = k.cur
  BY MutexFacts
<1>2. /\ At("run") /\ op[c] = "none" /\ owner[m] = c /\ hold[m] = 1 /\ k.wait[m] # << >>
      /\ owner' = [owner EXCEPT ![m] = Head(k.wait[m])]
      /\ original' = [original EXCEPT ![m] = k.prio[Head(k.wait[m])]]
      /\ Then_schedule(rt_ipc_list_resume(Restored(m), m), "none")
      /\ value' = value /\ hold' = hold /\ gone' = gone
  BY <1>1 DEF HandOver, MutexCall, Outside
<1>3. PICK t \in Thread : t = Head(k.wait[m]) /\ Contains(k.wait[m], t)
  BY <1>2, HeadElement, MutexFacts
<1>4. /\ k.stat[t] = "SUSPEND" /\ ~Contains(k.defunct, t) /\ op[t] = m /\ k.error[t] = "EOK"
      /\ t # c /\ k.prio[t] \in Prio
  BY <1>2, <1>3, MutexFacts DEF MutexInv, Waiters, Kernel
<1> DEFINE a == Restored(m)
           b == rt_thread_resume(a, t)
<1>5. /\ Resumes(k, a) /\ a.wait = k.wait /\ a.error = k.error /\ a.stat = k.stat
      /\ a.defunct = k.defunct
  <2>1. original[m] \in Prio /\ "EOK" \in Error
    BY <1>2, NullAssumption DEF MutexInv, Fields, Error
  <2>2. Resumes(k, k)
    BY MutexFacts, SameWaitsResumes
  <2> QED BY <1>1, <2>1, <2>2, QuietKernel DEF Restored
<1> HIDE DEF a
<1>6. Resumes(a, b) /\ TakenOff(a, b, t, "EOK")
  <2>1. /\ KernelOK(a) /\ WaitsOK(a) /\ a.stat[t] = "SUSPEND" /\ ~Contains(a.defunct, t)
        /\ a.error[t] = "EOK"
    BY <1>4, <1>5 DEF Resumes, Shrunk
  <2> QED BY <2>1, ResumeResumes
<1>7. rt_ipc_list_resume(Restored(m), m) = b
  BY <1>3, <1>5 DEF rt_ipc_list_resume, a
<1> HIDE DEF b
<1>8. Resumes(k, b)
  BY <1>5, <1>6, ResumesThen
<1>9. IpcInv'
  BY <1>2, <1>7, <1>8, ResumeStep DEF MutexInv
<1>10. k' = b /\ op' = op
  BY <1>1, <1>2, <1>7 DEF Then_schedule, Enter, MutexInv
<1>11. /\ k'.wait = WaitWithout(k, t) /\ k'.error[t] = "EOK" /\ k'.prio = a.prio
       /\ \A x \in Thread \ {t} : k'.error[x] = k.error[x]
  BY <1>5, <1>6, <1>10, MutexFacts DEF TakenOff, WaitWithout
<1>12. /\ \A w \in WaitList, x \in Thread :
            Contains(k'.wait[w], x) <=> Contains(k.wait[w], x) /\ x # t
       /\ \A w \in WaitList : /\ k'.wait[w] = Unlinked(k.wait[w], t)
                              /\ k.wait[w] = << >> => k'.wait[w] = << >>
       /\ OthersStay(t)
       /\ TakeState(t) = <<"waiting", m>> /\ TakeState(t)' = <<"granted", m>>
  <2>1. \A x \in Thread : op'[x] = op[x] \/ {op[x], op'[x]} \cap WaitList = {}
    BY <1>10
  <2> QED BY <1>4, <1>11, <2>1, MutexTakenOff
<1>13. /\ owner' \in [WaitList -> Thread \union {NULL}] /\ owner'[m] = t /\ t # NULL
       /\ \A x \in WaitList \ {m} : owner'[x] = owner[x]
       /\ original' \in [WaitList -> Prio \union {NoPrio}] /\ original'[m] = k.prio[t]
       /\ \A x \in WaitList \ {m} : original'[x] = original[x]
  BY <1>2, <1>3, <1>4, NullAssumption DEF MutexInv
<1>14. Fields'
  <2>1. k.prio[t] # NoPrio
    BY <1>4, PrioAssumption, NoPrioAssumption DEF Prio, NoPrio
  <2>2. ASSUME NEW x \in WaitList
        PROVE  /\ value'[x] = 1 <=> owner'[x] = NULL
               /\ hold'[x] = 0 <=> owner'[x] = NULL
               /\ original'[x] = NoPrio <=> owner'[x] = NULL
    <3>1. CASE x = m
      <4>1. value[m] # 1 /\ hold[m] # 0
        BY <1>1, <1>2, NullAssumption DEF MutexInv, Fields
      <4> QED BY <1>2, <1>13, <2>1, <3>1, <4>1
    <3>2. CASE x # m
      BY <1>2, <1>13, <3>2 DEF MutexInv, Fields
    <3> QED BY <3>1, <3>2
  <2> QED BY <2>2 DEF Fields
<1>15. Waiters'
  <2> SUFFICES ASSUME NEW w \in WaitList, NEW x \in Thread, Contains(k'.wait[w], x)
               PROVE  op'[x] = w /\ k'.error[x] = "EOK" /\ owner'[w] \notin {NULL, x}
    BY DEF Waiters
  <2>1. Contains(k.wait[w], x) /\ x # t
    BY <1>12
  <2>2. op[x] = w /\ k.error[x] = "EOK" /\ owner[w] \notin {NULL, x}
    BY <2>1 DEF MutexInv, Waiters
  <2> QED BY <1>10, <1>11, <1>13, <2>1, <2>2
<1>16. Results'
  <2> SUFFICES ASSUME NEW x \in Thread, op[x] \in WaitList, ~Contains(k'.wait[op[x]], x)
               PROVE  IF k'.error[x] = "EOK" THEN owner'[op[x]] = x /\ hold[op[x]] = 1
                      ELSE owner'[op[x]] # x
    BY <1>2, <1>10 DEF Results
  <2>1. CASE x = t
    BY <1>2, <1>4, <1>11, <1>13, <2>1
  <2>2. CASE x # t
    <3>1. ~Contains(k.wait[op[x]], x) /\ k'.error[x] = k.error[x]
      BY <1>11, <1>12, <2>2
    <3>2. IF k.error[x] = "EOK" THEN owner[op[x]] = x /\ hold[op[x]] = 1 ELSE owner[op[x]] # x
      BY <3>1 DEF MutexInv, Results
    <3>3. x # c
      BY <1>2, MutexFacts
    <3> QED BY <1>2, <1>13, <2>2, <3>1, <3>2, <3>3
  <2> QED BY <2>1, <2>2
<1>17. Deleting'
  BY <1>2, <1>10, <1>12 DEF MutexInv, Deleting
<1>18. MutexInv'
  BY <1>2, <1>9, <1>10, <1>13, <1>14, <1>15, <1>16, <1>17 DEF MutexInv
<1>19. TakeState(c) = <<"out">>
  BY <1>2, MutexFacts DEF TakeState
<1>20. PromiseStep
  BY <1>2, <1>3, <1>12, <1>19, PromiseHandOver DEF PromiseStep
<1> QED BY <1>3, <1>11, <1>12, <1>18, <1>20 DEF a

\* A step of the thread that deletes a mutex: it resumes nobody, or the first waiter.
LEMMA DeleteMutex ==
  ASSUME MutexInv, (\E m \in WaitList : Delete_call(m)) \/ DeleteLoop
  PROVE  /\ MutexInv' /\ PromiseStep
         /\ UNCHANGED <<value, owner, hold, original>> /\ k'.prio = k.prio
         /\ \/ k'.wait = k.wait
            \/ \E t \in Thread : \A w \in WaitList : k'.wait[w] = Unlinked(k.wait[w], t)
<1>1. /\ KernelOK(k) /\ WaitsOK(k) /\ k.wait \in [WaitList -> Seq(Thread)] /\ IpcInv
      /\ op \in [Thread -> Op] /\ {"none", "delete", "delete_resume"} \cap WaitList = {}
  BY MutexFacts DEF MutexInv
<1>2. value' = value /\ owner' = owner /\ hold' = hold /\ original' = original
  BY DEF Delete_call, DeleteLoop, mutexVars
<1>3. PICK c \in Thread : c = k.cur
  BY MutexFacts
\* The threads inside rt_mutex_take stay there.
<1>4. ASSUME NEW u, NEW p \in {"none", "delete", "delete_resume"}, At("run"), op[c] \notin WaitList,
             Then_return(u, p), Resumes(k, u)
      PROVE  /\ IpcInv' /\ k' = u /\ op' \in [Thread -> Op] /\ op'[c] = p
             /\ \A x \in Thread \ {c} : op'[x] = op[x]
  <2>1. IpcInv'
    BY <1>1, <1>4, ResumeStep
  <2>2. k' = u /\ op' = [op EXCEPT ![c] = p]
    BY <1>3, <1>4 DEF Then_return, Enter
  <2> QED BY <1>1, <1>4, <2>1, <2>2 DEF Op
<1>5. ASSUME NEW p \in {"none", "delete", "delete_resume"}, At("run"), op[c] \notin WaitList,
             Then_return(k, p), gone' \in WaitList \union {"none"}, Deleting'
      PROVE  MutexInv' /\ PromiseStep /\ k' = k
  <2>1. Resumes(k, k)
    BY <1>1, SameWaitsResumes
  <2>2. /\ IpcInv' /\ k' = k /\ op' \in [Thread -> Op] /\ op'[c] = p
        /\ \A x \in Thread \ {c} : op'[x] = op[x]
    BY <1>4, <1>5, <2>1
  <2>3. p \notin WaitList
    BY <1>1
  <2>4. Waiters'
    BY <1>2, <1>5, <2>2 DEF MutexInv, Waiters
  <2>5. Results'
    BY <1>2, <1>5, <2>2, <2>3 DEF MutexInv, Results
  <2>6. MutexInv'
    BY <1>2, <1>5, <2>2, <2>4, <2>5, SameFields
  <2>7. \A t \in Thread : TakeState(t)' = TakeState(t)
    BY <1>5, <2>2, <2>3 DEF TakeState, Waiting
  <2>8. PromiseStep
    BY <1>2, <2>7, PromiseStutter DEF PromiseStep
  <2> QED BY <2>2, <2>6, <2>8
<1>6. ASSUME NEW m \in WaitList, Delete_call(m) PROVE MutexInv' /\ PromiseStep /\ k' = k
  <2>1. /\ At("run") /\ op[c] \notin WaitList /\ Then_return(k, "delete") /\ gone' = m
        /\ op' = [op EXCEPT ![c] = "delete"]
    BY <1>1, <1>3, <1>6 DEF Delete_call, MutexCall, Outside, Then_return, Enter
  <2>2. Deleting'
    <3>1. op'[c] = "delete" /\ gone' \in WaitList
      BY <1>1, <2>1
    <3> QED BY <3>1 DEF Deleting
  <2> QED BY <1>5, <2>1, <2>2
<1>7. CASE DeleteLoop
  <2>1. gone' = gone /\ UNCHANGED mutexVars
    BY <1>7 DEF DeleteLoop, mutexVars
  <2>2. op[c] \in {"delete", "delete_resume"}
    BY <1>3, <1>7 DEF DeleteLoop, ResumeAllTest, ResumeAllBody, Inside
  <2>3. gone \in WaitList /\ op[c] \notin WaitList
    BY <1>1, <2>2 DEF MutexInv, Deleting
  <2>4. CASE ResumeAllTest(gone, "delete", "delete_resume", "none")
    <3> DEFINE p == IF k.wait[gone] = << >> THEN "none" ELSE "delete_resume"
    <3>1. At("run") /\ Then_return(k, p) /\ op' = [op EXCEPT ![c] = p] /\ k' = k
      BY <1>3, <2>4 DEF ResumeAllTest, Inside, Then_return, Enter
    <3>2. Deleting'
      <4>1. k.wait[gone] = << >> \/ op'[c] \in {"delete", "delete_resume"}
        BY <1>1, <3>1
      <4> QED BY <2>1, <2>3, <3>1, <4>1 DEF Deleting
    <3>3. p \in {"none", "delete", "delete_resume"} /\ gone' \in WaitList \union {"none"}
      BY <2>1, <2>3
    <3> HIDE DEF p
    <3>4. MutexInv' /\ PromiseStep /\ k' = k
      BY <1>5, <2>3, <3>1, <3>2, <3>3
    <3> QED BY <1>2, <3>4
  <2>5. CASE ResumeAllBody(gone, "delete_resume", "delete")
    <3>1. /\ At("run") /\ op[c] = "delete_resume" /\ k.wait[gone] # << >>
          /\ Then_return(ResumeWithError(k, Head(k.wait[gone])), "delete")
      BY <1>3, <2>5 DEF ResumeAllBody, Inside
    <3>2. PICK t \in Thread : t = Head(k.wait[gone]) /\ Contains(k.wait[gone], t)
      BY <1>1, <2>3, <3>1, HeadElement
    <3>3. k.stat[t] = "SUSPEND" /\ ~Contains(k.defunct, t)
      BY <2>3, <3>2, MutexFacts
    <3> DEFINE u == ResumeWithError(k, t)
    <3>4. Resumes(k, u) /\ TakenOff(k, u, t, "ERROR")
      BY <1>1, <3>3, ErrorResumes DEF ResumeWithError, Error
    <3> HIDE DEF u
    <3>5. /\ IpcInv' /\ k' = u /\ op' \in [Thread -> Op] /\ op'[c] = "delete"
          /\ \A x \in Thread \ {c} : op'[x] = op[x]
      BY <1>4, <2>3, <3>1, <3>2, <3>4 DEF u
    <3>6. /\ k'.wait = WaitWithout(k, t) /\ k'.error[t] # "EOK" /\ k'.prio = k.prio
          /\ \A x \in Thread \ {t} : k'.error[x] = k.error[x]
      BY <3>4, <3>5, MutexFacts DEF TakenOff
    <3>7. \A x \in Thread : op'[x] = op[x] \/ {op[x], op'[x]} \subseteq {"delete", "delete_resume"}
      BY <3>1, <3>5
    <3>8. /\ MutexInv' /\ PromiseStep
          /\ \A w \in WaitList : k'.wait[w] = Unlinked(k.wait[w], t)
      BY <2>1, <3>3, <3>5, <3>6, <3>7, GiveUpMutex
    <3> QED BY <1>2, <3>6, <3>8
  <2> QED BY <1>7, <2>4, <2>5 DEF DeleteLoop
<1> QED BY <1>2, <1>6, <1>7

-----------------------------------------------------------------------------
(* All steps together.                                                      *)

\* The initial states.
LEMMA MutexInitOK ==
  ASSUME MutexInit
  PROVE  /\ MutexInv /\ Promise!Init /\ k.prio = InitPrio
         /\ \A m \in WaitList : k.wait[m] = << >> /\ owner[m] = NULL
<1>1. /\ IpcInv /\ k.wait = [w \in WaitList |-> << >>] /\ op = [t \in Thread |-> "none"]
      /\ k.prio = InitPrio
  BY IpcInitOK DEF MutexInit
<1>2. \A w \in WaitList : k.wait[w] = << >> /\ \A t \in Thread : ~Contains(k.wait[w], t)
  BY <1>1 DEF Contains
<1>3. /\ value = [m \in WaitList |-> 1] /\ owner = [m \in WaitList |-> NULL]
      /\ hold = [m \in WaitList |-> 0] /\ original = [m \in WaitList |-> NoPrio]
      /\ gone = "none"
  BY DEF MutexInit
<1>4. "none" \notin WaitList
  BY MutexNameAssumption
<1>5. Fields /\ Waiters /\ Results /\ Deleting
  BY <1>1, <1>2, <1>3, <1>4 DEF Fields, Waiters, Results, Deleting
<1>6. /\ op \in [Thread -> Op] /\ gone \in WaitList \union {"none"}
      /\ value \in [WaitList -> {0, 1}] /\ owner \in [WaitList -> Thread \union {NULL}]
      /\ original \in [WaitList -> Prio \union {NoPrio}]
  BY <1>1, <1>3 DEF Op
<1>7. hold \in [WaitList -> 0 .. MaxHold]
  <2>1. 0 \in 0 .. MaxHold
    BY MaxHoldAssumption
  <2> QED BY <1>3, <2>1
<1>8. MutexInv
  BY <1>1, <1>5, <1>6, <1>7 DEF MutexInv
<1>9. \A t \in Thread : TakeState(t) = <<"out">>
  BY <1>1, <1>4 DEF TakeState
<1>10. Promise!Init
  BY <1>3, <1>9 DEF Promise!Init, Promise!Out
<1> QED BY <1>1, <1>2, <1>3, <1>8, <1>10

\* Nothing happens.
LEMMA MutexStutter ==
  ASSUME MutexInv, UNCHANGED allVars
  PROVE  MutexInv' /\ PromiseStep
<1>1. k' = k /\ pc' = pc /\ tgt' = tgt /\ isr' = isr /\ op' = op
      /\ value' = value /\ owner' = owner /\ hold' = hold /\ original' = original /\ gone' = gone
  BY DEF allVars
<1>2. IpcInv'
  BY <1>1 DEF MutexInv, IpcInv, CallPlaces, Waits, IInv, TypeOK, Places, Started, Starting, Reaping,
              Defunct, BeingFreed, Running, Ticking, SleepEnds
<1>3. Waiters' /\ Results' /\ Deleting'
  BY <1>1 DEF MutexInv, Waiters, Results, Deleting
<1>4. MutexInv'
  BY <1>1, <1>2, <1>3, SameFields DEF MutexInv
<1>5. \A t \in Thread : TakeState(t)' = TakeState(t)
  BY <1>1 DEF TakeState, Waiting
<1>6. PromiseStep
  BY <1>1, <1>5, PromiseStutter DEF PromiseStep
<1> QED BY <1>4, <1>6

\* Every step of the mutexes.
LEMMA MutexStep ==
  ASSUME Ordinary, MutexInv, MutexNext
  PROVE  MutexInv' /\ PromiseStep
<1>1. CASE SystemStep /\ UNCHANGED mutexVars
  BY <1>1, SystemMutex
<1>2. ASSUME NEW m \in WaitList, TakeAgain(m) \/ TakeFree(m) PROVE MutexInv' /\ PromiseStep
  BY <1>2, TakeNowMutex
<1>3. ASSUME NEW m \in WaitList, TakeFail(m) \/ ReleaseNotOwner(m) PROVE MutexInv' /\ PromiseStep
  BY <1>3, FailMutex
<1>4. ASSUME NEW m \in WaitList, NEW n \in Times, TakeWait(m, n) PROVE MutexInv' /\ PromiseStep
  BY <1>4, WaitMutex
<1>5. ASSUME NEW m \in WaitList, TakeReturn(m) PROVE MutexInv' /\ PromiseStep
  BY <1>5, ReturnMutex
<1>6. ASSUME NEW m \in WaitList, ReleaseOnce(m) \/ ReleaseFree(m) PROVE MutexInv' /\ PromiseStep
  BY <1>6, ReleaseMutex
<1>7. ASSUME NEW m \in WaitList, HandOver(m) PROVE MutexInv' /\ PromiseStep
  BY <1>7, HandOverMutex
<1>8. CASE (\E m \in WaitList : Delete_call(m)) \/ DeleteLoop
  BY <1>8, DeleteMutex
<1> QED BY <1>1, <1>2, <1>3, <1>4, <1>5, <1>6, <1>7, <1>8 DEF MutexNext

-----------------------------------------------------------------------------
(* Priority inheritance.                                                    *)

\* One mutex with priority order: its waiters are sorted, its owner, whose own
\* priority it remembers, has at least their priority, and everybody else has the
\* priority it was created with.
PrioInv(m) ==
  /\ SortedBy(k.prio, k.wait[m])
  /\ owner[m] # NULL => original[m] = InitPrio[owner[m]]
  /\ \A t \in Thread : t # owner[m] => k.prio[t] = InitPrio[t]
  /\ \A t \in Thread : Contains(k.wait[m], t) => k.prio[owner[m]] <= k.prio[t]

\* The calls that change neither a priority nor a list.
LEMMA PrioKept ==
  ASSUME MutexInv, NEW m \in WaitList,
         TakeAgain(m) \/ TakeFree(m) \/ TakeFail(m) \/ ReleaseNotOwner(m) \/ ReleaseOnce(m)
  PROVE  k'.prio = k.prio /\ k'.wait = k.wait
<1>1. PICK c \in Thread : c = k.cur
  BY MutexFacts
<1>2. k' = k \/ \E e \in {"EOK", "ETIMEOUT", "ERROR"} : k' = SetError(k, c, e)
  BY <1>1 DEF TakeAgain, TakeFree, TakeFail, ReleaseNotOwner, ReleaseOnce, Then_return
<1>3. k.prio[c] \in Prio /\ {"EOK", "ETIMEOUT", "ERROR"} \subseteq Error
  BY MutexFacts DEF Kernel, Error
<1>4. \A e \in {"EOK", "ETIMEOUT", "ERROR"} :
        SetError(k, c, e).wait = k.wait /\ SetError(k, c, e).prio = k.prio
  BY <1>3, QuietKernel
<1> QED BY <1>2, <1>4

\* The priorities after the last release and after a wait.
LEMMA PrioChanged ==
  ASSUME MutexInv, NEW m \in WaitList, NEW c \in Thread, c = k.cur
  PROVE  /\ owner[m] = c => /\ Restored(m).prio = [k.prio EXCEPT ![c] = original[m]]
                            /\ Restored(m).wait = k.wait
         /\ owner[m] \in Thread =>
              Boost(k, m, c).prio =
                IF k.prio[c] < k.prio[owner[m]] THEN [k.prio EXCEPT ![owner[m]] = k.prio[c]]
                ELSE k.prio
<1>1. k.prio \in [Thread -> Prio] /\ "EOK" \in Error
  BY MutexFacts DEF Kernel, Error
<1>2. owner[m] = c => original[m] \in Prio
  BY NullAssumption DEF MutexInv, Fields
<1>3. ASSUME owner[m] = c
      PROVE  Restored(m).prio = [k.prio EXCEPT ![c] = original[m]] /\ Restored(m).wait = k.wait
  <2>1. CASE original[m] = k.prio[c]
    BY <1>1, <2>1 DEF Restored
  <2>2. CASE original[m] # k.prio[c]
    BY <1>1, <1>2, <1>3, <2>2, QuietKernel DEF Restored
  <2> QED BY <2>1, <2>2
<1>4. ASSUME owner[m] \in Thread
      PROVE  Boost(k, m, c).prio =
               IF k.prio[c] < k.prio[owner[m]] THEN [k.prio EXCEPT ![owner[m]] = k.prio[c]]
               ELSE k.prio
  <2>1. k.prio[c] \in Prio
    BY <1>1
  <2> QED BY <1>1, <1>4, <2>1, QuietKernel DEF Boost
<1> QED BY <1>3, <1>4

\* A step that changes no priority and no owner, and may take a waiter off the list.
LEMMA PrioQuiet ==
  ASSUME MutexInv, NEW m \in WaitList, PrioInv(m), k'.prio = k.prio, owner' = owner,
         original' = original,
         \/ k'.wait[m] = k.wait[m]
         \/ \E t \in Thread : k'.wait[m] = Unlinked(k.wait[m], t)
  PROVE  PrioInv(m)'
<1>1. k.wait[m] \in Seq(Thread) /\ IsInjective(k.wait[m])
  BY MutexFacts DEF WaitsOK
<1>2. /\ SortedBy(k.prio, k'.wait[m])
      /\ \A t \in Thread : Contains(k'.wait[m], t) => Contains(k.wait[m], t)
  BY <1>1, UnlinkedSorted, UnlinkedElements DEF PrioInv
<1> QED BY <1>2 DEF PrioInv

\* A thread waits: the owner inherits its priority, which is not lower than that of
\* the waiters before it.
LEMMA PrioWait ==
  ASSUME MutexInv, NEW m \in WaitList, MutexFlag = "PRIO", PrioInv(m), NEW n \in Times,
         TakeWait(m, n)
  PROVE  PrioInv(m)'
<1> DEFINE o == owner[m]
           s == k.wait[m]
           r == k'.wait[m]
<1>1. PICK c \in Thread : c = k.cur
  BY MutexFacts
<1> DEFINE b == Boost(k, m, c)
<1>2. /\ o \in Thread /\ o # c /\ owner' = owner /\ original' = original
      /\ r \in Seq(Thread) /\ k'.prio = b.prio
  BY <1>1, WaitMutex DEF TakeWait, Unavailable, mutexVars
<1>3. PICK i : Enlisted(s, r, c, i) /\ RightPlace(b, s, c, "PRIO", i)
  BY <1>1, WaitMutex
<1>4. /\ s \in Seq(Thread) /\ IsInjective(s) /\ k.prio \in [Thread -> Int]
      /\ \A t \in Thread : Contains(s, t) => t # o
  <2>1. k.prio \in [Thread -> Int]
    BY MutexFacts DEF Kernel, Prio
  <2> QED BY <2>1, MutexFacts DEF WaitsOK, MutexInv, Waiters
<1>5. b.prio = IF k.prio[c] < k.prio[o] THEN [k.prio EXCEPT ![o] = k.prio[c]] ELSE k.prio
  BY <1>1, <1>2, PrioChanged
<1> HIDE DEF b, o
<1>6. /\ b.prio \in [Thread -> Int] /\ \A t \in Thread \ {o} : b.prio[t] = k.prio[t]
      /\ b.prio[o] <= k.prio[o] /\ b.prio[o] <= b.prio[c]
  BY <1>2, <1>4, <1>5
<1>7. SortedBy(b.prio, s)
  <2>1. \A j \in 1 .. Len(s) : s[j] \in Thread \ {o}
    BY <1>4 DEF Contains
  <2> QED BY <1>6, <2>1 DEF PrioInv, SortedBy
<1> HIDE DEF s, r
<1>8. SortedBy(b.prio, r)
  BY <1>2, <1>3, <1>4, <1>6, <1>7, EnlistedSorted
<1>9. \A x : Contains(r, x) <=> Contains(s, x) \/ x = c
  <2>1. ~Contains(s, c)
    <3>1. k.stat[c] = "RUNNING"
      BY <1>1, RunningThread, IpcList DEF MutexInv, TakeWait, Unavailable, MutexCall, Outside
    <3> QED BY <3>1, MutexFacts DEF s
  <2> QED BY <1>2, <1>3, <1>4, <2>1, EnlistedElements
<1>10. \A t \in Thread : Contains(r, t) => b.prio[o] <= b.prio[t]
  <2> SUFFICES ASSUME NEW t \in Thread, Contains(s, t) PROVE b.prio[o] <= b.prio[t]
    BY <1>6, <1>9
  <2>1. t # o /\ b.prio[t] = k.prio[t] /\ k.prio[o] <= k.prio[t]
    BY <1>4, <1>6 DEF PrioInv, s, o
  <2> QED BY <1>2, <1>4, <1>6, <2>1
<1>11. owner'[m] = o /\ original'[m] = original[m] /\ \A t \in Thread : t # o => b.prio[t] = InitPrio[t]
  BY <1>2, <1>6 DEF PrioInv, o
<1>12. o # NULL => original[m] = InitPrio[o]
  BY DEF PrioInv, o
<1> QED BY <1>2, <1>8, <1>10, <1>11, <1>12 DEF PrioInv, r

\* A free mutex is taken, or the last release frees it.
LEMMA PrioFree ==
  ASSUME MutexInv, NEW m \in WaitList, PrioInv(m), TakeFree(m) \/ ReleaseFree(m)
  PROVE  PrioInv(m)'
<1>1. PICK c \in Thread : c = k.cur
  BY MutexFacts
<1>2. CASE TakeFree(m)
  <2>1. /\ owner[m] # c /\ value[m] > 0 /\ owner' = [owner EXCEPT ![m] = c]
        /\ original' = [original EXCEPT ![m] = k.prio[c]]
    BY <1>1, <1>2 DEF TakeFree
  <2>2. owner[m] = NULL /\ owner'[m] = c /\ original'[m] = k.prio[c]
    <3>1. value[m] = 1
      BY <2>1 DEF MutexInv
    <3> QED BY <2>1, <3>1 DEF MutexInv, Fields
  <2>3. k'.prio = k.prio /\ k'.wait = k.wait
    BY <1>2, PrioKept
  <2>4. \A t \in Thread : ~Contains(k.wait[m], t) /\ k.prio[t] = InitPrio[t]
    BY <2>2, NullAssumption DEF MutexInv, Waiters, PrioInv
  <2> QED BY <2>2, <2>3, <2>4 DEF PrioInv
<1>3. CASE ReleaseFree(m)
  <2>1. /\ owner[m] = c /\ k.wait[m] = << >> /\ owner' = [owner EXCEPT ![m] = NULL]
        /\ k' = Restored(m)
    BY <1>1, <1>3 DEF ReleaseFree, Then_return
  <2>2. owner'[m] = NULL
    BY <2>1 DEF MutexInv
  <2>3. k'.prio = [k.prio EXCEPT ![c] = original[m]] /\ k'.wait = k.wait
    BY <1>1, <2>1, PrioChanged
  <2>4. k.prio \in [Thread -> Prio] /\ \A t \in Thread : ~Contains(k.wait[m], t)
    BY <2>1, MutexFacts DEF Kernel, Contains
  <2>5. original[m] = InitPrio[c] /\ \A t \in Thread \ {c} : k.prio[t] = InitPrio[t]
    BY <2>1, NullAssumption DEF PrioInv
  <2>6. \A t \in Thread : k'.prio[t] = InitPrio[t]
    BY <2>3, <2>4, <2>5
  <2>7. SortedBy(k'.prio, k'.wait[m])
    BY <2>1, <2>3 DEF SortedBy
  <2>8. \A t \in Thread : ~Contains(k'.wait[m], t)
    BY <2>3, <2>4
  <2> QED BY <2>2, <2>6, <2>7, <2>8 DEF PrioInv
<1> QED BY <1>2, <1>3

\* The mutex passes to its first waiter, which has the highest priority of them.
LEMMA PrioHandOver ==
  ASSUME MutexInv, NEW m \in WaitList, PrioInv(m), HandOver(m)
  PROVE  PrioInv(m)'
<1> DEFINE s == k.wait[m]
           r == k'.wait[m]
<1>1. PICK c \in Thread : c = k.cur
  BY MutexFacts
<1>2. PICK t \in Thread : t = Head(s) /\ Contains(s, t)
  BY HeadElement, MutexFacts DEF HandOver
<1>3. /\ owner[m] = c /\ s # << >> /\ owner' = [owner EXCEPT ![m] = t]
      /\ original' = [original EXCEPT ![m] = k.prio[t]]
  BY <1>1, <1>2 DEF HandOver
<1>4. owner'[m] = t /\ original'[m] = k.prio[t]
  BY <1>3 DEF MutexInv
<1>5. /\ s \in Seq(Thread) /\ IsInjective(s) /\ k.prio \in [Thread -> Prio] /\ t # c
      /\ \A x \in Thread : Contains(s, x) => x # c
  BY <1>2, <1>3, MutexFacts DEF WaitsOK, MutexInv, Waiters, Kernel
<1>6. k'.prio = [k.prio EXCEPT ![c] = original[m]] /\ r = Unlinked(s, t)
  BY <1>1, <1>2, <1>3, PrioChanged, HandOverMutex
<1>7. original[m] = InitPrio[c] /\ \A x \in Thread \ {c} : k.prio[x] = InitPrio[x]
  BY <1>3, NullAssumption DEF PrioInv
<1>8. \A x \in Thread : k'.prio[x] = InitPrio[x]
  BY <1>5, <1>6, <1>7
<1> HIDE DEF r
<1>9. /\ SortedBy(k.prio, r) /\ r \in Seq(Thread)
      /\ \A x : Contains(r, x) => Contains(s, x)
  <2>1. SortedBy(k.prio, s)
    BY DEF PrioInv
  <2> HIDE DEF s
  <2> QED BY <1>5, <1>6, <2>1, UnlinkedSorted, UnlinkedType, UnlinkedElements
<1>10. SortedBy(k'.prio, r)
  <2>1. \A j \in 1 .. Len(r) : r[j] \in Thread /\ Contains(r, r[j])
    BY <1>9 DEF Contains
  <2>2. \A j \in 1 .. Len(r) : k'.prio[r[j]] = k.prio[r[j]]
    BY <1>5, <1>6, <1>9, <2>1
  <2> QED BY <1>9, <2>2 DEF SortedBy
<1>11. ASSUME NEW x \in Thread, Contains(r, x) PROVE k'.prio[t] <= k'.prio[x]
  <2>1. Contains(s, x) /\ x # c
    BY <1>5, <1>9, <1>11
  <2>2. PICK j \in 1 .. Len(s) : s[j] = x
    BY <2>1 DEF Contains
  <2>3. t = s[1] /\ 1 \in 1 .. Len(s) /\ k.prio[s[1]] \in Int
    BY <1>2, <1>3, <1>5 DEF Prio
  <2>4. k.prio[s[1]] <= k.prio[s[j]]
    BY <2>2, <2>3 DEF PrioInv, SortedBy
  <2>5. k'.prio[t] = k.prio[t] /\ k'.prio[x] = k.prio[x]
    BY <1>5, <1>6, <2>1
  <2> QED BY <2>2, <2>3, <2>4, <2>5
<1>12. original'[m] = InitPrio[owner'[m]]
  BY <1>4, <1>5, <1>7
<1> QED BY <1>4, <1>8, <1>10, <1>11, <1>12 DEF PrioInv, r

\* Every step.
LEMMA PrioStep ==
  ASSUME Ordinary, "control" \notin Calls, MutexInv, NEW m, WaitList = {m}, MutexFlag = "PRIO",
         PrioInv(m), MutexNext
  PROVE  PrioInv(m)'
<1>1. CASE SystemStep /\ UNCHANGED mutexVars
  <2>1. /\ k'.prio = k.prio /\ owner' = owner /\ original' = original
        /\ \/ k'.wait = k.wait
           \/ \E t \in Thread : \A w \in WaitList : k'.wait[w] = Unlinked(k.wait[w], t)
    BY <1>1, SystemMutex DEF mutexVars
  <2> QED BY <2>1, PrioQuiet
<1>2. CASE TakeAgain(m) \/ TakeFail(m) \/ ReleaseNotOwner(m) \/ ReleaseOnce(m)
  <2>1. owner' = owner /\ original' = original
    BY <1>2 DEF TakeAgain, TakeFail, ReleaseNotOwner, ReleaseOnce, mutexVars
  <2>2. k'.prio = k.prio /\ k'.wait = k.wait
    BY <1>2, PrioKept
  <2> QED BY <2>1, <2>2, PrioQuiet
<1>3. CASE TakeReturn(m)
  <2>1. k' = k /\ owner' = owner /\ original' = original
    BY <1>3, ReturnMutex DEF mutexVars
  <2> QED BY <2>1, PrioQuiet
<1>4. CASE TakeFree(m) \/ ReleaseFree(m)
  BY <1>4, PrioFree
<1>5. CASE \E n \in Times : TakeWait(m, n)
  BY <1>5, PrioWait
<1>6. CASE HandOver(m)
  BY <1>6, PrioHandOver
<1>7. CASE Delete_call(m) \/ DeleteLoop
  <2>1. /\ owner' = owner /\ original' = original /\ k'.prio = k.prio
        /\ \/ k'.wait = k.wait
           \/ \E t \in Thread : \A w \in WaitList : k'.wait[w] = Unlinked(k.wait[w], t)
    BY <1>7, DeleteMutex
  <2> QED BY <2>1, PrioQuiet
<1> QED BY <1>1, <1>2, <1>3, <1>4, <1>5, <1>6, <1>7 DEF MutexNext

-----------------------------------------------------------------------------
(* The theorems.                                                            *)

\* The fields of every mutex, its list, the places of the takes and what each of them
\* will find fit together after every step (rt_mutex_take, rt_mutex_release,
\* rt_mutex_delete), for any number of mutexes.
THEOREM MutexInvariance ==
  ASSUME Ordinary
  PROVE  MutexSpec => []MutexInv
<1>1. MutexInit => MutexInv
  BY MutexInitOK
<1>2. MutexInv /\ [MutexNext]_allVars => MutexInv'
  BY MutexStep, MutexStutter
<1> QED BY <1>1, <1>2, PTL DEF MutexSpec

\* The fields of every mutex agree, nobody waits for a free mutex or for one of
\* its own, and rt_mutex_delete leaves nobody on the list.
THEOREM MutexFieldsAgree ==
  ASSUME Ordinary
  PROVE  MutexSpec => []MutexConsistent
<1>1. MutexInv => MutexConsistent
  <2> SUFFICES ASSUME MutexInv PROVE MutexConsistent
    OBVIOUS
  <2>1. MutexTypeOK
    BY DEF MutexInv, MutexTypeOK, IpcInv, IInv, Op
  <2>2. ASSUME NEW m \in WaitList, NEW t \in ToSet(k.wait[m])
        PROVE  op[t] = m /\ owner[m] \notin {NULL, t}
    <3>1. k.wait[m] \in Seq(Thread)
      BY MutexFacts
    <3>2. t \in Thread /\ Contains(k.wait[m], t)
      BY <3>1 DEF ToSet, Contains
    <3> QED BY <3>2 DEF MutexInv, Waiters
  <2>3. \A m \in WaitList : /\ value[m] = 1 <=> owner[m] = NULL
                            /\ hold[m] = 0 <=> owner[m] = NULL
                            /\ original[m] = NoPrio <=> owner[m] = NULL
    BY DEF MutexInv, Fields
  <2>4. \A m \in WaitList \cap {gone} :
          k.wait[m] = << >> \/ \E t \in Thread : op[t] \in {"delete", "delete_resume"}
    BY DEF MutexInv, Deleting
  <2> QED BY <2>1, <2>2, <2>3, <2>4 DEF MutexConsistent
<1> QED BY <1>1, MutexInvariance, PTL

\* Suspend lists, status words and timers agree, whatever times out, is handed
\* over or deleted.
THEOREM MutexWaitLists ==
  ASSUME Ordinary
  PROVE  MutexSpec => []WaitLists
<1>1. MutexInv => WaitLists
  BY WaitListsOK DEF MutexInv
<1> QED BY <1>1, MutexInvariance, PTL

\* The mutexes keep the promise of LockSpec: one owner at a time, recursion counted, and
\* a hand-over to exactly one waiter (ipc.c:678-760, 820-880).
THEOREM MutexRefinement ==
  ASSUME Ordinary
  PROVE  MutexSpec => ImplementsLock
<1>1. MutexInit => Promise!Init
  BY MutexInitOK
<1>2. MutexInv /\ [MutexNext]_allVars => [Promise!Next]_(Promise!vars)
  <2> SUFFICES ASSUME MutexInv, [MutexNext]_allVars PROVE PromiseStep
    BY DEF PromiseStep
  <2> QED BY MutexStep, MutexStutter
<1> QED BY <1>1, <1>2, MutexInvariance, PTL DEF MutexSpec, ImplementsLock, Promise!Spec

\* Priority inheritance of one mutex as an invariant: who does not own it has its own
\* priority, its owner remembers its own, and the list stays sorted (ipc.c:698, 721-727).
THEOREM PrioInvariance ==
  ASSUME Ordinary, "control" \notin Calls, NEW m, WaitList = {m}, MutexFlag = "PRIO"
  PROVE  MutexSpec => []PrioInv(m)
<1>1. MutexInit => PrioInv(m)
  <2> SUFFICES ASSUME MutexInit PROVE PrioInv(m)
    OBVIOUS
  <2>1. k.prio = InitPrio /\ k.wait[m] = << >> /\ owner[m] = NULL
    BY MutexInitOK
  <2> QED BY <2>1 DEF PrioInv, SortedBy, Contains
<1>2. MutexInv /\ PrioInv(m) /\ [MutexNext]_allVars => PrioInv(m)'
  <2> SUFFICES ASSUME MutexInv, PrioInv(m), [MutexNext]_allVars PROVE PrioInv(m)'
    OBVIOUS
  <2>1. CASE MutexNext
    BY <2>1, PrioStep
  <2>2. CASE UNCHANGED allVars
    BY <2>2 DEF allVars, PrioInv
  <2> QED BY <2>1, <2>2
<1> QED BY <1>1, <1>2, MutexInvariance, PTL DEF MutexSpec

\* No priority inversion at a mutex with priority order that is the only one its
\* threads use: its owner has at least the priority of every waiter, also after a
\* hand-over, a timeout and a delete.
THEOREM MutexInheritance ==
  ASSUME Ordinary, "control" \notin Calls, NEW m, WaitList = {m}, MutexFlag = "PRIO"
  PROVE  MutexSpec => []Inheritance
<1>1. MutexInv /\ PrioInv(m) => Inheritance
  <2> SUFFICES ASSUME MutexInv, PrioInv(m), NEW t \in ToSet(k.wait[m])
               PROVE  k.prio[owner[m]] <= k.prio[t]
    BY DEF Inheritance
  <2>1. k.wait[m] \in Seq(Thread)
    BY MutexFacts
  <2>2. t \in Thread /\ Contains(k.wait[m], t)
    BY <2>1 DEF ToSet, Contains
  <2> QED BY <2>2 DEF PrioInv
<1> QED BY <1>1, MutexInvariance, PrioInvariance, PTL

\* Inheritance ends with the ownership: rt_mutex_release restores the priority that the
\* owner had when it took the mutex (ipc.c:832).
THEOREM MutexOwnPriority ==
  ASSUME Ordinary, "control" \notin Calls, NEW m, WaitList = {m}, MutexFlag = "PRIO"
  PROVE  MutexSpec => []OwnPriority
<1>1. PrioInv(m) => OwnPriority
  BY DEF PrioInv, OwnPriority
<1> QED BY <1>1, PrioInvariance, PTL

=============================================================================
