---------------------------- MODULE EventProofs ----------------------------
(***************************************************************************)
(* The properties of Event for any number of threads and bits, any         *)
(* receives and waiting times, and for both flags.                         *)
(***************************************************************************)
EXTENDS Event, KernelProofs

-----------------------------------------------------------------------------
(* The inductive invariant.                                                 *)

\* Only this event has waiters, they are inside rt_event_recv, no result has been
\* written for them yet, and what they wait for is not set.
Waiters ==
  \A w \in WaitList, t \in Thread : Contains(k.wait[w], t) =>
    /\ w = Ev /\ op[t] = "recv_wait" /\ k.error[t] = "EOK"
    /\ ~Satisfied(set, event_set[t], event_info[t])

Ops == {"none", "recv_wait", "recv_done", "delete", "delete_resume"}

EvInv ==
  /\ IpcInv
  /\ op \in [Thread -> Ops]
  /\ set \in SUBSET Bit
  /\ event_set \in [Thread -> SUBSET Bit] /\ recved \in [Thread -> SUBSET Bit]
  /\ event_info \in [Thread -> Option \union {NoOption}]
  /\ alive \in BOOLEAN
  /\ Waiters

\* What the invariant says of the list and of a thread on it.
LEMMA EvFacts ==
  ASSUME EvInv
  PROVE  /\ k \in Kernel /\ KernelOK(k) /\ WaitsOK(k) /\ k.nest = 0 /\ Ev \in WaitList
         /\ k.wait[Ev] \in Seq(Thread) /\ IsInjective(k.wait[Ev]) /\ k.cur \in Thread
         /\ k.error \in [Thread -> Error]
         /\ \A t \in Thread : Contains(k.wait[Ev], t) => k.stat[t] = "SUSPEND"
         /\ \A t \in Thread : Listed(k, t) => Contains(k.wait[Ev], t)
         /\ \A t \in Thread : k.stat[t] = "SUSPEND" /\ op[t] # "none" => Contains(k.wait[Ev], t)
         /\ \A t \in Thread : Contains(k.defunct, t) => k.stat[t] # "SUSPEND"
<1>1. /\ k \in Kernel /\ KernelOK(k) /\ WaitsOK(k) /\ k.nest = 0 /\ Ev \in WaitList
      /\ k.cur \in Thread
  BY Types, EvAssumption DEF EvInv, IpcInv, IInv, Waits
<1>2. /\ k.wait[Ev] \in Seq(Thread) /\ IsInjective(k.wait[Ev])
      /\ \A t \in Thread : Contains(k.wait[Ev], t) => k.stat[t] = "SUSPEND"
      /\ k.error \in [Thread -> Error]
  BY <1>1 DEF Kernel, WaitsOK
<1>3. \A t \in Thread : Listed(k, t) => Contains(k.wait[Ev], t)
  BY DEF EvInv, Waiters, Listed
<1>4. \A t \in Thread : k.stat[t] = "SUSPEND" /\ op[t] # "none" => Contains(k.wait[Ev], t)
  BY <1>3 DEF EvInv, IpcInv, Waits
<1>5. \A t \in Thread : Contains(k.defunct, t) => k.stat[t] # "SUSPEND"
  BY DEF EvInv, IpcInv, IInv, Defunct
<1> QED BY <1>1, <1>2, <1>3, <1>4, <1>5

-----------------------------------------------------------------------------
(* The walk of rt_event_send.                                               *)

\* The walk has a state for each of its turns.
LEMMA WalkDefined ==
  ASSUME NEW S, NEW s, s = k.wait[Ev], Len(s) \in Nat
  PROVE  LET f == WalkTurns(S) IN
         /\ f[0] = [kernel |-> k, set |-> set \union S, event_set |-> event_set]
         /\ \A i \in 1 .. Len(s) : f[i] = Serve(f[i - 1], s[i])
<1> DEFINE a == [kernel |-> k, set |-> set \union S, event_set |-> event_set]
           Turns(f, n) == f = [i \in 0 .. n |-> IF i = 0 THEN a ELSE Serve(f[i - 1], s[i])]
           Bad == {n \in Nat : ~\E f : Turns(f, n)}
<1> HIDE DEF a
<1>1. Bad = {}
  <2> SUFFICES ASSUME Bad # {} PROVE FALSE
    OBVIOUS
  <2> DEFINE m == Min(Bad)
  <2>1. m \in Bad /\ \A n \in Bad : m <= n
    <3> HIDE DEF Bad
    <3>1. Bad \subseteq Nat
      BY DEF Bad
    <3> QED BY <3>1, NatLeast
  <2> HIDE DEF m
  <2>2. m # 0
    <3>1. Turns([i \in 0 .. 0 |-> a], 0)
      OBVIOUS
    <3> QED BY <2>1, <3>1
  <2>3. m \in Nat /\ m - 1 \in Nat /\ m - 1 \notin Bad
    <3>1. m \in Nat
      BY <2>1
    <3> HIDE DEF Bad
    <3> QED BY <2>1, <2>2, <3>1
  <2>4. PICK f : Turns(f, m - 1)
    BY <2>3
  <2> DEFINE g == [i \in 0 .. m |-> IF i = m THEN Serve(f[m - 1], s[m]) ELSE f[i]]
  <2>5. \A i \in 0 .. m - 1 : f[i] = IF i = 0 THEN a ELSE Serve(f[i - 1], s[i])
    BY <2>4
  <2>6. \A i \in 0 .. m - 1 : g[i] = f[i]
    BY <2>3
  <2>7. ASSUME NEW i \in 0 .. m
        PROVE  g[i] = IF i = 0 THEN a ELSE Serve(g[i - 1], s[i])
    <3>1. CASE i = m
      <4>1. m - 1 \in 0 .. m - 1
        BY <2>3
      <4>2. g[m] = Serve(f[m - 1], s[m])
        BY <2>3
      <4>3. g[m - 1] = f[m - 1]
        BY <2>6, <4>1
      <4> HIDE DEF g
      <4> QED BY <2>2, <3>1, <4>2, <4>3
    <3>2. CASE i # m
      <4>1. i \in 0 .. m - 1 /\ (i # 0 => i - 1 \in 0 .. m - 1)
        BY <2>3, <3>2
      <4>2. g[i] = f[i] /\ (i # 0 => g[i - 1] = f[i - 1])
        BY <2>6, <4>1
      <4> HIDE DEF g
      <4> QED BY <2>5, <4>1, <4>2
    <3> QED BY <3>1, <3>2
  <2>8. Turns(g, m)
    <3>1. g = [i \in 0 .. m |-> g[i]]
      OBVIOUS
    <3> HIDE DEF g
    <3> QED BY <2>7, <3>1
  <2> QED BY <2>1, <2>8
<1>2. \E f : Turns(f, Len(s))
  BY <1>1
<1>3. Turns(WalkTurns(S), Len(s))
  <2>1. WalkTurns(S) = CHOOSE f : Turns(f, Len(s))
    BY DEF WalkTurns, a
  <2> HIDE DEF Turns
  <2> QED BY <1>2, <2>1
<1> DEFINE h == WalkTurns(S)
<1>4. h = [i \in 0 .. Len(s) |-> IF i = 0 THEN a ELSE Serve(h[i - 1], s[i])]
  BY <1>3
<1> HIDE DEF h
<1>5. h[0] = a
  BY <1>4
<1>6. \A i \in 1 .. Len(s) : h[i] = Serve(h[i - 1], s[i])
  BY <1>4
<1> QED BY <1>5, <1>6 DEF h, a

\* One turn for a thread whose bits are not all there, and for one that is served.
LEMMA ServeFacts ==
  ASSUME NEW u, u = [kernel |-> u.kernel, set |-> u.set, event_set |-> u.event_set],
         NEW t \in Thread, u.event_set \in [Thread -> SUBSET Bit]
  PROVE  LET v == Serve(u, t)
             got == IF event_info[t].all THEN u.event_set[t] ELSE u.event_set[t] \cap u.set IN
         IF ~Satisfied(u.set, u.event_set[t], event_info[t]) THEN v = u
         ELSE /\ v = [kernel |-> v.kernel, set |-> v.set, event_set |-> v.event_set]
              /\ v.kernel = rt_thread_resume(u.kernel, t)
              /\ v.set = IF event_info[t].clear THEN u.set \ got ELSE u.set
              /\ v.event_set \in [Thread -> SUBSET Bit]
              /\ v.event_set[t] = got /\ \A x \in Thread \ {t} : v.event_set[x] = u.event_set[x]
<1> DEFINE v == Serve(u, t)
           got == IF event_info[t].all THEN u.event_set[t] ELSE u.event_set[t] \cap u.set
<1>1. CASE ~Satisfied(u.set, u.event_set[t], event_info[t])
  BY <1>1 DEF Serve
<1>2. CASE Satisfied(u.set, u.event_set[t], event_info[t])
  <2>1. v = [u EXCEPT !.event_set[t] = got,
                      !.set = IF event_info[t].clear THEN @ \ got ELSE @,
                      !.kernel = rt_thread_resume(@, t)]
    BY <1>2 DEF Serve
  <2>2. got \in SUBSET Bit
    OBVIOUS
  <2>3. v = [kernel |-> rt_thread_resume(u.kernel, t),
             set |-> IF event_info[t].clear THEN u.set \ got ELSE u.set,
             event_set |-> [u.event_set EXCEPT ![t] = got]]
    BY <2>1
  <2> QED BY <1>2, <2>2, <2>3
<1> QED BY <1>1, <1>2

\* Bits that are there stay enough when there are more of them, and what a receive is
\* given is what it asked for.
LEMMA SatisfiedFacts ==
  ASSUME NEW want, NEW option, NEW A, NEW B
  PROVE  /\ A \subseteq B /\ Satisfied(A, want, option) => Satisfied(B, want, option)
         /\ Satisfied(A, want, option) =>
              Satisfied(IF option.all THEN want ELSE want \cap A, want, option)
BY DEF Satisfied

\* What a send has done once the threads of W are served, F being the bits that were
\* set at first: each of them has bits that it asked for, what one of them clears goes
\* to no other clearing one, and the bits that are left are those that none has cleared.
ServedTo(F, W, u) ==
  /\ u = [kernel |-> u.kernel, set |-> u.set, event_set |-> u.event_set]
  /\ Resumes(k, u.kernel) /\ u.kernel.prio = k.prio /\ u.kernel.error = k.error
  /\ u.kernel.defunct = k.defunct /\ \A x \in Thread \ W : u.kernel.stat[x] = k.stat[x]
  /\ \A w \in WaitList, x \in Thread :
       Contains(u.kernel.wait[w], x) <=> Contains(k.wait[w], x) /\ x \notin W
  /\ u.event_set \in [Thread -> SUBSET Bit]
  /\ \A x \in Thread \ W : u.event_set[x] = event_set[x]
  /\ \A x \in W : /\ u.event_set[x] \subseteq event_set[x] /\ u.event_set[x] \subseteq F
                  /\ Satisfied(u.event_set[x], event_set[x], event_info[x])
  /\ \A x, y \in W : x # y /\ event_info[x].clear /\ event_info[y].clear =>
                       u.event_set[x] \cap u.event_set[y] = {}
  /\ \A b : b \in u.set <=> b \in F /\ \A x \in W : event_info[x].clear => b \notin u.event_set[x]

\* One turn serves the thread, or what the thread wants is not there.
LEMMA ServeOK ==
  ASSUME EvInv, NEW F, NEW W \in SUBSET Thread, NEW u, ServedTo(F, W, u),
         NEW t \in Thread \ W, Contains(k.wait[Ev], t)
  PROVE  LET v == Serve(u, t) IN
         \/ ServedTo(F, W, v) /\ ~Satisfied(v.set, event_set[t], event_info[t]) /\ v = u
         \/ ServedTo(F, W \union {t}, v) /\ v.set \subseteq u.set
<1> DEFINE v == Serve(u, t)
           got == IF event_info[t].all THEN event_set[t] ELSE event_set[t] \cap u.set
           c == u.kernel
           b == v.kernel
<1>1. u.event_set[t] = event_set[t] /\ u.event_set \in [Thread -> SUBSET Bit]
  BY DEF ServedTo
<1>2. IF ~Satisfied(u.set, event_set[t], event_info[t]) THEN v = u
      ELSE /\ v = [kernel |-> v.kernel, set |-> v.set, event_set |-> v.event_set]
           /\ b = rt_thread_resume(c, t)
           /\ v.set = IF event_info[t].clear THEN u.set \ got ELSE u.set
           /\ v.event_set \in [Thread -> SUBSET Bit]
           /\ v.event_set[t] = got /\ \A x \in Thread \ {t} : v.event_set[x] = u.event_set[x]
  <2>1. u = [kernel |-> u.kernel, set |-> u.set, event_set |-> u.event_set]
    BY DEF ServedTo
  <2>2. t \in Thread
    OBVIOUS
  <2> DEFINE g == IF event_info[t].all THEN u.event_set[t] ELSE u.event_set[t] \cap u.set
  <2>3. IF ~Satisfied(u.set, u.event_set[t], event_info[t]) THEN v = u
        ELSE /\ v = [kernel |-> v.kernel, set |-> v.set, event_set |-> v.event_set]
             /\ b = rt_thread_resume(c, t)
             /\ v.set = IF event_info[t].clear THEN u.set \ g ELSE u.set
             /\ v.event_set \in [Thread -> SUBSET Bit]
             /\ v.event_set[t] = g /\ \A x \in Thread \ {t} : v.event_set[x] = u.event_set[x]
    BY ONLY <1>1, <2>1, <2>2, ServeFacts
  <2>4. g = got
    BY <1>1
  <2> HIDE DEF v, got, g
  <2> QED BY <1>1, <2>3, <2>4
<1> HIDE DEF v
<1>3. CASE ~Satisfied(u.set, event_set[t], event_info[t])
  BY <1>2, <1>3 DEF v
<1>4. CASE Satisfied(u.set, event_set[t], event_info[t])
  <2>1. /\ KernelOK(c) /\ WaitsOK(c) /\ c \in Kernel /\ c.stat[t] = "SUSPEND"
        /\ ~Contains(c.defunct, t) /\ Resumes(k, c) /\ c.error = k.error /\ c.prio = k.prio
        /\ c.defunct = k.defunct
    <3>1. k.stat[t] = "SUSPEND" /\ ~Contains(k.defunct, t)
      BY EvFacts
    <3> QED BY <3>1 DEF ServedTo, Resumes, Shrunk, KernelOK
  <2>2. /\ Resumes(c, b) /\ TakenOff(c, b, t, c.error[t])
        /\ b.defunct = c.defunct /\ \A x \in Thread \ {t} : b.stat[x] = c.stat[x]
    <3>1. b = rt_thread_resume(c, t)
      BY <1>2, <1>4
    <3> HIDE DEF b, c
    <3> QED BY <2>1, <3>1, ResumeResumes
  <2>3. \A w \in WaitList, x \in Thread : Contains(b.wait[w], x) <=> Contains(c.wait[w], x) /\ x # t
    <3> HIDE DEF b, c
    <3> QED BY <2>1, <2>2, TakenOffWaits
  <2>4. Resumes(k, b) /\ b.prio = k.prio /\ b.error = k.error /\ b.defunct = k.defunct
    <3>1. c.error \in [Thread -> Error]
      BY <2>1 DEF Kernel
    <3> HIDE DEF b, c
    <3>2. Resumes(k, b)
      BY <2>1, <2>2, ResumesThen
    <3>3. b.error = [c.error EXCEPT ![t] = c.error[t]] /\ b.prio = c.prio
      BY <2>2 DEF TakenOff
    <3>4. b.error = c.error
      BY <3>1, <3>3
    <3> QED BY <2>1, <2>2, <3>2, <3>3, <3>4
  <2>5. \A x \in Thread \ (W \union {t}) : b.stat[x] = k.stat[x]
    BY <2>2 DEF ServedTo
  <2>6. \A w \in WaitList, x \in Thread :
          Contains(b.wait[w], x) <=> Contains(k.wait[w], x) /\ x \notin W \union {t}
    BY <2>3 DEF ServedTo
  <2>7. /\ v.event_set[t] = got /\ got \subseteq event_set[t] /\ got \subseteq u.set
        /\ Satisfied(got, event_set[t], event_info[t])
    BY <1>2, <1>4 DEF Satisfied
  <2>8. \A x \in Thread \ {t} : v.event_set[x] = u.event_set[x]
    BY <1>2, <1>4
  <2>9. u.set \subseteq F
    BY DEF ServedTo
  <2>10. \A x \in W \union {t} : /\ v.event_set[x] \subseteq event_set[x] /\ v.event_set[x] \subseteq F
                                 /\ Satisfied(v.event_set[x], event_set[x], event_info[x])
    <3> HIDE DEF got
    <3> QED BY <2>7, <2>8, <2>9 DEF ServedTo
  <2>11. \A x \in W : event_info[x].clear => v.event_set[x] \cap v.event_set[t] = {}
    <3> HIDE DEF got
    <3>1. ASSUME NEW x \in W, event_info[x].clear, NEW y \in u.set PROVE y \notin u.event_set[x]
      BY <3>1 DEF ServedTo
    <3> QED BY <2>7, <2>8, <3>1
  <2>12. \A x, y \in W \union {t} : x # y /\ event_info[x].clear /\ event_info[y].clear =>
                                      v.event_set[x] \cap v.event_set[y] = {}
    <3>1. \A x, y \in W : x # y /\ event_info[x].clear /\ event_info[y].clear =>
                            v.event_set[x] \cap v.event_set[y] = {}
      BY <2>8 DEF ServedTo
    <3> QED BY <2>11, <3>1
  <2>13. v.set = IF event_info[t].clear THEN u.set \ v.event_set[t] ELSE u.set
    BY <1>2, <1>4
  <2>14. ASSUME NEW y
         PROVE  y \in v.set <=> y \in F /\ \A x \in W \union {t} : event_info[x].clear => y \notin v.event_set[x]
    <3>1. y \in u.set <=> y \in F /\ \A x \in W : event_info[x].clear => y \notin v.event_set[x]
      BY <2>8 DEF ServedTo
    <3> HIDE DEF got
    <3> QED BY <2>13, <3>1
  <2>15. \A x \in Thread \ (W \union {t}) : v.event_set[x] = event_set[x]
    BY <2>8 DEF ServedTo
  <2>16. ServedTo(F, W \union {t}, v)
    <3>1. /\ v = [kernel |-> v.kernel, set |-> v.set, event_set |-> v.event_set]
          /\ v.event_set \in [Thread -> SUBSET Bit]
      BY <1>2, <1>4
    <3> QED BY <2>4, <2>5, <2>6, <2>10, <2>12, <2>14, <2>15, <3>1 DEF ServedTo
  <2> QED BY <2>13, <2>16 DEF v
<1> QED BY <1>3, <1>4


\* The whole walk: the waiters that it leaves on the list want bits that are not set.
LEMMA WalkOK ==
  ASSUME EvInv, NEW S \in SUBSET Bit
  PROVE  \E W \in SUBSET Thread :
           /\ \A x \in W : Contains(k.wait[Ev], x)
           /\ ServedTo(set \union S, W, Walk(S))
           /\ \A x \in Thread \ W : Contains(k.wait[Ev], x) =>
                ~Satisfied(Walk(S).set, event_set[x], event_info[x])
<1> DEFINE s == k.wait[Ev]
           f == WalkTurns(S)
           F == set \union S
           First(i) == {s[j] : j \in 1 .. i}
           Turn(i) == \E W \in SUBSET First(i) :
                        /\ ServedTo(F, W, f[i])
                        /\ \A j \in 1 .. i : s[j] \notin W =>
                             ~Satisfied(f[i].set, event_set[s[j]], event_info[s[j]])
<1>1. /\ s \in Seq(Thread) /\ Len(s) \in Nat /\ IsInjective(s) /\ KernelOK(k) /\ WaitsOK(k)
  BY EvFacts
<1>2. /\ f[0] = [kernel |-> k, set |-> set \union S, event_set |-> event_set]
      /\ \A i \in 1 .. Len(s) : f[i] = Serve(f[i - 1], s[i])
  BY <1>1, WalkDefined
<1> HIDE DEF f, s
<1>3. Turn(0)
  <2>1. Resumes(k, k)
    BY <1>1, SameWaitsResumes
  <2>2. ServedTo(F, {}, f[0])
    BY <1>2, <2>1 DEF ServedTo, EvInv
  <2> QED BY <2>2
<1>4. ASSUME NEW i \in 1 .. Len(s), Turn(i - 1) PROVE Turn(i)
  <2>1. /\ i - 1 \in Nat /\ \A j \in 1 .. i : s[j] \in Thread /\ Contains(s, s[j])
    BY <1>1 DEF Contains
  <2>2. PICK W \in SUBSET First(i - 1) :
          /\ ServedTo(F, W, f[i - 1])
          /\ \A j \in 1 .. i - 1 : s[j] \notin W =>
               ~Satisfied(f[i - 1].set, event_set[s[j]], event_info[s[j]])
    BY <1>4
  <2>3. s[i] \in Thread \ W /\ Contains(k.wait[Ev], s[i]) /\ W \in SUBSET Thread
    <3>1. \A j \in 1 .. i - 1 : s[j] # s[i]
      BY <1>1 DEF IsInjective
    <3>2. s[i] \notin First(i - 1)
      BY <3>1
    <3> QED BY <2>1, <3>2 DEF s
  <2> DEFINE u == f[i - 1]
             v == f[i]
  <2>4. v = Serve(u, s[i])
    BY <1>2
  <2>5. \/ ServedTo(F, W, v) /\ ~Satisfied(v.set, event_set[s[i]], event_info[s[i]]) /\ v = u
        \/ ServedTo(F, W \union {s[i]}, v) /\ v.set \subseteq u.set
    <3> HIDE DEF u, v, F
    <3> QED BY <2>2, <2>3, <2>4, ServeOK DEF u
  <2>6. \A j \in 1 .. i : j \in 1 .. i - 1 \/ j = i
    BY <1>1
  <2> HIDE DEF v, F
  <2>7. W \in SUBSET First(i) /\ W \union {s[i]} \in SUBSET First(i)
    <3>1. \A j \in 1 .. i - 1 : j \in 1 .. i
      BY <1>1
    <3>2. i \in 1 .. i
      BY <1>1
    <3> QED BY <3>1, <3>2
  <2>8. CASE ServedTo(F, W, v) /\ ~Satisfied(v.set, event_set[s[i]], event_info[s[i]]) /\ v = u
    <3>1. \A j \in 1 .. i : s[j] \notin W => ~Satisfied(v.set, event_set[s[j]], event_info[s[j]])
      BY <2>2, <2>6, <2>8
    <3> QED BY <2>7, <2>8, <3>1 DEF v
  <2>9. CASE ServedTo(F, W \union {s[i]}, v) /\ v.set \subseteq u.set
    <3>1. \A j \in 1 .. i : s[j] \notin W \union {s[i]} =>
            ~Satisfied(v.set, event_set[s[j]], event_info[s[j]])
      BY <2>2, <2>6, <2>9, SatisfiedFacts
    <3> QED BY <2>7, <2>9, <3>1 DEF v
  <2> QED BY <2>5, <2>8, <2>9
<1>5. Turn(Len(s))
  <2> HIDE DEF Turn
  <2> DEFINE Bad == {i \in 0 .. Len(s) : ~Turn(i)}
  <2> SUFFICES Bad = {}
    BY <1>1
  <2> SUFFICES ASSUME Bad # {} PROVE FALSE
    OBVIOUS
  <2> DEFINE m == Min(Bad)
  <2>1. m \in Bad /\ \A n \in Bad : m <= n
    <3> HIDE DEF Bad
    <3>1. Bad \subseteq Nat
      BY <1>1 DEF Bad
    <3> QED BY <3>1, NatLeast
  <2> HIDE DEF m
  <2>2. m # 0
    BY <1>3, <2>1
  <2>3. m \in 1 .. Len(s) /\ m - 1 \in 0 .. Len(s) /\ m - 1 \notin Bad
    BY <1>1, <2>1, <2>2
  <2> QED BY <1>4, <2>1, <2>3
<1>6. f[Len(s)] = Walk(S)
  BY DEF f, s, Walk
<1>7. PICK W \in SUBSET First(Len(s)) :
        /\ ServedTo(F, W, Walk(S))
        /\ \A j \in 1 .. Len(s) : s[j] \notin W =>
             ~Satisfied(Walk(S).set, event_set[s[j]], event_info[s[j]])
  BY <1>5, <1>6
<1>8. \A x \in W : x \in Thread /\ Contains(s, x)
  BY <1>1, <1>7 DEF Contains
<1>9. \A x : Contains(s, x) => \E j \in 1 .. Len(s) : x = s[j]
  BY DEF Contains
<1> HIDE DEF First
<1> QED BY <1>7, <1>8, <1>9 DEF s


-----------------------------------------------------------------------------
(* The steps of EventSpec, thread by thread.                                *)

\* The state of a receive as EventSpec sees it, from the place o of its thread, whether
\* it is on the list, its error number, event_set, event_info and what was received.
StateOf(o, listed, e, want, option, got) ==
  IF o = "recv_done" THEN Promise!Got(got)
  ELSE IF o # "recv_wait" THEN Promise!Out
  ELSE IF listed THEN Promise!Wait(want, option)
  ELSE IF e = "EOK" THEN Promise!Got(want) ELSE Promise!Failed

StateNow(t) ==
  StateOf(op[t], Contains(k.wait[Ev], t), k.error[t], event_set[t], event_info[t], recved[t])

\* RecvState is this state, before and after a step.
LEMMA StateFacts ==
  ASSUME NEW t \in Thread
  PROVE  RecvState(t) = StateNow(t) /\ RecvState(t)' = StateNow(t)'
<1>1. RecvState(t) = StateNow(t)
  BY DEF RecvState, StateNow, StateOf, Waiting, Promise!Out, Promise!Wait, Promise!Got, Promise!Failed
<1>2. RecvState(t)' = StateNow(t)'
  BY DEF RecvState, StateNow, StateOf, Waiting, Promise!Out, Promise!Wait, Promise!Got, Promise!Failed
<1> QED BY <1>1, <1>2

\* The kinds of states are different.
LEMMA KindFacts ==
  /\ Promise!Out.at = "out" /\ Promise!Failed.at = "failed"
  /\ \A w, o : Promise!Wait(w, o).at = "wait" /\ Promise!Wait(w, o).want = w /\ Promise!Wait(w, o).option = o
  /\ \A b : Promise!Got(b).at = "got" /\ Promise!Got(b).bits = b
BY DEF Promise!Out, Promise!Wait, Promise!Got, Promise!Failed

\* A step of the event is a step of EventSpec, or none.
PromiseStep == Promise!Next \/ UNCHANGED Promise!vars

\* Nothing happens.
LEMMA PromiseStutter ==
  ASSUME set' = set, \A t \in Thread : StateNow(t)' = StateNow(t)
  PROVE  PromiseStep
<1>1. \A t \in Thread : RecvState(t)' = RecvState(t)
  BY StateFacts
<1> QED BY <1>1 DEF PromiseStep, Promise!vars

\* One thread's call goes on.
LEMMA PromiseMove ==
  ASSUME NEW t \in Thread, \A x \in Thread \ {t} : StateNow(x)' = StateNow(x), set' = set,
         \/ StateNow(t).at = "wait" /\ StateNow(t)' = Promise!Failed
         \/ StateNow(t).at \in {"got", "failed"} /\ StateNow(t)' = Promise!Out
         \/ \E want \in SUBSET Bit, option \in Option :
              /\ StateNow(t) = Promise!Out /\ ~Satisfied(set, want, option)
              /\ StateNow(t)' = Promise!Wait(want, option)
  PROVE  PromiseStep
<1> DEFINE c == [x \in Thread |-> RecvState(x)]
           d == [x \in Thread |-> RecvState(x)']
<1>1. c[t] = StateNow(t) /\ d = [c EXCEPT ![t] = StateNow(t)']
  BY StateFacts
<1>2. CASE StateNow(t).at = "wait" /\ StateNow(t)' = Promise!Failed
  <2>1. Promise!Fail(t)
    BY <1>1, <1>2 DEF Promise!Fail
  <2> QED BY <2>1 DEF PromiseStep, Promise!Next
<1>3. CASE StateNow(t).at \in {"got", "failed"} /\ StateNow(t)' = Promise!Out
  <2>1. Promise!Return(t)
    BY <1>1, <1>3 DEF Promise!Return
  <2> QED BY <2>1 DEF PromiseStep, Promise!Next
<1>4. CASE \E want \in SUBSET Bit, option \in Option :
             /\ StateNow(t) = Promise!Out /\ ~Satisfied(set, want, option)
             /\ StateNow(t)' = Promise!Wait(want, option)
  <2>1. PICK want \in SUBSET Bit, option \in Option :
               /\ StateNow(t) = Promise!Out /\ ~Satisfied(set, want, option)
               /\ StateNow(t)' = Promise!Wait(want, option)
    BY <1>4
  <2>2. Promise!Block(t, want, option)
    BY <1>1, <2>1 DEF Promise!Block, Promise!Satisfied, Satisfied
  <2> QED BY <2>2 DEF PromiseStep, Promise!Next
<1> QED BY <1>2, <1>3, <1>4

\* A receive that needs not wait.
LEMMA PromiseReceive ==
  ASSUME NEW t \in Thread, \A x \in Thread \ {t} : StateNow(x)' = StateNow(x),
         NEW want \in SUBSET Bit, NEW option \in Option, Satisfied(set, want, option),
         StateNow(t) = Promise!Out, StateNow(t)' = Promise!Got(set \cap want),
         set' = IF option.clear THEN set \ want ELSE set
  PROVE  PromiseStep
<1> DEFINE c == [x \in Thread |-> RecvState(x)]
           d == [x \in Thread |-> RecvState(x)']
<1>1. c[t] = StateNow(t) /\ d = [c EXCEPT ![t] = StateNow(t)']
  BY StateFacts
<1>2. Promise!Receive(t, want, option)
  BY <1>1 DEF Promise!Receive, Promise!Satisfied, Satisfied
<1> QED BY <1>2 DEF PromiseStep, Promise!Next

\* All waiters are sent away.
LEMMA PromiseReset ==
  ASSUME set' = {},
         \A t \in Thread : StateNow(t)' = IF StateNow(t).at = "wait" THEN Promise!Failed ELSE StateNow(t)
  PROVE  PromiseStep
<1> DEFINE c == [x \in Thread |-> RecvState(x)]
           d == [x \in Thread |-> RecvState(x)']
<1>1. \A t \in Thread : c[t] = StateNow(t) /\ d[t] = StateNow(t)'
  BY StateFacts
<1>2. \A t \in Thread : t \in Promise!Waiters <=> c[t].at = "wait"
  BY DEF Promise!Waiters
<1>3. d = [t \in Thread |-> IF t \in Promise!Waiters THEN Promise!Failed ELSE c[t]]
  BY <1>1, <1>2
<1>4. Promise!Reset
  BY <1>3 DEF Promise!Reset
<1> QED BY <1>4 DEF PromiseStep, Promise!Next

\* The bits S are sent, and the waiters in W are given theirs.
LEMMA PromiseSend ==
  ASSUME NEW S \in SUBSET Bit, NEW W \in SUBSET Thread,
         \A t \in W : /\ StateNow(t) = Promise!Wait(event_set[t], event_info[t])
                      /\ StateNow(t)' = Promise!Got(event_set'[t])
                      /\ event_set'[t] \subseteq event_set[t] /\ event_set'[t] \subseteq set \union S
                      /\ Satisfied(event_set'[t], event_set[t], event_info[t]),
         \A t \in Thread \ W : StateNow(t)' = StateNow(t),
         \A t, u \in W : t # u /\ event_info[t].clear /\ event_info[u].clear =>
                           event_set'[t] \cap event_set'[u] = {},
         \A b : b \in set' <=> b \in set \union S /\ \A t \in W : event_info[t].clear => b \notin event_set'[t],
         \A t \in Thread \ W : StateNow(t).at = "wait" =>
           ~Satisfied(set', StateNow(t).want, StateNow(t).option)
  PROVE  PromiseStep
<1> DEFINE c == [x \in Thread |-> RecvState(x)]
           d == [x \in Thread |-> RecvState(x)']
           F == set \union S
           clearing == {t \in W : c[t].option.clear}
<1>1. \A t \in Thread : c[t] = StateNow(t) /\ d[t] = StateNow(t)'
  BY StateFacts
<1>2. \A t \in W : /\ c[t].at = "wait" /\ c[t].want = event_set[t] /\ c[t].option = event_info[t]
                   /\ d[t] = Promise!Got(event_set'[t]) /\ d[t].bits = event_set'[t]
  BY <1>1, KindFacts
<1>3. W \in SUBSET Promise!Waiters /\ \A t \in Promise!Waiters : t \in Thread /\ c[t].at = "wait"
  BY <1>2 DEF Promise!Waiters
<1> HIDE DEF c, d
<1>4. ASSUME NEW t \in W PROVE event_set'[t] \in Promise!Given(F, c[t].want, c[t].option)
  <2>1. event_set'[t] \subseteq c[t].want \cap F
    BY <1>2
  <2>2. Promise!Satisfied(event_set'[t], c[t].want, c[t].option)
    BY <1>2 DEF Satisfied, Promise!Satisfied
  <2> QED BY <2>1, <2>2 DEF Promise!Given
<1>5. \A t \in W : \E B \in Promise!Given(F, c[t].want, c[t].option) : d[t] = Promise!Got(B)
  BY <1>2, <1>4
<1>6. \A t \in Thread \ W : d[t] = c[t]
  BY <1>1
<1>7. \A t, u \in clearing : t # u => d[t].bits \cap d[u].bits = {}
  BY <1>2
<1>8. set' = F \ UNION {d[t].bits : t \in clearing}
  <2>1. \A b : b \in UNION {d[t].bits : t \in clearing} <=> \E t \in clearing : b \in event_set'[t]
    BY <1>2
  <2>2. \A t : t \in clearing <=> t \in W /\ event_info[t].clear
    BY <1>2
  <2> HIDE DEF clearing, F
  <2>3. ASSUME NEW b PROVE b \in set' <=> b \in F \ UNION {d[t].bits : t \in clearing}
    BY <2>1, <2>2 DEF F
  <2> QED BY <2>3
<1>9. \A t \in Promise!Waiters \ W : ~Promise!Satisfied(set', c[t].want, c[t].option)
  BY <1>1, <1>3 DEF Satisfied, Promise!Satisfied
<1>10. Promise!Send(S, W)
  BY <1>5, <1>6, <1>7, <1>8, <1>9 DEF Promise!Send, c, d
<1> QED BY <1>3, <1>10 DEF PromiseStep, Promise!Next


-----------------------------------------------------------------------------
(* The steps of the event.                                                  *)

\* A thread leaves the list with an error number, or was on none.
LEMMA EvTakenOff ==
  ASSUME EvInv, NEW t \in Thread, k.stat[t] = "SUSPEND",
         k'.wait = WaitWithout(k, t), \A x \in Thread \ {t} : k'.error[x] = k.error[x],
         k'.error[t] # "EOK", set' = set, event_set' = event_set, event_info' = event_info,
         recved' = recved, op[t] # "none" => op'[t] = op[t],
         \A x \in Thread : op'[x] = op[x] \/ {"recv_wait", "recv_done"} \cap {op[x], op'[x]} = {}
  PROVE  Waiters' /\ PromiseStep
<1>1. /\ k \in Kernel /\ WaitsOK(k) /\ Ev \in WaitList
  BY EvFacts
<1>2. \A w \in WaitList, x \in Thread : Contains(k'.wait[w], x) <=> Contains(k.wait[w], x) /\ x # t
  BY <1>1, WithoutFacts
<1>3. Waiters'
  <2> SUFFICES ASSUME NEW w \in WaitList, NEW x \in Thread, Contains(k'.wait[w], x)
               PROVE  /\ w = Ev /\ op'[x] = "recv_wait" /\ k'.error[x] = "EOK"
                      /\ ~Satisfied(set', event_set'[x], event_info'[x])
    BY DEF Waiters
  <2>1. Contains(k.wait[w], x) /\ x # t
    BY <1>2
  <2>2. /\ w = Ev /\ op[x] = "recv_wait" /\ k.error[x] = "EOK"
        /\ ~Satisfied(set, event_set[x], event_info[x])
    BY <2>1 DEF EvInv, Waiters
  <2> QED BY <2>1, <2>2
<1>4. ASSUME NEW x \in Thread \ {t} PROVE StateNow(x)' = StateNow(x)
  <2>1. Contains(k'.wait[Ev], x) <=> Contains(k.wait[Ev], x)
    BY <1>1, <1>2
  <2> QED BY <2>1 DEF StateNow, StateOf
<1>5. CASE Contains(k.wait[Ev], t)
  <2>1. op[t] = "recv_wait" /\ op'[t] = "recv_wait" /\ ~Contains(k'.wait[Ev], t)
    BY <1>1, <1>2, <1>5 DEF EvInv, Waiters
  <2>2. StateNow(t).at = "wait" /\ StateNow(t)' = Promise!Failed
    BY <1>5, <2>1, KindFacts DEF StateNow, StateOf
  <2> QED BY <1>3, <1>4, <2>2, PromiseMove
<1>6. CASE ~Contains(k.wait[Ev], t)
  <2>1. op[t] = "none"
    BY <1>6, EvFacts
  <2>2. StateNow(t) = Promise!Out /\ StateNow(t)' = Promise!Out
    BY <2>1 DEF StateNow, StateOf
  <2> QED BY <1>3, <1>4, <2>2, PromiseStutter
<1> QED BY <1>5, <1>6

\* The tick, the timeouts and the scheduler: a timeout is a receive that fails.
LEMMA SystemEv ==
  ASSUME Ordinary, EvInv, SystemStep, UNCHANGED <<set, event_set, event_info, recved, alive>>
  PROVE  EvInv' /\ PromiseStep
<1>1. IpcInv' /\ SystemEffect
  BY SystemStepOK DEF EvInv
<1>2. op' = op
  BY <1>1 DEF SystemEffect
<1>3. Waiters' => EvInv'
  BY <1>1, <1>2 DEF EvInv
<1>4. CASE k'.wait = k.wait /\ \A t \in Thread : op[t] # "none" => k'.error[t] = k.error[t]
  <2>1. Waiters'
    BY <1>2, <1>4 DEF EvInv, Waiters
  <2>2. \A t \in Thread : StateNow(t)' = StateNow(t)
    BY <1>2, <1>4 DEF StateNow, StateOf
  <2> QED BY <1>3, <2>1, <2>2, PromiseStutter
<1>5. CASE \E t \in Thread : k.stat[t] = "SUSPEND" /\ TakenOff(k, k', t, "ETIMEOUT")
  <2>1. PICK t \in Thread : k.stat[t] = "SUSPEND" /\ TakenOff(k, k', t, "ETIMEOUT")
    BY <1>5
  <2>2. /\ k'.wait = WaitWithout(k, t) /\ k.stat[t] = "SUSPEND"
        /\ k'.error[t] = "ETIMEOUT" /\ \A x \in Thread \ {t} : k'.error[x] = k.error[x]
    BY <2>1, EvFacts DEF TakenOff
  <2>3. Waiters' /\ PromiseStep
    BY <1>2, <2>2, EvTakenOff
  <2> QED BY <1>3, <2>3
<1> QED BY <1>1, <1>4, <1>5 DEF SystemEffect

\* rt_event_send in a thread or in an interrupt handler.
LEMMA SendEv ==
  ASSUME EvInv, NEW S \in SUBSET Bit, Send(S) \/ IrqSend(S)
  PROVE  EvInv' /\ PromiseStep
<1> DEFINE u == Walk(S)
           b == u.kernel
<1>1. PICK W \in SUBSET Thread :
        /\ \A x \in W : Contains(k.wait[Ev], x)
        /\ ServedTo(set \union S, W, u)
        /\ \A x \in Thread \ W : Contains(k.wait[Ev], x) => ~Satisfied(u.set, event_set[x], event_info[x])
  BY WalkOK
<1>2. /\ set' = u.set /\ event_set' = u.event_set /\ event_info' = event_info
      /\ recved' = recved /\ alive' = alive
  BY DEF Send, IrqSend
<1>3. /\ Send(S) => At("run") /\ op[k.cur] = "none" /\ (Then_schedule(b, "none") \/ Then_return(b, "none"))
      /\ IrqSend(S) => Interrupt(IF b = k THEN k ELSE rt_schedule(b))
  BY DEF Send, IrqSend, EvCall, Outside
<1> HIDE DEF u
<1>4. /\ Resumes(k, b) /\ b.error = k.error
      /\ \A w \in WaitList, x \in Thread : Contains(b.wait[w], x) <=> Contains(k.wait[w], x) /\ x \notin W
  BY <1>1 DEF ServedTo
<1> HIDE DEF b
<1>5. IpcInv' /\ k'.wait = b.wait /\ k'.error = b.error /\ op' = op
  <2>1. IpcInv /\ op \in [Thread -> Ops] /\ k.cur \in Thread
    BY EvFacts DEF EvInv
  <2>2. CASE Send(S)
    BY <1>3, <1>4, <2>1, <2>2, ResumeStep DEF Then_schedule, Then_return, Enter
  <2>3. CASE IrqSend(S)
    BY <1>3, <1>4, <2>1, <2>3, HandlerStep DEF Interrupt
  <2> QED BY <2>2, <2>3
<1>6. \A w \in WaitList, x \in Thread : Contains(k'.wait[w], x) <=> Contains(k.wait[w], x) /\ x \notin W
  BY <1>4, <1>5
<1>7. \A x \in Thread \ W : event_set'[x] = event_set[x]
  BY <1>1, <1>2 DEF ServedTo
<1>8. Waiters'
  <2> SUFFICES ASSUME NEW w \in WaitList, NEW x \in Thread, Contains(k'.wait[w], x)
               PROVE  /\ w = Ev /\ op'[x] = "recv_wait" /\ k'.error[x] = "EOK"
                      /\ ~Satisfied(set', event_set'[x], event_info'[x])
    BY DEF Waiters
  <2>1. Contains(k.wait[w], x) /\ x \notin W
    BY <1>6
  <2>2. w = Ev /\ op[x] = "recv_wait" /\ k.error[x] = "EOK"
    BY <2>1 DEF EvInv, Waiters
  <2>3. ~Satisfied(u.set, event_set[x], event_info[x])
    BY <1>1, <2>1, <2>2
  <2> QED BY <1>2, <1>4, <1>5, <1>7, <2>1, <2>2, <2>3
<1>9. EvInv'
  <2>1. set' \subseteq Bit
    BY <1>1, <1>2 DEF ServedTo, EvInv
  <2>2. event_set' \in [Thread -> SUBSET Bit]
    BY <1>1, <1>2 DEF ServedTo
  <2> QED BY <1>2, <1>5, <1>8, <2>1, <2>2 DEF EvInv
<1>10. ASSUME NEW t \in W
       PROVE  /\ StateNow(t) = Promise!Wait(event_set[t], event_info[t])
              /\ StateNow(t)' = Promise!Got(event_set'[t])
              /\ event_set'[t] \subseteq event_set[t] /\ event_set'[t] \subseteq set \union S
              /\ Satisfied(event_set'[t], event_set[t], event_info[t])
  <2>1. /\ Ev \in WaitList /\ Contains(k.wait[Ev], t) /\ op[t] = "recv_wait" /\ k.error[t] = "EOK"
    BY <1>1, EvFacts DEF EvInv, Waiters
  <2>2. ~Contains(k'.wait[Ev], t) /\ op'[t] = "recv_wait" /\ k'.error[t] = "EOK"
    BY <1>4, <1>5, <1>6, <2>1
  <2>3. /\ event_set'[t] \subseteq event_set[t] /\ event_set'[t] \subseteq set \union S
        /\ Satisfied(event_set'[t], event_set[t], event_info[t])
    BY <1>1, <1>2 DEF ServedTo
  <2> QED BY <2>1, <2>2, <2>3 DEF StateNow, StateOf
<1>11. \A t \in Thread \ W : StateNow(t)' = StateNow(t)
  <2>1. \A t \in Thread \ W : Contains(k'.wait[Ev], t) <=> Contains(k.wait[Ev], t)
    BY <1>6, EvFacts
  <2> QED BY <1>2, <1>4, <1>5, <1>7, <2>1 DEF StateNow, StateOf
<1>12. ASSUME NEW t \in Thread \ W, StateNow(t).at = "wait"
       PROVE  ~Satisfied(set', StateNow(t).want, StateNow(t).option)
  <2>1. /\ Contains(k.wait[Ev], t)
        /\ StateNow(t).want = event_set[t] /\ StateNow(t).option = event_info[t]
    BY <1>12, KindFacts DEF StateNow, StateOf
  <2> QED BY <1>1, <1>2, <2>1
<1>13. \A x, y \in W : x # y /\ event_info[x].clear /\ event_info[y].clear =>
                         event_set'[x] \cap event_set'[y] = {}
  BY <1>1, <1>2 DEF ServedTo
<1>14. \A y : y \in set' <=> y \in set \union S /\ \A t \in W : event_info[t].clear => y \notin event_set'[t]
  BY <1>1, <1>2 DEF ServedTo
<1>15. PromiseStep
  BY <1>10, <1>11, <1>12, <1>13, <1>14, PromiseSend, ZenonT(60)
<1> QED BY <1>9, <1>15


\* A section of a receive that changes at most the error number of its thread, which is
\* on no list: the lists and the other threads' calls are as before.
LEMMA OwnStep ==
  ASSUME EvInv, At("run"), NEW u, u = k \/ u = [k EXCEPT !.error[k.cur] = "EOK"],
         NEW p \in Ops, Then_return(u, p), set' \subseteq set,
         event_set' \in [Thread -> SUBSET Bit], event_info' \in [Thread -> Option \union {NoOption}],
         recved' \in [Thread -> SUBSET Bit], alive' = alive,
         \A x \in Thread \ {k.cur} : /\ event_set'[x] = event_set[x] /\ event_info'[x] = event_info[x]
                                     /\ recved'[x] = recved[x]
  PROVE  /\ EvInv' /\ \A x \in Thread \ {k.cur} : StateNow(x)' = StateNow(x)
         /\ k.cur \in Thread /\ op'[k.cur] = p /\ k'.wait = k.wait /\ ~Contains(k.wait[Ev], k.cur)
<1>1. PICK c \in Thread : c = k.cur
  BY EvFacts
<1>2. /\ KernelOK(k) /\ WaitsOK(k) /\ IpcInv /\ Ev \in WaitList /\ k.error \in [Thread -> Error]
      /\ op \in [Thread -> Ops] /\ \A w \in WaitList : ~Contains(k.wait[w], c)
  BY <1>1, EvFacts, RunningThread, IpcList DEF EvInv, Listed
<1>3. Resumes(k, u) /\ u.wait = k.wait /\ \A x \in Thread \ {c} : u.error[x] = k.error[x]
  <2>1. CASE u = k
    BY <1>2, <2>1, SameWaitsResumes
  <2>2. CASE u = [k EXCEPT !.error[c] = "EOK"]
    <3> DEFINE v == [k EXCEPT !.error[c] = "EOK"]
    <3>1. Resumes(k, v) /\ v.wait = k.wait /\ v.error = [k.error EXCEPT ![c] = "EOK"]
      BY <1>2, OverResumes DEF Error
    <3> HIDE DEF v
    <3> QED BY <1>2, <2>2, <3>1 DEF v
  <2> QED BY <1>1, <2>1, <2>2
<1>4. IpcInv'
  BY <1>2, <1>3, ResumeStep
<1>5. k' = u /\ op' = [op EXCEPT ![c] = p]
  BY <1>1 DEF Then_return, Enter
<1>6. op' \in [Thread -> Ops] /\ op'[c] = p /\ \A x \in Thread \ {c} : op'[x] = op[x]
  BY <1>2, <1>5
<1>7. Waiters'
  <2> SUFFICES ASSUME NEW w \in WaitList, NEW x \in Thread, Contains(k'.wait[w], x)
               PROVE  /\ w = Ev /\ op'[x] = "recv_wait" /\ k'.error[x] = "EOK"
                      /\ ~Satisfied(set', event_set'[x], event_info'[x])
    BY DEF Waiters
  <2>1. Contains(k.wait[w], x) /\ x # c
    BY <1>2, <1>3, <1>5
  <2>2. /\ w = Ev /\ op[x] = "recv_wait" /\ k.error[x] = "EOK"
        /\ ~Satisfied(set, event_set[x], event_info[x])
    BY <2>1 DEF EvInv, Waiters
  <2>3. ~Satisfied(set', event_set'[x], event_info'[x])
    BY <1>1, <2>1, <2>2, SatisfiedFacts
  <2> QED BY <1>3, <1>5, <1>6, <2>1, <2>2, <2>3
<1>8. EvInv'
  BY <1>4, <1>6, <1>7 DEF EvInv
<1>9. \A x \in Thread \ {c} : StateNow(x)' = StateNow(x)
  BY <1>1, <1>3, <1>5, <1>6 DEF StateNow, StateOf
<1> QED BY <1>1, <1>2, <1>3, <1>5, <1>6, <1>8, <1>9

\* rt_event_recv whose bits are set.
LEMMA RecvNowEv ==
  ASSUME EvInv, NEW want \in SUBSET Bit, NEW option \in Option, RecvNow(want, option)
  PROVE  EvInv' /\ PromiseStep
<1>1. PICK c \in Thread : c = k.cur
  BY EvFacts
<1>2. /\ At("run") /\ op[c] = "none" /\ Satisfied(set, want, option)
      /\ recved' = [recved EXCEPT ![c] = set \cap want]
      /\ set' = (IF option.clear THEN set \ want ELSE set) /\ Then_return(k, "recv_done")
      /\ UNCHANGED <<event_set, event_info, alive>>
  BY <1>1 DEF RecvNow, EvCall, Outside
<1>3. /\ recved' \in [Thread -> SUBSET Bit] /\ recved'[c] = set \cap want /\ set' \subseteq set
      /\ event_set' \in [Thread -> SUBSET Bit] /\ event_info' \in [Thread -> Option \union {NoOption}]
      /\ \A x \in Thread \ {c} : recved'[x] = recved[x]
  BY <1>2 DEF EvInv
<1>4. /\ EvInv' /\ \A x \in Thread \ {c} : StateNow(x)' = StateNow(x)
      /\ op'[c] = "recv_done"
  BY <1>1, <1>2, <1>3, OwnStep DEF Ops
<1>5. StateNow(c) = Promise!Out /\ StateNow(c)' = Promise!Got(set \cap want)
  BY <1>2, <1>3, <1>4 DEF StateNow, StateOf
<1>6. PromiseStep
  BY <1>2, <1>4, <1>5, PromiseReceive
<1> QED BY <1>4, <1>6

\* rt_event_recv whose bits are not set: it returns at once, or waits.
LEMMA RecvWaitEv ==
  ASSUME EvInv, NEW want \in SUBSET Bit, NEW option \in Option, NEW n \in Times, RecvWait(want, option, n)
  PROVE  EvInv' /\ PromiseStep
<1>1. PICK c \in Thread : c = k.cur
  BY EvFacts
<1>2. /\ At("run") /\ op[c] = "none" /\ c # Idle /\ ~Satisfied(set, want, option)
      /\ UNCHANGED <<set, recved, alive>>
  BY <1>1 DEF RecvWait, EvCall, Outside
<1>3. CASE n = 0
  <2>1. Then_return(k, "none") /\ event_set' = event_set /\ event_info' = event_info
    BY <1>3 DEF RecvWait
  <2>2. /\ recved' \in [Thread -> SUBSET Bit] /\ event_set' \in [Thread -> SUBSET Bit]
        /\ event_info' \in [Thread -> Option \union {NoOption}]
    BY <1>2, <2>1 DEF EvInv
  <2>3. EvInv' /\ op'[c] = "none" /\ \A x \in Thread \ {c} : StateNow(x)' = StateNow(x)
    BY <1>1, <1>2, <2>1, <2>2, OwnStep DEF Ops
  <2>4. StateNow(c)' = StateNow(c)
    BY <1>2, <2>3 DEF StateNow, StateOf
  <2> QED BY <1>2, <2>3, <2>4, PromiseStutter
<1>4. CASE n # 0
  <2> DEFINE b == WaitOn(k, Ev, c, EventFlag, n)
  <2>1. /\ event_set' = [event_set EXCEPT ![c] = want] /\ event_info' = [event_info EXCEPT ![c] = option]
        /\ Then_schedule(b, "recv_wait") /\ k' = b /\ op' = [op EXCEPT ![c] = "recv_wait"]
    BY <1>1, <1>4 DEF RecvWait, Then_schedule, Enter
  <2>2. /\ KernelOK(k) /\ k \in Kernel /\ k.stat[c] = "RUNNING"
        /\ ~Listed(k, c) /\ IsInjective(k.defunct) /\ ~Contains(k.defunct, c)
        /\ WaitsOK(k) /\ n \in Int /\ Ev \in WaitList
    BY <1>1, <1>2, RunningThread, IpcList, EvFacts, TimesAssumption DEF EvInv
  <2>3. PICK i : /\ KernelOK(b) /\ Gentle(k, b) /\ b.cur = c /\ b.prio = k.prio
                 /\ Joined(k, b, Ev, c, i) /\ RightPlace(k, k.wait[Ev], c, EventFlag, i)
    BY <1>1, <1>2, <2>2, WaitOnOK
  <2> HIDE DEF b
  <2>4. IpcInv'
    BY <1>1, <1>2, <2>1, <2>2, <2>3, JoinStep DEF EvInv
  <2>5. \A x \in Thread : Contains(b.wait[Ev], x) <=> Contains(k.wait[Ev], x) \/ x = c
    BY <2>2, <2>3, JoinedWaits DEF KernelOK
  <2>6. /\ \A w \in WaitList \ {Ev} : b.wait[w] = k.wait[w]
        /\ b.error[c] = "EOK" /\ \A x \in Thread \ {c} : b.error[x] = k.error[x]
    BY <2>2, <2>3, EvFacts DEF Joined
  <2>7. /\ op' \in [Thread -> Ops]
        /\ op'[c] = "recv_wait" /\ \A x \in Thread \ {c} : op'[x] = op[x]
    BY <2>1 DEF EvInv, Ops
  <2>8. /\ event_set' \in [Thread -> SUBSET Bit] /\ event_info' \in [Thread -> Option \union {NoOption}]
        /\ event_set'[c] = want /\ event_info'[c] = option
        /\ \A x \in Thread \ {c} : event_set'[x] = event_set[x] /\ event_info'[x] = event_info[x]
    BY <2>1 DEF EvInv
  <2>9. Waiters'
    <3> SUFFICES ASSUME NEW w \in WaitList, NEW x \in Thread, Contains(k'.wait[w], x)
                 PROVE  /\ w = Ev /\ op'[x] = "recv_wait" /\ k'.error[x] = "EOK"
                        /\ ~Satisfied(set', event_set'[x], event_info'[x])
      BY DEF Waiters
    <3>1. CASE x = c
      <4>1. w = Ev
        BY <2>1, <2>2, <2>6, <3>1 DEF Listed
      <4> QED BY <1>2, <2>1, <2>6, <2>7, <2>8, <3>1, <4>1
    <3>2. CASE x # c
      <4>1. Contains(k.wait[w], x)
        BY <2>1, <2>5, <2>6, <3>2
      <4>2. /\ w = Ev /\ op[x] = "recv_wait" /\ k.error[x] = "EOK"
            /\ ~Satisfied(set, event_set[x], event_info[x])
        BY <4>1 DEF EvInv, Waiters
      <4> QED BY <1>2, <2>1, <2>6, <2>7, <2>8, <3>2, <4>2
    <3> QED BY <3>1, <3>2
  <2>10. EvInv'
    BY <1>2, <2>4, <2>7, <2>8, <2>9 DEF EvInv
  <2>11. \A x \in Thread \ {c} : StateNow(x)' = StateNow(x)
    BY <1>2, <2>1, <2>5, <2>6, <2>7, <2>8 DEF StateNow, StateOf
  <2>12. StateNow(c) = Promise!Out /\ StateNow(c)' = Promise!Wait(want, option)
    BY <1>2, <2>1, <2>5, <2>7, <2>8 DEF StateNow, StateOf
  <2>13. PromiseStep
    BY <1>2, <2>11, <2>12, PromiseMove
  <2> QED BY <2>10, <2>13
<1> QED BY <1>3, <1>4

\* rt_event_recv after its wait.
LEMMA RecvEndEv ==
  ASSUME EvInv, RecvWake \/ RecvReturn
  PROVE  EvInv' /\ PromiseStep
<1>1. PICK c \in Thread : c = k.cur
  BY EvFacts
<1>2. At("run") /\ set' = set /\ alive' = alive
  BY DEF RecvWake, RecvReturn, Inside
<1>3. CASE RecvReturn
  <2>1. /\ op[c] = "recv_done" /\ Then_return(k, "none") /\ recved' = [recved EXCEPT ![c] = {}]
        /\ event_set' = event_set /\ event_info' = event_info
    BY <1>1, <1>3 DEF RecvReturn, Inside
  <2>2. /\ recved' \in [Thread -> SUBSET Bit] /\ event_set' \in [Thread -> SUBSET Bit]
        /\ event_info' \in [Thread -> Option \union {NoOption}]
        /\ \A x \in Thread \ {c} : recved'[x] = recved[x]
    BY <2>1 DEF EvInv
  <2>3. EvInv' /\ op'[c] = "none" /\ \A x \in Thread \ {c} : StateNow(x)' = StateNow(x)
    BY <1>1, <1>2, <2>1, <2>2, OwnStep DEF Ops
  <2>4. StateNow(c).at = "got" /\ StateNow(c)' = Promise!Out
    BY <2>1, <2>3, KindFacts DEF StateNow, StateOf
  <2> QED BY <1>2, <2>3, <2>4, PromiseMove
<1>4. CASE RecvWake
  <2>1. /\ op[c] = "recv_wait" /\ event_set' = [event_set EXCEPT ![c] = {}]
        /\ event_info' = [event_info EXCEPT ![c] = NoOption]
        /\ \/ /\ k.error[c] # "EOK" /\ Then_return([k EXCEPT !.error[c] = "EOK"], "none")
              /\ recved' = recved
           \/ /\ k.error[c] = "EOK" /\ Then_return(k, "recv_done")
              /\ recved' = [recved EXCEPT ![c] = event_set[c]]
    BY <1>1, <1>4 DEF RecvWake, Inside
  <2>2. /\ event_set' \in [Thread -> SUBSET Bit]
        /\ event_info' \in [Thread -> Option \union {NoOption}]
        /\ \A x \in Thread \ {c} : event_set'[x] = event_set[x] /\ event_info'[x] = event_info[x]
    BY <2>1 DEF EvInv
  <2>3. ~Contains(k.wait[Ev], c)
    BY <1>1, <1>2, RunningThread, IpcList, EvFacts DEF EvInv, Listed
  <2>4. CASE /\ k.error[c] # "EOK" /\ Then_return([k EXCEPT !.error[c] = "EOK"], "none")
             /\ recved' = recved
    <3>1. recved' \in [Thread -> SUBSET Bit]
      BY <2>4 DEF EvInv
    <3>2. EvInv' /\ op'[c] = "none" /\ \A x \in Thread \ {c} : StateNow(x)' = StateNow(x)
      BY <1>1, <1>2, <2>2, <2>4, <3>1, OwnStep DEF Ops
    <3>3. StateNow(c).at = "failed" /\ StateNow(c)' = Promise!Out
      BY <2>1, <2>3, <2>4, <3>2, KindFacts DEF StateNow, StateOf
    <3> QED BY <1>2, <3>2, <3>3, PromiseMove
  <2>5. CASE /\ k.error[c] = "EOK" /\ Then_return(k, "recv_done")
             /\ recved' = [recved EXCEPT ![c] = event_set[c]]
    <3>1. /\ recved' \in [Thread -> SUBSET Bit] /\ recved'[c] = event_set[c]
          /\ \A x \in Thread \ {c} : recved'[x] = recved[x]
      BY <2>5 DEF EvInv
    <3>2. EvInv' /\ op'[c] = "recv_done" /\ \A x \in Thread \ {c} : StateNow(x)' = StateNow(x)
      BY <1>1, <1>2, <2>2, <2>5, <3>1, OwnStep DEF Ops
    <3>3. StateNow(c)' = StateNow(c)
      BY <2>1, <2>3, <2>5, <3>1, <3>2 DEF StateNow, StateOf
    <3> QED BY <1>2, <3>2, <3>3, PromiseStutter
  <2> QED BY <2>1, <2>4, <2>5
<1> QED BY <1>3, <1>4


\* rt_event_control(RT_IPC_CMD_RESET) sends every waiter away.
LEMMA ResetEv ==
  ASSUME EvInv, Reset
  PROVE  EvInv' /\ PromiseStep
<1> DEFINE b == rt_ipc_list_resume_all(k, Ev)
<1>1. /\ At("run") /\ op[k.cur] = "none" /\ set' = {} /\ Then_schedule(b, "none")
      /\ UNCHANGED <<event_set, event_info, recved, alive>>
  BY DEF Reset, EvCall, Outside
<1>2. /\ KernelOK(k) /\ WaitsOK(k) /\ k.wait \in [WaitList -> Seq(Thread)] /\ IpcInv
      /\ Ev \in WaitList /\ k.cur \in Thread
      /\ \A t \in Thread : Contains(k.defunct, t) => k.stat[t] # "SUSPEND"
      /\ op \in [Thread -> Ops]
  BY EvFacts DEF EvInv, Kernel
<1>3. Resumes(k, b) /\ AllResumed(k, b, Ev, "ERROR")
  BY <1>2, ResumeAllOK
<1> HIDE DEF b
<1>4. IpcInv'
  BY <1>1, <1>2, <1>3, ResumeStep
<1>5. k' = b /\ op' = op
  BY <1>1, <1>2 DEF Then_schedule, Enter
<1>6. /\ k'.wait = [k.wait EXCEPT ![Ev] = << >>] /\ k'.wait[Ev] = << >>
      /\ \A t \in Thread : k'.error[t] = IF Contains(k.wait[Ev], t) THEN "ERROR" ELSE k.error[t]
  BY <1>2, <1>3, <1>5 DEF AllResumed
<1>7. \A t \in Thread : ~Contains(k'.wait[Ev], t)
  BY <1>6 DEF Contains
<1>8. \A w \in WaitList, t \in Thread : ~Contains(k'.wait[w], t)
  <2> SUFFICES ASSUME NEW w \in WaitList, NEW t \in Thread, Contains(k'.wait[w], t) PROVE FALSE
    OBVIOUS
  <2>1. w # Ev
    BY <1>7
  <2>2. Contains(k.wait[w], t)
    BY <1>2, <1>6, <2>1
  <2> QED BY <2>1, <2>2 DEF EvInv, Waiters
<1>9. EvInv'
  BY <1>1, <1>2, <1>4, <1>5, <1>8 DEF EvInv, Waiters
<1>10. ASSUME NEW t \in Thread
       PROVE  StateNow(t)' = IF StateNow(t).at = "wait" THEN Promise!Failed ELSE StateNow(t)
  <2>1. CASE Contains(k.wait[Ev], t)
    <3>1. op[t] = "recv_wait"
      BY <1>2, <2>1 DEF EvInv, Waiters
    <3>2. k'.error[t] = "ERROR" /\ op'[t] = "recv_wait" /\ ~Contains(k'.wait[Ev], t)
      BY <1>5, <1>6, <1>7, <2>1, <3>1
    <3> QED BY <2>1, <3>1, <3>2, KindFacts DEF StateNow, StateOf
  <2>2. CASE ~Contains(k.wait[Ev], t)
    <3>1. k'.error[t] = k.error[t] /\ op'[t] = op[t] /\ ~Contains(k'.wait[Ev], t)
      BY <1>5, <1>6, <1>7, <2>2
    <3>2. StateNow(t).at # "wait"
      BY <2>2, KindFacts DEF StateNow, StateOf
    <3> QED BY <1>1, <2>2, <3>1, <3>2 DEF StateNow, StateOf
  <2> QED BY <2>1, <2>2
<1>11. PromiseStep
  BY <1>1, <1>10, PromiseReset
<1> QED BY <1>9, <1>11

\* A step of the thread that deletes the event: it resumes nobody, or the first waiter.
LEMMA DeleteEv ==
  ASSUME EvInv, Delete_call \/ DeleteLoop
  PROVE  EvInv' /\ PromiseStep
<1>1. /\ KernelOK(k) /\ WaitsOK(k) /\ k.wait[Ev] \in Seq(Thread) /\ IpcInv
      /\ Ev \in WaitList /\ k.cur \in Thread /\ op \in [Thread -> Ops]
  BY EvFacts DEF EvInv
<1>2. UNCHANGED <<set, event_set, event_info, recved>>
  BY DEF Delete_call, DeleteLoop
<1>3. alive' \in BOOLEAN
  BY Zenon DEF Delete_call, DeleteLoop, EvInv
<1>4. PICK c \in Thread : c = k.cur
  BY <1>1
\* The threads inside rt_event_recv stay there.
<1>5. ASSUME NEW u, NEW p \in {"none", "delete", "delete_resume"}, At("run"),
             op[c] \notin {"recv_wait", "recv_done"}, Then_return(u, p), Resumes(k, u)
      PROVE  /\ IpcInv' /\ k' = u /\ op' \in [Thread -> Ops]
             /\ \A x \in Thread : op'[x] = op[x] \/ {"recv_wait", "recv_done"} \cap {op[x], op'[x]} = {}
             /\ \A x \in Thread \ {c} : op'[x] = op[x]
  <2>1. IpcInv'
    BY <1>1, <1>5, ResumeStep
  <2>2. k' = u /\ op' = [op EXCEPT ![c] = p]
    BY <1>4, <1>5 DEF Then_return, Enter
  <2> QED BY <1>1, <1>5, <2>1, <2>2 DEF Ops
<1>6. ASSUME NEW p \in {"none", "delete", "delete_resume"}, At("run"),
             op[c] \notin {"recv_wait", "recv_done"}, Then_return(k, p)
      PROVE  EvInv' /\ PromiseStep
  <2>1. Resumes(k, k)
    BY <1>1, SameWaitsResumes
  <2>2. /\ IpcInv' /\ k' = k /\ op' \in [Thread -> Ops]
        /\ \A x \in Thread : op'[x] = op[x] \/ {"recv_wait", "recv_done"} \cap {op[x], op'[x]} = {}
    BY <1>5, <1>6, <2>1
  <2>3. \A x \in Thread : op[x] = "recv_wait" => op'[x] = "recv_wait"
    BY <2>2
  <2>4. Waiters'
    BY <1>2, <2>2, <2>3 DEF EvInv, Waiters
  <2>5. EvInv'
    BY <1>2, <1>3, <2>2, <2>4 DEF EvInv
  <2>6. \A t \in Thread : StateNow(t)' = StateNow(t)
    BY <1>2, <2>2 DEF StateNow, StateOf
  <2> QED BY <1>2, <2>5, <2>6, PromiseStutter
<1>7. CASE Delete_call
  <2>1. At("run") /\ op[k.cur] = "none" /\ Then_return(k, "delete")
    BY <1>7 DEF Delete_call, EvCall, Outside
  <2> QED BY <1>4, <1>6, <2>1
<1>8. CASE ResumeAllTest(Ev, "delete", "delete_resume", "none")
  <2>1. /\ At("run") /\ op[k.cur] = "delete"
        /\ Then_return(k, IF k.wait[Ev] = << >> THEN "none" ELSE "delete_resume")
    BY <1>8 DEF ResumeAllTest, Inside
  <2> QED BY <1>4, <1>6, <2>1
<1>9. CASE ResumeAllBody(Ev, "delete_resume", "delete")
  <2>1. /\ At("run") /\ op[k.cur] = "delete_resume" /\ k.wait[Ev] # << >>
        /\ Then_return(ResumeWithError(k, Head(k.wait[Ev])), "delete")
    BY <1>9 DEF ResumeAllBody, Inside
  <2>2. PICK t \in Thread : t = Head(k.wait[Ev]) /\ Contains(k.wait[Ev], t)
    BY <1>1, <2>1, HeadElement
  <2>3. k.stat[t] = "SUSPEND" /\ ~Contains(k.defunct, t) /\ op[t] = "recv_wait"
    BY <1>1, <2>2, EvFacts DEF EvInv, Waiters
  <2> DEFINE u == ResumeWithError(k, t)
  <2>4. Resumes(k, u) /\ TakenOff(k, u, t, "ERROR")
    BY <1>1, <2>3, ErrorResumes DEF ResumeWithError, Error
  <2> HIDE DEF u
  <2>5. /\ IpcInv' /\ k' = u /\ op' \in [Thread -> Ops]
        /\ \A x \in Thread : op'[x] = op[x] \/ {"recv_wait", "recv_done"} \cap {op[x], op'[x]} = {}
        /\ \A x \in Thread \ {c} : op'[x] = op[x]
    BY <1>4, <1>5, <2>1, <2>2, <2>4 DEF u
  <2>6. /\ k'.wait = WaitWithout(k, t) /\ k'.error[t] = "ERROR"
        /\ \A x \in Thread \ {t} : k'.error[x] = k.error[x] /\ t # c
    BY <1>4, <2>1, <2>3, <2>4, <2>5, EvFacts DEF TakenOff
  <2>7. op'[t] = op[t]
    BY <2>3, <2>5
  <2>8. Waiters' /\ PromiseStep
    BY <1>2, <2>3, <2>5, <2>6, <2>7, EvTakenOff
  <2> QED BY <1>2, <1>3, <2>5, <2>8 DEF EvInv
<1> QED BY <1>7, <1>8, <1>9 DEF DeleteLoop

-----------------------------------------------------------------------------
(* All steps together.                                                      *)

\* The initial states.
LEMMA EvInitOK ==
  ASSUME EventInit
  PROVE  EvInv /\ Promise!Init
<1>1. /\ IpcInv /\ k.wait = [w \in WaitList |-> << >>] /\ op = [t \in Thread |-> "none"]
  BY IpcInitOK DEF EventInit
<1>2. \A w \in WaitList, t \in Thread : ~Contains(k.wait[w], t)
  BY <1>1 DEF Contains
<1>3. Waiters
  BY <1>2 DEF Waiters
<1>4. EvInv
  BY <1>1, <1>3 DEF EventInit, EvInv, Ops
<1>5. \A t \in Thread : RecvState(t) = Promise!Out
  BY <1>1, StateFacts DEF StateNow, StateOf
<1>6. Promise!Init
  BY <1>5 DEF EventInit, Promise!Init
<1> QED BY <1>4, <1>6

\* Nothing happens.
LEMMA EvStutter ==
  ASSUME EvInv, UNCHANGED evVars
  PROVE  EvInv' /\ PromiseStep
<1>1. /\ k' = k /\ pc' = pc /\ tgt' = tgt /\ isr' = isr /\ op' = op /\ set' = set
      /\ event_set' = event_set /\ event_info' = event_info /\ recved' = recved /\ alive' = alive
  BY DEF evVars
<1>2. IpcInv'
  BY <1>1 DEF EvInv, IpcInv, CallPlaces, Waits, IInv, TypeOK, Places, Started, Starting, Reaping,
              Defunct, BeingFreed, Running, Ticking, SleepEnds
<1>3. EvInv'
  BY <1>1, <1>2 DEF EvInv, Waiters
<1>4. \A t \in Thread : StateNow(t)' = StateNow(t)
  BY <1>1 DEF StateNow, StateOf
<1> QED BY <1>1, <1>3, <1>4, PromiseStutter

\* Every step of the event.
LEMMA EvStep ==
  ASSUME Ordinary, EvInv, EventNext
  PROVE  EvInv' /\ PromiseStep
<1>1. CASE SystemStep /\ UNCHANGED <<set, event_set, event_info, recved, alive>>
  BY <1>1, SystemEv
<1>2. CASE \E S \in (SUBSET Bit) \ {{}} : Send(S) \/ IrqSend(S)
  <2>1. PICK S \in (SUBSET Bit) \ {{}} : Send(S) \/ IrqSend(S)
    BY <1>2
  <2> QED BY <2>1, SendEv
<1>3. CASE \E r \in Request : RecvNow(r[1], r[2]) \/ \E n \in Times : RecvWait(r[1], r[2], n)
  <2>1. PICK r \in Request : RecvNow(r[1], r[2]) \/ \E n \in Times : RecvWait(r[1], r[2], n)
    BY <1>3
  <2>2. r[1] \in SUBSET Bit /\ r[2] \in Option
    BY RequestAssumption
  <2> QED BY <2>1, <2>2, RecvNowEv, RecvWaitEv
<1>4. CASE RecvWake \/ RecvReturn
  BY <1>4, RecvEndEv
<1>5. CASE Reset
  BY <1>5, ResetEv
<1>6. CASE Delete_call \/ DeleteLoop
  BY <1>6, DeleteEv
<1> QED BY <1>1, <1>2, <1>3, <1>4, <1>5, <1>6 DEF EventNext

-----------------------------------------------------------------------------
(* The theorems.                                                            *)

\* The bits, the list, the places of the receives and what each of them will find in
\* thread->error and thread->event_set fit together after every step (rt_event_send,
\* rt_event_recv, rt_event_control, rt_event_delete).
THEOREM EvInvariance ==
  ASSUME Ordinary
  PROVE  EventSpecification => []EvInv
<1>1. EventInit => EvInv
  BY EvInitOK
<1>2. EvInv /\ [EventNext]_evVars => EvInv'
  BY EvStep, EvStutter
<1> QED BY <1>1, <1>2, PTL DEF EventSpecification

\* Suspend list, status words and timers agree, although one send resumes several
\* threads in one walk over the list.
THEOREM EvWaitLists ==
  ASSUME Ordinary
  PROVE  EventSpecification => []WaitLists
<1>1. EvInv => WaitLists
  BY WaitListsOK DEF EvInv
<1> QED BY <1>1, EvInvariance, PTL

\* No event is missed: no thread sits on the list while the bits that it waits for are
\* set, whatever the threads before it in the walk of rt_event_send clear (ipc.c:1054-1099).
THEOREM EvNoMissedEvent ==
  ASSUME Ordinary
  PROVE  EventSpecification => []NoMissedEvent
<1>1. EvInv => NoMissedEvent
  <2> SUFFICES ASSUME EvInv PROVE NoMissedEvent
    OBVIOUS
  <2>1. EventTypeOK
    BY DEF EvInv, EventTypeOK, IpcInv, IInv, Ops
  <2>2. ASSUME NEW t \in ToSet(k.wait[Ev])
        PROVE  op[t] = "recv_wait" /\ ~Satisfied(set, event_set[t], event_info[t])
    <3>1. t \in Thread /\ Contains(k.wait[Ev], t) /\ Ev \in WaitList
      BY EvFacts DEF ToSet, Contains
    <3> QED BY <3>1 DEF EvInv, Waiters
  <2> QED BY <2>1, <2>2 DEF NoMissedEvent
<1> QED BY <1>1, EvInvariance, PTL

\* The event object keeps the promise of EventSpec: a receive that waited returns the
\* bits that one send gave it, in the combination it asked for, bits that are cleared
\* for one receive go to no other, and no send is lost (ipc.c:1031-1232).
THEOREM EvRefinement ==
  ASSUME Ordinary
  PROVE  EventSpecification => ImplementsEvent
<1>1. EventInit => Promise!Init
  BY EvInitOK
<1>2. EvInv /\ [EventNext]_evVars => [Promise!Next]_(Promise!vars)
  <2> SUFFICES ASSUME EvInv, [EventNext]_evVars PROVE PromiseStep
    BY DEF PromiseStep
  <2> QED BY EvStep, EvStutter
<1> QED BY <1>1, <1>2, EvInvariance, PTL DEF EventSpecification, ImplementsEvent, Promise!Spec


=============================================================================
