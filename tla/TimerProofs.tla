---------------------------- MODULE TimerProofs ----------------------------
(***************************************************************************)
(* The properties of Timer for any number of timers, any range of the tick *)
(* counter, and any init_tick below half of that range.                    *)
(***************************************************************************)
EXTENDS Timer, SequenceTheorems, WellFoundedInduction, TLAPS

-----------------------------------------------------------------------------
(* Tick arithmetic.                                                         *)

Half == TICK_MAX \div 2

\* The bounds that the arithmetic below needs.
LEMMA Numbers ==
  /\ TickRange \in Nat /\ TickRange > 3 /\ TICK_MAX = TickRange - 1
  /\ Half \in Nat /\ 2 * Half <= TickRange - 1 /\ TickRange <= 2 * Half + 2
  /\ MaxLate \in Nat /\ InitTicks \subseteq Nat
  /\ \A n \in InitTicks : 1 <= n /\ n < Half /\ n + MaxLate < Half
<1>1. /\ TickRange \in Nat /\ TickRange > 3 /\ TICK_MAX = TickRange - 1
  BY TickRangeAssumption DEF TICK_MAX
<1>2. Half \in Nat /\ 2 * Half <= TickRange - 1 /\ TickRange <= 2 * Half + 2
  BY <1>1 DEF Half
<1>3. MaxLate \in Nat /\ \A n \in InitTicks : n + MaxLate < Half
  BY MaxLateAssumption DEF Half
<1>4. InitTicks \subseteq 1 .. Half - 1
  BY InitTicksAssumption DEF Half
<1> QED BY <1>1, <1>2, <1>3, <1>4

\* Unsigned differences, reduced to the range of the counter.
LEMMA Reduced ==
  ASSUME NEW x \in Int, -TickRange <= x, x < 2 * TickRange
  PROVE  x % TickRange = IF x < 0 THEN x + TickRange
                         ELSE IF x < TickRange THEN x ELSE x - TickRange
<1>1. TickRange \in Nat /\ TickRange > 0
  BY Numbers
<1>2. CASE x < 0
  BY <1>1, <1>2
<1>3. CASE 0 <= x /\ x < TickRange
  BY <1>1, <1>3
<1>4. CASE TickRange <= x
  BY <1>1, <1>4
<1> QED BY <1>1, <1>2, <1>3, <1>4

\* Ticks from now until the tick at, negative when it has passed.
Left(at, now) ==
  LET d == (at - now) % TickRange IN IF d < Half THEN d ELSE d - TickRange

\* Left is the difference, up to a wrap-around of the counter.
LEMMA LeftFacts ==
  ASSUME NEW at \in 0 .. TICK_MAX, NEW now \in 0 .. TICK_MAX
  PROVE  /\ Left(at, now) \in Int
         /\ Half - TickRange <= Left(at, now) /\ Left(at, now) < Half
         /\ at - now \in {Left(at, now), Left(at, now) + TickRange, Left(at, now) - TickRange}
<1>1. at \in Int /\ now \in Int /\ 0 <= at /\ at < TickRange /\ 0 <= now /\ now < TickRange
  BY Numbers
<1>2. (at - now) % TickRange = IF at - now < 0 THEN at - now + TickRange ELSE at - now
  BY <1>1, Numbers, Reduced
<1> QED BY <1>1, <1>2, Numbers DEF Left

\* And it is the only such number.
LEMMA LeftUnique ==
  ASSUME NEW at \in 0 .. TICK_MAX, NEW now \in 0 .. TICK_MAX, NEW v \in Int,
         Half - TickRange <= v, v < Half, at - now \in {v, v + TickRange, v - TickRange}
  PROVE  Left(at, now) = v
<1> DEFINE w == Left(at, now)
<1>1. at - now \in Int /\ TickRange \in Int /\ Half \in Int
  BY Numbers
<1>2. /\ w \in Int /\ Half - TickRange <= w /\ w < Half
      /\ at - now \in {w, w + TickRange, w - TickRange}
  BY LeftFacts
<1> HIDE DEF w
<1>3. w = v
  BY <1>1, <1>2
<1> QED BY <1>3 DEF w

\* A tick brings every expiry closer by one.
LEMMA LeftTick ==
  ASSUME NEW at \in 0 .. TICK_MAX, NEW now \in 0 .. TICK_MAX, Half - TickRange < Left(at, now)
  PROVE  /\ (now + 1) % TickRange \in 0 .. TICK_MAX
         /\ Left(at, (now + 1) % TickRange) = Left(at, now) - 1
<1> DEFINE v == Left(at, now)
           next == (now + 1) % TickRange
<1>1. at \in Int /\ now \in Int /\ 0 <= at /\ at < TickRange /\ 0 <= now /\ now < TickRange
  BY Numbers
<1>2. next = IF now + 1 < TickRange THEN now + 1 ELSE now + 1 - TickRange
  BY <1>1, Numbers, Reduced
<1>3. v \in Int /\ v < Half /\ at - now \in {v, v + TickRange, v - TickRange}
  BY LeftFacts
<1> HIDE DEF v, next
<1>4. next \in 0 .. TICK_MAX
  BY <1>1, <1>2, Numbers
<1>5. at - next \in {v - 1, v - 1 + TickRange, v - 1 - TickRange}
  BY <1>1, <1>2, <1>3, Numbers DEF v
<1>6. v - 1 \in Int /\ Half - TickRange <= v - 1 /\ v - 1 < Half
  BY <1>3, Numbers DEF v
<1>7. Left(at, next) = v - 1
  BY <1>4, <1>5, <1>6, LeftUnique
<1> QED BY <1>4, <1>7 DEF v, next

\* A timer that is started expires after its init_tick.
LEMMA LeftStart ==
  ASSUME NEW now \in 0 .. TICK_MAX, NEW n \in InitTicks
  PROVE  (now + n) % TickRange \in 0 .. TICK_MAX /\ Left((now + n) % TickRange, now) = n
<1> DEFINE at == (now + n) % TickRange
<1>1. now \in Int /\ 0 <= now /\ now < TickRange /\ n \in Int /\ 1 <= n /\ n < Half
  BY Numbers
<1>2. at = IF now + n < TickRange THEN now + n ELSE now + n - TickRange
  BY <1>1, Numbers, Reduced
<1> HIDE DEF at
<1>3. at \in 0 .. TICK_MAX
  BY <1>1, <1>2, Numbers
<1>4. at - now \in {n, n + TickRange, n - TickRange} /\ Half - TickRange <= n
  BY <1>1, <1>2, Numbers
<1>5. Left(at, now) = n
  BY <1>1, <1>3, <1>4, LeftUnique
<1> QED BY <1>3, <1>5 DEF at

\* The comparison of rt_timer_start, across the wrap-around: right as long as the
\* two timers are less than half of the range apart.
LEMMA AfterLeft ==
  ASSUME NEW a \in 0 .. TICK_MAX, NEW b \in 0 .. TICK_MAX, NEW now \in 0 .. TICK_MAX,
         -Half <= Left(a, now) - Left(b, now), Left(a, now) - Left(b, now) < Half
  PROVE  After(a, b) <=> Left(a, now) > Left(b, now)
<1> DEFINE x == Left(a, now)
           y == Left(b, now)
<1>1. /\ a \in Int /\ b \in Int /\ 0 <= a /\ a < TickRange /\ 0 <= b /\ b < TickRange /\ now \in Int
  BY Numbers
<1>2. /\ x \in Int /\ y \in Int /\ a - now \in {x, x + TickRange, x - TickRange}
      /\ b - now \in {y, y + TickRange, y - TickRange}
  BY LeftFacts
<1>3. (a - b) % TickRange = IF a - b < 0 THEN a - b + TickRange ELSE a - b
  BY <1>1, Numbers, Reduced
<1>4. -Half <= x - y /\ x - y < Half
  OBVIOUS
<1> HIDE DEF x, y
<1>5. (a - b) % TickRange \in 1 .. Half - 1 <=> x > y
  BY <1>1, <1>2, <1>3, <1>4, Numbers
<1> QED BY <1>5 DEF After, Half, x, y

\* The test of rt_timer_check: right unless a timer is late by half of the range.
LEMMA ExpiredLeft ==
  ASSUME NEW at \in 0 .. TICK_MAX, NEW now \in 0 .. TICK_MAX, -Half < Left(at, now)
  PROVE  /\ (now - at) % TickRange < Half <=> Left(at, now) <= 0
         /\ Left(at, now) <= 0 => (now - at) % TickRange = -Left(at, now)
<1> DEFINE v == Left(at, now)
<1>1. at \in Int /\ now \in Int /\ 0 <= at /\ at < TickRange /\ 0 <= now /\ now < TickRange
  BY Numbers
<1>2. v \in Int /\ v < Half /\ at - now \in {v, v + TickRange, v - TickRange}
  BY LeftFacts
<1>3. (now - at) % TickRange = IF now - at < 0 THEN now - at + TickRange ELSE now - at
  BY <1>1, Numbers, Reduced
<1> HIDE DEF v
<1> QED BY <1>1, <1>2, <1>3, Numbers DEF v

-----------------------------------------------------------------------------
(* The list.                                                                *)

\* The timers of list s do not get earlier, f being the ticks that are left.
SortedBy(f, s) == \A i, j \in 1 .. Len(s) : i < j => f[s[i]] <= f[s[j]]

\* _rt_timer_remove of a timer that is linked: those behind it move up.
LEMMA UnlinkPresent ==
  ASSUME NEW s \in Seq(Timer), NEW t, Contains(s, t)
  PROVE  /\ Place(s, t) \in 1 .. Len(s) /\ s[Place(s, t)] = t
         /\ Unlink(s, t) \in Seq(Timer) /\ Len(Unlink(s, t)) = Len(s) - 1
         /\ \A j \in 1 .. Len(s) - 1 :
              Unlink(s, t)[j] = IF j < Place(s, t) THEN s[j] ELSE s[j + 1]
<1> DEFINE n == Len(s) - 1
           u == [i \in 1 .. n |-> IF i < Place(s, t) THEN s[i] ELSE s[i + 1]]
<1>1. Place(s, t) \in 1 .. Len(s) /\ s[Place(s, t)] = t
  BY DEF Contains, Place
<1>2. n \in Nat /\ \A j \in 1 .. n : (IF j < Place(s, t) THEN s[j] ELSE s[j + 1]) \in Timer
  BY <1>1
<1>3. u \in Seq(Timer) /\ Len(u) = n
  <2> HIDE DEF n
  <2>1. u \in [1 .. n -> Timer]
    BY <1>2
  <2> QED BY <1>2, <2>1, SeqDef
<1>4. Unlink(s, t) = u
  BY DEF Unlink
<1> HIDE DEF n
<1> QED BY <1>1, <1>3, <1>4 DEF n

\* _rt_timer_remove takes off no other timer, and leaves the rest in order.
LEMMA UnlinkFacts ==
  ASSUME NEW s \in Seq(Timer), NEW t, IsInjective(s), NEW f
  PROVE  /\ Unlink(s, t) \in Seq(Timer) /\ IsInjective(Unlink(s, t))
         /\ \A x : Contains(Unlink(s, t), x) <=> Contains(s, x) /\ x # t
         /\ SortedBy(f, s) => SortedBy(f, Unlink(s, t))
<1>1. CASE ~Contains(s, t)
  BY <1>1 DEF Unlink
<1>2. CASE Contains(s, t)
  <2> DEFINE i == Place(s, t)
             u == Unlink(s, t)
  <2>1. /\ i \in 1 .. Len(s) /\ s[i] = t /\ u \in Seq(Timer) /\ Len(u) = Len(s) - 1
        /\ \A j \in 1 .. Len(s) - 1 : u[j] = IF j < i THEN s[j] ELSE s[j + 1]
    BY <1>2, UnlinkPresent
  <2>2. \A j, l \in 1 .. Len(s) : s[j] = s[l] => j = l
    BY DEF IsInjective
  <2> HIDE DEF i, u
  \* The places of u in s, in the same order.
  <2>3. \A j \in 1 .. Len(u) : \E a \in 1 .. Len(s) :
          a # i /\ u[j] = s[a] /\ ((a = j /\ j < i) \/ (a = j + 1 /\ i <= j))
    <3> SUFFICES ASSUME NEW j \in 1 .. Len(u)
                 PROVE  \E a \in 1 .. Len(s) :
                          a # i /\ u[j] = s[a] /\ ((a = j /\ j < i) \/ (a = j + 1 /\ i <= j))
      OBVIOUS
    <3>1. CASE j < i
      <4>1. j \in 1 .. Len(s) /\ j # i /\ u[j] = s[j]
        BY <2>1, <3>1
      <4>2. j # i /\ u[j] = s[j] /\ ((j = j /\ j < i) \/ (j = j + 1 /\ i <= j))
        BY <3>1, <4>1
      <4> QED BY <4>1, <4>2, Zenon
    <3>2. CASE i <= j
      <4>1. j + 1 \in 1 .. Len(s) /\ j + 1 # i /\ u[j] = s[j + 1]
        BY <2>1, <3>2
      <4> QED BY <3>2, <4>1
    <3> QED BY <2>1, <3>1, <3>2
  <2>4. IsInjective(u)
    <3> SUFFICES ASSUME NEW m \in 1 .. Len(u), NEW n \in 1 .. Len(u), u[m] = u[n] PROVE m = n
      BY DEF IsInjective
    <3> QED BY <2>1, <2>2, <2>3
  <2>5. ASSUME NEW x, Contains(u, x) PROVE Contains(s, x) /\ x # t
    BY <2>1, <2>2, <2>3, <2>5 DEF Contains
  <2>6. ASSUME NEW x, Contains(s, x), x # t PROVE Contains(u, x)
    <3>1. PICK a \in 1 .. Len(s) : s[a] = x
      BY <2>6 DEF Contains
    <3>2. CASE a < i
      BY <2>1, <3>1, <3>2 DEF Contains
    <3>3. CASE a > i
      <4>1. a - 1 \in 1 .. Len(u) /\ u[a - 1] = x
        BY <2>1, <3>1, <3>3
      <4> QED BY <4>1 DEF Contains
    <3> QED BY <2>1, <2>6, <3>1, <3>2, <3>3
  <2>7. ASSUME SortedBy(f, s), NEW m \in 1 .. Len(u), NEW n \in 1 .. Len(u), m < n
        PROVE  f[u[m]] <= f[u[n]]
    <3>1. PICK a \in 1 .. Len(s) : u[m] = s[a] /\ ((a = m /\ m < i) \/ (a = m + 1 /\ i <= m))
      BY <2>3
    <3>2. PICK b \in 1 .. Len(s) : u[n] = s[b] /\ ((b = n /\ n < i) \/ (b = n + 1 /\ i <= n))
      BY <2>3
    <3>3. a < b
      BY <2>1, <2>7, <3>1, <3>2
    <3> QED BY <2>7, <3>1, <3>2, <3>3 DEF SortedBy
  <2> QED BY <2>1, <2>4, <2>5, <2>6, <2>7 DEF SortedBy, u
<1> QED BY <1>1, <1>2

\* List r is list s with t put at place i.
Enlisted(s, r, t, i) ==
  /\ i \in 1 .. Len(s) + 1 /\ Len(r) = Len(s) + 1 /\ r[i] = t
  /\ \A j \in 1 .. i - 1 : r[j] = s[j]
  /\ \A j \in i + 1 .. Len(s) + 1 : r[j] = s[j - 1]

\* Where the search of rt_timer_start ends: the timers before that place do not
\* expire later, the one at it does.
LEMMA InsertedPlace ==
  ASSUME NEW s \in Seq(Timer), NEW t \in Timer, NEW at
  PROVE  /\ Inserted(s, t, at) \in Seq(Timer)
         /\ \E i : /\ Enlisted(s, Inserted(s, t, at), t, i)
                   /\ \A j \in 1 .. i - 1 : ~After(timeout_tick[s[j]], at)
                   /\ i <= Len(s) => After(timeout_tick[s[i]], at)
<1> DEFINE L == Later(s, at)
           i == Min(L)
<1>1. Len(s) \in Nat
  OBVIOUS
<1>2. CASE L = {}
  <2>1. Inserted(s, t, at) = Append(s, t)
    BY <1>2 DEF Inserted
  <2>2. Append(s, t) \in Seq(Timer) /\ Enlisted(s, Append(s, t), t, Len(s) + 1)
    BY DEF Enlisted
  <2>3. \A j \in 1 .. Len(s) : ~After(timeout_tick[s[j]], at)
    BY <1>2 DEF Later
  <2>4. ~(Len(s) + 1 <= Len(s)) /\ Len(s) + 1 - 1 = Len(s)
    BY <1>1
  <2> QED BY <2>1, <2>2, <2>3, <2>4
<1>3. CASE L # {}
  <2>1. L \subseteq Nat
    BY DEF Later
  <2>2. i \in L /\ \A j \in L : i <= j
    <3> HIDE DEF L
    <3>1. PICK n \in L : \A j \in L : ~(<<j, n>> \in OpToRel(<, Nat))
      BY <1>3, <2>1, NatLessThanWellFounded, WFMin
    <3>2. ASSUME NEW j \in L PROVE n <= j
      <4>1. j \in Nat /\ n \in Nat
        BY <2>1
      <4>2. j < n => <<j, n>> \in {ss \in Nat \X Nat : ss[1] < ss[2]}
        BY <4>1
      <4>3. OpToRel(<, Nat) = {ss \in Nat \X Nat : ss[1] < ss[2]}
        BY DEF OpToRel
      <4>4. ~(j < n)
        BY <3>1, <4>2, <4>3, Zenon
      <4> QED BY <4>1, <4>4
    <3> QED BY <3>2 DEF Min
  <2>3. Inserted(s, t, at) = InsertAt(s, i, t)
    BY <1>3 DEF Inserted
  <2> HIDE DEF i
  <2>4. i \in 1 .. Len(s) /\ After(timeout_tick[s[i]], at)
    BY <2>2 DEF Later
  <2>5. \A j \in 1 .. i - 1 : ~After(timeout_tick[s[j]], at)
    <3>1. \A j \in 1 .. i - 1 : j \in 1 .. Len(s) /\ ~(i <= j)
      BY <1>1, <2>4
    <3> QED BY <2>2, <3>1 DEF Later
  <2> DEFINE a == SubSeq(s, 1, i - 1)
             b == SubSeq(s, i, Len(s))
             c == a \o <<t>>
  <2>6. a \in Seq(Timer) /\ Len(a) = i - 1 /\ \A j \in 1 .. i - 1 : a[j] = s[j]
    BY <1>1, <2>4
  <2>7. b \in Seq(Timer) /\ Len(b) = Len(s) - i + 1 /\ \A j \in 1 .. Len(s) - i + 1 : b[j] = s[i + j - 1]
    BY <1>1, <2>4
  <2> HIDE DEF a, b
  <2>8. c \in Seq(Timer) /\ Len(c) = i /\ c[i] = t /\ \A j \in 1 .. i - 1 : c[j] = s[j]
    BY <2>4, <2>6
  <2>9. InsertAt(s, i, t) = c \o b
    BY DEF InsertAt, a, b
  <2> HIDE DEF c
  <2>10. /\ c \o b \in Seq(Timer) /\ Len(c \o b) = Len(c) + Len(b)
         /\ \A j \in 1 .. Len(c) + Len(b) :
              (c \o b)[j] = IF j <= Len(c) THEN c[j] ELSE b[j - Len(c)]
    BY <2>7, <2>8, ConcatProperties
  <2>11. Len(c) + Len(b) = Len(s) + 1
    BY <1>1, <2>4, <2>7, <2>8
  <2>12. \A j \in i + 1 .. Len(s) + 1 : (c \o b)[j] = s[j - 1]
    <3> SUFFICES ASSUME NEW j \in i + 1 .. Len(s) + 1 PROVE (c \o b)[j] = s[j - 1]
      OBVIOUS
    <3>1. j - i \in 1 .. Len(s) - i + 1 /\ i + (j - i) - 1 = j - 1 /\ j \in 1 .. Len(s) + 1 /\ ~(j <= i)
      BY <1>1, <2>4
    <3> QED BY <2>7, <2>8, <2>10, <2>11, <3>1
  <2>13. \A j \in 1 .. i : (c \o b)[j] = c[j]
    BY <1>1, <2>4, <2>8, <2>10, <2>11
  <2>14. Enlisted(s, c \o b, t, i)
    BY <1>1, <2>4, <2>8, <2>10, <2>11, <2>12, <2>13 DEF Enlisted
  <2> QED BY <2>3, <2>4, <2>5, <2>9, <2>10, <2>14
<1> QED BY <1>2, <1>3

\* The comparison of rt_timer_start agrees with the order f.
Agrees(f, s, t, at) ==
  \A j \in 1 .. Len(s) : After(timeout_tick[s[j]], at) <=> f[s[j]] > f[t]

\* r is the list s, in the order f, with t behind all timers that are not after it.
Linked(f, s, r, t) ==
  /\ r \in Seq(Timer) /\ IsInjective(r)
  /\ \A x : Contains(r, x) <=> Contains(s, x) \/ x = t
  /\ SortedBy(f, r)
  /\ \E i \in 1 .. Len(r) : /\ r[i] = t
                            /\ \A j \in 1 .. Len(s) : f[s[j]] <= f[t] =>
                                 j < i /\ j \in 1 .. Len(r) /\ r[j] = s[j]

\* A timer put at that place is linked once, and the list is in order again: it is
\* behind all timers that do not expire later.
LEMMA InsertedFacts ==
  ASSUME NEW s \in Seq(Timer), NEW t \in Timer, NEW at, IsInjective(s), ~Contains(s, t),
         NEW f \in [Timer -> Int], SortedBy(f, s), Agrees(f, s, t, at)
  PROVE  Linked(f, s, Inserted(s, t, at), t)
<1> DEFINE r == Inserted(s, t, at)
<1>1. r \in Seq(Timer)
  BY InsertedPlace
<1>2. PICK i : /\ Enlisted(s, r, t, i)
               /\ \A j \in 1 .. i - 1 : ~After(timeout_tick[s[j]], at)
               /\ i <= Len(s) => After(timeout_tick[s[i]], at)
  BY InsertedPlace
<1> HIDE DEF r
<1>3. /\ i \in 1 .. Len(s) + 1 /\ Len(r) = Len(s) + 1 /\ Len(s) \in Nat /\ r[i] = t
      /\ \A j \in 1 .. i - 1 : r[j] = s[j]
      /\ \A j \in i + 1 .. Len(r) : r[j] = s[j - 1]
  BY <1>2 DEF Enlisted
<1>4. /\ \A j \in 1 .. Len(s) : s[j] \in Timer /\ f[s[j]] \in Int /\ s[j] # t
      /\ f[t] \in Int
  BY DEF Contains
<1>5. \A j \in 1 .. i - 1 : f[s[j]] <= f[t]
  <2>1. \A j \in 1 .. i - 1 : j \in 1 .. Len(s)
    BY <1>3
  <2> QED BY <1>2, <1>4, <2>1 DEF Agrees
<1>6. ASSUME NEW j \in 1 .. Len(s), i <= j PROVE f[t] < f[s[j]]
  <2>1. i \in 1 .. Len(s)
    BY <1>3, <1>6
  <2>2. f[s[i]] > f[t]
    BY <1>2, <2>1 DEF Agrees
  <2>3. i = j \/ f[s[i]] <= f[s[j]]
    BY <1>3, <1>6, <2>1 DEF SortedBy
  <2> QED BY <1>4, <2>1, <2>2, <2>3
\* Where the timers of r come from.
<1>7. ASSUME NEW j \in 1 .. Len(r)
      PROVE  \/ j = i /\ r[j] = t
             \/ \E a \in 1 .. Len(s) : r[j] = s[a] /\ ((a = j /\ j < i) \/ (a = j - 1 /\ i < j))
  <2>1. CASE j < i
    <3>1. j \in 1 .. Len(s) /\ r[j] = s[j]
      BY <1>3, <2>1
    <3>2. r[j] = s[j] /\ ((j = j /\ j < i) \/ (j = j - 1 /\ i < j))
      BY <2>1, <3>1
    <3> QED BY <3>1, <3>2, Zenon
  <2>2. CASE i < j
    <3>1. j - 1 \in 1 .. Len(s) /\ r[j] = s[j - 1]
      BY <1>3, <2>2
    <3> QED BY <2>2, <3>1
  <2>3. CASE i = j
    BY <1>3, <2>3
  <2> QED BY <1>3, <2>1, <2>2, <2>3
<1>8. IsInjective(r)
  <2> SUFFICES ASSUME NEW m \in 1 .. Len(r), NEW n \in 1 .. Len(r), r[m] = r[n] PROVE m = n
    BY DEF IsInjective
  <2>1. \A a, b \in 1 .. Len(s) : s[a] = s[b] => a = b
    BY DEF IsInjective
  <2>2. CASE m = i \/ n = i
    <3>1. ASSUME NEW j \in 1 .. Len(r), r[j] = t PROVE j = i
      <4>1. \A a \in 1 .. Len(s) : r[j] # s[a]
        BY <1>4, <3>1
      <4> QED BY <1>7, <4>1
    <3> QED BY <1>3, <2>2, <3>1
  <2>3. CASE m # i /\ n # i
    <3>1. PICK a \in 1 .. Len(s) : r[m] = s[a] /\ ((a = m /\ m < i) \/ (a = m - 1 /\ i < m))
      BY <1>7, <2>3
    <3>2. PICK b \in 1 .. Len(s) : r[n] = s[b] /\ ((b = n /\ n < i) \/ (b = n - 1 /\ i < n))
      BY <1>7, <2>3
    <3>3. a = b
      BY <2>1, <3>1, <3>2
    <3> QED BY <1>3, <3>1, <3>2, <3>3
  <2> QED BY <2>2, <2>3
<1>9. ASSUME NEW x, Contains(r, x) PROVE Contains(s, x) \/ x = t
  BY <1>7, <1>9 DEF Contains
<1>10. ASSUME NEW x, Contains(s, x) PROVE Contains(r, x)
  <2>1. PICK a \in 1 .. Len(s) : s[a] = x
    BY <1>10 DEF Contains
  <2>2. CASE a < i
    <3>1. a \in 1 .. Len(r) /\ r[a] = x
      BY <1>3, <2>1, <2>2
    <3> QED BY <3>1 DEF Contains
  <2>3. CASE i <= a
    <3>1. a + 1 \in 1 .. Len(r) /\ r[a + 1] = x
      BY <1>3, <2>1, <2>3
    <3> QED BY <3>1 DEF Contains
  <2> QED BY <1>3, <2>2, <2>3
<1>11. i \in 1 .. Len(r) /\ Contains(r, t)
  BY <1>3 DEF Contains
<1>12. ASSUME NEW m \in 1 .. Len(r), NEW n \in 1 .. Len(r), m < n PROVE f[r[m]] <= f[r[n]]
  <2>1. CASE m = i
    <3>1. PICK b \in 1 .. Len(s) : r[n] = s[b] /\ ((b = n /\ n < i) \/ (b = n - 1 /\ i < n))
      BY <1>3, <1>7, <1>12, <2>1
    <3>2. i <= b
      BY <1>3, <1>12, <2>1, <3>1
    <3> QED BY <1>3, <1>4, <1>6, <2>1, <3>1, <3>2
  <2>2. CASE m # i
    <3>1. PICK a \in 1 .. Len(s) : r[m] = s[a] /\ ((a = m /\ m < i) \/ (a = m - 1 /\ i < m))
      BY <1>7, <2>2
    <3>2. CASE n = i
      <4>1. a \in 1 .. i - 1
        BY <1>3, <1>12, <3>1, <3>2
      <4> QED BY <1>3, <1>5, <3>1, <3>2, <4>1
    <3>3. CASE n # i
      <4>1. PICK b \in 1 .. Len(s) : r[n] = s[b] /\ ((b = n /\ n < i) \/ (b = n - 1 /\ i < n))
        BY <1>7, <3>3
      <4>2. a < b
        BY <1>3, <1>12, <3>1, <4>1
      <4> QED BY <3>1, <4>1, <4>2 DEF SortedBy
    <3> QED BY <3>2, <3>3
  <2> QED BY <2>1, <2>2
<1>13. ASSUME NEW j \in 1 .. Len(s), f[s[j]] <= f[t]
       PROVE  j < i /\ j \in 1 .. Len(r) /\ r[j] = s[j]
  <2>1. ~(i <= j)
    BY <1>4, <1>6, <1>13
  <2>2. j < i /\ j \in 1 .. i - 1 /\ j \in 1 .. Len(r)
    BY <1>3, <2>1
  <2> QED BY <1>3, <2>2
<1>14. SortedBy(f, r)
  BY <1>12 DEF SortedBy
<1>15. \E m \in 1 .. Len(r) : /\ r[m] = t
                              /\ \A j \in 1 .. Len(s) : f[s[j]] <= f[t] =>
                                   j < m /\ j \in 1 .. Len(r) /\ r[j] = s[j]
  BY <1>3, <1>11, <1>13
<1>16. Linked(f, s, r, t)
  BY <1>1, <1>8, <1>9, <1>10, <1>11, <1>14, <1>15 DEF Linked, r
<1> QED BY <1>16 DEF r

-----------------------------------------------------------------------------
(* The inductive invariant.                                                 *)

\* Ticks left to each timer.
Rem == [t \in Timer |-> Left(timeout_tick[t], tick)]

\* Not later than late ticks, and not earlier than a timer just started.
Near(r, late) == -late <= r /\ \E n \in InitTicks : r <= n

\* A linked timer is at most MaxLate ticks late, and one more when the tick that
\* will take it off the list has come: all are less than half of the range apart.
Lateness == IF isr = "check" THEN MaxLate + 1 ELSE MaxLate

TInv ==
  /\ TimerTypeOK /\ IsInjective(list) /\ SortedBy(Rem, list)
  /\ \A t \in Timer : Contains(list, t) =>
       pc[t] \in {"run", "stop_remove"} /\ Near(Rem[t], Lateness)
  /\ \A t \in Timer : pc[t] = "start_insert" => Near(Rem[t], MaxLate)
  /\ isr = "check" => list # << >> /\ Rem[Head(list)] <= 0

\* The types, spelled out.
LEMMA TimerFacts ==
  ASSUME TInv
  PROVE  /\ tick \in 0 .. TICK_MAX /\ list \in Seq(Timer)
         /\ timeout_tick \in [Timer -> 0 .. TICK_MAX] /\ init_tick \in [Timer -> InitTicks]
         /\ Rem \in [Timer -> Int]
         /\ \A t \in Timer : Rem[t] = Left(timeout_tick[t], tick)
         /\ \A j \in 1 .. Len(list) : list[j] \in Timer /\ Contains(list, list[j])
         /\ \A t \in Timer : Contains(list, t) => Near(Rem[t], MaxLate + 1)
<1>1. /\ tick \in 0 .. TICK_MAX /\ list \in Seq(Timer)
      /\ timeout_tick \in [Timer -> 0 .. TICK_MAX] /\ init_tick \in [Timer -> InitTicks]
  BY DEF TInv, TimerTypeOK
<1>2. /\ Rem \in [Timer -> Int]
      /\ \A t \in Timer : Rem[t] = Left(timeout_tick[t], tick)
  BY <1>1, LeftFacts DEF Rem
<1>3. \A j \in 1 .. Len(list) : list[j] \in Timer /\ Contains(list, list[j])
  BY <1>1 DEF Contains
<1>4. ASSUME NEW t \in Timer, Contains(list, t) PROVE Near(Rem[t], MaxLate + 1)
  <2>1. Near(Rem[t], MaxLate) \/ Near(Rem[t], MaxLate + 1)
    BY <1>4 DEF TInv, Lateness
  <2>2. Rem[t] \in Int
    BY <1>2
  <2> QED BY <2>1, <2>2, Numbers DEF Near
<1> QED BY <1>1, <1>2, <1>3, <1>4

\* The comparison of two timers is right in both sections that make it.
LEMMA NearAfter ==
  ASSUME NEW a \in 0 .. TICK_MAX, NEW b \in 0 .. TICK_MAX, NEW now \in 0 .. TICK_MAX,
         Near(Left(a, now), MaxLate + 1), Near(Left(b, now), MaxLate)
  PROVE  After(a, b) <=> Left(a, now) > Left(b, now)
<1> DEFINE x == Left(a, now)
           y == Left(b, now)
<1>1. x \in Int /\ y \in Int
  BY LeftFacts
<1>2. PICK n \in InitTicks : x <= n
  BY DEF Near
<1>3. PICK m \in InitTicks : y <= m
  BY DEF Near
<1>4. -(MaxLate + 1) <= x /\ -MaxLate <= y
  BY DEF Near
<1> HIDE DEF x, y
<1>5. n \in Nat /\ m \in Nat /\ n + MaxLate < Half /\ m + MaxLate < Half
  BY Numbers
<1>6. -Half <= x - y /\ x - y < Half
  BY <1>1, <1>2, <1>3, <1>4, <1>5, Numbers
<1> QED BY <1>6, AfterLeft DEF x, y

\* A timer just started is near.
LEMMA NearStart ==
  ASSUME NEW n \in InitTicks
  PROVE  Near(n, MaxLate) /\ Near(n, MaxLate + 1)
<1>1. n \in Int /\ 1 <= n /\ MaxLate \in Nat
  BY Numbers
<1>2. -MaxLate <= n /\ -(MaxLate + 1) <= n /\ n <= n
  BY <1>1
<1> QED BY <1>2 DEF Near

\* The head of the list tells whether a timer is due.
LEMMA CheckFacts ==
  ASSUME NEW s \in Seq(Timer), NEW at \in [Timer -> 0 .. TICK_MAX], NEW now \in 0 .. TICK_MAX,
         NEW f, f = [t \in Timer |-> Left(at[t], now)], SortedBy(f, s),
         \A t \in Timer : Contains(s, t) => Near(f[t], MaxLate + 1)
  PROVE  LET due == s # << >> /\ (now - at[Head(s)]) % TickRange < Half
         IN  /\ due => s # << >> /\ f[Head(s)] <= 0
             /\ ~due => \A t \in Timer : Contains(s, t) => f[t] > 0 /\ Near(f[t], MaxLate)
<1> DEFINE due == s # << >> /\ (now - at[Head(s)]) % TickRange < Half
<1>1. CASE s = << >>
  BY <1>1 DEF Contains
<1>2. CASE s # << >>
  <2> DEFINE h == Head(s)
  <2>1. h \in Timer /\ Contains(s, h) /\ h = s[1] /\ 1 \in 1 .. Len(s)
    BY <1>2 DEF Contains
  <2> HIDE DEF h
  <2>2. f[h] = Left(at[h], now) /\ at[h] \in 0 .. TICK_MAX /\ f[h] \in Int
    BY <2>1, LeftFacts
  <2>3. PICK n \in InitTicks : f[h] <= n /\ -(MaxLate + 1) <= f[h]
    BY <2>1 DEF Near
  <2>4. n \in Nat /\ 1 <= n /\ n + MaxLate < Half
    BY Numbers
  <2>5. -Half < f[h]
    BY <2>2, <2>3, <2>4, Numbers
  <2>6. due <=> f[h] <= 0
    BY <1>2, <2>2, <2>5, ExpiredLeft DEF h
  <2>7. ASSUME NEW t \in Timer, Contains(s, t), f[h] > 0 PROVE f[t] > 0 /\ Near(f[t], MaxLate)
    <3>1. PICK j \in 1 .. Len(s) : s[j] = t
      BY <2>7 DEF Contains
    <3>2. f[h] <= f[t]
      <4>1. CASE j = 1
        BY <2>1, <2>2, <3>1, <4>1
      <4>2. CASE j # 1
        BY <2>1, <3>1, <4>2 DEF SortedBy
      <4> QED BY <4>1, <4>2
    <3>3. f[t] \in Int
      BY LeftFacts
    <3>4. f[t] > 0
      BY <2>2, <2>7, <3>2, <3>3
    <3>5. \E m \in InitTicks : f[t] <= m
      BY <2>7 DEF Near
    <3> QED BY <3>3, <3>4, <3>5, Numbers DEF Near
  <2> QED BY <1>2, <2>2, <2>6, <2>7 DEF h
<1> QED BY <1>1, <1>2

-----------------------------------------------------------------------------
(* The sections of rt_timer_start, rt_timer_stop and rt_timer_control.       *)

\* A timer is unlinked.
LEMMA UnlinkStep ==
  ASSUME TInv, NEW t \in Timer, StartRemove(t) \/ StopRemove(t)
  PROVE  TInv' /\ \A x : Contains(list', x) <=> Contains(list, x) /\ x # t
<1>1. /\ isr = "none" /\ isr' = "none" /\ tick' = tick /\ list' = Unlink(list, t)
      /\ timeout_tick' = [timeout_tick EXCEPT ![t] = 0]
      /\ pc' = [pc EXCEPT ![t] = "start_tick"] \/ pc' = [pc EXCEPT ![t] = "stop_flag"]
      /\ init_tick' = init_tick /\ periodic' = periodic
  BY DEF StartRemove, StopRemove, Move, Forget, fields
<1>2. /\ list' \in Seq(Timer) /\ IsInjective(list') /\ SortedBy(Rem, list')
      /\ \A x : Contains(list', x) <=> Contains(list, x) /\ x # t
  BY <1>1, TimerFacts, UnlinkFacts DEF TInv
<1>3. timeout_tick' \in [Timer -> 0 .. TICK_MAX]
  BY <1>1, TimerFacts, Numbers
<1>4. TimerTypeOK'
  <2>1. activated' \in [Timer -> BOOLEAN]
    BY DEF StartRemove, StopRemove, TInv, TimerTypeOK
  <2> QED BY <1>1, <1>2, <1>3, <2>1 DEF TInv, TimerTypeOK
<1>5. \A x \in Timer \ {t} : Rem'[x] = Rem[x]
  BY <1>1, TimerFacts DEF Rem
<1>6. SortedBy(Rem', list')
  <2>1. \A j \in 1 .. Len(list') : list'[j] \in Timer \ {t}
    BY <1>2 DEF Contains
  <2> QED BY <1>2, <1>5, <2>1 DEF SortedBy
<1>7. \A x \in Timer \ {t} : pc'[x] = pc[x]
  BY <1>1 DEF TInv, TimerTypeOK
<1>8. pc'[t] \notin {"run", "stop_remove", "start_insert"}
  BY <1>1 DEF TInv, TimerTypeOK
<1>9. Lateness' = Lateness
  BY <1>1 DEF Lateness
<1>10. \A x \in Timer : Contains(list', x) =>
         pc'[x] \in {"run", "stop_remove"} /\ Near(Rem'[x], Lateness')
  BY <1>2, <1>5, <1>7, <1>9 DEF TInv
<1>11. \A x \in Timer : pc'[x] = "start_insert" => Near(Rem'[x], MaxLate)
  BY <1>5, <1>7, <1>8 DEF TInv
<1> QED BY <1>1, <1>2, <1>4, <1>6, <1>10, <1>11 DEF TInv

\* The sections that leave the list alone.
LEMMA QuietStep ==
  ASSUME TInv, NEW t \in Timer, StartTick(t) \/ StopTest(t) \/ StopFlag(t) \/ Control(t)
  PROVE  TInv' /\ list' = list
<1>1. /\ isr = "none" /\ isr' = "none" /\ tick' = tick /\ list' = list
  BY DEF StartTick, StopTest, StopFlag, Control, Move
<1>2. TimerTypeOK'
  <2>1. CASE StartTick(t)
    <3>1. timeout_tick' \in [Timer -> 0 .. TICK_MAX]
      BY <2>1, TimerFacts, LeftStart DEF StartTick
    <3> QED BY <2>1, <3>1 DEF StartTick, Move, fields, TInv, TimerTypeOK
  <2>2. CASE StopTest(t) \/ StopFlag(t)
    BY <2>2 DEF StopTest, StopFlag, Move, fields, TInv, TimerTypeOK
  <2>3. CASE Control(t)
    BY <2>3 DEF Control, Move, fields, TInv, TimerTypeOK
  <2> QED BY <2>1, <2>2, <2>3
<1>3. /\ \A x \in Timer \ {t} : pc'[x] = pc[x]
      /\ pc[t] \in {"run", "stop_remove"} => pc'[t] \in {"run", "stop_remove"}
  BY DEF StartTick, StopTest, StopFlag, Control, Move, TInv, TimerTypeOK
<1>4. /\ \A x \in Timer \ {t} : Rem'[x] = Rem[x]
      /\ pc[t] \in {"run", "stop_remove"} => Rem'[t] = Rem[t]
      /\ pc'[t] = "start_insert" => Near(Rem'[t], MaxLate)
  <2>1. CASE StartTick(t)
    <3>1. /\ pc[t] = "start_tick" /\ init_tick[t] \in InitTicks
          /\ timeout_tick' = [timeout_tick EXCEPT ![t] = (tick + init_tick[t]) % TickRange]
      BY <2>1, TimerFacts DEF StartTick, Move
    <3>2. Rem'[t] = init_tick[t]
      <4>1. timeout_tick'[t] = (tick + init_tick[t]) % TickRange
        BY <3>1, TimerFacts
      <4>2. Rem'[t] = Left(timeout_tick'[t], tick')
        BY DEF Rem
      <4>3. tick \in 0 .. TICK_MAX
        BY TimerFacts
      <4> QED BY <1>1, <3>1, <4>1, <4>2, <4>3, LeftStart
    <3>3. Near(Rem'[t], MaxLate)
      BY <3>1, <3>2, NearStart
    <3> QED BY <1>1, <3>1, <3>3, TimerFacts DEF Rem
  <2>2. CASE StopTest(t) \/ StopFlag(t) \/ Control(t)
    <3>1. timeout_tick' = timeout_tick /\ pc'[t] # "start_insert"
      BY <2>2 DEF StopTest, StopFlag, Control, Move, TInv, TimerTypeOK
    <3> QED BY <1>1, <3>1 DEF Rem
  <2> QED BY <2>1, <2>2
<1>5. \A x \in Timer : Contains(list, x) => Rem'[x] = Rem[x] /\ pc'[x] \in {"run", "stop_remove"}
  BY <1>3, <1>4 DEF TInv
<1>6. SortedBy(Rem', list')
  BY <1>1, <1>5, TimerFacts DEF SortedBy, TInv
<1>7. Lateness' = Lateness
  BY <1>1 DEF Lateness
<1>8. \A x \in Timer : Contains(list', x) =>
        pc'[x] \in {"run", "stop_remove"} /\ Near(Rem'[x], Lateness')
  BY <1>1, <1>5, <1>7 DEF TInv
<1>9. \A x \in Timer : pc'[x] = "start_insert" => Near(Rem'[x], MaxLate)
  BY <1>3, <1>4 DEF TInv
<1> QED BY <1>1, <1>2, <1>6, <1>8, <1>9 DEF TInv

\* A timer is linked: at the place that its time of expiry gives it, behind those
\* that expire at the same tick.
LEMMA InsertStep ==
  ASSUME TInv, NEW t \in Timer, StartInsert(t)
  PROVE  /\ TInv'
         /\ \A x : Contains(list', x) <=> Contains(list, x) \/ x = t
         /\ \E i \in 1 .. Len(list') :
              /\ list'[i] = t
              /\ \A j \in 1 .. Len(list) : Rem[list[j]] <= Rem[t] =>
                   j < i /\ j \in 1 .. Len(list') /\ list'[j] = list[j]
<1>1. /\ isr = "none" /\ isr' = "none" /\ tick' = tick /\ timeout_tick' = timeout_tick
      /\ list' = Inserted(list, t, timeout_tick[t])
      /\ pc[t] = "start_insert" /\ pc' = [pc EXCEPT ![t] = "run"]
      /\ init_tick' = init_tick /\ periodic' = periodic
      /\ activated' = [activated EXCEPT ![t] = TRUE]
  BY DEF StartInsert, Move, fields
<1>2. ~Contains(list, t) /\ Near(Rem[t], MaxLate)
  BY <1>1 DEF TInv
<1>3. ASSUME NEW j \in 1 .. Len(list)
      PROVE  After(timeout_tick[list[j]], timeout_tick[t]) <=> Rem[list[j]] > Rem[t]
  <2>1. list[j] \in Timer /\ Contains(list, list[j])
    BY TimerFacts
  <2>2. Near(Rem[list[j]], MaxLate + 1)
    BY <2>1, TimerFacts
  <2>3. /\ timeout_tick[list[j]] \in 0 .. TICK_MAX /\ timeout_tick[t] \in 0 .. TICK_MAX
        /\ tick \in 0 .. TICK_MAX
    BY <2>1, TimerFacts
  <2>4. /\ Rem[list[j]] = Left(timeout_tick[list[j]], tick)
        /\ Rem[t] = Left(timeout_tick[t], tick)
    BY <2>1, TimerFacts
  <2> QED BY <1>2, <2>2, <2>3, <2>4, NearAfter
<1>4. list \in Seq(Timer) /\ Rem \in [Timer -> Int] /\ IsInjective(list) /\ SortedBy(Rem, list)
  BY TimerFacts DEF TInv
<1>5. /\ list' \in Seq(Timer) /\ IsInjective(list')
      /\ \A x : Contains(list', x) <=> Contains(list, x) \/ x = t
      /\ SortedBy(Rem, list')
      /\ \E i \in 1 .. Len(list') :
           /\ list'[i] = t
           /\ \A j \in 1 .. Len(list) : Rem[list[j]] <= Rem[t] =>
                j < i /\ j \in 1 .. Len(list') /\ list'[j] = list[j]
  <2>1. Agrees(Rem, list, t, timeout_tick[t])
    BY <1>3 DEF Agrees
  <2>2. Linked(Rem, list, list', t)
    BY <1>1, <1>2, <1>4, <2>1, InsertedFacts
  <2> QED BY <2>2 DEF Linked
<1>6. Rem' = Rem /\ Lateness' = Lateness /\ Lateness = MaxLate
  BY <1>1 DEF Rem, Lateness
<1>7. TimerTypeOK'
  BY <1>1, <1>5 DEF TInv, TimerTypeOK
<1>8. (\A x \in Timer \ {t} : pc'[x] = pc[x]) /\ pc'[t] = "run"
  BY <1>1 DEF TInv, TimerTypeOK
<1>9. \A x \in Timer : Contains(list', x) =>
        pc'[x] \in {"run", "stop_remove"} /\ Near(Rem'[x], Lateness')
  BY <1>2, <1>5, <1>6, <1>8 DEF TInv
<1>10. \A x \in Timer : pc'[x] = "start_insert" => Near(Rem'[x], MaxLate)
  BY <1>6, <1>8 DEF TInv
<1>11. SortedBy(Rem', list')
  BY <1>5, <1>6
<1>12. TInv'
  BY <1>1, <1>5, <1>7, <1>9, <1>10, <1>11 DEF TInv
<1> QED BY <1>5, <1>12

-----------------------------------------------------------------------------
(* The tick interrupt.                                                       *)

\* A tick: every timer is one tick closer, so that the order stays the same.
LEMMA SysTickStep ==
  ASSUME TInv, SysTick
  PROVE  /\ TInv' /\ list' = list
         /\ isr' = "none" => \A t \in Timer : Contains(list', t) => Rem'[t] > 0
<1>1. /\ isr = "none" /\ (\A t \in Timer : ~Late(t)) /\ tick' = (tick + 1) % TickRange
      /\ list' = list /\ timeout_tick' = timeout_tick /\ pc' = pc
      /\ init_tick' = init_tick /\ periodic' = periodic /\ activated' = activated
      /\ isr' = IF DueHead(list, tick') THEN "check" ELSE "none"
  BY DEF SysTick, fields
<1>2. tick' \in 0 .. TICK_MAX
  <2>1. tick \in Int /\ 0 <= tick /\ tick < TickRange
    BY TimerFacts, Numbers
  <2>2. tick' = IF tick + 1 < TickRange THEN tick + 1 ELSE tick + 1 - TickRange
    BY <1>1, <2>1, Numbers, Reduced
  <2> QED BY <2>1, <2>2, Numbers
<1>3. TimerTypeOK'
  <2>1. isr' \in {"none", "check"}
    BY <1>1
  <2> QED BY <1>1, <1>2, <2>1 DEF TInv, TimerTypeOK
<1>4. ASSUME NEW t \in Timer, Near(Rem[t], MaxLate)
      PROVE  Rem'[t] = Rem[t] - 1 /\ Near(Rem'[t], MaxLate + 1)
  <2>1. /\ timeout_tick[t] \in 0 .. TICK_MAX /\ tick \in 0 .. TICK_MAX
        /\ Rem[t] = Left(timeout_tick[t], tick) /\ Rem[t] \in Int
    BY TimerFacts
  <2>2. PICK n \in InitTicks : Rem[t] <= n
    BY <1>4 DEF Near
  <2>3. -MaxLate <= Rem[t]
    BY <1>4 DEF Near
  <2>4. n \in Nat /\ 1 <= n /\ n + MaxLate < Half
    BY Numbers
  <2>5. Half - TickRange < Rem[t]
    BY <2>1, <2>3, <2>4, Numbers
  <2>6. Left(timeout_tick[t], tick') = Rem[t] - 1
    BY <1>1, <2>1, <2>5, LeftTick
  <2>7. Rem'[t] = Left(timeout_tick'[t], tick')
    BY DEF Rem
  <2>8. Rem'[t] = Rem[t] - 1
    BY <1>1, <2>6, <2>7
  <2>9. Rem'[t] <= n /\ -(MaxLate + 1) <= Rem'[t]
    BY <2>1, <2>2, <2>3, <2>4, <2>8, Numbers
  <2> QED BY <2>8, <2>9 DEF Near
<1>5. \A t \in Timer : Contains(list, t) => Near(Rem[t], MaxLate)
  BY <1>1 DEF TInv, Lateness
<1>6. SortedBy(Rem', list')
  <2>1. \A j \in 1 .. Len(list) : /\ list[j] \in Timer /\ Rem[list[j]] \in Int
                                  /\ Rem'[list[j]] = Rem[list[j]] - 1
    BY <1>4, <1>5, TimerFacts
  <2>2. SortedBy(Rem, list)
    BY DEF TInv
  <2> QED BY <1>1, <2>1, <2>2 DEF SortedBy
<1>7. ASSUME NEW t \in Timer, pc'[t] = "start_insert" PROVE Near(Rem'[t], MaxLate)
  <2>1. pc[t] = "start_insert" /\ Near(Rem[t], MaxLate)
    BY <1>1, <1>7 DEF TInv
  <2>2. (tick - timeout_tick[t]) % TickRange # MaxLate
    BY <1>1, <2>1 DEF Late
  <2>3. /\ timeout_tick[t] \in 0 .. TICK_MAX /\ tick \in 0 .. TICK_MAX
        /\ Rem[t] = Left(timeout_tick[t], tick) /\ Rem[t] \in Int
    BY TimerFacts
  <2>4. PICK n \in InitTicks : Rem[t] <= n
    BY <2>1 DEF Near
  <2>5. n \in Nat /\ 1 <= n /\ n + MaxLate < Half /\ -MaxLate <= Rem[t]
    BY <2>1, Numbers DEF Near
  <2>6. Rem[t] # -MaxLate
    <3> SUFFICES ASSUME Rem[t] = -MaxLate PROVE FALSE
      OBVIOUS
    <3>1. /\ timeout_tick[t] - tick \in {Rem[t], Rem[t] + TickRange, Rem[t] - TickRange}
          /\ timeout_tick[t] \in Int /\ tick \in Int
      <4>1. timeout_tick[t] \in Int /\ tick \in Int
        BY <2>3, Numbers
      <4>2. timeout_tick[t] - tick \in {Left(timeout_tick[t], tick),
              Left(timeout_tick[t], tick) + TickRange, Left(timeout_tick[t], tick) - TickRange}
        BY <2>3, LeftFacts
      <4> QED BY <2>3, <4>1, <4>2
    <3> DEFINE d == tick - timeout_tick[t]
    <3>2. d \in {MaxLate, MaxLate - TickRange, MaxLate + TickRange} /\ d \in Int
      BY <2>3, <3>1, Numbers
    <3>3. MaxLate \in Nat /\ MaxLate < TickRange /\ TickRange \in Nat
      BY <2>5, Numbers
    <3> HIDE DEF d
    <3>4. d % TickRange = MaxLate
      BY <3>2, <3>3, Reduced
    <3> QED BY <2>2, <3>4 DEF d
  <2>7. Rem'[t] = Rem[t] - 1
    BY <1>4, <2>1
  <2>8. -MaxLate <= Rem'[t] /\ Rem'[t] <= n
    BY <2>3, <2>4, <2>5, <2>6, <2>7, Numbers
  <2> QED BY <2>8 DEF Near
\* What the head of the list says.
<1>8. /\ list' \in Seq(Timer) /\ timeout_tick' \in [Timer -> 0 .. TICK_MAX]
      /\ Rem' = [t \in Timer |-> Left(timeout_tick'[t], tick')]
      /\ \A t \in Timer : Contains(list', t) => Near(Rem'[t], MaxLate + 1)
  BY <1>1, <1>4, <1>5, TimerFacts DEF Rem
<1> DEFINE due == list' # << >> /\ (tick' - timeout_tick'[Head(list')]) % TickRange < Half
<1>9. /\ due => list' # << >> /\ Rem'[Head(list')] <= 0
      /\ ~due => \A t \in Timer : Contains(list', t) => Rem'[t] > 0 /\ Near(Rem'[t], MaxLate)
  BY <1>2, <1>6, <1>8, CheckFacts
<1>10. isr' = IF due THEN "check" ELSE "none"
  BY <1>1 DEF DueHead, Expired, Half
<1> HIDE DEF due
<1>11. \A t \in Timer : Contains(list', t) =>
         pc'[t] \in {"run", "stop_remove"} /\ Near(Rem'[t], Lateness')
  <2>1. \A t \in Timer : Contains(list', t) => pc'[t] \in {"run", "stop_remove"}
    BY <1>1 DEF TInv
  <2>2. CASE due
    <3>1. Lateness' = MaxLate + 1
      BY <1>10, <2>2 DEF Lateness
    <3> QED BY <1>8, <2>1, <3>1
  <2>3. CASE ~due
    <3>1. Lateness' = MaxLate
      BY <1>10, <2>3 DEF Lateness
    <3> QED BY <1>9, <2>1, <2>3, <3>1
  <2> QED BY <2>2, <2>3
<1>12. IsInjective(list')
  BY <1>1 DEF TInv
<1>13. isr' = "check" => list' # << >> /\ Rem'[Head(list')] <= 0
  BY <1>9, <1>10
<1>14. TInv'
  BY <1>3, <1>6, <1>7, <1>11, <1>12, <1>13 DEF TInv
<1>15. isr' = "none" => \A t \in Timer : Contains(list', t) => Rem'[t] > 0
  BY <1>9, <1>10
<1> QED BY <1>1, <1>14, <1>15

\* A turn of the loop of rt_timer_check: the timer at the head, which is due, leaves the
\* list or gets its new place in it; the loop ends when nothing that is due is left.
LEMMA ExpireStep ==
  ASSUME TInv, NEW cb, Expire(cb)
  PROVE  /\ TInv' /\ Rem[Head(list)] <= 0
         /\ \A x : Contains(list', x) => Contains(list, x)
         /\ isr' = "none" => \A t \in Timer : Contains(list', t) => Rem'[t] > 0
         /\ \A x \in Timer : x # Head(list) =>
              (Contains(list', x) <=> Contains(list, x)) /\ activated'[x] = activated[x]
         /\ cb # "start" => (activated'[Head(list)] <=> Contains(list', Head(list)))
<1> DEFINE hd == Head(list)
<1>1. /\ isr = "check" /\ tick' = tick /\ pc' = pc /\ init_tick' = init_tick
      /\ periodic' = periodic /\ list # << >> /\ Rem[hd] <= 0
  BY DEF Expire, fields, TInv
<1>2. hd \in Timer /\ Contains(list, hd)
  <2>1. list \in Seq(Timer)
    BY TimerFacts
  <2>2. 1 \in 1 .. Len(list) /\ hd = list[1]
    BY <1>1, <2>1
  <2> QED BY <2>2, TimerFacts
<1>3. PICK t \in Timer : t = hd
  BY <1>2
<1>4. Contains(list, t) /\ Rem[t] <= 0
  BY <1>1, <1>2, <1>3
<1> DEFINE next == (tick + init_tick[t]) % TickRange
           rest == Unlink(list, t)
           run  == IF cb = "start" THEN Inserted(rest, t, next) ELSE rest
           flag == cb = "start" \/ (activated[t] /\ cb # "stop")
           again == cb = "start" \/ Rearmed(t, flag)
<1>5. /\ list' = IF Rearmed(t, flag) THEN Inserted(Unlink(run, t), t, next) ELSE run
      /\ timeout_tick' = IF again THEN [timeout_tick EXCEPT ![t] = next]
                         ELSE [timeout_tick EXCEPT ![t] = 0]
      /\ activated' = [activated EXCEPT ![t] = Rearmed(t, flag)]
      /\ isr' = IF list' # << >> /\ (tick - timeout_tick'[Head(list')]) % TickRange
                                      < TICK_MAX \div 2
                THEN "check" ELSE "none"
  BY <1>3 DEF Expire, Forget
<1>6. next \in 0 .. TICK_MAX /\ Left(next, tick) = init_tick[t] /\ init_tick[t] \in InitTicks
  <2>1. tick \in 0 .. TICK_MAX /\ init_tick[t] \in InitTicks
    BY TimerFacts
  <2> QED BY <2>1, LeftStart
<1>7. /\ rest \in Seq(Timer) /\ IsInjective(rest) /\ SortedBy(Rem, rest)
      /\ \A x : Contains(rest, x) <=> Contains(list, x) /\ x # t
  BY TimerFacts, UnlinkFacts DEF TInv
<1> HIDE DEF hd, next, rest, flag
<1>8. timeout_tick' \in [Timer -> 0 .. TICK_MAX]
  BY <1>5, <1>6, TimerFacts, Numbers
<1>9. /\ \A x \in Timer \ {t} : timeout_tick'[x] = timeout_tick[x] /\ Rem'[x] = Rem[x]
      /\ Rem' \in [Timer -> Int] /\ Rem' = [x \in Timer |-> Left(timeout_tick'[x], tick')]
      /\ again => Rem'[t] = init_tick[t]
  <2>1. \A x \in Timer \ {t} : timeout_tick'[x] = timeout_tick[x]
    BY <1>5, TimerFacts
  <2>2. Rem' = [x \in Timer |-> Left(timeout_tick'[x], tick')]
    BY DEF Rem
  <2>3. \A x \in Timer : Rem'[x] = Left(timeout_tick'[x], tick)
    BY <1>1, <2>2
  <2>4. \A x \in Timer \ {t} : Rem'[x] = Rem[x]
    BY <2>1, <2>3, TimerFacts
  <2>5. \A x \in Timer : Rem'[x] \in Int
    <3>1. \A x \in Timer : timeout_tick'[x] \in 0 .. TICK_MAX
      BY <1>8
    <3>2. tick \in 0 .. TICK_MAX
      BY TimerFacts
    <3> QED BY <2>3, <3>1, <3>2, LeftFacts
  <2>6. Rem' \in [Timer -> Int]
    BY <2>2, <2>5
  <2>7. again => timeout_tick'[t] = next
    BY <1>5, TimerFacts
  <2>8. again => Rem'[t] = init_tick[t]
    BY <1>6, <2>3, <2>7
  <2> QED BY <2>1, <2>2, <2>4, <2>6, <2>8
<1> HIDE DEF again
\* Any list of the other timers, in order, takes the timer at its right place.
<1>10. ASSUME NEW s \in Seq(Timer), IsInjective(s), SortedBy(Rem', s), again,
              \A x : Contains(s, x) <=> Contains(list, x) /\ x # t
       PROVE  Linked(Rem', s, Inserted(s, t, next), t)
  <2>1. ASSUME NEW j \in 1 .. Len(s)
        PROVE  After(timeout_tick[s[j]], next) <=> Rem'[s[j]] > Rem'[t]
    <3>0. Contains(s, s[j]) /\ s[j] \in Timer
      BY DEF Contains
    <3>1. PICK u \in Timer \ {t} : u = s[j] /\ Contains(list, u)
      BY <1>10, <3>0
    <3>2. Near(Rem[u], MaxLate + 1) /\ Rem[u] = Left(timeout_tick[u], tick)
      BY <3>1, TimerFacts
    <3>3. Near(init_tick[t], MaxLate)
      BY <1>6, NearStart
    <3>4. timeout_tick[u] \in 0 .. TICK_MAX /\ tick \in 0 .. TICK_MAX
      BY TimerFacts
    <3>5. After(timeout_tick[u], next) <=> Rem[u] > init_tick[t]
      BY <1>6, <3>2, <3>3, <3>4, NearAfter
    <3> QED BY <1>9, <1>10, <3>1, <3>5
  <2>2. Agrees(Rem', s, t, next)
    BY <2>1 DEF Agrees
  <2>3. ~Contains(s, t)
    BY <1>10
  <2> QED BY <1>9, <1>10, <2>2, <2>3, InsertedFacts
<1>11. SortedBy(Rem', rest)
  <2>1. \A j \in 1 .. Len(rest) : rest[j] \in Timer \ {t}
    BY <1>7 DEF Contains
  <2> QED BY <1>7, <1>9, <2>1 DEF SortedBy
<1>12. /\ list' \in Seq(Timer) /\ IsInjective(list') /\ SortedBy(Rem', list')
       /\ \A x : Contains(list', x) => Contains(list, x)
       /\ Contains(list', t) <=> again
       /\ \A x \in Timer \ {t} : Contains(list', x) <=> Contains(list, x)
  <2>1. CASE ~again
    <3>1. list' = rest
      BY <1>5, <2>1 DEF again
    <3>2. ~Contains(list', t) /\ \A x : Contains(list', x) <=> Contains(list, x) /\ x # t
      BY <1>7, <3>1
    <3>3. list' \in Seq(Timer) /\ IsInjective(list') /\ SortedBy(Rem', list')
      BY <1>7, <1>11, <3>1
    <3> QED BY <2>1, <3>2, <3>3
  <2>2. CASE again /\ ~Rearmed(t, flag)
    <3>1. list' = Inserted(rest, t, next)
      BY <1>5, <2>2 DEF again
    <3>2. Linked(Rem', rest, list', t)
      BY <1>7, <1>10, <1>11, <2>2, <3>1
    <3> QED BY <1>4, <1>7, <2>2, <3>2 DEF Linked
  <2>3. CASE Rearmed(t, flag)
    <3>0. again
      BY <2>3 DEF again
    <3>1. /\ run \in Seq(Timer) /\ IsInjective(run) /\ SortedBy(Rem', run)
          /\ \A x \in Timer \ {t} : Contains(run, x) <=> Contains(list, x)
          /\ \A x : Contains(run, x) => Contains(list, x)
      <4>1. CASE cb = "start"
        <5>1. Linked(Rem', rest, Inserted(rest, t, next), t)
          BY <1>7, <1>10, <1>11, <3>0
        <5>2. run = Inserted(rest, t, next)
          BY <4>1
        <5> QED BY <1>4, <1>7, <5>1, <5>2 DEF Linked
      <4>2. CASE cb # "start"
        <5>1. run = rest
          BY <4>2
        <5> QED BY <1>7, <1>11, <5>1
      <4> QED BY <4>1, <4>2
    <3> DEFINE s == Unlink(run, t)
    <3>2. list' = Inserted(s, t, next)
      BY <1>5, <2>3
    <3> HIDE DEF run
    <3>3. /\ s \in Seq(Timer) /\ IsInjective(s) /\ SortedBy(Rem', s)
          /\ \A x : Contains(s, x) <=> Contains(run, x) /\ x # t
      BY <3>1, UnlinkFacts
    <3> HIDE DEF s
    <3>4. \A x : Contains(s, x) <=> Contains(list, x) /\ x # t
      <4>1. \A x : Contains(list, x) => x \in Timer
        BY TimerFacts DEF Contains
      <4> QED BY <3>1, <3>3, <4>1
    <3>5. Linked(Rem', s, list', t)
      BY <1>10, <3>0, <3>2, <3>3, <3>4
    <3> QED BY <1>4, <3>0, <3>4, <3>5 DEF Linked
  <2> QED BY <2>1, <2>2, <2>3
<1>13. \A x \in Timer : Contains(list', x) => Near(Rem'[x], MaxLate + 1)
  <2>1. again => Near(Rem'[t], MaxLate + 1)
    BY <1>6, <1>9, NearStart
  <2> QED BY <1>9, <1>12, <2>1, TimerFacts
<1> DEFINE due == list' # << >> /\ (tick' - timeout_tick'[Head(list')]) % TickRange < Half
<1>14. tick' \in 0 .. TICK_MAX
  BY <1>1, TimerFacts
<1>15. /\ due => list' # << >> /\ Rem'[Head(list')] <= 0
       /\ ~due => \A x \in Timer : Contains(list', x) => Rem'[x] > 0 /\ Near(Rem'[x], MaxLate)
  BY <1>8, <1>9, <1>12, <1>13, <1>14, CheckFacts
<1>16. isr' = IF due THEN "check" ELSE "none"
  BY <1>1, <1>5 DEF Half
<1> HIDE DEF due
<1>17. TimerTypeOK'
  <2>1. activated' \in [Timer -> BOOLEAN]
    <3>1. Rearmed(t, flag) \in BOOLEAN
      BY DEF Rearmed
    <3> QED BY <1>5, <3>1 DEF TInv, TimerTypeOK
  <2>2. isr' \in {"none", "check"}
    BY <1>16
  <2> QED BY <1>1, <1>8, <1>12, <1>14, <2>1, <2>2 DEF TInv, TimerTypeOK
<1>18. \A x \in Timer : Contains(list', x) =>
         pc'[x] \in {"run", "stop_remove"} /\ Near(Rem'[x], Lateness')
  <2>1. \A x \in Timer : Contains(list', x) => pc'[x] \in {"run", "stop_remove"}
    BY <1>1, <1>12 DEF TInv
  <2>2. CASE due
    <3>1. Lateness' = MaxLate + 1
      BY <1>16, <2>2 DEF Lateness
    <3> QED BY <1>13, <2>1, <3>1
  <2>3. CASE ~due
    <3>1. Lateness' = MaxLate
      BY <1>16, <2>3 DEF Lateness
    <3> QED BY <1>15, <2>1, <2>3, <3>1
  <2> QED BY <2>2, <2>3
<1>19. ASSUME NEW x \in Timer, pc'[x] = "start_insert" PROVE Near(Rem'[x], MaxLate)
  <2>1. pc[x] = "start_insert" /\ pc[t] # "start_insert"
    BY <1>1, <1>4, <1>19 DEF TInv
  <2> QED BY <1>9, <2>1 DEF TInv
<1>20. isr' = "check" => list' # << >> /\ Rem'[Head(list')] <= 0
  BY <1>15, <1>16
<1>21. TInv'
  BY <1>12, <1>17, <1>18, <1>19, <1>20 DEF TInv
<1>22. isr' = "none" => \A x \in Timer : Contains(list', x) => Rem'[x] > 0
  BY <1>15, <1>16
<1>23. /\ \A x \in Timer \ {t} : activated'[x] = activated[x]
       /\ activated'[t] = Rearmed(t, flag)
  BY <1>5 DEF TInv, TimerTypeOK
<1>24. \A x \in Timer : x # hd =>
         (Contains(list', x) <=> Contains(list, x)) /\ activated'[x] = activated[x]
  BY <1>3, <1>12, <1>23
<1>25. cb # "start" => (activated'[hd] <=> Contains(list', hd))
  BY <1>3, <1>12, <1>23 DEF again
<1> QED BY <1>1, <1>12, <1>21, <1>22, <1>24, <1>25 DEF hd

-----------------------------------------------------------------------------
(* The theorems.                                                             *)

\* Nothing is linked at the start.
LEMMA TimerInit == Init => TInv
<1> SUFFICES ASSUME Init PROVE TInv
  OBVIOUS
<1>1. TimerTypeOK /\ list = << >> /\ isr = "none"
  <2>1. 0 \in 0 .. TICK_MAX
    BY Numbers
  <2> QED BY <2>1 DEF Init, TimerTypeOK
<1>2. (\A t \in Timer : ~Contains(list, t)) /\ IsInjective(list) /\ SortedBy(Rem, list)
  BY <1>1 DEF Contains, IsInjective, SortedBy
<1>3. \A t \in Timer : pc[t] # "start_insert"
  BY DEF Init
<1> QED BY <1>1, <1>2, <1>3 DEF TInv

\* Every step of timer.c keeps the invariant.
LEMMA TimerNext == TInv /\ [Next]_vars => TInv'
<1> SUFFICES ASSUME TInv, [Next]_vars PROVE TInv'
  OBVIOUS
<1>1. CASE SysTick
  BY <1>1, SysTickStep
<1>2. CASE \E cb \in Callbacks : Expire(cb)
  BY <1>2, ExpireStep
<1>3. ASSUME NEW t \in Timer, StartRemove(t) \/ StopRemove(t) PROVE TInv'
  BY <1>3, UnlinkStep
<1>4. ASSUME NEW t \in Timer, StartTick(t) \/ StopTest(t) \/ StopFlag(t) \/ Control(t) PROVE TInv'
  BY <1>4, QuietStep
<1>5. ASSUME NEW t \in Timer, StartInsert(t) PROVE TInv'
  BY <1>5, InsertStep
<1>6. CASE UNCHANGED vars
  <2>1. Rem' = Rem /\ Lateness' = Lateness
    BY <1>6 DEF vars, Rem, Lateness
  <2>2. TimerTypeOK'
    BY <1>6 DEF vars, TimerTypeOK, TInv
  <2> QED BY <1>6, <2>1, <2>2 DEF vars, TInv
<1> QED BY <1>1, <1>2, <1>3, <1>4, <1>5, <1>6 DEF Next

\* The invariant of the timer list holds for any number of timers, whatever the range
\* of the tick counter (timer.c:311-420).
THEOREM TimerInvariance == Spec => []TInv
BY TimerInit, TimerNext, PTL DEF Spec

\* What Remaining computes.
LEMMA RemainingRem ==
  ASSUME NEW t \in Timer
  PROVE  Remaining(t) = Rem[t] /\ Remaining(t)' = Rem'[t]
BY DEF Remaining, Left, Half, Rem

\* The timer list is sorted by the ticks that are really left, across the wrap-around of
\* rt_tick: rt_timer_check may stop at the first timer that is not due (timer.c:507-547).
THEOREM TimerSorted == Spec => []Sorted
<1>1. TInv => Sorted
  <2> SUFFICES ASSUME TInv PROVE Sorted
    OBVIOUS
  <2>1. \A i, j \in 1 .. Len(list) : i < j => Remaining(list[i]) <= Remaining(list[j])
    <3>1. \A i \in 1 .. Len(list) : Remaining(list[i]) = Rem[list[i]]
      BY TimerFacts, RemainingRem
    <3>2. \A i, j \in 1 .. Len(list) : i < j => Rem[list[i]] <= Rem[list[j]]
      BY DEF TInv, SortedBy
    <3> QED BY <3>1, <3>2
  <2> QED BY <2>1 DEF Sorted, TInv
<1> QED BY <1>1, TimerInvariance, PTL

\* The set of the elements of a list.
LEMMA ToSetContains == ASSUME NEW s, NEW x PROVE x \in ToSet(s) <=> Contains(s, x)
BY DEF ToSet, Contains

\* The tick interrupt misses no timer and calls none early, whatever happens between two
\* ticks, and also when the tick counter wraps around (timer.c:516).
THEOREM TimerPunctual == Spec => Punctual
<1> DEFINE A == /\ (isr = "check" \/ tick' # tick) /\ isr' = "none" =>
                     \A t \in ToSet(list') : Remaining(t)' > 0
                /\ isr = "check" => Remaining(Head(list)) <= 0
<1>1. TInv /\ TInv' /\ [Next]_vars => [A]_vars
  <2> SUFFICES ASSUME TInv, TInv', Next PROVE A
    OBVIOUS
  <2>1. \A t \in ToSet(list') : t \in Timer /\ Contains(list', t)
    <3>1. list' \in Seq(Timer)
      BY DEF TInv, TimerTypeOK
    <3>2. \A t : Contains(list', t) => t \in Timer
      BY <3>1 DEF Contains
    <3> QED BY <3>2, ToSetContains
  <2>2. CASE SysTick
    <3>1. isr = "none"
      BY <2>2 DEF SysTick
    <3>2. isr' = "none" => \A t \in ToSet(list') : Rem'[t] > 0
      BY <2>1, <2>2, SysTickStep
    <3> QED BY <2>1, <3>1, <3>2, RemainingRem
  <2>3. CASE \E cb \in Callbacks : Expire(cb)
    <3>1. isr' = "none" => \A t \in ToSet(list') : Rem'[t] > 0
      BY <2>1, <2>3, ExpireStep
    <3>2. Rem[Head(list)] <= 0
      BY <2>3, ExpireStep
    <3>3. PICK h \in Timer : h = Head(list)
      BY <2>3 DEF Expire, TInv, TimerTypeOK
    <3>4. Remaining(h) <= 0
      BY <3>2, <3>3, RemainingRem
    <3> QED BY <2>1, <3>1, <3>3, <3>4, RemainingRem
  <2>4. ASSUME NEW t \in Timer, \/ StartRemove(t) \/ StartTick(t) \/ StartInsert(t)
                                \/ StopTest(t) \/ StopRemove(t) \/ StopFlag(t) \/ Control(t)
        PROVE  isr = "none" /\ tick' = tick
    BY <2>4 DEF StartRemove, StartTick, StartInsert, StopTest, StopRemove, StopFlag, Control, Move
  <2> QED BY <2>2, <2>3, <2>4 DEF Next
<1> QED BY <1>1, TimerInvariance, PTL DEF Spec, Punctual

\* A timer that is started expires after those, already on the list, that expire at the
\* same tick: "the timer inserted early get called early" (timer.c:355).
THEOREM TimerEarlyFirst == Spec => EarlyFirst
<1> DEFINE A == \A t \in ToSet(list') \ ToSet(list) :
                  \A u \in ToSet(list) \cap ToSet(list') :
                    timeout_tick'[u] = timeout_tick'[t] =>
                      \E i, j \in 1 .. Len(list') : i < j /\ list'[i] = u /\ list'[j] = t
<1>1. TInv /\ [Next]_vars => [A]_vars
  <2> SUFFICES ASSUME TInv, Next PROVE A
    OBVIOUS
  <2>1. CASE SysTick \/ \E cb \in Callbacks : Expire(cb)
    <3>1. \A x : Contains(list', x) => Contains(list, x)
      BY <2>1, SysTickStep, ExpireStep
    <3> QED BY <3>1, ToSetContains
  <2>2. ASSUME NEW t \in Timer, \/ StartRemove(t) \/ StopRemove(t) \/ StartTick(t)
                                \/ StopTest(t) \/ StopFlag(t) \/ Control(t)
        PROVE  A
    <3>1. \A x : Contains(list', x) => Contains(list, x)
      BY <2>2, UnlinkStep, QuietStep
    <3> QED BY <3>1, ToSetContains
  <2>3. ASSUME NEW t \in Timer, StartInsert(t) PROVE A
    <3>1. PICK j \in 1 .. Len(list') :
            /\ list'[j] = t
            /\ \A i \in 1 .. Len(list) : Rem[list[i]] <= Rem[t] =>
                 i < j /\ i \in 1 .. Len(list') /\ list'[i] = list[i]
      BY <2>3, InsertStep
    <3>2. \A x : Contains(list', x) <=> Contains(list, x) \/ x = t
      BY <2>3, InsertStep
    <3>3. timeout_tick' = timeout_tick
      BY <2>3 DEF StartInsert
    <3> SUFFICES ASSUME NEW u, Contains(list, u), timeout_tick'[u] = timeout_tick'[t]
                 PROVE  \E a, b \in 1 .. Len(list') : a < b /\ list'[a] = u /\ list'[b] = t
      BY <3>2, ToSetContains
    <3>4. PICK i \in 1 .. Len(list) : list[i] = u
      BY DEF Contains
    <3>5. u \in Timer /\ Rem[u] = Rem[t] /\ Rem[t] \in Int
      BY <3>3, <3>4, TimerFacts
    <3>6. i < j /\ i \in 1 .. Len(list') /\ list'[i] = u /\ list'[j] = t
      BY <3>1, <3>4, <3>5
    <3> QED BY <3>1, <3>6
  <2> QED BY <2>1, <2>2, <2>3 DEF Next
<1> QED BY <1>1, TimerInvariance, PTL DEF Spec, EarlyFirst

\* RT_TIMER_FLAG_ACTIVATED tells rt_timer_stop whether the timer is linked (timer.c:430),
\* as long as no timer function starts its own timer: the loop of rt_timer_check clears
\* the flag of a one-shot timer behind its back (timer.c:541).
THEOREM TimerFlagTellsLinked ==
  ASSUME "start" \notin Callbacks
  PROVE  Spec => []FlagTellsLinked
<1> DEFINE F == \A t \in Timer : pc[t] = "run" => (activated[t] <=> Contains(list, t))
<1>1. F <=> FlagTellsLinked
  BY ToSetContains DEF FlagTellsLinked
<1>2. Init => F
  BY DEF Init, Contains
<1>3. TInv /\ F /\ [Next]_vars => F'
  <2> SUFFICES ASSUME TInv, F, [Next]_vars PROVE F'
    OBVIOUS
  <2>1. CASE SysTick
    BY <2>1, SysTickStep DEF SysTick
  <2>2. ASSUME NEW cb \in Callbacks, Expire(cb) PROVE F'
    <3>1. cb # "start" /\ pc' = pc
      BY <2>2 DEF Expire
    <3>2. /\ \A x \in Timer : x # Head(list) =>
               (Contains(list', x) <=> Contains(list, x)) /\ activated'[x] = activated[x]
          /\ activated'[Head(list)] <=> Contains(list', Head(list))
      BY <2>2, <3>1, ExpireStep
    <3> QED BY <3>1, <3>2
  <2>3. ASSUME NEW t \in Timer, StartRemove(t) \/ StopRemove(t) PROVE F'
    <3>1. \A x : Contains(list', x) <=> Contains(list, x) /\ x # t
      BY <2>3, UnlinkStep
    <3>2. pc'[t] # "run" /\ \A x \in Timer \ {t} : pc'[x] = pc[x] /\ activated'[x] = activated[x]
      BY <2>3 DEF StartRemove, StopRemove, Move, TInv, TimerTypeOK
    <3> QED BY <3>1, <3>2
  <2>4. ASSUME NEW t \in Timer, StartTick(t) \/ StopTest(t) \/ StopFlag(t) \/ Control(t) PROVE F'
    <3>1. list' = list
      BY <2>4, QuietStep
    <3>2. \A x \in Timer \ {t} : pc'[x] = pc[x] /\ activated'[x] = activated[x]
      BY <2>4 DEF StartTick, StopTest, StopFlag, Control, Move, TInv, TimerTypeOK
    <3>3. CASE StartTick(t) \/ StopTest(t)
      <4>1. pc'[t] # "run"
        BY <3>3 DEF StartTick, StopTest, Move, TInv, TimerTypeOK
      <4> QED BY <3>1, <3>2, <4>1
    <3>4. CASE StopFlag(t)
      <4>1. ~activated'[t] /\ ~Contains(list, t)
        BY <3>4 DEF StopFlag, Move, TInv, TimerTypeOK
      <4> QED BY <3>1, <3>2, <4>1
    <3>5. CASE Control(t)
      BY <3>1, <3>5 DEF Control, Move, TInv, TimerTypeOK
    <3> QED BY <2>4, <3>3, <3>4, <3>5
  <2>5. ASSUME NEW t \in Timer, StartInsert(t) PROVE F'
    <3>1. \A x : Contains(list', x) <=> Contains(list, x) \/ x = t
      BY <2>5, InsertStep
    <3>2. activated'[t] /\ \A x \in Timer \ {t} : pc'[x] = pc[x] /\ activated'[x] = activated[x]
      BY <2>5 DEF StartInsert, Move, TInv, TimerTypeOK
    <3> QED BY <3>1, <3>2
  <2>6. CASE UNCHANGED vars
    BY <2>6 DEF vars
  <2> QED BY <2>1, <2>2, <2>3, <2>4, <2>5, <2>6 DEF Next
<1> HIDE DEF F
<1>4. Spec => []F
  BY <1>2, <1>3, TimerInvariance, PTL DEF Spec
<1> QED BY <1>1, <1>4, PTL

=============================================================================
