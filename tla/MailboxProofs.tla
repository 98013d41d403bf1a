--------------------------- MODULE MailboxProofs ---------------------------
(***************************************************************************)
(* The properties of Mailbox for any number of threads, any size of the    *)
(* ring, any mails, priorities and waiting times, and for both flags.      *)
(***************************************************************************)
EXTENDS Mailbox, KernelProofs

-----------------------------------------------------------------------------
(* The ring.                                                                *)

AnyMail == Mail \union IrqMail

\* A ring is what its count and its offsets say.
RingOK(pool, out, in, n) ==
  /\ pool \in [0 .. Size - 1 -> AnyMail \union {NoMail}]
  /\ n \in 0 .. Size /\ in \in 0 .. Size - 1 /\ out \in 0 .. Size - 1
  /\ in = (out + n) % Size
  /\ \A i \in 0 .. n - 1 : pool[(out + i) % Size] # NoMail
Ring == RingOK(msg_pool, out_offset, in_offset, entry)

\* The mails of a ring in the order of the sends, as in Promise.
MailsOf(pool, out, n) == [i \in 1 .. n |-> pool[(out + i - 1) % Size]]
Chan == MailsOf(msg_pool, out_offset, entry)

\* The slot that an offset that is not yet wrapped around stands for.
Slot(x) == IF x < Size THEN x ELSE x - Size

\* mb->size.
LEMMA SizeFacts == Size \in Nat /\ Size > 0
BY SizeAssumption

\* Where the offsets wrap around (ipc.c:1537, 1686).
LEMMA Wrapped ==
  ASSUME NEW x \in Int, 0 <= x, x < 2 * Size
  PROVE  x % Size = Slot(x) /\ Slot(x) \in 0 .. Size - 1
<1>1. Size \in Nat /\ Size > 0
  BY SizeFacts
<1>2. CASE x < Size
  BY <1>1, <1>2 DEF Slot
<1>3. CASE Size <= x
  BY <1>1, <1>3 DEF Slot
<1> QED BY <1>1, <1>2, <1>3

\* The slots of the mails of a ring, without the remainder.
LEMMA SlotOf ==
  ASSUME NEW o \in 0 .. Size - 1, NEW i \in 0 .. Size
  PROVE  (o + i) % Size = Slot(o + i) /\ Slot(o + i) \in 0 .. Size - 1
<1>1. o + i \in Int /\ 0 <= o + i /\ o + i < 2 * Size
  BY SizeFacts
<1> QED BY <1>1, Wrapped

\* The mails are a sequence of the length that entry says.
LEMMA MailsFacts ==
  ASSUME NEW P, NEW o, NEW j, NEW n, RingOK(P, o, j, n)
  PROVE  /\ MailsOf(P, o, n) \in Seq(AnyMail) /\ Len(MailsOf(P, o, n)) = n /\ n \in Nat
         /\ \A i \in 1 .. n : MailsOf(P, o, n)[i] = P[Slot(o + (i - 1))]
         /\ j = Slot(o + n) /\ \A i \in 0 .. n - 1 : P[Slot(o + i)] \in AnyMail
<1> DEFINE M == MailsOf(P, o, n)
<1>1. n \in Nat /\ n <= Size /\ o \in 0 .. Size - 1 /\ o \in Int /\ n \in 0 .. Size
  BY SizeFacts DEF RingOK
<1>2. ASSUME NEW i \in 0 .. n - 1 PROVE P[Slot(o + i)] \in AnyMail /\ (o + i) % Size = Slot(o + i)
  <2>1. i \in 0 .. Size
    BY <1>1, SizeFacts
  <2>2. (o + i) % Size = Slot(o + i) /\ Slot(o + i) \in 0 .. Size - 1
    BY <1>1, <2>1, SlotOf
  <2> QED BY <2>2 DEF RingOK
<1>3. ASSUME NEW i \in 1 .. n PROVE P[(o + i - 1) % Size] = P[Slot(o + (i - 1))] /\ P[(o + i - 1) % Size] \in AnyMail
  <2>1. i - 1 \in 0 .. n - 1 /\ o + (i - 1) = o + i - 1
    BY <1>1
  <2> QED BY <1>2, <2>1
<1>4. M \in [1 .. n -> AnyMail] /\ \A i \in 1 .. n : M[i] = P[Slot(o + (i - 1))]
  BY <1>3 DEF MailsOf
<1> HIDE DEF M
<1>5. M \in Seq(AnyMail) /\ Len(M) = n
  BY <1>1, <1>4, SeqDef
<1>6. j = Slot(o + n)
  <2>1. (o + n) % Size = Slot(o + n)
    BY <1>1, SlotOf
  <2> QED BY <2>1 DEF RingOK
<1> QED BY <1>1, <1>2, <1>4, <1>5, <1>6 DEF M

\* A ring in terms of slots.
LEMMA RingFromSlots ==
  ASSUME NEW P \in [0 .. Size - 1 -> AnyMail \union {NoMail}], NEW n \in 0 .. Size,
         NEW j \in 0 .. Size - 1, NEW o \in 0 .. Size - 1, j = Slot(o + n),
         \A i \in 0 .. n - 1 : P[Slot(o + i)] # NoMail
  PROVE  RingOK(P, o, j, n)
<1>1. (o + n) % Size = Slot(o + n)
  BY SlotOf
<1>2. ASSUME NEW i \in 0 .. n - 1 PROVE P[(o + i) % Size] # NoMail
  <2>1. i \in 0 .. Size
    BY SizeFacts
  <2>2. (o + i) % Size = Slot(o + i)
    BY <2>1, SlotOf
  <2> QED BY <2>2
<1> QED BY <1>1, <1>2 DEF RingOK

\* Two sequences with the same mails are the same.
LEMMA SameMails ==
  ASSUME NEW r \in Seq(AnyMail), NEW s \in Seq(AnyMail), Len(r) = Len(s),
         \A i \in 1 .. Len(s) : r[i] = s[i]
  PROVE  r = s
OBVIOUS

\* A mail that is put is the last one (ipc.c:1535-1541).
LEMMA RingPut ==
  ASSUME Ring, entry < Size, NEW m \in AnyMail, PutInRing(m)
  PROVE  Ring' /\ Chan' = Append(Chan, m)
<1> DEFINE P == msg_pool
           o == out_offset
           j == in_offset
           n == entry
           Q == [P EXCEPT ![j] = m]
           M == MailsOf(P, o, n)
           R == MailsOf(Q, o, n + 1)
<1>1. /\ RingOK(P, o, j, n) /\ P \in [0 .. Size - 1 -> AnyMail \union {NoMail}]
      /\ n \in 0 .. Size /\ j \in 0 .. Size - 1 /\ o \in 0 .. Size - 1 /\ n < Size
      /\ Size \in Nat /\ m \in AnyMail /\ m # NoMail
  BY SizeFacts, MailAssumption DEF Ring, RingOK, AnyMail
<1>2. /\ msg_pool' = Q /\ in_offset' = NextOffset(j) /\ entry' = n + 1 /\ out_offset' = o
  BY DEF PutInRing
<1> HIDE DEF P, o, j, n, Q, M, R
<1>3. /\ M \in Seq(AnyMail) /\ Len(M) = n /\ n \in Nat
      /\ \A i \in 1 .. n : M[i] = P[Slot(o + (i - 1))]
      /\ j = Slot(o + n) /\ \A i \in 0 .. n - 1 : P[Slot(o + i)] \in AnyMail
  BY <1>1, MailsFacts DEF M
<1>4. Q \in [0 .. Size - 1 -> AnyMail \union {NoMail}] /\ n + 1 \in 0 .. Size /\ NextOffset(j) \in 0 .. Size - 1
  BY <1>1 DEF Q, NextOffset
<1>5. NextOffset(j) = Slot(o + (n + 1))
  BY <1>1, <1>3 DEF NextOffset, Slot
<1>6. ASSUME NEW i \in 0 .. n
      PROVE  /\ i < n => Q[Slot(o + i)] = P[Slot(o + i)]
             /\ i = n => Q[Slot(o + i)] = m
  <2>1. Slot(o + i) \in 0 .. Size - 1
    BY <1>1, SlotOf
  <2>2. i < n => Slot(o + i) # j
    BY <1>1, <1>3 DEF Slot
  <2> QED BY <1>1, <1>3, <2>1, <2>2 DEF Q
<1>7. ASSUME NEW i \in 0 .. n PROVE Q[Slot(o + i)] # NoMail
  <2>1. CASE i < n
    <3>1. i \in 0 .. n - 1
      BY <1>1, <2>1
    <3> QED BY <1>3, <1>6, <2>1, <3>1, MailAssumption DEF AnyMail
  <2>2. CASE i = n
    BY <1>1, <1>6, <2>2
  <2> QED BY <1>1, <2>1, <2>2
<1>8. RingOK(Q, o, NextOffset(j), n + 1)
  <2>1. (n + 1) - 1 = n
    BY <1>1
  <2> QED BY <1>1, <1>4, <1>5, <1>7, <2>1, RingFromSlots
<1>9. /\ R \in Seq(AnyMail) /\ Len(R) = n + 1 /\ \A i \in 1 .. n + 1 : R[i] = Q[Slot(o + (i - 1))]
  BY <1>8, MailsFacts DEF R
<1>10. /\ Append(M, m) \in Seq(AnyMail) /\ Len(Append(M, m)) = n + 1
       /\ Append(M, m)[n + 1] = m /\ \A i \in 1 .. n : Append(M, m)[i] = M[i]
  BY <1>1, <1>3
<1>11. ASSUME NEW i \in 1 .. n + 1 PROVE R[i] = Append(M, m)[i]
  <2>1. i - 1 \in 0 .. n /\ R[i] = Q[Slot(o + (i - 1))]
    BY <1>1, <1>9
  <2>2. CASE i = n + 1
    <3>1. i - 1 = n
      BY <1>1, <2>2
    <3> QED BY <1>6, <1>10, <2>1, <2>2, <3>1
  <2>3. CASE i \in 1 .. n
    <3>1. i - 1 < n /\ M[i] = P[Slot(o + (i - 1))] /\ Append(M, m)[i] = M[i]
      BY <1>3, <1>10, <2>3
    <3>2. Q[Slot(o + (i - 1))] = P[Slot(o + (i - 1))]
      BY <1>6, <2>1, <3>1
    <3> QED BY <2>1, <3>1, <3>2
  <2> QED BY <1>1, <2>2, <2>3
<1>12. R = Append(M, m)
  BY <1>9, <1>10, <1>11, SameMails
<1> QED BY <1>2, <1>8, <1>12 DEF Ring, Chan, R, M, P, o, n

\* The mail that is taken is the first one (ipc.c:1683-1690).
LEMMA RingTake ==
  ASSUME Ring, entry > 0, TakeFromRing
  PROVE  /\ Ring' /\ Chan # << >> /\ Chan' = Tail(Chan)
         /\ Head(Chan) = msg_pool[out_offset] /\ msg_pool[out_offset] \in AnyMail
<1> DEFINE P == msg_pool
           o == out_offset
           j == in_offset
           n == entry
           q == NextOffset(o)
           Q == [P EXCEPT ![o] = NoMail]
           M == MailsOf(P, o, n)
           R == MailsOf(Q, q, n - 1)
<1>1. /\ RingOK(P, o, j, n) /\ P \in [0 .. Size - 1 -> AnyMail \union {NoMail}]
      /\ n \in 0 .. Size /\ j \in 0 .. Size - 1 /\ o \in 0 .. Size - 1 /\ n > 0 /\ Size \in Nat
  BY SizeFacts DEF Ring, RingOK
<1>2. /\ msg_pool' = Q /\ in_offset' = j /\ entry' = n - 1 /\ out_offset' = q
  BY DEF TakeFromRing
<1> HIDE DEF P, o, j, n, Q, M, R, q
<1>3. /\ M \in Seq(AnyMail) /\ Len(M) = n /\ n \in Nat
      /\ \A i \in 1 .. n : M[i] = P[Slot(o + (i - 1))]
      /\ j = Slot(o + n) /\ \A i \in 0 .. n - 1 : P[Slot(o + i)] \in AnyMail
  BY <1>1, MailsFacts DEF M
<1>4. Q \in [0 .. Size - 1 -> AnyMail \union {NoMail}] /\ n - 1 \in 0 .. Size /\ q \in 0 .. Size - 1
  BY <1>1 DEF Q, q, NextOffset
<1>5. j = Slot(q + (n - 1))
  BY <1>1, <1>3 DEF q, NextOffset, Slot
<1>6. ASSUME NEW i \in 0 .. n - 2 PROVE Q[Slot(q + i)] = P[Slot(o + (i + 1))]
  <2>1. Slot(q + i) = Slot(o + (i + 1)) /\ Slot(o + (i + 1)) # o
    BY <1>1 DEF q, NextOffset, Slot
  <2>2. i + 1 \in 0 .. Size
    BY <1>1
  <2>3. Slot(o + (i + 1)) \in 0 .. Size - 1
    BY <1>1, <2>2, SlotOf
  <2> QED BY <1>1, <2>1, <2>3 DEF Q
<1>7. ASSUME NEW i \in 0 .. (n - 1) - 1 PROVE Q[Slot(q + i)] # NoMail
  <2>1. i \in 0 .. n - 2 /\ i + 1 \in 0 .. n - 1
    BY <1>1
  <2> QED BY <1>3, <1>6, <2>1, MailAssumption DEF AnyMail
<1>8. RingOK(Q, q, j, n - 1)
  BY <1>1, <1>4, <1>5, <1>7, RingFromSlots
<1>9. /\ R \in Seq(AnyMail) /\ Len(R) = n - 1 /\ \A i \in 1 .. n - 1 : R[i] = Q[Slot(q + (i - 1))]
  BY <1>8, MailsFacts DEF R
<1>10. /\ M # << >> /\ Head(M) = M[1] /\ M[1] \in AnyMail /\ 1 \in 1 .. n
       /\ Tail(M) \in Seq(AnyMail) /\ Len(Tail(M)) = n - 1
       /\ \A i \in 1 .. n - 1 : Tail(M)[i] = M[i + 1]
  BY <1>1, <1>3
<1>11. M[1] = P[o]
  <2>1. Slot(o + (1 - 1)) = o
    BY <1>1 DEF Slot
  <2> QED BY <1>3, <1>10, <2>1
<1>12. ASSUME NEW i \in 1 .. n - 1 PROVE R[i] = Tail(M)[i]
  <2>1. i - 1 \in 0 .. n - 2 /\ (i - 1) + 1 = i /\ i + 1 \in 1 .. n /\ (i + 1) - 1 = i
    BY <1>1
  <2>2. R[i] = P[Slot(o + i)]
    BY <1>6, <1>9, <2>1
  <2>3. M[i + 1] = P[Slot(o + i)]
    BY <1>3, <2>1
  <2> QED BY <1>10, <2>2, <2>3
<1>13. R = Tail(M)
  BY <1>9, <1>10, <1>12, SameMails
<1> QED BY <1>2, <1>8, <1>10, <1>11, <1>13 DEF Ring, Chan, R, M, P, o, n

-----------------------------------------------------------------------------
(* The inductive invariant.                                                 *)

OpPlaces == SendPlaces \union RecvPlaces \union
              {"none", "recv_done", "delete", "delete_recv", "delete2", "delete_send"}

\* Who waits is inside the call that it waits for, and has no error yet: the one
\* who resumes it leaves thread->error alone (ipc.c:143-154).
Waiters ==
  \A w \in WaitList, t \in Thread : Contains(k.wait[w], t) =>
    /\ k.error[t] = "EOK"
    /\ (w = Receivers /\ op[t] = "recv_wait") \/ (w = Senders /\ op[t] = "send_wait")

\* A thread that sends keeps its mail until it is in the ring, and one that has
\* received has a mail.
Hands ==
  /\ mail \in [Thread -> AnyMail \union {NoMail}]
  /\ \A t \in Thread : /\ op[t] \in SendPlaces => mail[t] \in Mail
                       /\ op[t] = "recv_done" => mail[t] # NoMail

\* The threads and their calls.
Calling ==
  /\ IpcInv /\ Waiters /\ Hands
  /\ op \in [Thread -> OpPlaces] /\ op[Idle] = "none" /\ time \in [Thread -> Int]
  /\ alive \in BOOLEAN

MbInv == Calling /\ Ring /\ NoLostWakeup

\* The threads that were resumed, and what the receivers hold, as in Promise.
RComing == OnTheWay(Receivers, RecvPlaces)
SComing == OnTheWay(Senders, SendPlaces)
Hand == [t \in Thread |-> IF op[t] = "recv_done" THEN mail[t] ELSE NoMail]

PromiseStep == Promise!Next \/ UNCHANGED Promise!vars

\* What the invariant says of the kernel and of a thread on a list.
LEMMA MbFacts ==
  ASSUME MbInv
  PROVE  /\ k \in Kernel /\ KernelOK(k) /\ WaitsOK(k) /\ k.nest = 0
         /\ Receivers \in WaitList /\ Senders \in WaitList /\ Receivers # Senders
         /\ k.wait[Receivers] \in Seq(Thread) /\ k.wait[Senders] \in Seq(Thread)
         /\ k.cur \in Thread /\ k.error \in [Thread -> Error]
         /\ \A w \in WaitList, t \in Thread : Contains(k.wait[w], t) => k.stat[t] = "SUSPEND"
         /\ \A t \in Thread : Contains(k.defunct, t) => k.stat[t] # "SUSPEND"
         /\ entry \in 0 .. Size /\ time \in [Thread -> Int]
<1>1. /\ k \in Kernel /\ KernelOK(k) /\ WaitsOK(k) /\ k.nest = 0 /\ k.cur \in Thread
      /\ \A t \in Thread : Contains(k.defunct, t) => k.stat[t] # "SUSPEND"
  BY Types DEF MbInv, Calling, IpcInv, IInv, Waits, Defunct
<1>2. Receivers \in WaitList /\ Senders \in WaitList /\ Receivers # Senders
  BY MbListAssumption DEF Receivers, Senders
<1>3. /\ k.wait[Receivers] \in Seq(Thread) /\ k.wait[Senders] \in Seq(Thread)
      /\ k.error \in [Thread -> Error]
  BY <1>1, <1>2 DEF Kernel
<1>4. \A w \in WaitList, t \in Thread : Contains(k.wait[w], t) => k.stat[t] = "SUSPEND"
  BY <1>1 DEF WaitsOK
<1>5. entry \in 0 .. Size /\ time \in [Thread -> Int]
  BY DEF MbInv, Ring, RingOK, Calling
<1> QED BY <1>1, <1>2, <1>3, <1>4, <1>5

\* One side of the mailbox: threads wait only for what as many threads are on their
\* way to.
Kept1(w, n, places) ==
  \/ k'.wait[w] = << >> \/ n' <= 0
  \/ k.wait[w] # << >> /\ Fits(OnTheWay(w, places), OnTheWay(w, places)', n, n')

\* Nobody is forgotten as long as both sides change together with those who come.
LEMMA SidesOK ==
  ASSUME MbInv, entry' \in Int, alive' => alive,
         alive' => Kept1(Receivers, entry, RecvPlaces),
         alive' => Kept1(Senders, Size - entry, SendPlaces)
  PROVE  NoLostWakeup'
<1>1. entry \in Int /\ Size - entry \in Int /\ Size - entry' \in Int
  BY MbFacts, SizeFacts
<1>2. /\ RComing \in SUBSET Thread /\ RComing' \in SUBSET Thread
      /\ SComing \in SUBSET Thread /\ SComing' \in SUBSET Thread
  BY DEF RComing, SComing, OnTheWay
<1>3. /\ Cardinality(RComing') \in Nat /\ Cardinality(SComing') \in Nat
  BY <1>2, Counting
<1>4. ASSUME alive' PROVE NoneForgotten(Receivers, entry, RecvPlaces)'
  <2>1. CASE k'.wait[Receivers] = << >> \/ entry' <= 0
    BY <1>1, <1>3, <2>1 DEF NoneForgotten, RComing
  <2>2. CASE k.wait[Receivers] # << >> /\ Fits(RComing, RComing', entry, entry')
    <3>1. entry <= Cardinality(RComing)
      BY <1>4, <2>2 DEF MbInv, NoLostWakeup, NoneForgotten, RComing
    <3>2. entry' <= Cardinality(RComing')
      BY <1>1, <1>2, <2>2, <3>1, FitsOK
    <3> QED BY <3>2 DEF NoneForgotten, RComing
  <2> QED BY <1>4, <2>1, <2>2 DEF Kept1, RComing
<1>5. ASSUME alive' PROVE NoneForgotten(Senders, Size - entry, SendPlaces)'
  <2>1. CASE k'.wait[Senders] = << >> \/ Size - entry' <= 0
    BY <1>1, <1>3, <2>1 DEF NoneForgotten, SComing
  <2>2. CASE k.wait[Senders] # << >> /\ Fits(SComing, SComing', Size - entry, Size - entry')
    <3>1. Size - entry <= Cardinality(SComing)
      BY <1>5, <2>2 DEF MbInv, NoLostWakeup, NoneForgotten, SComing
    <3>2. Size - entry' <= Cardinality(SComing')
      BY <1>1, <1>2, <2>2, <3>1, FitsOK
    <3> QED BY <3>2 DEF NoneForgotten, SComing
  <2> QED BY <1>5, <2>1, <2>2 DEF Kept1, SComing
<1> QED BY <1>4, <1>5 DEF NoLostWakeup

\* A step of thread c changes nothing of the calls of the others.
OthersKept(c) == \A x \in Thread \ {c} : op'[x] = op[x] /\ mail'[x] = mail[x]

\* What the others see of the lists: nobody on its way is stopped.
NobodyStopped(c) ==
  Waiters' /\ RComing \ {c} \subseteq RComing' /\ SComing \ {c} \subseteq SComing'

\* A section that leaves the lists alone.
LEMMA SameLists ==
  ASSUME MbInv, NEW c \in Thread, ~Listed(k, c), OthersKept(c), k'.wait = k.wait,
         \A x \in Thread \ {c} : op[x] # "none" => k'.error[x] = k.error[x]
  PROVE  /\ NobodyStopped(c)
         /\ c \in RComing' <=> op'[c] \in RecvPlaces /\ k'.error[c] = "EOK"
         /\ c \in SComing' <=> op'[c] \in SendPlaces /\ k'.error[c] = "EOK"
<1>1. /\ \A w \in WaitList : ~Contains(k.wait[w], c)
      /\ Receivers \in WaitList /\ Senders \in WaitList
  BY MbFacts DEF Listed
<1>2. Waiters'
  BY <1>1 DEF MbInv, Calling, Waiters, OthersKept
<1>3. RComing \ {c} \subseteq RComing' /\ SComing \ {c} \subseteq SComing'
  BY DEF RComing, SComing, OnTheWay, Waiting, OthersKept, RecvPlaces, SendPlaces
<1>4. /\ c \in RComing' <=> op'[c] \in RecvPlaces /\ k'.error[c] = "EOK"
      /\ c \in SComing' <=> op'[c] \in SendPlaces /\ k'.error[c] = "EOK"
  BY <1>1 DEF RComing, SComing, OnTheWay, Waiting
<1> QED BY <1>2, <1>3, <1>4 DEF NobodyStopped

\* A thread leaves its list, or wakes up from a sleep.
LEMMA OneLeaves ==
  ASSUME MbInv, NEW c \in Thread, ~Listed(k, c), OthersKept(c),
         NEW t \in Thread, k.stat[t] = "SUSPEND", k'.wait = WaitWithout(k, t),
         \A x \in Thread \ {t} : k'.error[x] = k.error[x]
  PROVE  /\ NobodyStopped(c)
         /\ \A w \in WaitList : k.wait[w] = << >> => k'.wait[w] = << >>
         /\ Contains(k.wait[Receivers], t) =>
              t \notin RComing /\ (k'.error[t] = "EOK" => t \in RComing')
         /\ Contains(k.wait[Senders], t) =>
              t \notin SComing /\ (k'.error[t] = "EOK" => t \in SComing')
<1>1. k \in Kernel /\ WaitsOK(k) /\ Receivers \in WaitList /\ Senders \in WaitList
  BY MbFacts
<1>2. /\ \A w \in WaitList, x \in Thread : Contains(k'.wait[w], x) <=> Contains(k.wait[w], x) /\ x # t
      /\ \A w \in WaitList : k.wait[w] = << >> => k'.wait[w] = << >>
  <2>1. ASSUME NEW w \in WaitList
        PROVE  /\ \A x : Contains(k'.wait[w], x) <=> Contains(k.wait[w], x) /\ x # t
               /\ k.wait[w] = << >> => k'.wait[w] = << >>
    <3>1. k'.wait[w] = WaitWithout(k, t)[w]
      OBVIOUS
    <3>2. /\ \A x : Contains(WaitWithout(k, t)[w], x) <=> Contains(k.wait[w], x) /\ x # t
          /\ k.wait[w] = << >> => WaitWithout(k, t)[w] = << >>
      BY <1>1, WithoutFacts
    <3> QED BY <3>1, <3>2
  <2> QED BY <2>1
<1>3. \A w \in WaitList : ~Contains(k.wait[w], c)
  BY DEF Listed
<1>4. Waiters'
  BY <1>2, <1>3 DEF MbInv, Calling, Waiters, OthersKept
<1>5. ASSUME NEW x \in Thread, op[x] \in RecvPlaces, ~Contains(k.wait[Receivers], x), x # c
      PROVE  x # t
  <2>1. ~Listed(k, x) /\ op[x] # "none"
    BY <1>5 DEF MbInv, Calling, Waiters, Listed, RecvPlaces
  <2> QED BY <2>1 DEF MbInv, Calling, IpcInv, Waits
<1>6. ASSUME NEW x \in Thread, op[x] \in SendPlaces, ~Contains(k.wait[Senders], x), x # c
      PROVE  x # t
  <2>1. ~Listed(k, x) /\ op[x] # "none"
    BY <1>6 DEF MbInv, Calling, Waiters, Listed, SendPlaces
  <2> QED BY <2>1 DEF MbInv, Calling, IpcInv, Waits
<1>7. RComing \ {c} \subseteq RComing'
  BY <1>1, <1>2, <1>5 DEF RComing, OnTheWay, Waiting, OthersKept
<1>8. SComing \ {c} \subseteq SComing'
  BY <1>1, <1>2, <1>6 DEF SComing, OnTheWay, Waiting, OthersKept
<1>9. ASSUME Contains(k.wait[Receivers], t)
      PROVE  t \notin RComing /\ (k'.error[t] = "EOK" => t \in RComing')
  <2>1. op'[t] = "recv_wait"
    BY <1>1, <1>3, <1>9 DEF MbInv, Calling, Waiters, OthersKept, Receivers, Senders
  <2> QED BY <1>1, <1>2, <1>9, <2>1 DEF RComing, OnTheWay, Waiting, RecvPlaces
<1>10. ASSUME Contains(k.wait[Senders], t)
       PROVE  t \notin SComing /\ (k'.error[t] = "EOK" => t \in SComing')
  <2>1. op'[t] = "send_wait"
    BY <1>1, <1>3, <1>10 DEF MbInv, Calling, Waiters, OthersKept, Receivers, Senders
  <2> QED BY <1>1, <1>2, <1>10, <2>1 DEF SComing, OnTheWay, Waiting, SendPlaces
<1> QED BY <1>2, <1>4, <1>7, <1>8, <1>9, <1>10 DEF NobodyStopped

\* A thread joins a list.
LEMMA OneJoins ==
  ASSUME MbInv, NEW c \in Thread, c = k.cur, ~Listed(k, c), k.stat[c] # "SUSPEND", OthersKept(c),
         k' \in Kernel, NEW w, w \in WaitList, NEW i, Joined(k, k', w, c, i),
         (w = Receivers /\ op'[c] = "recv_wait") \/ (w = Senders /\ op'[c] = "send_wait")
  PROVE  NobodyStopped(c) /\ \A v \in WaitList \ {w} : k'.wait[v] = k.wait[v]
<1>1. k \in Kernel /\ WaitsOK(k) /\ Receivers \in WaitList /\ Senders \in WaitList
      /\ k.error \in [Thread -> Error]
  BY MbFacts
<1>2. /\ \A v \in WaitList \ {w} : k'.wait[v] = k.wait[v]
      /\ k'.error[c] = "EOK" /\ \A x \in Thread \ {c} : k'.error[x] = k.error[x]
  BY <1>1 DEF Joined
<1>3. \A x \in Thread : Contains(k'.wait[w], x) <=> Contains(k.wait[w], x) \/ x = c
  BY <1>1, JoinedWaits
<1>4. \A v \in WaitList, x \in Thread \ {c} : Contains(k'.wait[v], x) <=> Contains(k.wait[v], x)
  BY <1>2, <1>3
<1>5. \A v \in WaitList \ {w} : ~Contains(k'.wait[v], c)
  BY <1>2 DEF Listed
<1>6. Waiters'
  BY <1>2, <1>4, <1>5 DEF MbInv, Calling, Waiters, OthersKept
<1>7. RComing \ {c} \subseteq RComing' /\ SComing \ {c} \subseteq SComing'
  BY <1>1, <1>2, <1>4 DEF RComing, SComing, OnTheWay, Waiting, OthersKept
<1> QED BY <1>2, <1>6, <1>7 DEF NobodyStopped

-----------------------------------------------------------------------------
(* What the steps mean to the callers.                                      *)

\* The mails in the ring and in the hands of the receivers are all there is.
LEMMA PromiseStutter ==
  ASSUME Chan' = Chan, Hand' = Hand
  PROVE  PromiseStep
BY DEF PromiseStep, Promise!vars, Chan, Hand, MailsOf

\* rt_mb_send_wait puts a mail.
LEMMA PromiseSend ==
  ASSUME Ring, entry < Size, NEW m \in AnyMail, Chan' = Append(Chan, m), Hand' = Hand
  PROVE  PromiseStep
<1>1. Len(Chan) = entry
  BY MailsFacts DEF Ring, Chan
<1>2. Promise!Send(m)
  BY <1>1 DEF Promise!Send, Chan, Hand, MailsOf
<1> QED BY <1>2 DEF PromiseStep, Promise!Next, AnyMail

\* rt_mb_recv takes the first mail.
LEMMA PromiseReceive ==
  ASSUME NEW c \in Thread, Hand[c] = NoMail, Chan # << >>, Chan' = Tail(Chan),
         Hand' = [Hand EXCEPT ![c] = Head(Chan)]
  PROVE  PromiseStep
<1>1. Promise!Receive(c)
  BY DEF Promise!Receive, Chan, Hand, MailsOf
<1> QED BY <1>1 DEF PromiseStep, Promise!Next

\* rt_mb_recv returns the mail.
LEMMA PromiseReturn ==
  ASSUME NEW c \in Thread, Hand[c] # NoMail, Chan' = Chan, Hand' = [Hand EXCEPT ![c] = NoMail]
  PROVE  PromiseStep
<1>1. Promise!Return(c)
  BY DEF Promise!Return, Chan, Hand, MailsOf
<1> QED BY <1>1 DEF PromiseStep, Promise!Next

\* rt_mb_control(RT_IPC_CMD_RESET).
LEMMA PromiseReset ==
  ASSUME Chan' = << >>, Hand' = Hand
  PROVE  PromiseStep
<1>1. Promise!Reset
  BY DEF Promise!Reset, Chan, Hand, MailsOf
<1> QED BY <1>1 DEF PromiseStep, Promise!Next

\* A step of a call of thread c, which is then at place p with mail m.
Goes(c, p, m) == op' = [op EXCEPT ![c] = p] /\ mail' = [mail EXCEPT ![c] = m]

\* What a call holds is what its place says.
LEMMA GoesOK ==
  ASSUME MbInv, NEW c \in Thread, c # Idle, NEW p \in OpPlaces, NEW m \in AnyMail \union {NoMail},
         p \in SendPlaces => m \in Mail, p = "recv_done" => m # NoMail, Goes(c, p, m)
  PROVE  /\ OthersKept(c) /\ Hands' /\ op' \in [Thread -> OpPlaces] /\ op'[Idle] = "none"
         /\ op'[c] = p
         /\ Hand' = [Hand EXCEPT ![c] = IF p = "recv_done" THEN m ELSE NoMail]
         /\ op[c] # "recv_done" => Hand[c] = NoMail
         /\ op[c] # "recv_done" /\ p # "recv_done" => Hand' = Hand
<1>1. /\ op \in [Thread -> OpPlaces] /\ mail \in [Thread -> AnyMail \union {NoMail}]
      /\ Idle \in Thread /\ op[Idle] = "none"
  BY ThreadAssumption DEF MbInv, Calling, Hands
<1>2. /\ op' \in [Thread -> OpPlaces] /\ mail' \in [Thread -> AnyMail \union {NoMail}]
      /\ op'[c] = p /\ mail'[c] = m
      /\ \A x \in Thread \ {c} : op'[x] = op[x] /\ mail'[x] = mail[x]
  BY <1>1 DEF Goes
<1>3. Hands'
  BY <1>2 DEF Hands, MbInv, Calling
<1>4. /\ Hand' = [Hand EXCEPT ![c] = IF p = "recv_done" THEN m ELSE NoMail]
      /\ op[c] # "recv_done" => Hand[c] = NoMail
  BY <1>2 DEF Hand
<1>5. op[c] # "recv_done" /\ p # "recv_done" => Hand' = Hand
  BY <1>2 DEF Hand
<1> QED BY <1>1, <1>2, <1>3, <1>4, <1>5 DEF OthersKept

\* A ring that is left alone.
LEMMA SameRing ==
  ASSUME MbInv, UNCHANGED ringVars
  PROVE  Ring' /\ Chan' = Chan /\ entry' = entry /\ entry' \in Int
<1>1. /\ msg_pool' = msg_pool /\ entry' = entry /\ in_offset' = in_offset /\ out_offset' = out_offset
  BY DEF ringVars
<1> QED BY <1>1, MbFacts DEF MbInv, Ring, Chan

\* A step that resumes nobody and changes no number loses no wake-up.
LEMMA NothingChanged ==
  ASSUME MbInv, UNCHANGED ringVars, alive' => alive, NEW c,
         NobodyStopped(c), c \in RComing => c \in RComing', c \in SComing => c \in SComing',
         \A w \in {Receivers, Senders} : k.wait[w] = << >> => k'.wait[w] = << >>
  PROVE  NoLostWakeup'
<1>1. entry' = entry /\ entry' \in Int /\ Size - entry \in Int /\ entry \in Int
  BY SameRing, SizeFacts, MbFacts
<1>2. RComing \subseteq RComing' /\ SComing \subseteq SComing'
  BY DEF NobodyStopped
<1>3. Fits(RComing, RComing', entry, entry') /\ Fits(SComing, SComing', Size - entry, Size - entry')
  BY <1>1, <1>2 DEF Fits
<1>4. Kept1(Receivers, entry, RecvPlaces) /\ Kept1(Senders, Size - entry, SendPlaces)
  BY <1>3 DEF Kept1, RComing, SComing
<1> QED BY <1>1, <1>4, SidesOK

\* The times that a call is made with, or has left.
LEMMA TimeFacts ==
  ASSUME MbInv, NEW n \in Times \union Range(time)
  PROVE  n \in Int
<1>1. Times \subseteq Int /\ time \in [Thread -> Int]
  BY TimesAssumption, MbFacts
<1>2. Range(time) \subseteq Int
  BY <1>1 DEF Range
<1> QED BY <1>1, <1>2

-----------------------------------------------------------------------------
(* The sections of the calls.                                               *)

\* The places and mails that go together.
Fitting(p, m) ==
  /\ p \in OpPlaces /\ m \in AnyMail \union {NoMail}
  /\ p \in SendPlaces => m \in Mail
  /\ p = "recv_done" => m # NoMail

\* What every section of a call of thread c leads to.
Moved(c, p, m) ==
  /\ IpcInv' /\ NobodyStopped(c) /\ Hands' /\ op' \in [Thread -> OpPlaces] /\ op'[Idle] = "none"
  /\ Hand' = [Hand EXCEPT ![c] = IF p = "recv_done" THEN m ELSE NoMail]
  /\ op[c] # "recv_done" => Hand[c] = NoMail
  /\ op[c] # "recv_done" /\ p # "recv_done" => Hand' = Hand

\* What a section does to the waiting time of its call, and to the mailbox.
Timed(c) == time' = time \/ \E n \in Int : time' = [time EXCEPT ![c] = n]
Lives == alive' = alive \/ alive' = FALSE

\* A call that is over has no time left.
LEMMA NoTime ==
  ASSUME NEW c, time' = [time EXCEPT ![c] = 0]
  PROVE  Timed(c)
<1>1. \E i \in Int : time' = [time EXCEPT ![c] = i]
  <2> WITNESS 0 \in Int
  <2> QED OBVIOUS
<1> QED BY <1>1 DEF Timed

\* A call that waits has the time that it waits for.
LEMMA SomeTime ==
  ASSUME NEW c, NEW n \in Int, time' = [time EXCEPT ![c] = n]
  PROVE  Timed(c)
<1>1. \E i \in Int : time' = [time EXCEPT ![c] = i]
  <2> WITNESS n \in Int
  <2> QED OBVIOUS
<1> QED BY <1>1 DEF Timed

\* The times and the end of the mailbox.
LEMMA MovedCalling ==
  ASSUME MbInv, NEW c \in Thread, NEW p, NEW m, Moved(c, p, m), Timed(c), Lives
  PROVE  Calling' /\ (alive' => alive)
<1>1. time' \in [Thread -> Int]
  BY MbFacts DEF Timed
<1>2. alive \in BOOLEAN
  BY DEF MbInv, Calling
<1>3. alive' \in BOOLEAN /\ (alive' => alive)
  <2>1. CASE alive' = alive
    BY <1>2, <2>1
  <2>2. CASE alive' = FALSE
    BY <2>2
  <2> QED BY <2>1, <2>2 DEF Lives
<1>4. IpcInv' /\ Waiters' /\ Hands' /\ op' \in [Thread -> OpPlaces] /\ op'[Idle] = "none"
  BY DEF Moved, NobodyStopped
<1> QED BY <1>1, <1>3, <1>4 DEF Calling

\* A section that leaves the lists alone, and does not wait.
LEMMA StayMb ==
  ASSUME MbInv, At("run"), NEW c \in Thread, c = k.cur, c # Idle, NEW p, NEW m, Fitting(p, m),
         Goes(c, p, m), NEW u, Resumes(k, u), u.wait = k.wait,
         \A x \in Thread \ {c} : u.error[x] = k.error[x], Then_return(u, p)
  PROVE  /\ Moved(c, p, m) /\ k'.wait = k.wait
         /\ c \in RComing' <=> p \in RecvPlaces /\ u.error[c] = "EOK"
         /\ c \in SComing' <=> p \in SendPlaces /\ u.error[c] = "EOK"
<1>1. k' = u
  BY DEF Then_return
<1>2. IpcInv'
  BY ResumeStep DEF MbInv, Calling
<1>3. ~Listed(k, c)
  BY RunningThread, IpcList DEF MbInv, Calling
<1>4. /\ OthersKept(c) /\ Hands' /\ op' \in [Thread -> OpPlaces] /\ op'[Idle] = "none"
      /\ op'[c] = p
      /\ Hand' = [Hand EXCEPT ![c] = IF p = "recv_done" THEN m ELSE NoMail]
      /\ op[c] # "recv_done" => Hand[c] = NoMail
      /\ op[c] # "recv_done" /\ p # "recv_done" => Hand' = Hand
  BY GoesOK DEF Fitting
<1>5. /\ NobodyStopped(c)
      /\ c \in RComing' <=> op'[c] \in RecvPlaces /\ k'.error[c] = "EOK"
      /\ c \in SComing' <=> op'[c] \in SendPlaces /\ k'.error[c] = "EOK"
  BY <1>1, <1>3, <1>4, SameLists
<1>6. Moved(c, p, m)
  BY <1>2, <1>4, <1>5 DEF Moved
<1> QED BY <1>1, <1>4, <1>5, <1>6

\* A section that resumes thread t and leaves an error e to it.
LEMMA WakeMb ==
  ASSUME MbInv, At("run"), NEW c \in Thread, c = k.cur, c # Idle, NEW p, NEW m, Fitting(p, m),
         Goes(c, p, m), NEW u, Resumes(k, u), NEW t \in Thread, k.stat[t] = "SUSPEND", NEW e,
         TakenOff(k, u, t, e), Then_return(u, p) \/ Then_schedule(u, p)
  PROVE  /\ Moved(c, p, m)
         /\ \A w \in WaitList : k.wait[w] = << >> => k'.wait[w] = << >>
         /\ Contains(k.wait[Receivers], t) => t \notin RComing /\ (e = "EOK" => t \in RComing')
         /\ Contains(k.wait[Senders], t) => t \notin SComing /\ (e = "EOK" => t \in SComing')
<1>1. k' = u
  BY DEF Then_return, Then_schedule
<1>2. IpcInv'
  BY ResumeStep DEF MbInv, Calling
<1>3. ~Listed(k, c)
  BY RunningThread, IpcList DEF MbInv, Calling
<1>4. /\ OthersKept(c) /\ Hands' /\ op' \in [Thread -> OpPlaces] /\ op'[Idle] = "none"
      /\ Hand' = [Hand EXCEPT ![c] = IF p = "recv_done" THEN m ELSE NoMail]
      /\ op[c] # "recv_done" => Hand[c] = NoMail
      /\ op[c] # "recv_done" /\ p # "recv_done" => Hand' = Hand
  BY GoesOK DEF Fitting
<1>5. /\ k'.wait = WaitWithout(k, t) /\ k'.error[t] = e
      /\ \A x \in Thread \ {t} : k'.error[x] = k.error[x]
  BY <1>1, MbFacts DEF TakenOff
<1>6. /\ NobodyStopped(c)
      /\ \A w \in WaitList : k.wait[w] = << >> => k'.wait[w] = << >>
      /\ Contains(k.wait[Receivers], t) =>
           t \notin RComing /\ (k'.error[t] = "EOK" => t \in RComing')
      /\ Contains(k.wait[Senders], t) =>
           t \notin SComing /\ (k'.error[t] = "EOK" => t \in SComing')
  BY <1>3, <1>4, <1>5, OneLeaves
<1>7. Moved(c, p, m)
  BY <1>2, <1>4, <1>6 DEF Moved
<1> QED BY <1>5, <1>6, <1>7

\* The first waiter of a list, and what resuming it does (rt_ipc_list_resume).
LEMMA FirstWaiter ==
  ASSUME MbInv, NEW w \in WaitList, k.wait[w] # << >>
  PROVE  LET u == rt_ipc_list_resume(k, w) IN
         \E t \in Thread : /\ t = Head(k.wait[w]) /\ Contains(k.wait[w], t)
                           /\ k.stat[t] = "SUSPEND" /\ ~Contains(k.defunct, t)
                           /\ Resumes(k, u) /\ TakenOff(k, u, t, "EOK")
<1>1. k.wait[w] \in Seq(Thread) /\ KernelOK(k) /\ WaitsOK(k)
  BY MbFacts DEF Kernel
<1>2. PICK t \in Thread : t = Head(k.wait[w]) /\ Contains(k.wait[w], t)
  BY <1>1, HeadElement
<1>3. k.stat[t] = "SUSPEND" /\ ~Contains(k.defunct, t) /\ k.error[t] = "EOK"
  <2>1. k.stat[t] = "SUSPEND"
    BY <1>2, MbFacts
  <2>2. ~Contains(k.defunct, t)
    BY <2>1, MbFacts
  <2>3. k.error[t] = "EOK"
    BY <1>2 DEF MbInv, Calling, Waiters
  <2> QED BY <2>1, <2>2, <2>3
<1>4. rt_ipc_list_resume(k, w) = rt_thread_resume(k, t)
  BY <1>2 DEF rt_ipc_list_resume
<1>5. /\ Resumes(k, rt_thread_resume(k, t)) /\ TakenOff(k, rt_thread_resume(k, t), t, k.error[t])
  BY <1>1, <1>3, ResumeResumes
<1> QED BY <1>2, <1>3, <1>4, <1>5

\* A section that serves list w.
LEMMA ServeMb ==
  ASSUME MbInv, At("run"), NEW c \in Thread, c = k.cur, c # Idle, NEW p, NEW m, Fitting(p, m),
         Goes(c, p, m), NEW w \in WaitList, Served(w, p)
  PROVE  /\ Moved(c, p, m)
         /\ \A v \in WaitList : k.wait[v] = << >> => k'.wait[v] = << >>
         /\ w = Receivers /\ k.wait[w] # << >> => \E t : t \notin RComing /\ t \in RComing'
         /\ w = Senders /\ k.wait[w] # << >> => \E t : t \notin SComing /\ t \in SComing'
<1>1. CASE k.wait[w] = << >>
  <2>1. Then_return(k, p)
    BY <1>1 DEF Served
  <2>2. Resumes(k, k)
    BY MbFacts, SameWaitsResumes
  <2>3. Moved(c, p, m) /\ k'.wait = k.wait
    BY <2>1, <2>2, StayMb
  <2> QED BY <1>1, <2>3
<1>2. CASE k.wait[w] # << >>
  <2>1. Then_schedule(rt_ipc_list_resume(k, w), p)
    BY <1>2 DEF Served
  <2>2. PICK t \in Thread : /\ Contains(k.wait[w], t) /\ k.stat[t] = "SUSPEND"
                            /\ Resumes(k, rt_ipc_list_resume(k, w)) /\ TakenOff(k, rt_ipc_list_resume(k, w), t, "EOK")
    BY <1>2, FirstWaiter
  <2> DEFINE u == rt_ipc_list_resume(k, w)
  <2>3. Then_schedule(u, p) /\ Resumes(k, u) /\ TakenOff(k, u, t, "EOK")
    BY <2>1, <2>2
  <2> HIDE DEF u
  <2>4. /\ Moved(c, p, m)
        /\ \A v \in WaitList : k.wait[v] = << >> => k'.wait[v] = << >>
        /\ Contains(k.wait[Receivers], t) => t \notin RComing /\ ("EOK" = "EOK" => t \in RComing')
        /\ Contains(k.wait[Senders], t) => t \notin SComing /\ ("EOK" = "EOK" => t \in SComing')
    BY <2>2, <2>3, WakeMb
  <2> QED BY <2>2, <2>4
<1> QED BY <1>1, <1>2

\* A section that ends in a wait on list w.
LEMMA JoinMb ==
  ASSUME MbInv, At("run"), NEW c \in Thread, c = k.cur, c # Idle, NEW p, NEW m, Fitting(p, m),
         Goes(c, p, m), NEW w \in WaitList, NEW n \in Int,
         (w = Receivers /\ p = "recv_wait") \/ (w = Senders /\ p = "send_wait"),
         Then_schedule(WaitOn(k, w, k.cur, MbFlag, n), p)
  PROVE  Moved(c, p, m) /\ \A v \in WaitList \ {w} : k'.wait[v] = k.wait[v]
<1>1. /\ KernelOK(k) /\ k \in Kernel /\ k.stat[c] = "RUNNING" /\ ~Listed(k, c)
      /\ IsInjective(k.defunct) /\ ~Contains(k.defunct, c) /\ WaitsOK(k)
  BY RunningThread, IpcList, MbFacts DEF MbInv, Calling
<1> DEFINE b == WaitOn(k, w, k.cur, MbFlag, n)
<1>2. /\ KernelOK(b) /\ Gentle(k, b) /\ b.cur = k.cur
      /\ \E i : Joined(k, b, w, k.cur, i)
  BY <1>1, WaitOnOK
<1>3. k' = b /\ Then_schedule(b, p)
  BY DEF Then_schedule
<1> HIDE DEF b
<1>4. PICK i : Joined(k, b, w, k.cur, i)
  BY <1>2
<1>5. IpcInv'
  BY <1>2, <1>3, <1>4, JoinStep DEF MbInv, Calling
<1>6. /\ OthersKept(c) /\ Hands' /\ op' \in [Thread -> OpPlaces] /\ op'[Idle] = "none"
      /\ op'[c] = p
      /\ Hand' = [Hand EXCEPT ![c] = IF p = "recv_done" THEN m ELSE NoMail]
      /\ op[c] # "recv_done" => Hand[c] = NoMail
      /\ op[c] # "recv_done" /\ p # "recv_done" => Hand' = Hand
  BY GoesOK DEF Fitting
<1>7. k' \in Kernel /\ Joined(k, k', w, c, i) /\ k.stat[c] # "SUSPEND"
  BY <1>1, <1>2, <1>3, <1>4 DEF KernelOK
<1>8. NobodyStopped(c) /\ \A v \in WaitList \ {w} : k'.wait[v] = k.wait[v]
  BY <1>1, <1>6, <1>7, OneJoins
<1>9. Moved(c, p, m)
  BY <1>5, <1>6, <1>8 DEF Moved
<1> QED BY <1>8, <1>9

-----------------------------------------------------------------------------
(* rt_mb_send_wait and rt_mb_recv.                                          *)

\* The mail goes into the ring and the first receiver is on its way to it.
LEMMA SendPutMb ==
  ASSUME MbInv, NEW m \in Mail, NEW n \in Times \union Range(time), SendPut(m, n)
  PROVE  MbInv' /\ PromiseStep
<1>1. PICK c \in Thread : c = k.cur
  BY MbFacts
<1>2. /\ At("run") /\ op[c] \in {"none", "send_retry"} /\ c # Idle /\ entry # Size /\ PutInRing(m)
      /\ Served(Receivers, "none") /\ mail' = [mail EXCEPT ![c] = NoMail]
      /\ time' = [time EXCEPT ![c] = 0] /\ alive' = alive
  <2>1. At("run") /\ ((op[c] = "none" /\ c # Idle) \/ op[c] = "send_retry")
    BY <1>1 DEF SendPut, Sending, MbCall, Outside, Inside
  <2>2. c # Idle
    BY <2>1 DEF MbInv, Calling
  <2> QED BY <1>1, <2>1, <2>2 DEF SendPut, Full, SetMail, SetTime
<1>3. Goes(c, "none", NoMail)
  BY <1>1, <1>2 DEF Goes, Served, Then_return, Then_schedule, Enter
<1>4. Fitting("none", NoMail)
  BY DEF Fitting, OpPlaces, SendPlaces
<1>5. Receivers \in WaitList /\ Senders \in WaitList
  BY MbFacts
<1>6. /\ Moved(c, "none", NoMail)
      /\ \A v \in WaitList : k.wait[v] = << >> => k'.wait[v] = << >>
      /\ Receivers = Receivers /\ k.wait[Receivers] # << >> => \E t : t \notin RComing /\ t \in RComing'
  BY <1>1, <1>2, <1>3, <1>4, <1>5, ServeMb
<1>7. Ring /\ entry \in Int /\ entry < Size /\ Size \in Int /\ entry' = entry + 1 /\ m \in AnyMail
  BY <1>2, MbFacts, SizeFacts DEF MbInv, PutInRing, AnyMail
<1>8. Ring' /\ Chan' = Append(Chan, m)
  BY <1>2, <1>7, RingPut
<1>9. Calling' /\ (alive' => alive)
  <2>1. Timed(c) /\ Lives
    BY <1>2, NoTime DEF Lives
  <2> QED BY <1>6, <2>1, MovedCalling
<1>10. RComing \subseteq RComing' /\ SComing \ {c} \subseteq SComing'
  BY <1>2, <1>6 DEF Moved, NobodyStopped, RComing, OnTheWay, RecvPlaces
<1>11. Kept1(Receivers, entry, RecvPlaces)
  <2>1. CASE k.wait[Receivers] = << >>
    BY <1>5, <1>6, <2>1 DEF Kept1
  <2>2. CASE k.wait[Receivers] # << >>
    <3>1. Fits(RComing, RComing', entry, entry')
      BY <1>6, <1>7, <1>10, <2>2 DEF Fits
    <3> QED BY <2>2, <3>1 DEF Kept1, RComing
  <2> QED BY <2>1, <2>2
<1>12. Kept1(Senders, Size - entry, SendPlaces)
  <2>1. CASE k.wait[Senders] = << >>
    BY <1>5, <1>6, <2>1 DEF Kept1
  <2>2. CASE k.wait[Senders] # << >>
    <3>1. Fits(SComing, SComing', Size - entry, Size - entry')
      BY <1>7, <1>10 DEF Fits
    <3> QED BY <2>2, <3>1 DEF Kept1, SComing
  <2> QED BY <2>1, <2>2
<1>13. NoLostWakeup'
  BY <1>7, <1>9, <1>11, <1>12, SidesOK
<1>14. Hand' = Hand
  BY <1>2, <1>6 DEF Moved
<1>15. PromiseStep
  BY <1>7, <1>8, <1>14, PromiseSend
<1> QED BY <1>8, <1>9, <1>13, <1>15 DEF MbInv

\* The mail leaves the ring and the first sender is on its way to the slot.
LEMMA RecvTakeMb ==
  ASSUME MbInv, NEW n \in Times \union Range(time), RecvTake(n)
  PROVE  MbInv' /\ PromiseStep
<1> DEFINE m == msg_pool[out_offset]
<1>1. PICK c \in Thread : c = k.cur
  BY MbFacts
<1>2. /\ At("run") /\ op[c] \in {"none", "recv_retry"} /\ c # Idle /\ entry > 0 /\ TakeFromRing
      /\ Served(Senders, "recv_done") /\ mail' = [mail EXCEPT ![c] = m]
      /\ time' = [time EXCEPT ![c] = 0] /\ alive' = alive
  <2>1. At("run") /\ ((op[c] = "none" /\ c # Idle) \/ op[c] = "recv_retry")
    BY <1>1 DEF RecvTake, Receiving, MbCall, Outside, Inside
  <2>2. c # Idle
    BY <2>1 DEF MbInv, Calling
  <2> QED BY <1>1, <2>1, <2>2 DEF RecvTake, SetMail, SetTime
<1>3. Goes(c, "recv_done", m)
  BY <1>1, <1>2 DEF Goes, Served, Then_return, Then_schedule, Enter
<1>4. Ring /\ entry \in Int /\ Size \in Int /\ entry' = entry - 1
  BY <1>2, MbFacts, SizeFacts DEF MbInv, TakeFromRing
<1>5. Ring' /\ Chan # << >> /\ Chan' = Tail(Chan) /\ Head(Chan) = m /\ m \in AnyMail
  BY <1>2, <1>4, RingTake
<1> HIDE DEF m
<1>6. Fitting("recv_done", m) /\ m # NoMail
  BY <1>5, MailAssumption DEF Fitting, OpPlaces, SendPlaces, AnyMail
<1>7. Receivers \in WaitList /\ Senders \in WaitList
  BY MbFacts
<1>8. /\ Moved(c, "recv_done", m)
      /\ \A v \in WaitList : k.wait[v] = << >> => k'.wait[v] = << >>
      /\ Senders = Senders /\ k.wait[Senders] # << >> => \E t : t \notin SComing /\ t \in SComing'
  BY <1>1, <1>2, <1>3, <1>6, <1>7, ServeMb
<1>9. Calling' /\ (alive' => alive)
  <2>1. Timed(c) /\ Lives
    BY <1>2, NoTime DEF Lives
  <2> QED BY <1>8, <2>1, MovedCalling
<1>10. RComing \ {c} \subseteq RComing' /\ SComing \subseteq SComing'
  BY <1>2, <1>8 DEF Moved, NobodyStopped, SComing, OnTheWay, SendPlaces
<1>11. Kept1(Receivers, entry, RecvPlaces)
  <2>1. CASE k.wait[Receivers] = << >>
    BY <1>7, <1>8, <2>1 DEF Kept1
  <2>2. CASE k.wait[Receivers] # << >>
    <3>1. Fits(RComing, RComing', entry, entry')
      BY <1>4, <1>10 DEF Fits
    <3> QED BY <2>2, <3>1 DEF Kept1, RComing
  <2> QED BY <2>1, <2>2
<1>12. Kept1(Senders, Size - entry, SendPlaces)
  <2>1. CASE k.wait[Senders] = << >>
    BY <1>7, <1>8, <2>1 DEF Kept1
  <2>2. CASE k.wait[Senders] # << >>
    <3>1. Fits(SComing, SComing', Size - entry, Size - entry')
      BY <1>4, <1>8, <1>10, <2>2 DEF Fits
    <3> QED BY <2>2, <3>1 DEF Kept1, SComing
  <2> QED BY <2>1, <2>2
<1>13. NoLostWakeup'
  BY <1>4, <1>9, <1>11, <1>12, SidesOK
<1>14. Hand[c] = NoMail /\ Hand' = [Hand EXCEPT ![c] = m]
  BY <1>2, <1>8 DEF Moved
<1>15. PromiseStep
  BY <1>5, <1>14, PromiseReceive
<1> QED BY <1>5, <1>9, <1>13, <1>15 DEF MbInv

\* A thread on its way goes on, or leaves nothing that a waiter could have.
NothingMissed(c, p, e) ==
  /\ entry = 0 \/ ~alive' \/ c \notin RComing \/ (p \in RecvPlaces /\ e = "EOK")
  /\ entry = Size \/ ~alive' \/ c \notin SComing \/ (p \in SendPlaces /\ e = "EOK")

\* The sections of a call that touch neither the ring nor a list.
LEMMA QuietMb ==
  ASSUME MbInv, At("run"), NEW c \in Thread, c = k.cur, c # Idle, NEW p, NEW m, Fitting(p, m),
         Goes(c, p, m), NEW u, Resumes(k, u), u.wait = k.wait,
         \A x \in Thread \ {c} : u.error[x] = k.error[x], Then_return(u, p), UNCHANGED ringVars,
         Timed(c), Lives, NothingMissed(c, p, u.error[c]), p # "recv_done"
  PROVE  MbInv' /\ PromiseStep
<1>1. /\ Moved(c, p, m) /\ k'.wait = k.wait
      /\ c \in RComing' <=> p \in RecvPlaces /\ u.error[c] = "EOK"
      /\ c \in SComing' <=> p \in SendPlaces /\ u.error[c] = "EOK"
  BY StayMb
<1>2. Calling' /\ (alive' => alive)
  BY <1>1, MovedCalling
<1>3. Ring' /\ Chan' = Chan /\ entry' = entry /\ entry' \in Int /\ Size \in Int
  BY SameRing, SizeFacts
<1>4. RComing \ {c} \subseteq RComing' /\ SComing \ {c} \subseteq SComing'
  BY <1>1 DEF Moved, NobodyStopped
<1>5. ASSUME alive' PROVE Kept1(Receivers, entry, RecvPlaces)
  <2>1. CASE entry = 0 \/ k.wait[Receivers] = << >>
    BY <1>1, <1>3, <2>1 DEF Kept1
  <2>2. CASE entry # 0 /\ k.wait[Receivers] # << >>
    <3>1. RComing \subseteq RComing'
      BY <1>1, <1>4, <1>5, <2>2 DEF NothingMissed
    <3>2. Fits(RComing, RComing', entry, entry')
      BY <1>3, <3>1 DEF Fits
    <3> QED BY <2>2, <3>2 DEF Kept1, RComing
  <2> QED BY <2>1, <2>2
<1>6. ASSUME alive' PROVE Kept1(Senders, Size - entry, SendPlaces)
  <2>1. CASE entry = Size \/ k.wait[Senders] = << >>
    BY <1>1, <1>3, <2>1 DEF Kept1
  <2>2. CASE entry # Size /\ k.wait[Senders] # << >>
    <3>1. SComing \subseteq SComing'
      BY <1>1, <1>4, <1>6, <2>2 DEF NothingMissed
    <3>2. Fits(SComing, SComing', Size - entry, Size - entry')
      BY <1>3, <3>1 DEF Fits
    <3> QED BY <2>2, <3>2 DEF Kept1, SComing
  <2> QED BY <2>1, <2>2
<1>7. NoLostWakeup'
  BY <1>2, <1>3, <1>5, <1>6, SidesOK
<1>8. PromiseStep
  <2>1. CASE op[c] = "recv_done"
    <3>1. Hand[c] # NoMail
      BY <2>1 DEF Hand, MbInv, Calling, Hands
    <3>2. Hand' = [Hand EXCEPT ![c] = NoMail]
      BY <1>1 DEF Moved
    <3> QED BY <1>3, <3>1, <3>2, PromiseReturn
  <2>2. CASE op[c] # "recv_done"
    BY <1>1, <1>3, <2>2, PromiseStutter DEF Moved
  <2> QED BY <2>1, <2>2
<1> QED BY <1>2, <1>3, <1>7, <1>8 DEF MbInv

\* A call that ends with an error, and every wake-up.
LEMMA OverMb ==
  ASSUME MbInv, NEW c \in Thread, c = k.cur, At("run"), c # Idle, UNCHANGED <<ringVars, alive>>,
         op[c] # "recv_done" \/ mail' = [mail EXCEPT ![c] = NoMail],
         mail' = mail \/ mail' = [mail EXCEPT ![c] = NoMail], Over,
         entry = 0 \/ c \notin RComing, entry = Size \/ c \notin SComing
  PROVE  MbInv' /\ PromiseStep
<1> DEFINE u == [k EXCEPT !.error[c] = "EOK"]
<1>1. mail \in [Thread -> AnyMail \union {NoMail}] /\ time \in [Thread -> Int]
  BY MbFacts DEF MbInv, Calling, Hands
<1>2. PICK m \in AnyMail \union {NoMail} : mail' = [mail EXCEPT ![c] = m]
  <2>1. CASE mail' = mail
    <3>1. mail[c] \in AnyMail \union {NoMail} /\ mail' = [mail EXCEPT ![c] = mail[c]]
      BY <1>1, <2>1
    <3> QED BY <3>1
  <2>2. CASE mail' = [mail EXCEPT ![c] = NoMail]
    BY <2>2
  <2> QED BY <2>1, <2>2
<1>3. Then_return(u, "none") /\ time' = [time EXCEPT ![c] = 0]
  BY DEF Over, SetTime
<1>4. Resumes(k, u) /\ u.wait = k.wait /\ u.error = [k.error EXCEPT ![c] = "EOK"]
  BY MbFacts, OverResumes DEF Error
<1> HIDE DEF u
<1>5. \A x \in Thread \ {c} : u.error[x] = k.error[x]
  BY <1>4, MbFacts
<1>6. Goes(c, "none", m) /\ Fitting("none", m)
  BY <1>2, <1>3 DEF Goes, Fitting, Then_return, Enter, OpPlaces, SendPlaces
<1>7. UNCHANGED ringVars /\ Timed(c) /\ Lives
  BY <1>3, NoTime DEF Lives
<1>8. NothingMissed(c, "none", u.error[c])
  BY DEF NothingMissed
<1> QED BY <1>3, <1>4, <1>5, <1>6, <1>7, <1>8, QuietMb

\* The calls that fail, and the threads that were resumed (ipc.c:1476-1532, 1622-1680).
LEMMA FailMb ==
  ASSUME MbInv,
         \/ \E m \in Mail, n \in Times \union Range(time) : SendFull(m, n)
         \/ \E n \in Times \union Range(time) : RecvEmpty(n)
         \/ SendWake \/ RecvWake \/ RecvReturn
  PROVE  MbInv' /\ PromiseStep
<1>1. PICK c \in Thread : c = k.cur
  BY MbFacts
<1>2. /\ mail \in [Thread -> AnyMail \union {NoMail}] /\ time \in [Thread -> Int]
      /\ op[Idle] = "none" /\ Resumes(k, k)
  BY MbFacts, SameWaitsResumes DEF MbInv, Calling, Hands
<1>3. CASE \E m \in Mail, n \in Times \union Range(time) : SendFull(m, n)
  <2>1. /\ At("run") /\ ((op[c] = "none" /\ c # Idle) \/ op[c] = "send_retry") /\ entry = Size
        /\ Over /\ mail' = [mail EXCEPT ![c] = NoMail] /\ UNCHANGED <<ringVars, alive>>
    BY <1>1, <1>3 DEF SendFull, Sending, MbCall, Outside, Inside, Full, SetMail
  <2>2. c # Idle /\ c \notin RComing
    BY <1>2, <2>1 DEF RComing, OnTheWay, RecvPlaces
  <2> QED BY <1>1, <2>1, <2>2, OverMb
<1>4. CASE \E n \in Times \union Range(time) : RecvEmpty(n)
  <2>1. /\ At("run") /\ ((op[c] = "none" /\ c # Idle) \/ op[c] = "recv_retry") /\ entry = 0
        /\ Over /\ mail' = mail /\ UNCHANGED <<ringVars, alive>>
    BY <1>1, <1>4 DEF RecvEmpty, Receiving, MbCall, Outside, Inside
  <2>2. c # Idle /\ c \notin SComing /\ op[c] # "recv_done"
    BY <1>2, <2>1 DEF SComing, OnTheWay, SendPlaces
  <2> QED BY <1>1, <2>1, <2>2, OverMb
<1>5. CASE SendWake
  <2>1. /\ At("run") /\ op[c] = "send_wait" /\ c # Idle /\ UNCHANGED <<ringVars, alive>>
    BY <1>1, <1>2, <1>5 DEF SendWake, WakeUp, Inside
  <2>2. CASE k.error[c] # "EOK"
    <3>1. Over /\ mail' = [mail EXCEPT ![c] = NoMail]
      BY <1>1, <1>5, <2>2 DEF SendWake, WakeUp, SetMail
    <3>2. c \notin RComing /\ c \notin SComing
      BY <2>2 DEF RComing, SComing, OnTheWay
    <3> QED BY <1>1, <2>1, <3>1, <3>2, OverMb
  <2>3. CASE k.error[c] = "EOK"
    <3>1. Then_return(k, "send_retry") /\ mail' = [mail EXCEPT ![c] = mail[c]] /\ time' = time
      BY <1>1, <1>5, <2>3 DEF SendWake, WakeUp, SetMail
    <3>2. mail[c] \in Mail
      BY <2>1 DEF MbInv, Calling, Hands, SendPlaces
    <3>3. Goes(c, "send_retry", mail[c]) /\ Fitting("send_retry", mail[c])
      BY <1>1, <3>1, <3>2 DEF Goes, Then_return, Enter, Fitting, OpPlaces, SendPlaces, AnyMail
    <3>4. c \notin RComing /\ "send_retry" \in SendPlaces
      BY <2>1 DEF RComing, OnTheWay, RecvPlaces, SendPlaces
    <3>5. UNCHANGED ringVars /\ Timed(c) /\ Lives /\ NothingMissed(c, "send_retry", k.error[c])
      BY <2>1, <2>3, <3>1, <3>4 DEF Timed, Lives, NothingMissed
    <3> DEFINE x == mail[c]
    <3>6. Goes(c, "send_retry", x) /\ Fitting("send_retry", x)
      BY <3>3
    <3> HIDE DEF x
    <3> QED BY <1>1, <1>2, <2>1, <2>3, <3>1, <3>4, <3>5, <3>6, QuietMb
  <2> QED BY <2>2, <2>3
<1>6. CASE RecvWake
  <2>1. /\ At("run") /\ op[c] = "recv_wait" /\ c # Idle /\ UNCHANGED <<ringVars, alive>> /\ mail' = mail
    BY <1>1, <1>2, <1>6 DEF RecvWake, WakeUp, Inside
  <2>2. CASE k.error[c] # "EOK"
    <3>1. Over
      BY <1>1, <1>6, <2>2 DEF RecvWake, WakeUp
    <3>2. c \notin RComing /\ c \notin SComing /\ op[c] # "recv_done"
      BY <2>1, <2>2 DEF RComing, SComing, OnTheWay
    <3> QED BY <1>1, <2>1, <3>1, <3>2, OverMb
  <2>3. CASE k.error[c] = "EOK"
    <3>1. Then_return(k, "recv_retry") /\ time' = time
      BY <1>1, <1>6, <2>3 DEF RecvWake, WakeUp
    <3> DEFINE x == mail[c]
    <3>2. x \in AnyMail \union {NoMail} /\ mail' = [mail EXCEPT ![c] = x]
      BY <1>2, <2>1
    <3> HIDE DEF x
    <3>3. Goes(c, "recv_retry", x) /\ Fitting("recv_retry", x)
      BY <1>1, <3>1, <3>2 DEF Goes, Then_return, Enter, Fitting, OpPlaces, RecvPlaces, SendPlaces
    <3>4. c \notin SComing /\ "recv_retry" \in RecvPlaces
      BY <2>1 DEF SComing, OnTheWay, RecvPlaces, SendPlaces
    <3>5. UNCHANGED ringVars /\ Timed(c) /\ Lives /\ NothingMissed(c, "recv_retry", k.error[c])
      BY <2>1, <2>3, <3>1, <3>4 DEF Timed, Lives, NothingMissed
    <3> QED BY <1>1, <1>2, <2>1, <2>3, <3>1, <3>3, <3>4, <3>5, QuietMb
  <2> QED BY <2>2, <2>3
<1>7. CASE RecvReturn
  <2>1. /\ At("run") /\ op[c] = "recv_done" /\ c # Idle /\ UNCHANGED ringVars /\ alive' = alive
        /\ Then_return(k, "none") /\ mail' = [mail EXCEPT ![c] = NoMail] /\ time' = time
    BY <1>1, <1>2, <1>7 DEF RecvReturn, Inside, SetMail
  <2>2. Goes(c, "none", NoMail) /\ Fitting("none", NoMail)
    BY <1>1, <2>1 DEF Goes, Then_return, Enter, Fitting, OpPlaces, SendPlaces
  <2>3. c \notin RComing /\ c \notin SComing
    BY <2>1 DEF RComing, SComing, OnTheWay, RecvPlaces, SendPlaces
  <2>4. UNCHANGED ringVars /\ Timed(c) /\ Lives /\ NothingMissed(c, "none", k.error[c])
    BY <2>1, <2>3 DEF Timed, Lives, NothingMissed
  <2> QED BY <1>1, <1>2, <2>1, <2>2, <2>4, QuietMb
<1> QED BY <1>3, <1>4, <1>5, <1>6, <1>7

\* The sections that wait.
LEMMA WaitMb ==
  ASSUME MbInv, NEW n \in Times \union Range(time), RecvWait(n) \/ \E m \in Mail : SendWait(m, n)
  PROVE  MbInv' /\ PromiseStep
<1>1. PICK c \in Thread : c = k.cur
  BY MbFacts
<1>2. /\ mail \in [Thread -> AnyMail \union {NoMail}] /\ time \in [Thread -> Int]
      /\ op[Idle] = "none" /\ n \in Int /\ Receivers \in WaitList /\ Senders \in WaitList
      /\ Receivers # Senders
  BY MbFacts, TimeFacts DEF MbInv, Calling, Hands
<1>3. UNCHANGED ringVars /\ alive' = alive /\ Timed(c) /\ Lives
  <2>1. UNCHANGED ringVars /\ alive' = alive /\ time' = [time EXCEPT ![c] = n]
    BY <1>1 DEF RecvWait, SendWait, SetTime
  <2> QED BY <1>2, <2>1, SomeTime DEF Lives
<1>4. Ring' /\ Chan' = Chan /\ entry' = entry /\ entry' \in Int /\ Size \in Int
  BY <1>3, SameRing, SizeFacts
<1>5. CASE RecvWait(n)
  <2>1. /\ At("run") /\ ((op[c] = "none" /\ c # Idle) \/ op[c] = "recv_retry") /\ entry = 0
        /\ Then_schedule(WaitOn(k, Receivers, k.cur, MbFlag, n), "recv_wait") /\ mail' = mail
    BY <1>1, <1>5 DEF RecvWait, Receiving, MbCall, Outside, Inside
  <2> DEFINE x == mail[c]
  <2>2. x \in AnyMail \union {NoMail} /\ mail' = [mail EXCEPT ![c] = x]
    BY <1>2, <2>1
  <2> HIDE DEF x
  <2>3. Goes(c, "recv_wait", x) /\ Fitting("recv_wait", x)
    BY <1>1, <2>1, <2>2 DEF Goes, Then_schedule, Enter, Fitting, OpPlaces, RecvPlaces, SendPlaces
  <2>4. c # Idle /\ op[c] # "recv_done" /\ c \notin SComing
    BY <1>2, <2>1 DEF SComing, OnTheWay, SendPlaces
  <2>5. Moved(c, "recv_wait", x) /\ \A v \in WaitList \ {Receivers} : k'.wait[v] = k.wait[v]
    BY <1>1, <1>2, <2>1, <2>3, <2>4, JoinMb
  <2>6. Calling' /\ (alive' => alive)
    BY <1>3, <2>5, MovedCalling
  <2>7. Kept1(Receivers, entry, RecvPlaces)
    BY <1>4, <2>1 DEF Kept1
  <2>8. Kept1(Senders, Size - entry, SendPlaces)
    <3>1. SComing \subseteq SComing' /\ k'.wait[Senders] = k.wait[Senders]
      BY <1>2, <2>4, <2>5 DEF Moved, NobodyStopped
    <3>2. Fits(SComing, SComing', Size - entry, Size - entry')
      BY <1>4, <3>1 DEF Fits
    <3> QED BY <3>1, <3>2 DEF Kept1, SComing
  <2>9. NoLostWakeup'
    BY <1>4, <2>6, <2>7, <2>8, SidesOK
  <2>10. PromiseStep
    BY <1>4, <2>4, <2>5, PromiseStutter DEF Moved
  <2> QED BY <1>4, <2>6, <2>9, <2>10 DEF MbInv
<1>6. CASE \E m \in Mail : SendWait(m, n)
  <2>1. PICK m \in Mail : SendWait(m, n)
    BY <1>6
  <2>2. /\ At("run") /\ ((op[c] = "none" /\ c # Idle) \/ op[c] = "send_retry") /\ entry = Size
        /\ Then_schedule(WaitOn(k, Senders, k.cur, MbFlag, n), "send_wait")
        /\ mail' = [mail EXCEPT ![c] = m]
    BY <1>1, <2>1 DEF SendWait, Sending, MbCall, Outside, Inside, Full, SetMail
  <2>3. Goes(c, "send_wait", m) /\ Fitting("send_wait", m)
    BY <1>1, <2>2 DEF Goes, Then_schedule, Enter, Fitting, OpPlaces, RecvPlaces, SendPlaces, AnyMail
  <2>4. c # Idle /\ op[c] # "recv_done" /\ c \notin RComing
    BY <1>2, <2>2 DEF RComing, OnTheWay, RecvPlaces
  <2>5. Moved(c, "send_wait", m) /\ \A v \in WaitList \ {Senders} : k'.wait[v] = k.wait[v]
    BY <1>1, <1>2, <2>2, <2>3, <2>4, JoinMb
  <2>6. Calling' /\ (alive' => alive)
    BY <1>3, <2>5, MovedCalling
  <2>7. Kept1(Senders, Size - entry, SendPlaces)
    BY <1>4, <2>2 DEF Kept1
  <2>8. Kept1(Receivers, entry, RecvPlaces)
    <3>1. RComing \subseteq RComing' /\ k'.wait[Receivers] = k.wait[Receivers]
      BY <1>2, <2>4, <2>5 DEF Moved, NobodyStopped
    <3>2. Fits(RComing, RComing', entry, entry')
      BY <1>4, <3>1 DEF Fits
    <3> QED BY <3>1, <3>2 DEF Kept1, RComing
  <2>9. NoLostWakeup'
    BY <1>4, <2>6, <2>7, <2>8, SidesOK
  <2>10. PromiseStep
    BY <1>4, <2>4, <2>5, PromiseStutter DEF Moved
  <2> QED BY <1>4, <2>6, <2>9, <2>10 DEF MbInv
<1> QED BY <1>5, <1>6

-----------------------------------------------------------------------------
(* The interrupt handler, the system, rt_mb_control and rt_mb_delete.       *)

\* The threads seen from a step that is no step of a call.
LEMMA NotOfCall ==
  ASSUME MbInv, op' = op, mail' = mail
  PROVE  /\ Idle \in Thread /\ ~Listed(k, Idle) /\ OthersKept(Idle) /\ Hands' /\ Hand' = Hand
         /\ Idle \notin RComing /\ Idle \notin SComing
<1>1. Idle \in Thread /\ op[Idle] = "none"
  BY ThreadAssumption DEF MbInv, Calling
<1>2. ~Listed(k, Idle)
  BY <1>1 DEF MbInv, Calling, IpcInv, Waits
<1>3. OthersKept(Idle) /\ Hands' /\ Hand' = Hand
  BY DEF OthersKept, Hands, Hand, MbInv, Calling
<1>4. Idle \notin RComing /\ Idle \notin SComing
  BY <1>1 DEF RComing, SComing, OnTheWay, RecvPlaces, SendPlaces
<1> QED BY <1>1, <1>2, <1>3, <1>4

\* The tick, the timeouts and the scheduler.
LEMMA SystemMb ==
  ASSUME Ordinary, MbInv, SystemStep, UNCHANGED <<ringVars, mail, alive>>, time' \in [Thread -> Int]
  PROVE  MbInv' /\ PromiseStep
<1>1. IpcInv' /\ SystemEffect
  BY SystemStepOK DEF MbInv, Calling
<1>2. op' = op /\ mail' = mail /\ alive' = alive /\ UNCHANGED ringVars
  BY <1>1 DEF SystemEffect
<1>3. /\ Idle \in Thread /\ ~Listed(k, Idle) /\ OthersKept(Idle) /\ Hands' /\ Hand' = Hand
      /\ Idle \notin RComing /\ Idle \notin SComing
  BY <1>2, NotOfCall
<1>4. NobodyStopped(Idle) /\ \A w \in WaitList : k.wait[w] = << >> => k'.wait[w] = << >>
  <2>1. CASE k'.wait = k.wait /\ \A t \in Thread : op[t] # "none" => k'.error[t] = k.error[t]
    <3>1. NobodyStopped(Idle)
      BY <1>3, <2>1, SameLists
    <3> QED BY <2>1, <3>1
  <2>2. CASE \E t \in Thread : k.stat[t] = "SUSPEND" /\ TakenOff(k, k', t, "ETIMEOUT")
    <3>1. PICK t \in Thread : k.stat[t] = "SUSPEND" /\ TakenOff(k, k', t, "ETIMEOUT")
      BY <2>2
    <3>2. k'.wait = WaitWithout(k, t) /\ \A x \in Thread \ {t} : k'.error[x] = k.error[x]
      BY <3>1, MbFacts DEF TakenOff
    <3> QED BY <1>3, <3>1, <3>2, OneLeaves
  <2> QED BY <1>1, <2>1, <2>2 DEF SystemEffect
<1>5. NoLostWakeup'
  <2>1. \A w \in {Receivers, Senders} : k.wait[w] = << >> => k'.wait[w] = << >>
    BY <1>4, MbFacts
  <2> QED BY <1>2, <1>3, <1>4, <2>1, NothingChanged
<1>6. Calling'
  BY <1>1, <1>2, <1>3, <1>4 DEF MbInv, Calling, NobodyStopped
<1>7. Ring' /\ Chan' = Chan
  BY <1>2, SameRing
<1> QED BY <1>3, <1>5, <1>6, <1>7, PromiseStutter DEF MbInv

\* rt_mb_send of an interrupt handler: a mail, and the first receiver.
LEMMA IrqSendMb ==
  ASSUME MbInv, NEW m \in IrqMail, IrqSend(m)
  PROVE  MbInv' /\ PromiseStep
<1>1. /\ entry # Size /\ PutInRing(m) /\ IrqResume(Receivers) /\ op' = op
      /\ mail' = mail /\ time' = time /\ alive' = alive
  BY DEF IrqSend, Full, IrqResume, Interrupt
<1>2. /\ Idle \in Thread /\ ~Listed(k, Idle) /\ OthersKept(Idle) /\ Hands' /\ Hand' = Hand
      /\ Idle \notin RComing /\ Idle \notin SComing
  BY <1>1, NotOfCall
<1>3. Receivers \in WaitList /\ Senders \in WaitList
  BY MbFacts
<1>4. /\ IpcInv' /\ NobodyStopped(Idle)
      /\ \A w \in WaitList : k.wait[w] = << >> => k'.wait[w] = << >>
      /\ k.wait[Receivers] # << >> => \E t : t \notin RComing /\ t \in RComing'
  <2>1. CASE k.wait[Receivers] = << >>
    <3>1. Interrupt(k) /\ Resumes(k, k)
      BY <1>1, <2>1, MbFacts, SameWaitsResumes DEF IrqResume
    <3>2. IpcInv' /\ k'.wait = k.wait /\ k'.error = k.error
      BY <3>1, HandlerStep DEF MbInv, Calling
    <3>3. NobodyStopped(Idle)
      BY <1>2, <3>2, SameLists
    <3> QED BY <2>1, <3>2, <3>3
  <2>2. CASE k.wait[Receivers] # << >>
    <3> DEFINE u == rt_ipc_list_resume(k, Receivers)
    <3>1. PICK t \in Thread : /\ Contains(k.wait[Receivers], t) /\ k.stat[t] = "SUSPEND"
                              /\ Resumes(k, u) /\ TakenOff(k, u, t, "EOK")
      BY <1>3, <2>2, FirstWaiter
    <3>2. Interrupt(rt_schedule(u))
      BY <1>1, <2>2 DEF IrqResume
    <3> HIDE DEF u
    <3>3. IpcInv' /\ k'.wait = u.wait /\ k'.error = u.error
      BY <3>1, <3>2, HandlerStep DEF MbInv, Calling
    <3>4. /\ k'.wait = WaitWithout(k, t) /\ k'.error[t] = "EOK"
          /\ \A x \in Thread \ {t} : k'.error[x] = k.error[x]
      BY <3>1, <3>3, MbFacts DEF TakenOff
    <3>5. /\ NobodyStopped(Idle)
          /\ \A w \in WaitList : k.wait[w] = << >> => k'.wait[w] = << >>
          /\ Contains(k.wait[Receivers], t) =>
               t \notin RComing /\ (k'.error[t] = "EOK" => t \in RComing')
      BY <1>2, <3>1, <3>4, OneLeaves
    <3> QED BY <3>1, <3>3, <3>4, <3>5
  <2> QED BY <2>1, <2>2
<1>5. Ring /\ entry \in Int /\ entry < Size /\ Size \in Int /\ entry' = entry + 1 /\ m \in AnyMail
  BY <1>1, MbFacts, SizeFacts DEF MbInv, PutInRing, AnyMail
<1>6. Ring' /\ Chan' = Append(Chan, m)
  BY <1>1, <1>5, RingPut
<1>7. Calling'
  BY <1>1, <1>2, <1>4 DEF MbInv, Calling, NobodyStopped
<1>8. RComing \subseteq RComing' /\ SComing \subseteq SComing'
  BY <1>2, <1>4 DEF NobodyStopped
<1>9. Kept1(Receivers, entry, RecvPlaces)
  <2>1. CASE k.wait[Receivers] = << >>
    BY <1>3, <1>4, <2>1 DEF Kept1
  <2>2. CASE k.wait[Receivers] # << >>
    <3>1. Fits(RComing, RComing', entry, entry')
      BY <1>4, <1>5, <1>8, <2>2 DEF Fits
    <3> QED BY <2>2, <3>1 DEF Kept1, RComing
  <2> QED BY <2>1, <2>2
<1>10. Kept1(Senders, Size - entry, SendPlaces)
  <2>1. CASE k.wait[Senders] = << >>
    BY <1>3, <1>4, <2>1 DEF Kept1
  <2>2. CASE k.wait[Senders] # << >>
    <3>1. Fits(SComing, SComing', Size - entry, Size - entry')
      BY <1>5, <1>8 DEF Fits
    <3> QED BY <2>2, <3>1 DEF Kept1, SComing
  <2> QED BY <2>1, <2>2
<1>11. NoLostWakeup'
  BY <1>1, <1>5, <1>9, <1>10, SidesOK
<1>12. PromiseStep
  BY <1>2, <1>5, <1>6, PromiseSend
<1> QED BY <1>6, <1>7, <1>11, <1>12 DEF MbInv

\* rt_mb_control empties the ring and both lists.
LEMMA ResetMb ==
  ASSUME MbInv, Reset
  PROVE  MbInv' /\ PromiseStep
<1>1. PICK c \in Thread : c = k.cur
  BY MbFacts
<1> DEFINE a == rt_ipc_list_resume_all(k, Receivers)
           b == rt_ipc_list_resume_all(a, Senders)
<1>2. /\ At("run") /\ c # Idle /\ op[c] = "none" /\ Then_schedule(b, "none")
      /\ entry' = 0 /\ in_offset' = 0 /\ out_offset' = 0
      /\ msg_pool' = [i \in 0 .. Size - 1 |-> NoMail] /\ mail' = mail /\ time' = time /\ alive' = alive
  BY <1>1 DEF Reset, MbCall, Outside
<1>3. Receivers \in WaitList /\ Senders \in WaitList /\ Receivers # Senders /\ k \in Kernel
  BY MbFacts
<1>4. Resumes(k, a) /\ AllResumed(k, a, Receivers, "ERROR")
      /\ \A t \in Thread : Contains(a.defunct, t) => a.stat[t] # "SUSPEND"
  <2>1. /\ Resumes(k, a) /\ AllResumed(k, a, Receivers, "ERROR") /\ a.defunct = k.defunct
        /\ \A t \in Thread : ~Contains(k.wait[Receivers], t) => a.stat[t] = k.stat[t]
    BY <1>3, MbFacts, ResumeAllOK
  <2> HIDE DEF a
  <2>2. ASSUME NEW t \in Thread, Contains(k.defunct, t) PROVE a.stat[t] = k.stat[t] /\ k.stat[t] # "SUSPEND"
    <3>1. k.stat[t] # "SUSPEND"
      BY <2>2, MbFacts
    <3>2. ~Contains(k.wait[Receivers], t)
      BY <1>3, <3>1, MbFacts
    <3> QED BY <2>1, <3>1, <3>2
  <2> QED BY <2>1, <2>2
<1> HIDE DEF a
<1>5. Resumes(a, b) /\ AllResumed(a, b, Senders, "ERROR")
  BY <1>3, <1>4, ResumeAllOK DEF Resumes, Shrunk
<1> HIDE DEF b
<1>6. Resumes(k, b)
  BY <1>4, <1>5, ResumesThen
<1>7. k' = b /\ op' = [op EXCEPT ![c] = "none"]
  BY <1>1, <1>2 DEF Then_schedule, Enter
<1>8. op' = op
  BY <1>2, <1>7 DEF MbInv, Calling
<1>9. IpcInv'
  BY <1>2, <1>6, ResumeStep DEF MbInv, Calling
<1>10. k'.wait[Receivers] = << >> /\ k'.wait[Senders] = << >>
       /\ \A w \in WaitList \ {Receivers, Senders} : k'.wait[w] = k.wait[w]
  BY <1>3, <1>4, <1>5, <1>7 DEF AllResumed, Kernel
<1>11. Waiters'
  <2>1. ASSUME NEW w \in WaitList, NEW t \in Thread PROVE ~Contains(k'.wait[w], t)
    <3>1. CASE w \in {Receivers, Senders}
      BY <1>10, <3>1 DEF Contains
    <3>2. CASE w \notin {Receivers, Senders}
      BY <1>10, <3>2 DEF MbInv, Calling, Waiters
    <3> QED BY <3>1, <3>2
  <2> QED BY <2>1 DEF Waiters
<1>12. Hands' /\ Hand' = Hand
  BY <1>2, <1>8, NotOfCall
<1>13. Calling'
  BY <1>2, <1>8, <1>9, <1>11, <1>12 DEF MbInv, Calling
<1>14. NoLostWakeup'
  BY <1>10 DEF NoLostWakeup, NoneForgotten
<1>15. Ring' /\ Chan' = << >>
  <2>1. Size \in Nat /\ Size > 0 /\ 0 \in 0 .. Size /\ 0 \in 0 .. Size - 1 /\ Slot(0 + 0) = 0
    BY SizeFacts DEF Slot
  <2>2. [i \in 0 .. Size - 1 |-> NoMail] \in [0 .. Size - 1 -> AnyMail \union {NoMail}]
    OBVIOUS
  <2>3. RingOK([i \in 0 .. Size - 1 |-> NoMail], 0, 0, 0)
    BY <2>1, <2>2, RingFromSlots
  <2>4. Ring'
    BY <1>2, <2>3 DEF Ring
  <2>5. Chan' = << >>
    BY <1>2 DEF Chan, MailsOf
  <2> QED BY <2>4, <2>5
<1>16. PromiseStep
  BY <1>12, <1>15, PromiseReset
<1> QED BY <1>13, <1>14, <1>15, <1>16 DEF MbInv

\* rt_mb_delete sends the waiters away one by one, the receivers first.
LEMMA DeleteMb ==
  ASSUME MbInv, Delete_call \/ DeleteLoop
  PROVE  MbInv' /\ PromiseStep
<1>1. PICK c \in Thread : c = k.cur
  BY MbFacts
<1>2. /\ mail \in [Thread -> AnyMail \union {NoMail}] /\ op[Idle] = "none" /\ Resumes(k, k)
      /\ Receivers \in WaitList /\ Senders \in WaitList
  BY MbFacts, SameWaitsResumes DEF MbInv, Calling, Hands
<1>3. UNCHANGED ringVars /\ mail' = mail /\ Timed(c) /\ Lives
  BY DEF Delete_call, DeleteLoop, Timed, Lives
<1> DEFINE x == mail[c]
           Dels == {"none", "delete", "delete_recv", "delete2", "delete_send"}
<1>4. x \in AnyMail \union {NoMail} /\ mail' = [mail EXCEPT ![c] = x]
  BY <1>2, <1>3
<1> HIDE DEF x
<1>5. ASSUME NEW p \in Dels PROVE Fitting(p, x) /\ p # "recv_done"
  BY <1>4 DEF Fitting, OpPlaces, SendPlaces
<1>6. ASSUME op[c] \in Dels PROVE c \notin RComing /\ c \notin SComing /\ op[c] # "recv_done"
  BY <1>6 DEF RComing, SComing, OnTheWay, RecvPlaces, SendPlaces
<1>7. ASSUME At("run"), c # Idle, op[c] \in Dels, NEW p \in Dels, Then_return(k, p)
      PROVE  MbInv' /\ PromiseStep
  <2>1. Goes(c, p, x)
    BY <1>1, <1>4, <1>7 DEF Goes, Then_return, Enter
  <2>2. NothingMissed(c, p, k.error[c])
    BY <1>6, <1>7 DEF NothingMissed
  <2> QED BY <1>1, <1>2, <1>3, <1>5, <1>7, <2>1, <2>2, QuietMb
<1>8. ASSUME At("run"), c # Idle, op[c] \in Dels, NEW p \in Dels, NEW w \in WaitList, k.wait[w] # << >>,
             Then_return(ResumeWithError(k, Head(k.wait[w])), p)
      PROVE  MbInv' /\ PromiseStep
  <2>1. PICK t \in Thread : /\ t = Head(k.wait[w]) /\ Contains(k.wait[w], t)
                            /\ k.stat[t] = "SUSPEND" /\ ~Contains(k.defunct, t)
    BY <1>8, FirstWaiter
  <2> DEFINE u == ResumeWithError(k, t)
  <2>2. Resumes(k, u) /\ TakenOff(k, u, t, "ERROR")
    BY <2>1, MbFacts, ErrorResumes DEF ResumeWithError, Error
  <2>3. Then_return(u, p)
    BY <1>8, <2>1
  <2> HIDE DEF u
  <2>4. Goes(c, p, x)
    BY <1>1, <1>4, <2>3 DEF Goes, Then_return, Enter
  <2>5. Moved(c, p, x) /\ \A v \in WaitList : k.wait[v] = << >> => k'.wait[v] = << >>
    BY <1>1, <1>5, <1>8, <2>1, <2>2, <2>3, <2>4, WakeMb
  <2>6. Calling' /\ (alive' => alive)
    BY <1>3, <2>5, MovedCalling
  <2>7. NoLostWakeup'
    <3>1. NobodyStopped(c) /\ c \notin RComing /\ c \notin SComing
      BY <1>6, <1>8, <2>5 DEF Moved
    <3>2. \A v \in {Receivers, Senders} : k.wait[v] = << >> => k'.wait[v] = << >>
      BY <1>2, <2>5
    <3> QED BY <1>3, <2>6, <3>1, <3>2, NothingChanged
  <2>8. Ring' /\ Chan' = Chan
    BY <1>3, SameRing
  <2>9. Hand' = Hand
    BY <1>5, <1>6, <1>8, <2>5 DEF Moved
  <2> QED BY <2>6, <2>7, <2>8, <2>9, PromiseStutter DEF MbInv
<1>9. CASE Delete_call
  <2>1. At("run") /\ c # Idle /\ op[c] = "none" /\ Then_return(k, "delete")
    BY <1>1, <1>9 DEF Delete_call, MbCall, Outside
  <2> QED BY <1>7, <2>1
<1>10. ASSUME NEW w \in WaitList, NEW p \in Dels \ {"none"}, NEW q \in Dels, NEW r \in Dels,
              ResumeAllTest(w, p, q, r)
       PROVE  MbInv' /\ PromiseStep
  <2>1. At("run") /\ op[c] = p /\ c # Idle
    BY <1>1, <1>2, <1>10 DEF ResumeAllTest, Inside
  <2>2. Then_return(k, r) \/ Then_return(k, q)
    BY <1>10 DEF ResumeAllTest
  <2> QED BY <1>7, <2>1, <2>2
<1>11. ASSUME NEW w \in WaitList, NEW p \in Dels \ {"none"}, NEW q \in Dels, ResumeAllBody(w, p, q)
       PROVE  MbInv' /\ PromiseStep
  <2>1. /\ At("run") /\ op[c] = p /\ c # Idle /\ k.wait[w] # << >>
        /\ Then_return(ResumeWithError(k, Head(k.wait[w])), q)
    BY <1>1, <1>2, <1>11 DEF ResumeAllBody, Inside
  <2> QED BY <1>8, <2>1
<1>12. CASE DeleteLoop
  <2>1. \/ ResumeAllTest(Receivers, "delete", "delete_recv", "delete2")
        \/ ResumeAllBody(Receivers, "delete_recv", "delete")
        \/ ResumeAllTest(Senders, "delete2", "delete_send", "none")
        \/ ResumeAllBody(Senders, "delete_send", "delete2")
    BY <1>12 DEF DeleteLoop
  <2> QED BY <1>2, <1>10, <1>11, <2>1
<1> QED BY <1>9, <1>12

-----------------------------------------------------------------------------
(* The theorems.                                                            *)

\* rt_mb_init.
LEMMA MbInitOK ==
  ASSUME MbInit
  PROVE  MbInv /\ Promise!Init
<1>1. /\ IpcInv /\ k.wait = [w \in WaitList |-> << >>] /\ op = [t \in Thread |-> "none"]
  BY IpcInitOK DEF MbInit
<1>2. /\ Receivers \in WaitList /\ Senders \in WaitList
      /\ \A w \in WaitList, t \in Thread : ~Contains(k.wait[w], t)
  BY <1>1, MbListAssumption DEF Contains
<1>3. Calling
  BY <1>1, <1>2, ThreadAssumption DEF MbInit, Calling, Waiters, Hands, OpPlaces, SendPlaces
<1>4. Ring
  <2>1. Size \in Nat /\ Size > 0 /\ 0 \in 0 .. Size /\ 0 \in 0 .. Size - 1 /\ Slot(0 + 0) = 0
    BY SizeFacts DEF Slot
  <2>2. [i \in 0 .. Size - 1 |-> NoMail] \in [0 .. Size - 1 -> AnyMail \union {NoMail}]
    OBVIOUS
  <2>3. RingOK([i \in 0 .. Size - 1 |-> NoMail], 0, 0, 0)
    BY <2>1, <2>2, RingFromSlots
  <2> QED BY <2>3 DEF Ring, MbInit
<1>5. NoLostWakeup
  BY <1>1, <1>2 DEF NoLostWakeup, NoneForgotten
<1>6. Promise!Init
  BY <1>1 DEF Promise!Init, MbInit
<1> QED BY <1>3, <1>4, <1>5, <1>6 DEF MbInv

\* A step that changes nothing.
LEMMA MbStutter ==
  ASSUME MbInv, UNCHANGED mbVars
  PROVE  MbInv' /\ PromiseStep
<1>1. /\ k' = k /\ pc' = pc /\ tgt' = tgt /\ isr' = isr /\ op' = op /\ time' = time
      /\ UNCHANGED ringVars /\ mail' = mail /\ alive' = alive
  BY DEF mbVars
<1>2. IpcInv'
  BY <1>1 DEF MbInv, Calling, IpcInv, CallPlaces, Waits, IInv, TypeOK, Places, Started, Starting,
              Reaping, Defunct, BeingFreed, Running, Ticking, SleepEnds
<1>3. Hands' /\ Hand' = Hand
  BY <1>1, NotOfCall
<1>4. Ring' /\ Chan' = Chan /\ entry' = entry
  BY <1>1, SameRing
<1>5. Calling'
  BY <1>1, <1>2, <1>3 DEF MbInv, Calling, Waiters
<1>6. NoLostWakeup'
  BY <1>1, <1>4 DEF MbInv, NoLostWakeup, NoneForgotten, OnTheWay, Waiting
<1> QED BY <1>3, <1>4, <1>5, <1>6, PromiseStutter DEF MbInv

\* Every step of the mailbox.
LEMMA MbStep ==
  ASSUME Ordinary, MbInv, MbNext
  PROVE  MbInv' /\ PromiseStep
<1>1. time \in [Thread -> Int]
  BY MbFacts
<1>2. CASE Tick
  <2>1. /\ SystemStep /\ UNCHANGED <<ringVars, mail, alive>>
        /\ time' = TimeAfterTick(SendPlaces \union RecvPlaces)
    BY <1>2 DEF Tick, SystemStep
  <2>2. time' \in [Thread -> Int]
    BY <1>1, <2>1 DEF TimeAfterTick
  <2> QED BY <2>1, <2>2, SystemMb
<1>3. CASE OtherStep /\ UNCHANGED <<ringVars, mail, time, alive>>
  <2>1. SystemStep /\ UNCHANGED <<ringVars, mail, alive>> /\ time' \in [Thread -> Int]
    BY <1>1, <1>3 DEF SystemStep
  <2> QED BY <2>1, SystemMb
<1>4. CASE \E m \in Mail, n \in Times \union Range(time) : SendPut(m, n)
  BY <1>4, SendPutMb
<1>5. CASE \E n \in Times \union Range(time) : RecvTake(n)
  BY <1>5, RecvTakeMb
<1>6. CASE \/ \E m \in Mail, n \in Times \union Range(time) : SendFull(m, n)
           \/ \E n \in Times \union Range(time) : RecvEmpty(n)
           \/ SendWake \/ RecvWake \/ RecvReturn
  BY <1>6, FailMb
<1>7. CASE \E n \in Times \union Range(time) : RecvWait(n) \/ \E m \in Mail : SendWait(m, n)
  BY <1>7, WaitMb
<1>8. CASE \E m \in IrqMail : IrqSend(m)
  BY <1>8, IrqSendMb
<1>9. CASE Reset
  BY <1>9, ResetMb
<1>10. CASE Delete_call \/ DeleteLoop
  BY <1>10, DeleteMb
<1> QED BY <1>2, <1>3, <1>4, <1>5, <1>6, <1>7, <1>8, <1>9, <1>10 DEF MbNext

\* The ring, the waiters of both sides and the resumed threads that have not looked yet
\* fit together after every step (rt_mb_send_wait, rt_mb_recv, rt_mb_control,
\* rt_mb_delete, and rt_mb_send in a handler).
THEOREM MbInvariance ==
  ASSUME Ordinary
  PROVE  MbSpec => []MbInv
<1>1. MbInit => MbInv
  BY MbInitOK
<1>2. MbInv /\ [MbNext]_mbVars => MbInv'
  BY MbStep, MbStutter
<1> QED BY <1>1, <1>2, PTL DEF MbSpec

\* The offsets, the count and the slots of the ring agree, for any size and after any
\* number of turns, and every waiter is inside its call (ipc.c:1535-1541, 1683-1690).
THEOREM MbRingConsistent ==
  ASSUME Ordinary
  PROVE  MbSpec => []RingConsistent
<1>1. MbInv => RingConsistent
  <2> SUFFICES ASSUME MbInv PROVE RingConsistent
    OBVIOUS
  <2>1. MbTypeOK
    BY DEF MbInv, Calling, Hands, Ring, RingOK, IpcInv, IInv, MbTypeOK, OpPlaces, AnyMail
  <2>2. /\ in_offset = (out_offset + entry) % Size
        /\ \A i \in 0 .. entry - 1 : msg_pool[(out_offset + i) % Size] # NoMail
    BY DEF MbInv, Ring, RingOK
  <2>3. /\ Receivers \in WaitList /\ Senders \in WaitList /\ Receivers # Senders
        /\ k.wait[Receivers] \in Seq(Thread) /\ k.wait[Senders] \in Seq(Thread)
    BY MbFacts
  <2>4. \A t : /\ t \in ToSet(k.wait[Receivers]) <=> Contains(k.wait[Receivers], t)
               /\ t \in ToSet(k.wait[Senders]) <=> Contains(k.wait[Senders], t)
    BY ListSet
  <2>5. \A t : Contains(k.wait[Receivers], t) \/ Contains(k.wait[Senders], t) => t \in Thread
    BY <2>3 DEF Contains
  <2>6. \A t \in ToSet(k.wait[Receivers]) : op[t] = "recv_wait"
    BY <2>3, <2>4, <2>5 DEF MbInv, Calling, Waiters
  <2>7. \A t \in ToSet(k.wait[Senders]) : op[t] = "send_wait" /\ mail[t] # NoMail
    BY <2>3, <2>4, <2>5, MailAssumption DEF MbInv, Calling, Waiters, Hands, SendPlaces
  <2> QED BY <2>1, <2>2, <2>6, <2>7 DEF RingConsistent
<1> QED BY <1>1, MbInvariance, PTL

\* No wake-up is lost on either side, although a resumed thread may find the mail or the
\* slot taken, and may time out then (ipc.c:1472-1550, 1618-1699).
THEOREM MbNoLostWakeup ==
  ASSUME Ordinary
  PROVE  MbSpec => []NoLostWakeup
<1>1. MbInv => NoLostWakeup
  BY DEF MbInv
<1> QED BY <1>1, MbInvariance, PTL

\* Suspend lists, status words and timers agree on both lists of the mailbox
\* (ipc.c:1507-1525, 1651-1669).
THEOREM MbWaitLists ==
  ASSUME Ordinary
  PROVE  MbSpec => []WaitLists
<1>1. MbInv => WaitLists
  BY WaitListsOK DEF MbInv, Calling
<1> QED BY <1>1, MbInvariance, PTL

\* The mailbox keeps the promise of ChannelSpec: every mail goes to one receiver, in the
\* order of the sends, whatever times out, preempts, is resumed in vain or wraps around.
THEOREM MbRefinement ==
  ASSUME Ordinary
  PROVE  MbSpec => ImplementsMailbox
<1>1. MbInit => Promise!Init
  BY MbInitOK
<1>2. MbInv /\ [MbNext]_mbVars => [Promise!Next]_(Promise!vars)
  <2> SUFFICES ASSUME MbInv, [MbNext]_mbVars PROVE PromiseStep
    BY DEF PromiseStep
  <2> QED BY MbStep, MbStutter
<1> QED BY <1>1, <1>2, MbInvariance, PTL DEF MbSpec, ImplementsMailbox, Promise!Spec

=============================================================================
