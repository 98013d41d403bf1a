------------------------- MODULE MessageQueueProofs -------------------------
(***************************************************************************)
(* The properties of MessageQueue for any number of threads and nodes, any *)
(* messages, priorities and waiting times, and for both flags.             *)
(***************************************************************************)
EXTENDS MessageQueue, KernelProofs

-----------------------------------------------------------------------------
(* Linked lists.                                                            *)

\* From x on, links nx lead through the nodes of s, once each.
Linked(nx, x, s) ==
  /\ s \in Seq(Node) /\ IsInjective(s)
  /\ x = IF s = << >> THEN NULL ELSE s[1]
  /\ \A i \in 1 .. Len(s) : nx[s[i]] = IF i = Len(s) THEN NULL ELSE s[i + 1]

\* No list is longer than the pool.
LEMMA ListFits ==
  ASSUME NEW s \in Seq(Node), IsInjective(s)
  PROVE  /\ Len(s) \in Nat /\ Len(s) <= Cardinality(Node) /\ Cardinality(Node) \in Nat
         /\ IsFiniteSet(ToSet(s)) /\ Cardinality(ToSet(s)) = Len(s)
<1>1. IsFiniteSet(Node) /\ Cardinality(Node) \in Nat
  BY NodeAssumption, FS_CardinalityType
<1>2. Len(s) \in Nat /\ s \in [1 .. Len(s) -> Node] /\ \A i, j \in 1 .. Len(s) : s[i] = s[j] => i = j
  BY DEF IsInjective
<1>3. IsFiniteSet(1 .. Len(s)) /\ Cardinality(1 .. Len(s)) = Len(s)
  BY <1>2, FS_Interval
<1>4. s \in Injection(1 .. Len(s), Node)
  BY <1>2 DEF Injection
<1>5. Cardinality(1 .. Len(s)) <= Cardinality(Node)
  BY <1>1, <1>4, FS_Injection
<1>6. s \in Bijection(1 .. Len(s), ToSet(s))
  <2>1. ToSet(s) = {s[i] : i \in 1 .. Len(s)}
    BY <1>2 DEF ToSet
  <2>2. s \in [1 .. Len(s) -> ToSet(s)]
    BY <1>2, <2>1
  <2>3. \A t \in ToSet(s) : \E i \in 1 .. Len(s) : s[i] = t
    BY <2>1
  <2> QED BY <1>2, <2>2, <2>3 DEF Bijection, Injection, Surjection
<1>7. ExistsBijection(1 .. Len(s), ToSet(s))
  BY <1>6 DEF ExistsBijection
<1> QED BY <1>1, <1>2, <1>3, <1>5, <1>7, FS_Bijection

\* Following the links finds the list.
LEMMA ChainOf ==
  ASSUME NEW nx, NEW x, NEW s, Linked(nx, x, s)
  PROVE  ChainIn(nx, x) = s
<1> DEFINE N == Cardinality(Node) + 1
           Walks(f) == f = [i \in 1 .. N |-> IF i = 1 THEN x
                                             ELSE IF f[i - 1] = NULL THEN NULL ELSE nx[f[i - 1]]]
           g == [i \in 1 .. N |-> IF i <= Len(s) THEN s[i] ELSE NULL]
           h == NodesFrom(nx, x)
<1>1. /\ s \in Seq(Node) /\ Len(s) \in Nat /\ N \in Nat /\ Len(s) < N /\ 1 <= N
      /\ \A i \in 1 .. Len(s) : s[i] \in Node /\ s[i] # NULL
      /\ \A i \in 1 .. Len(s) : nx[s[i]] = IF i = Len(s) THEN NULL ELSE s[i + 1]
      /\ x = IF Len(s) = 0 THEN NULL ELSE s[1]
  BY ListFits, NodeAssumption DEF Linked
<1> HIDE DEF N
<1>2. \A i \in 1 .. N : g[i] = IF i = 1 THEN x ELSE IF g[i - 1] = NULL THEN NULL ELSE nx[g[i - 1]]
  <2> SUFFICES ASSUME NEW i \in 1 .. N
               PROVE  g[i] = IF i = 1 THEN x ELSE IF g[i - 1] = NULL THEN NULL ELSE nx[g[i - 1]]
    OBVIOUS
  <2>1. CASE i = 1
    BY <1>1, <2>1
  <2>2. CASE i # 1
    <3>1. i - 1 \in 1 .. N /\ g[i - 1] = (IF i - 1 <= Len(s) THEN s[i - 1] ELSE NULL)
          /\ g[i] = IF i <= Len(s) THEN s[i] ELSE NULL
      BY <1>1, <2>2
    <3> HIDE DEF g
    <3>2. CASE i - 1 > Len(s)
      BY <1>1, <2>2, <3>1, <3>2
    <3>3. CASE i - 1 <= Len(s)
      <4>1. i - 1 \in 1 .. Len(s) /\ (i - 1) + 1 = i
        BY <1>1, <2>2, <3>3
      <4>2. nx[s[i - 1]] = (IF i - 1 = Len(s) THEN NULL ELSE s[i]) /\ s[i - 1] # NULL
        BY <1>1, <4>1
      <4> QED BY <1>1, <2>2, <3>1, <3>3, <4>1, <4>2
    <3> QED BY <1>1, <3>2, <3>3
  <2> QED BY <2>1, <2>2
<1>3. Walks(g)
  <2>1. g = [i \in 1 .. N |-> g[i]]
    OBVIOUS
  <2> HIDE DEF g
  <2> QED BY <1>2, <2>1
<1>4. Walks(h)
  <2>1. h = CHOOSE f : Walks(f)
    BY DEF NodesFrom, N
  <2> HIDE DEF Walks, g, h
  <2> QED BY <1>3, <2>1
<1>5. h = [i \in 1 .. N |-> h[i]] /\ DOMAIN h = 1 .. N
      /\ \A i \in 1 .. N : h[i] = IF i = 1 THEN x ELSE IF h[i - 1] = NULL THEN NULL ELSE nx[h[i - 1]]
  BY <1>4
<1> HIDE DEF g, h
<1>6. \A i \in 1 .. N : h[i] = g[i]
  <2> DEFINE Bad == {i \in Nat : i \in 1 .. N /\ h[i] # g[i]}
  <2> SUFFICES ASSUME Bad # {} PROVE FALSE
    BY <1>1
  <2> DEFINE m == Min(Bad)
  <2>1. m \in Bad /\ \A i \in Bad : m <= i
    <3>1. Bad \subseteq Nat
      OBVIOUS
    <3> HIDE DEF Bad
    <3> QED BY <3>1, NatLeast
  <2> HIDE DEF m
  <2>2. m \in 1 .. N /\ h[m] # g[m]
    BY <2>1
  <2>3. m # 1
    BY <1>2, <1>5, <2>2
  <2>4. m - 1 \in 1 .. N /\ m - 1 \notin Bad
    <3>1. m - 1 \in 1 .. N /\ ~(m <= m - 1)
      BY <1>1, <2>2, <2>3
    <3> HIDE DEF Bad
    <3> QED BY <2>1, <3>1
  <2>5. h[m - 1] = g[m - 1]
    BY <1>1, <2>4
  <2> QED BY <1>2, <1>5, <2>2, <2>3, <2>5
<1>7. \A i \in 1 .. N : h[i] = IF i <= Len(s) THEN s[i] ELSE NULL
  BY <1>6 DEF g
<1>8. {i \in DOMAIN h : h[i] # NULL} = 1 .. Len(s)
  BY <1>1, <1>5, <1>7
<1>9. Cardinality(1 .. Len(s)) = Len(s)
  <2>1. Len(s) \in Nat
    BY <1>1
  <2> QED BY ONLY <2>1, FS_Interval, SMTT(40)
<1>10. ChainIn(nx, x) = [i \in 1 .. Len(s) |-> h[i]]
  BY <1>8, <1>9 DEF ChainIn, h
<1>11. \A i \in 1 .. Len(s) : h[i] = s[i]
  BY <1>1, <1>7
<1>12. s = [i \in 1 .. Len(s) |-> s[i]]
  BY <1>1
<1> QED BY <1>10, <1>11, <1>12

\* A list whose links are left alone.
LEMMA LinkedSame ==
  ASSUME NEW nx, NEW x, NEW s, Linked(nx, x, s), NEW ny, \A y : Contains(s, y) => ny[y] = nx[y]
  PROVE  Linked(ny, x, s)
<1>1. \A i \in 1 .. Len(s) : Contains(s, s[i])
  BY DEF Linked, Contains
<1> QED BY <1>1 DEF Linked

\* What is on a list is a node.
LEMMA LinkedNodes ==
  ASSUME NEW nx, NEW x, NEW s, Linked(nx, x, s)
  PROVE  /\ s \in Seq(Node) /\ IsInjective(s) /\ Len(s) \in Nat
         /\ \A y : Contains(s, y) => y \in Node /\ y # NULL
         /\ x = NULL <=> s = << >>
         /\ s # << >> => x = Head(s) /\ x \in Node /\ Contains(s, x) /\ Len(s) > 0
BY NodeAssumption DEF Linked, Contains

\* The list without its first node.
LEMMA LinkedTail ==
  ASSUME NEW nx, NEW x, NEW s, Linked(nx, x, s), s # << >>
  PROVE  /\ Linked(nx, nx[x], Tail(s)) /\ Len(Tail(s)) = Len(s) - 1
         /\ \A y : Contains(Tail(s), y) <=> Contains(s, y) /\ y # x
         /\ \A i \in 1 .. Len(s) - 1 : Tail(s)[i] = s[i + 1]
<1> DEFINE r == Tail(s)
<1>1. /\ s \in Seq(Node) /\ Len(s) \in Nat /\ 1 <= Len(s) /\ x = s[1]
      /\ \A i, j \in 1 .. Len(s) : s[i] = s[j] => i = j
      /\ \A i \in 1 .. Len(s) : nx[s[i]] = IF i = Len(s) THEN NULL ELSE s[i + 1]
  BY DEF Linked, IsInjective
<1>2. /\ r \in Seq(Node) /\ Len(r) = Len(s) - 1 /\ \A i \in 1 .. Len(s) - 1 : r[i] = s[i + 1]
  BY <1>1
<1> HIDE DEF r
<1>3. IsInjective(r)
  BY <1>1, <1>2 DEF IsInjective
<1>4. nx[x] = IF r = << >> THEN NULL ELSE r[1]
  <2>1. CASE Len(s) = 1
    BY <1>1, <1>2, <2>1
  <2>2. CASE Len(s) # 1
    BY <1>1, <1>2, <2>2
  <2> QED BY <2>1, <2>2
<1>5. ASSUME NEW i \in 1 .. Len(r) PROVE nx[r[i]] = IF i = Len(r) THEN NULL ELSE r[i + 1]
  <2>1. i + 1 \in 1 .. Len(s) /\ r[i] = s[i + 1] /\ (i # Len(r) => r[i + 1] = s[(i + 1) + 1])
    BY <1>1, <1>2
  <2>2. nx[s[i + 1]] = IF i + 1 = Len(s) THEN NULL ELSE s[(i + 1) + 1]
    BY <1>1, <2>1
  <2> QED BY <1>1, <1>2, <2>1, <2>2
<1>6. ASSUME NEW y, Contains(r, y) PROVE Contains(s, y) /\ y # x
  <2>1. PICK i \in 1 .. Len(r) : r[i] = y
    BY <1>6 DEF Contains
  <2>2. i + 1 \in 1 .. Len(s) /\ 1 \in 1 .. Len(s) /\ i + 1 # 1 /\ s[i + 1] = y
    BY <1>1, <1>2, <2>1
  <2> QED BY <1>1, <2>2 DEF Contains
<1>7. ASSUME NEW y, Contains(s, y), y # x PROVE Contains(r, y)
  <2>1. PICK i \in 1 .. Len(s) : s[i] = y
    BY <1>7 DEF Contains
  <2>2. i # 1
    BY <1>1, <1>7, <2>1
  <2>3. i - 1 \in 1 .. Len(r) /\ r[i - 1] = y
    BY <1>1, <1>2, <2>1, <2>2
  <2> QED BY <2>3 DEF Contains
<1> QED BY <1>2, <1>3, <1>4, <1>5, <1>6, <1>7 DEF r, Linked

\* A node in front of the list (ipc.c:2016-2017, 2095-2101, 2257-2259).
LEMMA LinkedPush ==
  ASSUME NEW nx \in [Node -> Node \union {NULL}], NEW x, NEW s, Linked(nx, x, s),
         NEW y \in Node, ~Contains(s, y)
  PROVE  /\ Linked([nx EXCEPT ![y] = x], y, <<y>> \o s) /\ Len(<<y>> \o s) = Len(s) + 1
         /\ \A z : Contains(<<y>> \o s, z) <=> Contains(s, z) \/ z = y
<1> DEFINE r == <<y>> \o s
           ny == [nx EXCEPT ![y] = x]
<1>1. /\ s \in Seq(Node) /\ Len(s) \in Nat /\ IsInjective(s) /\ x = IF Len(s) = 0 THEN NULL ELSE s[1]
      /\ \A i \in 1 .. Len(s) : s[i] \in Node /\ s[i] # y
      /\ \A i \in 1 .. Len(s) : nx[s[i]] = IF i = Len(s) THEN NULL ELSE s[i + 1]
  BY DEF Linked, Contains
<1>2. /\ r \in Seq(Node) /\ Len(r) = Len(s) + 1 /\ r[1] = y /\ r # << >>
      /\ \A i \in 2 .. Len(s) + 1 : r[i] = s[i - 1]
  BY <1>1
<1>3. ny[y] = x /\ \A z \in Node \ {y} : ny[z] = nx[z]
  OBVIOUS
<1>4. IsInjective(r) /\ \A z : Contains(r, z) <=> Contains(s, z) \/ z = y
  BY <1>1, PrependElements
<1> HIDE DEF r, ny
<1>5. ASSUME NEW i \in 1 .. Len(r) PROVE ny[r[i]] = IF i = Len(r) THEN NULL ELSE r[i + 1]
  <2>1. CASE i = 1
    BY <1>1, <1>2, <1>3, <2>1
  <2>2. CASE i # 1
    <3>0. i \in 2 .. Len(s) + 1 /\ i - 1 \in 1 .. Len(s) /\ (i - 1) + 1 = i
      BY <1>1, <1>2, <2>2
    <3>1. i - 1 \in 1 .. Len(s) /\ r[i] = s[i - 1] /\ (i - 1) + 1 = i
      BY <1>2, <3>0
    <3>2. nx[s[i - 1]] = IF i - 1 = Len(s) THEN NULL ELSE s[i]
      BY <1>1, <3>1
    <3>3. ny[r[i]] = nx[s[i - 1]]
      BY <1>1, <1>3, <3>1
    <3>4. i # Len(r) => r[i + 1] = s[i]
      BY <1>1, <1>2, <3>1
    <3> QED BY <1>1, <1>2, <3>1, <3>2, <3>3, <3>4
  <2> QED BY <2>1, <2>2
<1> QED BY <1>2, <1>4, <1>5 DEF r, ny, Linked

\* The links with node y behind list s.
TailLinks(nx, s, y) ==
  IF s = << >> THEN [nx EXCEPT ![y] = NULL] ELSE [nx EXCEPT ![y] = NULL, ![Last(s)] = y]

\* A node behind the list (ipc.c:1999-2017).
LEMMA LinkedAppend ==
  ASSUME NEW nx \in [Node -> Node \union {NULL}], NEW x, NEW s, Linked(nx, x, s),
         NEW y \in Node, ~Contains(s, y)
  PROVE  /\ Linked(TailLinks(nx, s, y), IF x = NULL THEN y ELSE x, Append(s, y))
         /\ Len(Append(s, y)) = Len(s) + 1
         /\ \A z : Contains(Append(s, y), z) <=> Contains(s, z) \/ z = y
         /\ TailLinks(nx, s, y) \in [Node -> Node \union {NULL}]
         /\ \A z \in Node : ~Contains(s, z) /\ z # y => TailLinks(nx, s, y)[z] = nx[z]
         /\ Last(Append(s, y)) = y /\ Append(s, y) # << >>
<1> DEFINE r == Append(s, y)
           n == Len(s)
           ny == TailLinks(nx, s, y)
<1>1. /\ s \in Seq(Node) /\ n \in Nat /\ IsInjective(s) /\ x = IF n = 0 THEN NULL ELSE s[1]
      /\ \A i \in 1 .. n : s[i] \in Node /\ s[i] # y /\ s[i] # NULL
      /\ \A i \in 1 .. n : nx[s[i]] = IF i = n THEN NULL ELSE s[i + 1]
      /\ \A i, j \in 1 .. n : s[i] = s[j] => i = j
  BY NodeAssumption DEF Linked, Contains, IsInjective
<1>2. /\ r \in Seq(Node) /\ Len(r) = n + 1 /\ r[n + 1] = y /\ r # << >> /\ Last(r) = y
      /\ \A i \in 1 .. n : r[i] = s[i]
  <2>1. /\ r \in Seq(Node) /\ Len(r) = n + 1 /\ r[n + 1] = y
        /\ \A i \in 1 .. n : r[i] = s[i]
    BY <1>1
  <2> HIDE DEF r, n
  <2>2. Last(r) = y
    BY <2>1 DEF Last
  <2> QED BY <1>1, <2>1, <2>2
<1>3. IsInjective(r) /\ \A z : Contains(r, z) <=> Contains(s, z) \/ z = y
  BY <1>1, AppendElements
<1>4. /\ n = 0 => ny = [nx EXCEPT ![y] = NULL]
      /\ n # 0 => ny = [nx EXCEPT ![y] = NULL, ![s[n]] = y]
  BY <1>1 DEF Last, TailLinks
<1> HIDE DEF r, n, ny
<1>5. /\ ny \in [Node -> Node \union {NULL}] /\ ny[y] = NULL
      /\ \A z \in Node \ {y} : (n = 0 \/ z # s[n]) => ny[z] = nx[z]
      /\ n # 0 => ny[s[n]] = y
  <2>1. CASE n = 0
    BY <1>4, <2>1
  <2>2. CASE n # 0
    <3>1. s[n] \in Node /\ s[n] # y
      BY <1>1, <2>2
    <3> QED BY <1>4, <2>2, <3>1
  <2> QED BY <2>1, <2>2
<1>6. \A z \in Node : ~Contains(s, z) /\ z # y => ny[z] = nx[z]
  <2>1. n # 0 => Contains(s, s[n])
    BY <1>1 DEF Contains, n
  <2> QED BY <1>5, <2>1
<1>7. ASSUME NEW i \in 1 .. n + 1 PROVE ny[r[i]] = IF i = n + 1 THEN NULL ELSE r[i + 1]
  <2>1. CASE i = n + 1
    BY <1>2, <1>5, <2>1
  <2>2. CASE i = n
    <3>1. n # 0 /\ r[i] = s[n] /\ i + 1 = n + 1 /\ i # n + 1
      BY <1>1, <1>2, <2>2
    <3> QED BY <1>2, <1>5, <3>1
  <2>3. CASE i \in 1 .. n - 1
    <3>1. i \in 1 .. n /\ i + 1 \in 1 .. n /\ n \in 1 .. n /\ i # n
      BY <1>1, <2>3
    <3>2. r[i] = s[i] /\ r[i + 1] = s[i + 1] /\ s[i] # s[n] /\ s[i] \in Node \ {y}
      BY <1>1, <1>2, <3>1
    <3>3. ny[s[i]] = nx[s[i]] /\ nx[s[i]] = s[i + 1]
      BY <1>1, <1>5, <3>1, <3>2
    <3>4. i # n + 1
      BY <1>1, <3>1
    <3> QED BY <3>2, <3>3, <3>4
  <2> QED BY <1>1, <2>1, <2>2, <2>3
<1>8. (IF x = NULL THEN y ELSE x) = IF r = << >> THEN NULL ELSE r[1]
  <2>1. CASE n = 0
    BY <1>1, <1>2, <2>1
  <2>2. CASE n # 0
    <3>1. 1 \in 1 .. n
      BY <1>1, <2>2
    <3> QED BY <1>1, <1>2, <2>2, <3>1
  <2> QED BY <2>1, <2>2
<1> QED BY <1>2, <1>3, <1>5, <1>6, <1>7, <1>8 DEF r, n, ny, Linked


\* The nodes of s pushed one after the other in front of list r (ipc.c:1812-1819,
\* 2297-2314).
LEMMA LinkedStack ==
  ASSUME NEW s \in Seq(Node), IsInjective(s), NEW ny, NEW f, NEW r, Linked(ny, f, r),
         \A y : Contains(s, y) => ~Contains(r, y),
         \A i \in 1 .. Len(s) : ny[s[i]] = IF i = 1 THEN f ELSE s[i - 1]
  PROVE  \E z : /\ Linked(ny, IF s = << >> THEN f ELSE Last(s), z)
                /\ \A y : Contains(z, y) <=> Contains(s, y) \/ Contains(r, y)
<1> DEFINE n == Len(s)
           m == Len(r)
           z == [i \in 1 .. n + m |-> IF i <= n THEN s[(n + 1) - i] ELSE r[i - n]]
<1>1. /\ n \in Nat /\ m \in Nat /\ r \in Seq(Node)
      /\ \A i \in 1 .. n : s[i] \in Node /\ Contains(s, s[i])
      /\ \A i \in 1 .. m : r[i] \in Node /\ Contains(r, r[i])
      /\ \A i, j \in 1 .. n : s[i] = s[j] => i = j
      /\ \A i, j \in 1 .. m : r[i] = r[j] => i = j
      /\ f = IF m = 0 THEN NULL ELSE r[1]
      /\ \A i \in 1 .. m : ny[r[i]] = IF i = m THEN NULL ELSE r[i + 1]
      /\ \A i \in 1 .. n : ny[s[i]] = IF i = 1 THEN f ELSE s[i - 1]
  BY DEF Linked, IsInjective, Contains
<1>2. /\ \A i \in 1 .. n : /\ i \in 1 .. n + m /\ (n + 1) - i \in 1 .. n /\ z[i] = s[(n + 1) - i]
      /\ \A i \in 1 .. m : /\ n + i \in 1 .. n + m /\ z[n + i] = r[i]
  <2>1. ASSUME NEW i \in 1 .. n PROVE i \in 1 .. n + m /\ (n + 1) - i \in 1 .. n /\ z[i] = s[(n + 1) - i]
    BY <1>1
  <2>2. ASSUME NEW i \in 1 .. m PROVE n + i \in 1 .. n + m /\ z[n + i] = r[i]
    <3>1. n + i \in 1 .. n + m /\ ~(n + i <= n) /\ (n + i) - n = i
      BY <1>1
    <3> QED BY <3>1
  <2> QED BY <2>1, <2>2
<1>3. \A i \in 1 .. n + m : i \in 1 .. n \/ \E j \in 1 .. m : i = n + j
  <2> SUFFICES ASSUME NEW i \in 1 .. n + m, i \notin 1 .. n PROVE \E j \in 1 .. m : i = n + j
    OBVIOUS
  <2>1. i - n \in 1 .. m /\ i = n + (i - n)
    BY <1>1
  <2> QED BY <2>1
<1>4. z \in Seq(Node) /\ Len(z) = n + m
  <2>1. \A i \in 1 .. n + m : z[i] \in Node
    BY <1>1, <1>2, <1>3
  <2>2. z \in [1 .. n + m -> Node] /\ n + m \in Nat
    <3>1. z = [i \in 1 .. n + m |-> z[i]]
      OBVIOUS
    <3> HIDE DEF z
    <3> QED BY <1>1, <2>1, <3>1
  <2> HIDE DEF z
  <2> QED BY <2>2
<1>5. s = << >> <=> n = 0
  OBVIOUS
<1>6. n # 0 => Last(s) = s[n]
  BY DEF Last
<1> HIDE DEF z, n, m
<1>7. IsInjective(z)
  <2> SUFFICES ASSUME NEW i \in 1 .. n + m, NEW j \in 1 .. n + m, z[i] = z[j] PROVE i = j
    BY <1>4 DEF IsInjective
  <2>1. CASE i \in 1 .. n /\ j \in 1 .. n
    <3>1. (n + 1) - i = (n + 1) - j
      BY <1>1, <1>2, <2>1
    <3> QED BY <1>1, <2>1, <3>1
  <2>2. ASSUME NEW a \in 1 .. m, NEW b \in 1 .. m, i = n + a, j = n + b PROVE i = j
    BY <1>1, <1>2, <2>2
  <2>3. ASSUME NEW a \in 1 .. n, NEW b \in 1 .. m, z[a] = z[n + b] PROVE FALSE
    <3>1. z[a] = s[(n + 1) - a] /\ (n + 1) - a \in 1 .. n /\ z[n + b] = r[b]
      BY <1>2
    <3> QED BY <1>1, <2>3, <3>1, ZenonT(60)
  <2> QED BY <1>3, <2>1, <2>2, <2>3
<1>8. (IF s = << >> THEN f ELSE Last(s)) = IF z = << >> THEN NULL ELSE z[1]
  <2>1. CASE n = 0
    <3>1. m # 0 => 1 \in 1 .. m /\ n + 1 = 1
      BY <1>1, <2>1
    <3>2. m # 0 => z[1] = r[1] /\ z # << >>
      BY <1>1, <1>2, <1>4, <2>1, <3>1
    <3>3. m = 0 => z = << >>
      BY <1>4, <2>1
    <3> QED BY <1>1, <1>5, <2>1, <3>2, <3>3
  <2>2. CASE n # 0
    <3>1. 1 \in 1 .. n /\ (n + 1) - 1 = n
      BY <1>1, <2>2
    <3>2. z[1] = s[n] /\ z # << >>
      BY <1>1, <1>2, <1>4, <2>2, <3>1
    <3> QED BY <1>5, <1>6, <2>2, <3>2
  <2> QED BY <2>1, <2>2
<1>9. ASSUME NEW i \in 1 .. n + m PROVE ny[z[i]] = IF i = n + m THEN NULL ELSE z[i + 1]
  <2>1. CASE i \in 1 .. n
    <3> DEFINE j == (n + 1) - i
    <3>1. z[i] = s[j] /\ j \in 1 .. n /\ ny[s[j]] = IF j = 1 THEN f ELSE s[j - 1]
      BY <1>1, <1>2, <2>1
    <3>2. CASE i < n
      <4>1. i + 1 \in 1 .. n /\ (n + 1) - (i + 1) = j - 1 /\ j # 1 /\ i # n + m
        BY <1>1, <2>1, <3>2
      <4>2. z[i + 1] = s[j - 1]
        BY <1>2, <4>1
      <4> HIDE DEF j
      <4> QED BY <3>1, <4>1, <4>2
    <3>3. CASE i = n
      <4>1. j = 1 /\ ny[z[i]] = f
        BY <1>1, <3>1, <3>3
      <4>2. CASE m = 0
        BY <1>1, <3>3, <4>1, <4>2
      <4>3. CASE m # 0
        <5>1. 1 \in 1 .. m /\ i + 1 = n + 1 /\ i # n + m
          BY <1>1, <3>3, <4>3
        <5>2. z[n + 1] = r[1]
          BY <1>2, <5>1
        <5> QED BY <1>1, <4>1, <4>3, <5>1, <5>2
      <4> QED BY <4>2, <4>3
    <3>4. i < n \/ i = n
      BY <1>1, <2>1
    <3> QED BY <3>2, <3>3, <3>4
  <2>2. ASSUME NEW j \in 1 .. m, i = n + j PROVE ny[z[i]] = IF i = n + m THEN NULL ELSE z[i + 1]
    <3>1. z[i] = r[j] /\ ny[r[j]] = IF j = m THEN NULL ELSE r[j + 1]
      BY <1>1, <1>2, <2>2
    <3>2. CASE j = m
      BY <2>2, <3>1, <3>2
    <3>3. CASE j # m
      <4>1. j + 1 \in 1 .. m /\ i + 1 = n + (j + 1) /\ i # n + m
        BY <1>1, <2>2, <3>3
      <4>2. z[i + 1] = r[j + 1]
        BY <1>2, <4>1
      <4> QED BY <3>1, <3>3, <4>1, <4>2
    <3> QED BY <3>2, <3>3
  <2> QED BY <1>3, <2>1, <2>2
<1>10. ASSUME NEW y PROVE Contains(z, y) <=> Contains(s, y) \/ Contains(r, y)
  <2>1. ASSUME Contains(z, y) PROVE Contains(s, y) \/ Contains(r, y)
    <3>1. PICK i \in 1 .. n + m : z[i] = y
      BY <1>4, <2>1 DEF Contains
    <3>2. CASE i \in 1 .. n
      <4>1. (n + 1) - i \in 1 .. n /\ s[(n + 1) - i] = y
        BY <1>2, <3>1, <3>2
      <4> QED BY <1>1, <4>1
    <3>3. CASE \E j \in 1 .. m : i = n + j
      <4>1. \E j \in 1 .. m : r[j] = y
        BY <1>2, <3>1, <3>3
      <4> QED BY <1>1, <4>1
    <3> QED BY <1>3, <3>1, <3>2, <3>3
  <2>2. ASSUME Contains(s, y) PROVE Contains(z, y)
    <3>1. PICK i \in 1 .. n : s[i] = y
      BY <2>2 DEF Contains, n
    <3>2. (n + 1) - i \in 1 .. n /\ (n + 1) - ((n + 1) - i) = i
      BY <1>1
    <3>3. z[(n + 1) - i] = y /\ (n + 1) - i \in 1 .. n + m
      BY <1>2, <3>1, <3>2
    <3> QED BY <1>4, <3>3 DEF Contains
  <2>3. ASSUME Contains(r, y) PROVE Contains(z, y)
    <3>1. PICK i \in 1 .. m : r[i] = y
      BY <2>3 DEF Contains, m
    <3>2. z[n + i] = y /\ n + i \in 1 .. n + m
      BY <1>2, <3>1
    <3> QED BY <1>4, <3>2 DEF Contains
  <2> QED BY <2>1, <2>2, <2>3
<1>11. Linked(ny, IF s = << >> THEN f ELSE Last(s), z)
  BY <1>4, <1>7, <1>8, <1>9 DEF Linked
<1> QED BY <1>10, <1>11


-----------------------------------------------------------------------------
(* The pool of nodes.                                                       *)

Links == [Node -> Node \union {NULL}]
Contents == [Node -> Messages \union {Nothing}]

\* Nodes q are queued, nodes r are free, and the nodes of H are in the hands of
\* threads, with links nx, contents da, head h, tail l, free list f and count n.
Pool(nx, da, h, l, f, n, H, q, r) ==
  /\ nx \in Links /\ da \in Contents /\ Linked(nx, h, q) /\ Linked(nx, f, r) /\ n = Len(q)
  /\ l = IF q = << >> THEN NULL ELSE Last(q)
  /\ \A y : Contains(q, y) => da[y] \in Messages /\ ~Contains(r, y)
  /\ H \subseteq Node
  /\ \A y \in Node : y \in H <=> ~Contains(q, y) /\ ~Contains(r, y)

\* The messages of the nodes of q.
MessagesOf(da, q) == [i \in 1 .. Len(q) |-> da[q[i]]]

\* They are a sequence.
LEMMA MessagesFacts ==
  ASSUME NEW da, NEW q \in Seq(Node), \A y : Contains(q, y) => da[y] \in Messages
  PROVE  /\ MessagesOf(da, q) \in Seq(Messages) /\ Len(MessagesOf(da, q)) = Len(q)
         /\ \A i \in 1 .. Len(q) : MessagesOf(da, q)[i] = da[q[i]] /\ da[q[i]] \in Messages
<1>1. Len(q) \in Nat /\ \A i \in 1 .. Len(q) : da[q[i]] \in Messages
  BY DEF Contains
<1>2. MessagesOf(da, q) \in [1 .. Len(q) -> Messages]
  BY <1>1 DEF MessagesOf
<1> QED BY <1>1, <1>2 DEF MessagesOf

\* What a pool is made of.
LEMMA PoolFacts ==
  ASSUME NEW nx, NEW da, NEW h, NEW l, NEW f, NEW n, NEW H, NEW q, NEW r,
         Pool(nx, da, h, l, f, n, H, q, r)
  PROVE  /\ n \in Nat /\ q \in Seq(Node) /\ r \in Seq(Node) /\ IsInjective(q) /\ IsInjective(r)
         /\ h = NULL <=> q = << >>
         /\ n > 0 <=> q # << >>
         /\ f = NULL <=> r = << >>
         /\ h \in Node \union {NULL} /\ l \in Node \union {NULL} /\ f \in Node \union {NULL}
         /\ l = NULL <=> q = << >>
         /\ ChainIn(nx, h) = q /\ ChainIn(nx, f) = r
<1>1. /\ q \in Seq(Node) /\ r \in Seq(Node) /\ IsInjective(q) /\ IsInjective(r)
      /\ h = NULL <=> q = << >>
      /\ f = NULL <=> r = << >>
      /\ h \in Node \union {NULL} /\ f \in Node \union {NULL} /\ n \in Nat /\ n = Len(q)
  BY LinkedNodes DEF Pool
<1>2. n > 0 <=> q # << >>
  BY <1>1
<1>3. l \in Node \union {NULL} /\ (l = NULL <=> q = << >>)
  <2>1. q # << >> => Last(q) \in Node
    BY <1>1 DEF Last
  <2> QED BY <2>1, NodeAssumption DEF Pool
<1>4. ChainIn(nx, h) = q /\ ChainIn(nx, f) = r
  BY ChainOf DEF Pool
<1> QED BY <1>1, <1>2, <1>3, <1>4

\* The links, the contents and the other end of a list when node x is linked.
BehindLast(nx, l, x) == IF l = NULL THEN [nx EXCEPT ![x] = NULL] ELSE [nx EXCEPT ![x] = NULL, ![l] = x]
BeforeFirst(nx, h, x) == [nx EXCEPT ![x] = h]
Filled(da, x, m) == [da EXCEPT ![x] = m]
OrOnly(y, x) == IF y = NULL THEN x ELSE y

\* Message m behind, or before, the messages of q, and the messages left alone.
IsLast(da, q, db, z, m) == MessagesOf(db, z) = Append(MessagesOf(da, q), m)
IsFirst(da, q, db, z, m) == MessagesOf(db, z) = <<m>> \o MessagesOf(da, q)
AreKept(da, q, db) == MessagesOf(db, q) = MessagesOf(da, q)

\* A free node is taken (ipc.c:1984-1997).
LEMMA TakeFree ==
  ASSUME NEW nx, NEW da, NEW h, NEW l, NEW f, NEW n, NEW H, NEW q, NEW r,
         Pool(nx, da, h, l, f, n, H, q, r), f # NULL
  PROVE  /\ Pool(nx, da, h, l, nx[f], n, H \union {f}, q, Tail(r))
         /\ f \in Node /\ f \notin H
<1>1. r # << >> /\ f \in Node /\ Contains(r, f)
  BY LinkedNodes DEF Pool
<1>2. Linked(nx, nx[f], Tail(r)) /\ \A y : Contains(Tail(r), y) <=> Contains(r, y) /\ y # f
  BY <1>1, LinkedTail DEF Pool
<1>3. f \notin H
  BY <1>1 DEF Pool
<1>4. \A y : Contains(q, y) => da[y] \in Messages /\ ~Contains(Tail(r), y)
  BY <1>2 DEF Pool
<1>5. H \union {f} \subseteq Node
  BY <1>1 DEF Pool
<1>6. \A y \in Node : y \in H \union {f} <=> ~Contains(q, y) /\ ~Contains(Tail(r), y)
  BY <1>1, <1>2 DEF Pool
<1>7. /\ nx \in Links /\ da \in Contents /\ Linked(nx, h, q) /\ n = Len(q)
      /\ l = IF q = << >> THEN NULL ELSE Last(q)
  BY DEF Pool
<1> QED BY <1>1, <1>2, <1>3, <1>4, <1>5, <1>6, <1>7 DEF Pool

\* A node goes back to the free list (ipc.c:2252-2259).
LEMMA PutFree ==
  ASSUME NEW nx, NEW da, NEW h, NEW l, NEW f, NEW n, NEW H, NEW q, NEW r,
         Pool(nx, da, h, l, f, n, H, q, r), NEW x \in H
  PROVE  /\ Pool(BeforeFirst(nx, f, x), Filled(da, x, Nothing), h, l, x, n, H \ {x}, q, <<x>> \o r)
         /\ AreKept(da, q, Filled(da, x, Nothing))
<1> DEFINE ny == [nx EXCEPT ![x] = f]
           db == [da EXCEPT ![x] = Nothing]
           z == <<x>> \o r
<1>1. x \in Node /\ ~Contains(q, x) /\ ~Contains(r, x) /\ nx \in Links /\ da \in Contents
      /\ f \in Node \union {NULL} /\ q \in Seq(Node)
  <2>1. f \in Node \union {NULL} /\ q \in Seq(Node)
    BY PoolFacts
  <2> QED BY <2>1 DEF Pool
<1>2. /\ Linked(ny, x, z) /\ \A y : Contains(z, y) <=> Contains(r, y) \/ y = x
  BY <1>1, LinkedPush DEF Pool, Links
<1>3. /\ ny \in Links /\ db \in Contents
      /\ \A y \in Node \ {x} : ny[y] = nx[y] /\ db[y] = da[y]
  BY <1>1 DEF Links, Contents
<1> HIDE DEF ny, db, z
<1>4. \A y : Contains(q, y) => y \in Node \ {x}
  BY <1>1 DEF Contains
<1>5. Linked(ny, h, q)
  <2>1. \A y : Contains(q, y) => ny[y] = nx[y]
    BY <1>3, <1>4
  <2> QED BY <2>1, LinkedSame DEF Pool
<1>6. \A y : Contains(q, y) => db[y] \in Messages /\ ~Contains(z, y)
  BY <1>2, <1>3, <1>4 DEF Pool
<1>7. H \ {x} \subseteq Node /\ \A y \in Node : y \in H \ {x} <=> ~Contains(q, y) /\ ~Contains(z, y)
  BY <1>1, <1>2 DEF Pool
<1>8. n = Len(q) /\ l = IF q = << >> THEN NULL ELSE Last(q)
  BY DEF Pool
<1>9. Pool(ny, db, h, l, x, n, H \ {x}, q, z)
  BY <1>2, <1>3, <1>5, <1>6, <1>7, <1>8 DEF Pool
<1>10. \A i \in 1 .. Len(q) : q[i] \in Node \ {x}
  BY <1>1, <1>4 DEF Contains
<1>11. MessagesOf(db, q) = MessagesOf(da, q)
  BY <1>3, <1>10 DEF MessagesOf
<1> QED BY <1>9, <1>11 DEF ny, db, z, BeforeFirst, Filled, AreKept

\* A message is sent to the tail (ipc.c:1999-2020).
LEMMA PutTail ==
  ASSUME NEW nx, NEW da, NEW h, NEW l, NEW f, NEW n, NEW H, NEW q, NEW r,
         Pool(nx, da, h, l, f, n, H, q, r), NEW x \in H, NEW m \in Messages
  PROVE  /\ Pool(BehindLast(nx, l, x), Filled(da, x, m), OrOnly(h, x), x, f, n + 1, H \ {x},
                 Append(q, x), r)
         /\ IsLast(da, q, Filled(da, x, m), Append(q, x), m)
<1> DEFINE ny == IF l = NULL THEN [nx EXCEPT ![x] = NULL] ELSE [nx EXCEPT ![x] = NULL, ![l] = x]
           db == [da EXCEPT ![x] = m]
           z == Append(q, x)
           g == IF h = NULL THEN x ELSE h
<1>1. /\ x \in Node /\ ~Contains(q, x) /\ ~Contains(r, x) /\ nx \in Links /\ da \in Contents
      /\ q \in Seq(Node) /\ (l = NULL <=> q = << >>) /\ (q # << >> => l = Last(q)) /\ n = Len(q)
      /\ \A y : Contains(q, y) => da[y] \in Messages
      /\ Linked(nx, h, q) /\ n \in Nat
  <2>1. q \in Seq(Node) /\ (l = NULL <=> q = << >>) /\ n \in Nat
    BY PoolFacts
  <2> QED BY <2>1 DEF Pool
<1>2. ny = TailLinks(nx, q, x)
  BY <1>1 DEF TailLinks
<1>3. db \in Contents /\ db[x] = m /\ \A y \in Node \ {x} : db[y] = da[y]
  BY <1>1 DEF Contents
<1> HIDE DEF ny, db
<1>4. /\ Linked(ny, g, z) /\ Len(z) = n + 1
      /\ \A y : Contains(z, y) <=> Contains(q, y) \/ y = x
      /\ ny \in Links /\ \A y \in Node : ~Contains(q, y) /\ y # x => ny[y] = nx[y]
      /\ Last(z) = x /\ z # << >>
  <2>1. nx \in [Node -> Node \union {NULL}]
    BY <1>1 DEF Links
  <2> QED BY <1>1, <1>2, <2>1, LinkedAppend DEF Links
<1>5. z \in Seq(Node) /\ z[n + 1] = x /\ \A i \in 1 .. n : z[i] = q[i] /\ q[i] \in Node \ {x}
  BY <1>1 DEF Contains
<1> HIDE DEF z, g
<1>6. \A y : Contains(r, y) => y \in Node
  BY LinkedNodes DEF Pool
<1>7. Linked(ny, f, r)
  <2>1. \A y : Contains(r, y) => ny[y] = nx[y]
    BY <1>1, <1>4, <1>6 DEF Pool
  <2> QED BY <2>1, LinkedSame DEF Pool
<1>8. \A y : Contains(z, y) => db[y] \in Messages /\ ~Contains(r, y)
  <2>1. \A y : Contains(q, y) => y \in Node /\ y # x
    BY <1>1, LinkedNodes
  <2> QED BY <1>1, <1>3, <1>4, <2>1 DEF Pool
<1>9. H \ {x} \subseteq Node /\ \A y \in Node : y \in H \ {x} <=> ~Contains(z, y) /\ ~Contains(r, y)
  BY <1>4 DEF Pool
<1>10. Pool(ny, db, g, x, f, n + 1, H \ {x}, z, r)
  BY <1>3, <1>4, <1>7, <1>8, <1>9 DEF Pool
<1>11. MessagesOf(db, z) = Append(MessagesOf(da, q), m)
  <2> DEFINE M == MessagesOf(da, q)
             R == MessagesOf(db, z)
  <2>1. M \in Seq(Messages) /\ Len(M) = n /\ \A i \in 1 .. n : M[i] = da[q[i]]
    BY <1>1, MessagesFacts
  <2>2. R \in Seq(Messages) /\ Len(R) = n + 1 /\ \A i \in 1 .. n + 1 : R[i] = db[z[i]]
    BY <1>4, <1>5, <1>8, MessagesFacts
  <2> HIDE DEF M, R
  <2>3. R[n + 1] = m /\ \A i \in 1 .. n : R[i] = M[i]
    BY <1>1, <1>3, <1>5, <2>1, <2>2
  <2>4. R = Append(M, m)
    BY <1>1, <2>1, <2>2, <2>3
  <2> QED BY <2>4 DEF M, R
<1> QED BY <1>10, <1>11 DEF ny, db, z, g, BehindLast, Filled, OrOnly, IsLast


\* An urgent message is sent to the head (ipc.c:2089-2104).
LEMMA PutHead ==
  ASSUME NEW nx, NEW da, NEW h, NEW l, NEW f, NEW n, NEW H, NEW q, NEW r,
         Pool(nx, da, h, l, f, n, H, q, r), NEW x \in H, NEW m \in Messages
  PROVE  /\ Pool(BeforeFirst(nx, h, x), Filled(da, x, m), x, OrOnly(l, x), f, n + 1, H \ {x},
                 <<x>> \o q, r)
         /\ IsFirst(da, q, Filled(da, x, m), <<x>> \o q, m)
<1> DEFINE ny == [nx EXCEPT ![x] = h]
           db == [da EXCEPT ![x] = m]
           z == <<x>> \o q
           g == IF l = NULL THEN x ELSE l
<1>1. /\ x \in Node /\ ~Contains(q, x) /\ ~Contains(r, x) /\ nx \in Links /\ da \in Contents
      /\ q \in Seq(Node) /\ (l = NULL <=> q = << >>) /\ (q # << >> => l = Last(q)) /\ n = Len(q)
      /\ \A y : Contains(q, y) => da[y] \in Messages
      /\ Linked(nx, h, q) /\ n \in Nat /\ h \in Node \union {NULL}
  <2>1. q \in Seq(Node) /\ (l = NULL <=> q = << >>) /\ n \in Nat /\ h \in Node \union {NULL}
    BY PoolFacts
  <2> QED BY <2>1 DEF Pool
<1>2. /\ Linked(ny, x, z) /\ Len(z) = n + 1 /\ \A y : Contains(z, y) <=> Contains(q, y) \/ y = x
  <2>1. nx \in [Node -> Node \union {NULL}]
    BY <1>1 DEF Links
  <2> QED BY <1>1, <2>1, LinkedPush, ZenonT(60)
<1>3. /\ db \in Contents /\ db[x] = m /\ ny \in Links
      /\ \A y \in Node \ {x} : db[y] = da[y] /\ ny[y] = nx[y]
  BY <1>1 DEF Contents, Links
<1>4. /\ z \in Seq(Node) /\ z[1] = x
      /\ \A i \in 1 .. n : z[i + 1] = q[i] /\ q[i] \in Node \ {x}
  BY <1>1 DEF Contains
<1> HIDE DEF ny, db, z, g
<1>5. g = IF z = << >> THEN NULL ELSE Last(z)
  <2>1. CASE n = 0
    <3>1. q = << >>
      BY <2>1, PoolFacts
    <3>2. Len(z) = 1 /\ z # << >>
      BY <1>2, <1>4, <2>1
    <3>3. Last(z) = x
      BY <1>4, <3>2 DEF Last
    <3> QED BY <1>1, <3>1, <3>2, <3>3 DEF g
  <2>2. CASE n # 0
    <3>1. q # << >> /\ n \in 1 .. n
      BY <1>1, <2>2
    <3>2. Last(q) = q[n] /\ Last(z) = z[n + 1] /\ z # << >>
      BY <1>1, <1>2, <1>4, <2>2 DEF Last
    <3> QED BY <1>1, <1>4, <3>1, <3>2 DEF g
  <2> QED BY <2>1, <2>2
<1>6. Linked(ny, f, r)
  <2>1. \A y : Contains(r, y) => y \in Node
    BY LinkedNodes DEF Pool
  <2>2. \A y : Contains(r, y) => ny[y] = nx[y]
    BY <1>1, <1>3, <2>1
  <2> QED BY <2>2, LinkedSame DEF Pool
<1>7. \A y : Contains(z, y) => db[y] \in Messages /\ ~Contains(r, y)
  <2>1. \A y : Contains(q, y) => y \in Node /\ y # x
    BY <1>1, LinkedNodes
  <2> QED BY <1>1, <1>2, <1>3, <2>1 DEF Pool
<1>8. H \ {x} \subseteq Node /\ \A y \in Node : y \in H \ {x} <=> ~Contains(z, y) /\ ~Contains(r, y)
  BY <1>2 DEF Pool
<1>9. Pool(ny, db, x, g, f, n + 1, H \ {x}, z, r)
  BY <1>2, <1>3, <1>5, <1>6, <1>7, <1>8 DEF Pool
<1>10. MessagesOf(db, z) = <<m>> \o MessagesOf(da, q)
  <2> DEFINE M == MessagesOf(da, q)
             R == MessagesOf(db, z)
             P == <<m>> \o M
  <2>1. M \in Seq(Messages) /\ Len(M) = n /\ \A i \in 1 .. n : M[i] = da[q[i]]
    BY <1>1, MessagesFacts
  <2>2. R \in Seq(Messages) /\ Len(R) = n + 1 /\ \A i \in 1 .. n + 1 : R[i] = db[z[i]]
    BY <1>2, <1>4, <1>7, MessagesFacts
  <2> HIDE DEF M, R
  <2>3. P \in Seq(Messages) /\ Len(P) = n + 1 /\ P[1] = m /\ \A i \in 1 .. n : P[i + 1] = M[i]
    BY <1>1, <2>1
  <2> HIDE DEF P
  <2>4. ASSUME NEW i \in 1 .. n + 1 PROVE R[i] = P[i]
    <3>1. CASE i = 1
      BY <1>1, <1>3, <1>4, <2>2, <2>3, <3>1
    <3>2. CASE i # 1
      <4>1. i - 1 \in 1 .. n /\ (i - 1) + 1 = i
        BY <1>1, <3>2
      <4>2. z[i] = q[i - 1] /\ q[i - 1] \in Node \ {x} /\ P[i] = M[i - 1]
        BY <1>4, <2>3, <4>1
      <4> QED BY <1>3, <2>1, <2>2, <4>1, <4>2
    <3> QED BY <3>1, <3>2
  <2>5. R = P
    BY <2>2, <2>3, <2>4
  <2> QED BY <2>5 DEF M, R, P
<1> QED BY <1>9, <1>10 DEF ny, db, z, g, BeforeFirst, Filled, OrOnly, IsFirst

\* The message of node h was the first one of the messages of q.
WasFirst(da, q, h) ==
  /\ MessagesOf(da, q) # << >> /\ Head(MessagesOf(da, q)) = da[h]
  /\ MessagesOf(da, Tail(q)) = Tail(MessagesOf(da, q))

\* The first message is taken (ipc.c:2238-2250).
LEMMA TakeFirst ==
  ASSUME NEW nx, NEW da, NEW h, NEW l, NEW f, NEW n, NEW H, NEW q, NEW r,
         Pool(nx, da, h, l, f, n, H, q, r), n > 0
  PROVE  /\ Pool(nx, da, nx[h], IF l = h THEN NULL ELSE l, f, n - 1, H \union {h}, Tail(q), r)
         /\ h \in Node /\ h \notin H /\ da[h] \in Messages
         /\ WasFirst(da, q, h)
<1> DEFINE z == Tail(q)
           g == IF l = h THEN NULL ELSE l
           M == MessagesOf(da, q)
           R == MessagesOf(da, z)
<1>1. /\ q # << >> /\ q \in Seq(Node) /\ n = Len(q) /\ n \in Nat /\ l = Last(q)
      /\ h \in Node /\ h = q[1] /\ Contains(q, h) /\ Linked(nx, h, q)
      /\ \A y : Contains(q, y) => da[y] \in Messages
      /\ \A i, j \in 1 .. n : q[i] = q[j] => i = j
  <2>1. q # << >> /\ q \in Seq(Node) /\ n \in Nat
    BY PoolFacts
  <2>2. n = Len(q) /\ l = Last(q) /\ Linked(nx, h, q) /\ \A y : Contains(q, y) => da[y] \in Messages
    BY <2>1 DEF Pool
  <2>3. h \in Node /\ Contains(q, h)
    BY <2>1, <2>2, LinkedNodes
  <2> QED BY <2>1, <2>2, <2>3 DEF Linked, IsInjective
<1>2. /\ Linked(nx, nx[h], z) /\ Len(z) = n - 1 /\ \A y : Contains(z, y) <=> Contains(q, y) /\ y # h
      /\ \A i \in 1 .. n - 1 : z[i] = q[i + 1]
  BY <1>1, LinkedTail
<1>3. z \in Seq(Node)
  BY <1>1
<1> HIDE DEF z, g
<1>4. g = IF z = << >> THEN NULL ELSE Last(z)
  <2>1. CASE n = 1
    <3>1. z = << >> /\ l = h
      BY <1>1, <1>2, <1>3, <2>1 DEF Last
    <3> QED BY <3>1 DEF g
  <2>2. CASE n # 1
    <3>1. n - 1 \in 1 .. n - 1 /\ n \in 1 .. n /\ 1 \in 1 .. n /\ (n - 1) + 1 = n
      BY <1>1, <2>2
    <3>2. Last(z) = z[n - 1] /\ Last(q) = q[n] /\ z # << >>
      BY <1>1, <1>2, <1>3, <3>1 DEF Last
    <3>3. z[n - 1] = q[n]
      BY <1>2, <3>1
    <3>4. l # h
      BY <1>1, <2>2, <3>1, <3>2
    <3> QED BY <1>1, <3>2, <3>3, <3>4 DEF g
  <2> QED BY <2>1, <2>2
<1>5. \A y : Contains(z, y) => da[y] \in Messages /\ ~Contains(r, y)
  BY <1>2 DEF Pool
<1>6. /\ H \union {h} \subseteq Node /\ h \notin H
      /\ \A y \in Node : y \in H \union {h} <=> ~Contains(z, y) /\ ~Contains(r, y)
  BY <1>1, <1>2 DEF Pool
<1>7. Pool(nx, da, nx[h], g, f, n - 1, H \union {h}, z, r)
  BY <1>2, <1>4, <1>5, <1>6 DEF Pool
<1>8. M \in Seq(Messages) /\ Len(M) = n /\ \A i \in 1 .. n : M[i] = da[q[i]]
  BY <1>1, MessagesFacts
<1>9. R \in Seq(Messages) /\ Len(R) = n - 1 /\ \A i \in 1 .. n - 1 : R[i] = da[z[i]]
  BY <1>2, <1>3, <1>5, MessagesFacts
<1> HIDE DEF M, R
<1>10. M # << >> /\ Head(M) = da[h] /\ Tail(M) \in Seq(Messages) /\ Len(Tail(M)) = n - 1
       /\ \A i \in 1 .. n - 1 : Tail(M)[i] = M[i + 1]
  <2>1. 1 \in 1 .. n
    BY <1>1
  <2>2. M[1] = da[h]
    BY <1>1, <1>8, <2>1
  <2> QED BY <1>1, <1>8, <2>2
<1>11. ASSUME NEW i \in 1 .. n - 1 PROVE R[i] = Tail(M)[i]
  <2>1. i + 1 \in 1 .. n
    BY <1>1
  <2> QED BY <1>2, <1>8, <1>9, <1>10, <2>1
<1>12. R = Tail(M)
  BY <1>9, <1>10, <1>11
<1> QED BY <1>1, <1>6, <1>7, <1>10, <1>12 DEF z, g, M, R, WasFirst

\* The links, the contents and the top of the free list when the nodes of q are pushed
\* onto it.
StackLinks(nx, f, q) ==
  [x \in Node |-> IF ~Contains(q, x) THEN nx[x] ELSE IF x = Head(q) THEN f
                  ELSE q[(CHOOSE i \in DOMAIN q : q[i] = x) - 1]]
Emptied(da, q) == [x \in Node |-> IF Contains(q, x) THEN Nothing ELSE da[x]]
StackTop(f, q) == IF q = << >> THEN f ELSE Last(q)
Untouched(da, db, H) == \A x \in H : db[x] = da[x]

\* Every queued node goes to the free list (ipc.c:2297-2314).
LEMMA FreeAll ==
  ASSUME NEW nx, NEW da, NEW h, NEW l, NEW f, NEW n, NEW H, NEW q, NEW r,
         Pool(nx, da, h, l, f, n, H, q, r)
  PROVE  /\ \E z : Pool(StackLinks(nx, f, q), Emptied(da, q), NULL, NULL, StackTop(f, q), 0, H, << >>, z)
         /\ Untouched(da, Emptied(da, q), H)
<1> DEFINE ny == [x \in Node |-> IF ~Contains(q, x) THEN nx[x] ELSE IF x = Head(q) THEN f
                                 ELSE q[(CHOOSE i \in DOMAIN q : q[i] = x) - 1]]
           db == [x \in Node |-> IF Contains(q, x) THEN Nothing ELSE da[x]]
           g == IF q = << >> THEN f ELSE Last(q)
<1>1. /\ q \in Seq(Node) /\ IsInjective(q) /\ f \in Node \union {NULL} /\ Len(q) \in Nat
      /\ \A i, j \in 1 .. Len(q) : q[i] = q[j] => i = j
      /\ \A y : Contains(q, y) => ~Contains(r, y)
      /\ \A y : Contains(r, y) => y \in Node
      /\ nx \in Links /\ da \in Contents /\ Linked(nx, f, r)
      /\ H \subseteq Node /\ \A y \in Node : y \in H <=> ~Contains(q, y) /\ ~Contains(r, y)
  <2>1. q \in Seq(Node) /\ IsInjective(q) /\ f \in Node \union {NULL}
    BY PoolFacts
  <2>2. \A y : Contains(r, y) => y \in Node
    BY LinkedNodes DEF Pool
  <2> QED BY <2>1, <2>2 DEF Pool, IsInjective
<1>2. ASSUME NEW i \in 1 .. Len(q) PROVE ny[q[i]] = IF i = 1 THEN f ELSE q[i - 1]
  <2>1. q[i] \in Node /\ Contains(q, q[i]) /\ Head(q) = q[1] /\ 1 \in 1 .. Len(q) /\ DOMAIN q = 1 .. Len(q)
    BY <1>1 DEF Contains
  <2>2. (CHOOSE j \in DOMAIN q : q[j] = q[i]) = i
    BY <1>1, <2>1
  <2>3. q[i] = Head(q) <=> i = 1
    BY <1>1, <2>1
  <2> QED BY <2>1, <2>2, <2>3
<1>3. \A y \in Node : ~Contains(q, y) => ny[y] = nx[y] /\ db[y] = da[y]
  OBVIOUS
<1>4. ny \in Links
  <2>1. ASSUME NEW y \in Node PROVE ny[y] \in Node \union {NULL}
    <3>1. CASE ~Contains(q, y)
      BY <1>1, <1>3, <3>1 DEF Links
    <3>2. CASE Contains(q, y)
      <4>1. PICK i \in 1 .. Len(q) : q[i] = y
        BY <3>2 DEF Contains
      <4>2. i # 1 => i - 1 \in 1 .. Len(q)
        BY <1>1
      <4>3. i # 1 => q[i - 1] \in Node
        BY <1>1, <4>2
      <4>4. ny[y] = IF i = 1 THEN f ELSE q[i - 1]
        BY <1>2, <4>1
      <4> HIDE DEF ny
      <4> QED BY <1>1, <4>3, <4>4
    <3> QED BY <3>1, <3>2
  <2>2. ny = [y \in Node |-> ny[y]]
    OBVIOUS
  <2> HIDE DEF ny
  <2> QED BY <2>1, <2>2 DEF Links
<1>5. db \in Contents
  BY <1>1 DEF Contents
<1> HIDE DEF ny, db
<1>6. Linked(ny, f, r)
  <2>1. \A y : Contains(r, y) => ny[y] = nx[y]
    BY <1>1, <1>3
  <2> QED BY <1>1, <2>1, LinkedSame
<1>7. PICK z : /\ Linked(ny, g, z) /\ \A y : Contains(z, y) <=> Contains(q, y) \/ Contains(r, y)
  BY <1>1, <1>2, <1>6, LinkedStack
<1> HIDE DEF g
<1>8. \A y : ~Contains(<< >>, y)
  BY DEF Contains
<1>9. Linked(ny, NULL, << >>)
  BY DEF Linked, IsInjective
<1>10. Pool(ny, db, NULL, NULL, g, 0, H, << >>, z)
  BY <1>1, <1>4, <1>5, <1>7, <1>8, <1>9 DEF Pool
<1>11. \A x \in H : db[x] = da[x]
  BY <1>1, <1>3
<1> QED BY <1>10, <1>11 DEF ny, db, g, StackLinks, Emptied, StackTop, Untouched


-----------------------------------------------------------------------------
(* The inductive invariant.                                                 *)

OpPlaces == RecvPlaces \union {"none", "send_link", "recv_copy", "delete", "delete_resume"}

\* Who waits is inside rt_mq_recv, and has no error yet: the one who resumes it
\* leaves thread->error alone (ipc.c:143-154).
Waiters ==
  \A w \in WaitList, t \in Thread : Contains(k.wait[w], t) =>
    w = Mq /\ op[t] = "recv_wait" /\ k.error[t] = "EOK"

\* The threads and their calls.
Calling ==
  /\ IpcInv /\ Waiters
  /\ op \in [Thread -> OpPlaces] /\ op[Idle] = "none" /\ time \in [Thread -> Int]
  /\ alive \in BOOLEAN

\* A thread has a node exactly while it copies a message with interrupts enabled,
\* and no two threads have the same one.
Hands ==
  /\ msg \in [Thread -> Node \union {NULL}] /\ buffer \in [Thread -> Messages \union {Nothing}]
  /\ \A t \in Thread :
       /\ msg[t] # NULL <=> op[t] \in {"send_link", "recv_copy"}
       /\ op[t] = "send_link" => buffer[t] \in Messages
       /\ op[t] = "recv_copy" => data[msg[t]] \in Messages
  /\ \A t, u \in Thread : msg[t] = msg[u] /\ msg[t] # NULL => t = u

\* The nodes in the hands of threads.
Held == {msg[t] : t \in Thread} \ {NULL}

\* Queue, free list and hands share out the nodes.
NodesAre(q, r) ==
  Pool(next, data, msg_queue_head, msg_queue_tail, msg_queue_free, entry, Held, q, r)
Nodes == NodesAre(Queue, Free)

MqInv == Calling /\ Hands /\ Nodes /\ NoLostWakeup

\* The threads that were resumed, and the abstract state, as in Promise.
Coming == OnTheWay(Mq, RecvPlaces)
Chan == [i \in 1 .. entry |-> data[Queue[i]]]
Hand == [t \in Thread |-> IF op[t] = "recv_copy" THEN data[msg[t]] ELSE Nothing]

PromiseStep == Promise!Next \/ UNCHANGED Promise!vars

\* What the invariant says of the kernel and of a thread on the list.
LEMMA MqFacts ==
  ASSUME MqInv
  PROVE  /\ k \in Kernel /\ KernelOK(k) /\ WaitsOK(k) /\ k.nest = 0 /\ Mq \in WaitList
         /\ k.wait[Mq] \in Seq(Thread) /\ k.cur \in Thread /\ k.error \in [Thread -> Error]
         /\ \A w \in WaitList, t \in Thread : Contains(k.wait[w], t) => k.stat[t] = "SUSPEND"
         /\ \A t \in Thread : Contains(k.defunct, t) => k.stat[t] # "SUSPEND"
         /\ entry \in Nat /\ time \in [Thread -> Int] /\ op \in [Thread -> OpPlaces]
         /\ op[Idle] = "none" /\ Idle \in Thread /\ ~Listed(k, Idle)
<1>1. /\ k \in Kernel /\ KernelOK(k) /\ WaitsOK(k) /\ k.nest = 0 /\ k.cur \in Thread
      /\ \A t \in Thread : Contains(k.defunct, t) => k.stat[t] # "SUSPEND"
  BY Types DEF MqInv, Calling, IpcInv, IInv, Waits, Defunct
<1>2. Mq \in WaitList
  BY MqAssumption
<1>3. k.wait[Mq] \in Seq(Thread) /\ k.error \in [Thread -> Error]
  BY <1>1, <1>2 DEF Kernel
<1>4. \A w \in WaitList, t \in Thread : Contains(k.wait[w], t) => k.stat[t] = "SUSPEND"
  BY <1>1 DEF WaitsOK
<1>5. entry \in Nat
  BY PoolFacts DEF MqInv, Nodes, NodesAre
<1>6. /\ time \in [Thread -> Int] /\ op \in [Thread -> OpPlaces]
      /\ op[Idle] = "none" /\ Idle \in Thread
  BY ThreadAssumption DEF MqInv, Calling
<1>7. ~Listed(k, Idle)
  BY <1>6 DEF MqInv, Calling, IpcInv, Waits
<1> QED BY <1>1, <1>2, <1>3, <1>4, <1>5, <1>6, <1>7

\* The lists that a pool is made of are the ones that the links lead to.
LEMMA NodesNow ==
  ASSUME NEW q, NEW r, NodesAre(q, r)
  PROVE  Nodes /\ Chan = MessagesOf(data, q) /\ Queue = q /\ Free = r
<1>1. Queue = q /\ Free = r
  BY PoolFacts DEF NodesAre, Queue, Free, Chain
<1>2. entry = Len(q)
  BY DEF NodesAre, Pool
<1> QED BY <1>1, <1>2 DEF Nodes, Chan, MessagesOf

\* The same after a step.
LEMMA NodesNext ==
  ASSUME NEW q, NEW r,
         Pool(next', data', msg_queue_head', msg_queue_tail', msg_queue_free', entry', Held', q, r)
  PROVE  Nodes' /\ Chan' = MessagesOf(data', q)
<1>1. Queue' = q /\ Free' = r
  <2>1. /\ ChainIn(next', msg_queue_head') = q /\ ChainIn(next', msg_queue_free') = r
    BY PoolFacts
  <2> QED BY <2>1 DEF Queue, Free, Chain
<1>2. entry' = Len(q)
  BY DEF Pool
<1> QED BY <1>1, <1>2 DEF Nodes, NodesAre, Chan, MessagesOf

\* A step that leaves the nodes alone.
LEMMA NodesSame ==
  ASSUME Nodes, UNCHANGED <<listVars, data>>, Held' = Held
  PROVE  Nodes' /\ Chan' = Chan /\ entry' = entry
<1>1. /\ next' = next /\ data' = data /\ msg_queue_head' = msg_queue_head
      /\ msg_queue_tail' = msg_queue_tail /\ msg_queue_free' = msg_queue_free /\ entry' = entry
  BY DEF listVars
<1>2. Queue' = Queue /\ Free' = Free
  BY <1>1 DEF Queue, Free, Chain
<1> QED BY <1>1, <1>2 DEF Nodes, NodesAre, Chan

-----------------------------------------------------------------------------
(* What the steps do to the hands of the threads.                           *)

\* Thread c takes node x, which nobody had, to copy a message.
LEMMA HandTakes ==
  ASSUME Hands, NEW c \in Thread, op[c] \notin {"send_link", "recv_copy"},
         NEW x \in Node, x \notin Held, msg' = [msg EXCEPT ![c] = x],
         NEW p \in {"send_link", "recv_copy"}, op' = [op EXCEPT ![c] = p],
         op \in [Thread -> OpPlaces], data' = data,
         p = "recv_copy" => data[x] \in Messages /\ buffer' = buffer,
         p = "send_link" => \E m \in Messages : buffer' = [buffer EXCEPT ![c] = m]
  PROVE  /\ Hands' /\ Held' = Held \union {x} /\ Hand[c] = Nothing
         /\ Hand' = [Hand EXCEPT ![c] = IF p = "recv_copy" THEN data[x] ELSE Nothing]
         /\ p = "send_link" => Hand' = Hand
<1>1. /\ msg \in [Thread -> Node \union {NULL}] /\ buffer \in [Thread -> Messages \union {Nothing}]
      /\ msg[c] = NULL /\ x # NULL
  BY NodeAssumption DEF Hands
<1>2. /\ msg'[c] = x /\ op'[c] = p /\ \A t \in Thread \ {c} : msg'[t] = msg[t] /\ op'[t] = op[t]
      /\ msg' \in [Thread -> Node \union {NULL}]
  BY <1>1
<1>3. /\ buffer' \in [Thread -> Messages \union {Nothing}] /\ (p = "send_link" => buffer'[c] \in Messages)
      /\ \A t \in Thread \ {c} : buffer'[t] = buffer[t]
  <2>1. CASE p = "recv_copy"
    BY <1>1, <2>1
  <2>2. CASE p = "send_link"
    BY <1>1, <2>2
  <2> QED BY <2>1, <2>2
<1>4. \A t \in Thread : msg[t] # x
  BY <1>1 DEF Held
<1>5. \A t \in Thread : /\ msg'[t] # NULL <=> op'[t] \in {"send_link", "recv_copy"}
                        /\ op'[t] = "send_link" => buffer'[t] \in Messages
                        /\ op'[t] = "recv_copy" => data[msg'[t]] \in Messages
  BY <1>1, <1>2, <1>3 DEF Hands
<1>6. \A t, u \in Thread : msg'[t] = msg'[u] /\ msg'[t] # NULL => t = u
  BY <1>2, <1>4 DEF Hands
<1>7. Hands'
  BY <1>2, <1>3, <1>5, <1>6 DEF Hands
<1>8. Held' = Held \union {x}
  BY <1>1, <1>2 DEF Held
<1>9. Hand[c] = Nothing /\ Hand' = [Hand EXCEPT ![c] = IF p = "recv_copy" THEN data[x] ELSE Nothing]
  BY <1>2 DEF Hand
<1>10. p = "send_link" => Hand' = Hand
  BY <1>2 DEF Hand
<1> QED BY <1>7, <1>8, <1>9, <1>10

\* Thread c gives its node away, and the contents of no other node in a hand change.
LEMMA HandGives ==
  ASSUME Hands, NEW c \in Thread, op[c] \in {"send_link", "recv_copy"}, msg' = [msg EXCEPT ![c] = NULL],
         op' = [op EXCEPT ![c] = "none"], op \in [Thread -> OpPlaces],
         buffer' = buffer \/ buffer' = [buffer EXCEPT ![c] = Nothing],
         NEW m, data' = [data EXCEPT ![msg[c]] = m], data \in Contents
  PROVE  /\ Hands' /\ msg[c] \in Held /\ Held' = Held \ {msg[c]}
         /\ Hand' = [Hand EXCEPT ![c] = Nothing]
         /\ op[c] = "send_link" => Hand' = Hand
         /\ op[c] = "recv_copy" => Hand[c] # Nothing
<1>1. /\ msg \in [Thread -> Node \union {NULL}] /\ buffer \in [Thread -> Messages \union {Nothing}]
      /\ msg[c] \in Node /\ msg[c] # NULL
      /\ \A t, u \in Thread : msg[t] = msg[u] /\ msg[t] # NULL => t = u
  BY DEF Hands
<1>2. /\ msg'[c] = NULL /\ op'[c] = "none" /\ \A t \in Thread \ {c} : msg'[t] = msg[t] /\ op'[t] = op[t]
      /\ msg' \in [Thread -> Node \union {NULL}]
  BY <1>1
<1>3. /\ buffer' \in [Thread -> Messages \union {Nothing}]
      /\ \A t \in Thread \ {c} : buffer'[t] = buffer[t]
  BY <1>1
<1>4. \A t \in Thread \ {c} : op[t] = "recv_copy" => data'[msg[t]] = data[msg[t]]
  <2> SUFFICES ASSUME NEW t \in Thread \ {c}, op[t] = "recv_copy" PROVE data'[msg[t]] = data[msg[t]]
    OBVIOUS
  <2>1. msg[t] \in Node /\ msg[t] # msg[c]
    BY <1>1 DEF Hands
  <2> QED BY <2>1 DEF Contents
<1>5. \A t \in Thread : /\ msg'[t] # NULL <=> op'[t] \in {"send_link", "recv_copy"}
                        /\ op'[t] = "send_link" => buffer'[t] \in Messages
                        /\ op'[t] = "recv_copy" => data'[msg'[t]] \in Messages
  <2> SUFFICES ASSUME NEW t \in Thread
               PROVE  /\ msg'[t] # NULL <=> op'[t] \in {"send_link", "recv_copy"}
                      /\ op'[t] = "send_link" => buffer'[t] \in Messages
                      /\ op'[t] = "recv_copy" => data'[msg'[t]] \in Messages
    OBVIOUS
  <2>1. CASE t = c
    BY <1>2, <2>1
  <2>2. CASE t # c
    BY <1>2, <1>3, <1>4, <2>2 DEF Hands
  <2> QED BY <2>1, <2>2
<1>6. \A t, u \in Thread : msg'[t] = msg'[u] /\ msg'[t] # NULL => t = u
  BY <1>1, <1>2
<1>7. Hands'
  BY <1>2, <1>3, <1>5, <1>6 DEF Hands
<1>8. msg[c] \in Held /\ Held' = Held \ {msg[c]}
  BY <1>1, <1>2 DEF Held
<1>9. Hand' = [Hand EXCEPT ![c] = Nothing] /\ (op[c] = "send_link" => Hand' = Hand)
  <2>1. \A t \in Thread : Hand'[t] = IF t = c THEN Nothing ELSE Hand[t]
    BY <1>2, <1>4 DEF Hand
  <2>2. op[c] = "send_link" => Hand[c] = Nothing
    BY DEF Hand
  <2>3. Hand' = [t \in Thread |-> Hand'[t]] /\ Hand = [t \in Thread |-> Hand[t]]
    BY DEF Hand
  <2> QED BY <2>1, <2>2, <2>3
<1>10. op[c] = "recv_copy" => Hand[c] # Nothing
  BY MessageAssumption DEF Hand, Hands
<1> QED BY <1>7, <1>8, <1>9, <1>10

\* A step of thread c that touches no hand, and no message in a hand.
LEMMA HandKeeps ==
  ASSUME Hands, NEW c \in Thread, op[c] \notin {"send_link", "recv_copy"}, msg' = msg,
         NEW p \in OpPlaces \ {"send_link", "recv_copy"}, op' = [op EXCEPT ![c] = p] \/ op' = op,
         op \in [Thread -> OpPlaces], buffer' = buffer, \A x \in Held : data'[x] = data[x]
  PROVE  Hands' /\ Held' = Held /\ Hand' = Hand
<1>1. /\ op'[c] \notin {"send_link", "recv_copy"} /\ \A t \in Thread \ {c} : op'[t] = op[t]
  OBVIOUS
<1>2. \A t \in Thread : op[t] = "recv_copy" => msg[t] \in Held
  BY DEF Hands, Held
<1>3. Held' = Held
  BY DEF Held
<1>4. Hand' = Hand
  BY <1>1, <1>2 DEF Hand
<1>5. \A t \in Thread : /\ msg'[t] # NULL <=> op'[t] \in {"send_link", "recv_copy"}
                        /\ op'[t] = "send_link" => buffer'[t] \in Messages
                        /\ op'[t] = "recv_copy" => data'[msg'[t]] \in Messages
  <2> SUFFICES ASSUME NEW t \in Thread
               PROVE  /\ msg'[t] # NULL <=> op'[t] \in {"send_link", "recv_copy"}
                      /\ op'[t] = "send_link" => buffer'[t] \in Messages
                      /\ op'[t] = "recv_copy" => data'[msg'[t]] \in Messages
    OBVIOUS
  <2>1. CASE t = c
    BY <1>1, <2>1 DEF Hands
  <2>2. CASE t # c
    BY <1>1, <1>2, <2>2 DEF Hands
  <2> QED BY <2>1, <2>2
<1>6. Hands'
  BY <1>5 DEF Hands
<1> QED BY <1>3, <1>4, <1>6


-----------------------------------------------------------------------------
(* What the steps mean to the callers.                                      *)

\* The messages in the queue and in the hands of the receivers are all there is.
LEMMA PromiseStutter ==
  ASSUME Chan' = Chan, Hand' = Hand
  PROVE  PromiseStep
BY DEF PromiseStep, Promise!vars, Chan, Hand

\* A message is linked, at the head when it is urgent.
LEMMA PromiseSend ==
  ASSUME Len(Chan) < Cardinality(Node), NEW m \in Messages, Hand' = Hand,
         m \in UrgentMessage => Chan' = <<m>> \o Chan,
         m \notin UrgentMessage => Chan' = Append(Chan, m)
  PROVE  PromiseStep
<1>1. CASE m \in UrgentMessage
  <2>1. Promise!Urgent(m)
    BY <1>1 DEF Promise!Urgent, Chan, Hand
  <2> QED BY <1>1, <2>1 DEF PromiseStep, Promise!Next
<1>2. CASE m \notin UrgentMessage
  <2>1. Promise!Send(m) /\ m \in Message \union IrqMessage
    BY <1>2 DEF Promise!Send, Chan, Hand, Messages
  <2> QED BY <2>1 DEF PromiseStep, Promise!Next
<1> QED BY <1>1, <1>2

\* rt_mq_recv takes the first message.
LEMMA PromiseReceive ==
  ASSUME NEW c \in Thread, Hand[c] = Nothing, Chan # << >>, Chan' = Tail(Chan),
         Hand' = [Hand EXCEPT ![c] = Head(Chan)]
  PROVE  PromiseStep
<1>1. Promise!Receive(c)
  BY DEF Promise!Receive, Chan, Hand
<1> QED BY <1>1 DEF PromiseStep, Promise!Next

\* rt_mq_recv has copied the message.
LEMMA PromiseReturn ==
  ASSUME NEW c \in Thread, Hand[c] # Nothing, Chan' = Chan, Hand' = [Hand EXCEPT ![c] = Nothing]
  PROVE  PromiseStep
<1>1. Promise!Return(c)
  BY DEF Promise!Return, Chan, Hand
<1> QED BY <1>1 DEF PromiseStep, Promise!Next

\* rt_mq_control(RT_IPC_CMD_RESET).
LEMMA PromiseReset ==
  ASSUME Chan' = << >>, Hand' = Hand
  PROVE  PromiseStep
<1>1. Promise!Reset
  BY DEF Promise!Reset, Chan, Hand
<1> QED BY <1>1 DEF PromiseStep, Promise!Next

-----------------------------------------------------------------------------
(* The threads and the list.                                                *)

\* Nobody is forgotten as long as the messages and the threads that come for them
\* change together.
LEMMA NobodyForgotten ==
  ASSUME MqInv, entry' \in Int, alive' => alive,
         \/ ~alive' \/ k'.wait[Mq] = << >> \/ entry' <= 0
         \/ k.wait[Mq] # << >> /\ Fits(Coming, Coming', entry, entry')
  PROVE  NoLostWakeup'
<1>1. entry \in Int
  BY MqFacts
<1>2. Coming \in SUBSET Thread /\ Coming' \in SUBSET Thread
  BY DEF Coming, OnTheWay
<1>3. Cardinality(Coming') \in Nat
  BY <1>2, Counting
<1>4. ASSUME alive', k'.wait[Mq] # << >> PROVE entry' <= Cardinality(Coming')
  <2>1. CASE entry' <= 0
    BY <1>3, <2>1
  <2>2. CASE k.wait[Mq] # << >> /\ Fits(Coming, Coming', entry, entry')
    <3>1. entry <= Cardinality(Coming)
      BY <1>4, <2>2 DEF MqInv, NoLostWakeup, NoneForgotten, Coming
    <3> QED BY <1>1, <1>2, <2>2, <3>1, FitsOK
  <2> QED BY <1>4, <2>1, <2>2
<1> QED BY <1>4 DEF NoLostWakeup, NoneForgotten, Coming

\* A step of thread c that changes nothing of the calls of the others.
OthersKept(c) == \A x \in Thread \ {c} : op'[x] = op[x]

\* A section that leaves the lists alone.
LEMMA SameLists ==
  ASSUME MqInv, NEW c \in Thread, ~Listed(k, c), OthersKept(c), k'.wait = k.wait,
         \A x \in Thread \ {c} : op[x] # "none" => k'.error[x] = k.error[x]
  PROVE  /\ Waiters' /\ Coming \ {c} \subseteq Coming'
         /\ c \in Coming' <=> op'[c] \in RecvPlaces /\ k'.error[c] = "EOK"
<1>1. Mq \in WaitList /\ \A w \in WaitList : ~Contains(k.wait[w], c)
  BY MqFacts DEF Listed
<1>2. Waiters'
  BY <1>1 DEF MqInv, Calling, Waiters, OthersKept
<1>3. Coming \ {c} \subseteq Coming'
  BY DEF Coming, OnTheWay, Waiting, OthersKept, RecvPlaces
<1>4. c \in Coming' <=> op'[c] \in RecvPlaces /\ k'.error[c] = "EOK"
  BY <1>1 DEF Coming, OnTheWay, Waiting
<1> QED BY <1>2, <1>3, <1>4

\* A thread leaves the list, or wakes up from a sleep.
LEMMA OneLeaves ==
  ASSUME MqInv, NEW c \in Thread, ~Listed(k, c), OthersKept(c),
         NEW t \in Thread, k.stat[t] = "SUSPEND", k'.wait = WaitWithout(k, t),
         \A x \in Thread \ {t} : k'.error[x] = k.error[x]
  PROVE  /\ Waiters' /\ Coming \ {c} \subseteq Coming'
         /\ k.wait[Mq] = << >> => k'.wait[Mq] = << >>
         /\ Contains(k.wait[Mq], t) =>
              t \notin Coming /\ (k'.error[t] = "EOK" => t \in Coming')
<1>1. k \in Kernel /\ WaitsOK(k) /\ Mq \in WaitList
  BY MqFacts
<1>2. /\ \A w \in WaitList, x \in Thread : Contains(k'.wait[w], x) <=> Contains(k.wait[w], x) /\ x # t
      /\ \A w \in WaitList : k.wait[w] = << >> => k'.wait[w] = << >>
  <2>1. ASSUME NEW w \in WaitList
        PROVE  /\ \A x : Contains(k'.wait[w], x) <=> Contains(k.wait[w], x) /\ x # t
               /\ k.wait[w] = << >> => k'.wait[w] = << >>
    <3>1. k'.wait[w] = WaitWithout(k, t)[w]
      OBVIOUS
    <3>2. /\ \A x : Contains(WaitWithout(k, t)[w], x) <=> Contains(k.wait[w], x) /\ x # t
          /\ k.wait[w] = << >> => WaitWithout(k, t)[w] = << >>
      BY <1>1, WithoutFacts
    <3> QED BY <3>1, <3>2
  <2> QED BY <2>1
<1>3. \A w \in WaitList : ~Contains(k.wait[w], c)
  BY DEF Listed
<1>4. Waiters'
  BY <1>2, <1>3 DEF MqInv, Calling, Waiters, OthersKept
<1>5. ASSUME NEW x \in Thread, op[x] \in RecvPlaces, ~Contains(k.wait[Mq], x), x # c
      PROVE  x # t
  <2>1. ~Listed(k, x) /\ op[x] # "none"
    BY <1>5 DEF MqInv, Calling, Waiters, Listed, RecvPlaces
  <2> QED BY <2>1 DEF MqInv, Calling, IpcInv, Waits
<1>6. Coming \ {c} \subseteq Coming'
  BY <1>1, <1>2, <1>5 DEF Coming, OnTheWay, Waiting, OthersKept
<1>7. ASSUME Contains(k.wait[Mq], t)
      PROVE  t \notin Coming /\ (k'.error[t] = "EOK" => t \in Coming')
  <2>1. op'[t] = "recv_wait"
    BY <1>1, <1>3, <1>7 DEF MqInv, Calling, Waiters, OthersKept
  <2> QED BY <1>1, <1>2, <1>7, <2>1 DEF Coming, OnTheWay, Waiting, RecvPlaces
<1> QED BY <1>1, <1>2, <1>4, <1>6, <1>7

\* What a section of a call leaves to the next one, as far as the threads go.
Moved(c) ==
  /\ IpcInv' /\ Waiters' /\ op' \in [Thread -> OpPlaces] /\ op'[Idle] = "none"
  /\ Coming \ {c} \subseteq Coming'

\* A place that thread c goes to.
LEMMA GoesOK ==
  ASSUME MqInv, NEW c \in Thread, c # Idle, NEW p \in OpPlaces, op' = [op EXCEPT ![c] = p]
  PROVE  /\ OthersKept(c) /\ op' \in [Thread -> OpPlaces] /\ op'[Idle] = "none" /\ op'[c] = p
<1>1. op \in [Thread -> OpPlaces] /\ Idle \in Thread /\ op[Idle] = "none"
  BY MqFacts
<1> QED BY <1>1 DEF OthersKept

\* A section that leaves the list alone, and does not wait.
LEMMA StayMq ==
  ASSUME MqInv, At("run"), NEW c \in Thread, c = k.cur, c # Idle, NEW p \in OpPlaces,
         NEW u, Resumes(k, u), u.wait = k.wait,
         \A x \in Thread \ {c} : u.error[x] = k.error[x], Then_return(u, p)
  PROVE  /\ Moved(c) /\ k'.wait = k.wait /\ op' = [op EXCEPT ![c] = p]
         /\ c \in Coming' <=> p \in RecvPlaces /\ u.error[c] = "EOK"
<1>1. k' = u /\ op' = [op EXCEPT ![c] = p]
  BY DEF Then_return, Enter
<1>2. IpcInv'
  BY ResumeStep DEF MqInv, Calling
<1>3. ~Listed(k, c)
  BY RunningThread, IpcList DEF MqInv, Calling
<1>4. OthersKept(c) /\ op' \in [Thread -> OpPlaces] /\ op'[Idle] = "none" /\ op'[c] = p
  BY <1>1, GoesOK
<1>5. /\ Waiters' /\ Coming \ {c} \subseteq Coming'
      /\ c \in Coming' <=> op'[c] \in RecvPlaces /\ k'.error[c] = "EOK"
  BY <1>1, <1>3, <1>4, SameLists
<1> QED BY <1>1, <1>2, <1>4, <1>5 DEF Moved

\* A section that resumes thread t and leaves an error e to it.
LEMMA WakeMq ==
  ASSUME MqInv, At("run"), NEW c \in Thread, c = k.cur, c # Idle, NEW p \in OpPlaces,
         NEW u, Resumes(k, u), NEW t \in Thread, k.stat[t] = "SUSPEND", NEW e,
         TakenOff(k, u, t, e), Then_return(u, p) \/ Then_schedule(u, p)
  PROVE  /\ Moved(c) /\ op' = [op EXCEPT ![c] = p]
         /\ k.wait[Mq] = << >> => k'.wait[Mq] = << >>
         /\ Contains(k.wait[Mq], t) => t \notin Coming /\ (e = "EOK" => t \in Coming')
<1>1. k' = u /\ op' = [op EXCEPT ![c] = p]
  BY DEF Then_return, Then_schedule, Enter
<1>2. IpcInv'
  BY ResumeStep DEF MqInv, Calling
<1>3. ~Listed(k, c)
  BY RunningThread, IpcList DEF MqInv, Calling
<1>4. OthersKept(c) /\ op' \in [Thread -> OpPlaces] /\ op'[Idle] = "none"
  BY <1>1, GoesOK
<1>5. /\ k'.wait = WaitWithout(k, t) /\ k'.error[t] = e
      /\ \A x \in Thread \ {t} : k'.error[x] = k.error[x]
  BY <1>1, MqFacts DEF TakenOff
<1>6. /\ Waiters' /\ Coming \ {c} \subseteq Coming'
      /\ k.wait[Mq] = << >> => k'.wait[Mq] = << >>
      /\ Contains(k.wait[Mq], t) =>
           t \notin Coming /\ (k'.error[t] = "EOK" => t \in Coming')
  BY <1>3, <1>4, <1>5, OneLeaves
<1> QED BY <1>1, <1>2, <1>4, <1>5, <1>6 DEF Moved

\* The first waiter, and what resuming it does (rt_ipc_list_resume).
LEMMA FirstWaiter ==
  ASSUME MqInv, k.wait[Mq] # << >>
  PROVE  LET u == rt_ipc_list_resume(k, Mq) IN
         \E t \in Thread : /\ t = Head(k.wait[Mq]) /\ Contains(k.wait[Mq], t)
                           /\ k.stat[t] = "SUSPEND" /\ ~Contains(k.defunct, t)
                           /\ Resumes(k, u) /\ TakenOff(k, u, t, "EOK")
<1>1. k.wait[Mq] \in Seq(Thread) /\ KernelOK(k) /\ WaitsOK(k) /\ Mq \in WaitList
  BY MqFacts
<1>2. PICK t \in Thread : t = Head(k.wait[Mq]) /\ Contains(k.wait[Mq], t)
  BY <1>1, HeadElement
<1>3. k.stat[t] = "SUSPEND" /\ ~Contains(k.defunct, t) /\ k.error[t] = "EOK"
  <2>1. k.stat[t] = "SUSPEND"
    BY <1>1, <1>2, MqFacts
  <2>2. ~Contains(k.defunct, t)
    BY <2>1, MqFacts
  <2>3. k.error[t] = "EOK"
    BY <1>1, <1>2 DEF MqInv, Calling, Waiters
  <2> QED BY <2>1, <2>2, <2>3
<1>4. rt_ipc_list_resume(k, Mq) = rt_thread_resume(k, t)
  BY <1>2 DEF rt_ipc_list_resume
<1>5. /\ Resumes(k, rt_thread_resume(k, t)) /\ TakenOff(k, rt_thread_resume(k, t), t, k.error[t])
  BY <1>1, <1>3, ResumeResumes
<1> QED BY <1>2, <1>3, <1>4, <1>5

\* A section that waits.
LEMMA JoinMq ==
  ASSUME MqInv, At("run"), NEW c \in Thread, c = k.cur, c # Idle, NEW n \in Int,
         Then_schedule(WaitOn(k, Mq, k.cur, MqFlag, n), "recv_wait")
  PROVE  Moved(c) /\ op' = [op EXCEPT ![c] = "recv_wait"]
<1>1. /\ KernelOK(k) /\ k \in Kernel /\ k.stat[c] = "RUNNING" /\ ~Listed(k, c) /\ Mq \in WaitList
      /\ IsInjective(k.defunct) /\ ~Contains(k.defunct, c) /\ WaitsOK(k) /\ k.error \in [Thread -> Error]
  BY RunningThread, IpcList, MqFacts DEF MqInv, Calling
<1> DEFINE b == WaitOn(k, Mq, k.cur, MqFlag, n)
<1>2. /\ KernelOK(b) /\ Gentle(k, b) /\ b.cur = k.cur
      /\ \E i : Joined(k, b, Mq, k.cur, i)
  BY <1>1, WaitOnOK
<1>3. k' = b /\ Then_schedule(b, "recv_wait") /\ op' = [op EXCEPT ![c] = "recv_wait"]
  BY DEF Then_schedule, Enter
<1> HIDE DEF b
<1>4. PICK i : Joined(k, b, Mq, k.cur, i)
  BY <1>2
<1>5. IpcInv'
  BY <1>1, <1>2, <1>3, <1>4, JoinStep DEF MqInv, Calling
<1>6. OthersKept(c) /\ op' \in [Thread -> OpPlaces] /\ op'[Idle] = "none" /\ op'[c] = "recv_wait"
  BY <1>3, GoesOK DEF OpPlaces, RecvPlaces
<1>7. k' \in Kernel /\ Joined(k, k', Mq, c, i) /\ k.stat[c] # "SUSPEND"
  BY <1>1, <1>2, <1>3, <1>4 DEF KernelOK
<1>8. /\ \A v \in WaitList \ {Mq} : k'.wait[v] = k.wait[v]
      /\ k'.error[c] = "EOK" /\ \A x \in Thread \ {c} : k'.error[x] = k.error[x]
  BY <1>1, <1>7 DEF Joined
<1>9. \A x \in Thread : Contains(k'.wait[Mq], x) <=> Contains(k.wait[Mq], x) \/ x = c
  BY <1>1, <1>7, JoinedWaits
<1>10. \A v \in WaitList, x \in Thread \ {c} : Contains(k'.wait[v], x) <=> Contains(k.wait[v], x)
  BY <1>8, <1>9
<1>11. \A v \in WaitList \ {Mq} : ~Contains(k'.wait[v], c)
  BY <1>1, <1>8 DEF Listed
<1>12. Waiters'
  BY <1>6, <1>8, <1>10, <1>11 DEF MqInv, Calling, Waiters, OthersKept
<1>13. Coming \ {c} \subseteq Coming'
  BY <1>1, <1>6, <1>8, <1>10 DEF Coming, OnTheWay, Waiting, OthersKept
<1> QED BY <1>3, <1>5, <1>6, <1>12, <1>13 DEF Moved


-----------------------------------------------------------------------------
(* The sections of the calls.                                               *)

\* A waiting time is a number of ticks.
LEMMA TimeFacts ==
  ASSUME MqInv, NEW n \in Times \union Range(time)
  PROVE  n \in Int
<1>1. Times \subseteq Int /\ time \in [Thread -> Int]
  BY TimesAssumption, MqFacts
<1>2. Range(time) \subseteq Int
  BY <1>1 DEF Range
<1> QED BY <1>1, <1>2

\* A step of thread c changes at most its own waiting time, and a queue that is
\* deleted stays deleted.
Timed(c) == time' = time \/ \E n \in Int : time' = [time EXCEPT ![c] = n]
Lives == alive' = alive \/ alive' = FALSE

\* A call that waits, or is over, has the time that it sets.
LEMMA SomeTime ==
  ASSUME NEW c, NEW n \in Int, time' = [time EXCEPT ![c] = n]
  PROVE  Timed(c)
<1>1. \E i \in Int : time' = [time EXCEPT ![c] = i]
  <2> WITNESS n \in Int
  <2> QED OBVIOUS
<1> QED BY <1>1 DEF Timed

\* The threads after a section.
LEMMA MovedCalling ==
  ASSUME MqInv, NEW c \in Thread, Moved(c), Timed(c), Lives
  PROVE  Calling' /\ (alive' => alive)
<1>1. time \in [Thread -> Int] /\ alive \in BOOLEAN
  BY DEF MqInv, Calling
<1>2. time' \in [Thread -> Int]
  BY <1>1 DEF Timed
<1>3. alive' \in BOOLEAN /\ (alive' => alive)
  <2>1. CASE alive' = alive
    BY <1>1, <2>1
  <2>2. CASE alive' = FALSE
    BY <2>2
  <2> QED BY <2>1, <2>2 DEF Lives
<1> QED BY <1>2, <1>3 DEF Calling, Moved

\* As many messages as before, and nobody on its way is stopped.
LEMMA KeptMq ==
  ASSUME MqInv, Coming \subseteq Coming', entry' = entry, alive' => alive,
         k.wait[Mq] = << >> => k'.wait[Mq] = << >>
  PROVE  NoLostWakeup'
<1>1. entry \in Int
  BY MqFacts
<1>2. Fits(Coming, Coming', entry, entry')
  BY <1>1 DEF Fits
<1> QED BY <1>1, <1>2, NobodyForgotten

\* The thread that runs a section of a call.
LEMMA CallerMq ==
  ASSUME MqInv, NEW c \in Thread, c = k.cur
  PROVE  /\ Outside => At("run") /\ c # Idle /\ op[c] = "none" /\ c \notin Coming
         /\ \A p \in OpPlaces \ {"none"} : Inside(p) => At("run") /\ c # Idle /\ op[c] = p
<1>1. op[Idle] = "none"
  BY MqFacts
<1> QED BY <1>1 DEF Outside, Inside, Coming, OnTheWay, RecvPlaces

\* Message m was sent to the messages of q.
Sent(q, z, m) ==
  /\ Len(MessagesOf(data, q)) < Cardinality(Node)
  /\ m \in UrgentMessage => MessagesOf(data', z) = <<m>> \o MessagesOf(data, q)
  /\ m \notin UrgentMessage => MessagesOf(data', z) = Append(MessagesOf(data, q), m)

\* A message is linked: behind the others, or before them when it is urgent
\* (ipc.c:1999-2020, 2089-2104).
LEMMA QueuedNodes ==
  ASSUME NEW f, NEW H, NEW q, NEW r,
         Pool(next, data, msg_queue_head, msg_queue_tail, f, entry, H, q, r),
         NEW x \in H, NEW m \in Messages, Queued(x, m)
  PROVE  \E z : /\ Pool(next', data', msg_queue_head', msg_queue_tail', f, entry', H \ {x}, z, r)
                /\ Sent(q, z, m)
<1>1. data' = Filled(data, x, m) /\ entry' = entry + 1
  BY DEF Queued, Filled
<1>2. Len(MessagesOf(data, q)) = entry /\ entry \in Nat
  <2>1. entry \in Nat /\ q \in Seq(Node)
    BY PoolFacts
  <2>2. entry = Len(q) /\ \A y : Contains(q, y) => data[y] \in Messages
    BY DEF Pool
  <2> QED BY <2>1, <2>2, MessagesFacts
<1>3. ASSUME NEW z, Pool(next', data', msg_queue_head', msg_queue_tail', f, entry', H \ {x}, z, r)
      PROVE  Len(MessagesOf(data, q)) < Cardinality(Node)
  <2>1. z \in Seq(Node) /\ IsInjective(z)
    BY <1>3, PoolFacts
  <2>2. entry' = Len(z)
    BY <1>3 DEF Pool
  <2>3. Len(z) <= Cardinality(Node) /\ Cardinality(Node) \in Nat
    BY <2>1, ListFits
  <2> QED BY <1>1, <1>2, <2>2, <2>3
<1>4. CASE m \in UrgentMessage
  <2>1. /\ next' = BeforeFirst(next, msg_queue_head, x) /\ msg_queue_head' = x
        /\ msg_queue_tail' = OrOnly(msg_queue_tail, x)
    BY <1>4 DEF Queued, LinkHead, BeforeFirst, OrOnly
  <2>2. /\ Pool(next', data', msg_queue_head', msg_queue_tail', f, entry', H \ {x}, <<x>> \o q, r)
        /\ MessagesOf(data', <<x>> \o q) = <<m>> \o MessagesOf(data, q)
    <3>1. /\ Pool(BeforeFirst(next, msg_queue_head, x), Filled(data, x, m), x,
                  OrOnly(msg_queue_tail, x), f, entry + 1, H \ {x}, <<x>> \o q, r)
          /\ IsFirst(data, q, Filled(data, x, m), <<x>> \o q, m)
      BY PutHead, Zenon
    <3>2. MessagesOf(Filled(data, x, m), <<x>> \o q) = <<m>> \o MessagesOf(data, q)
      BY <3>1 DEF IsFirst
    <3> QED BY <1>1, <2>1, <3>1, <3>2, Zenon
  <2> QED BY <1>3, <1>4, <2>2 DEF Sent
<1>5. CASE m \notin UrgentMessage
  <2>1. /\ next' = BehindLast(next, msg_queue_tail, x) /\ msg_queue_tail' = x
        /\ msg_queue_head' = OrOnly(msg_queue_head, x)
    BY <1>5 DEF Queued, LinkTail, BehindLast, OrOnly
  <2>2. /\ Pool(next', data', msg_queue_head', msg_queue_tail', f, entry', H \ {x}, Append(q, x), r)
        /\ MessagesOf(data', Append(q, x)) = Append(MessagesOf(data, q), m)
    <3>1. /\ Pool(BehindLast(next, msg_queue_tail, x), Filled(data, x, m),
                  OrOnly(msg_queue_head, x), x, f, entry + 1, H \ {x}, Append(q, x), r)
          /\ IsLast(data, q, Filled(data, x, m), Append(q, x), m)
      BY PutTail, Zenon
    <3>2. MessagesOf(Filled(data, x, m), Append(q, x)) = Append(MessagesOf(data, q), m)
      BY <3>1 DEF IsLast
    <3> QED BY <1>1, <2>1, <3>1, <3>2, Zenon
  <2> QED BY <1>3, <1>5, <2>2 DEF Sent
<1> QED BY <1>4, <1>5

\* The first section of a send takes a free node (ipc.c:1980-1996).
LEMMA SendTakeMq ==
  ASSUME MqInv, NEW m \in Message \union UrgentMessage, SendTake(m)
  PROVE  MqInv' /\ PromiseStep
<1> DEFINE f == msg_queue_free
<1>1. PICK c \in Thread : c = k.cur
  BY MqFacts
<1>2. At("run") /\ c # Idle /\ op[c] = "none" /\ c \notin Coming
  BY <1>1, CallerMq DEF SendTake, MqCall
<1>3. /\ f # NULL /\ msg_queue_free' = next[f] /\ msg' = [msg EXCEPT ![c] = f]
      /\ buffer' = [buffer EXCEPT ![c] = m] /\ Then_return(k, "send_link")
      /\ next' = next /\ msg_queue_head' = msg_queue_head /\ msg_queue_tail' = msg_queue_tail
      /\ entry' = entry /\ data' = data /\ time' = time /\ alive' = alive
  BY <1>1 DEF SendTake, Hold
<1>4. Resumes(k, k) /\ "send_link" \in OpPlaces /\ op \in [Thread -> OpPlaces] /\ m \in Messages
  BY MqFacts, SameWaitsResumes DEF OpPlaces, Messages
<1>5. Moved(c) /\ k'.wait = k.wait /\ op' = [op EXCEPT ![c] = "send_link"]
  BY <1>1, <1>2, <1>3, <1>4, StayMq
<1>6. Calling' /\ (alive' => alive)
  BY <1>3, <1>5, MovedCalling DEF Timed, Lives
<1>7. Coming \subseteq Coming'
  BY <1>2, <1>5 DEF Moved
<1>8. NoLostWakeup'
  BY <1>3, <1>5, <1>6, <1>7, KeptMq
<1>9. NodesAre(Queue, Free)
  BY DEF MqInv, Nodes
<1>10. /\ Pool(next, data, msg_queue_head, msg_queue_tail, next[f], entry, Held \union {f}, Queue, Tail(Free))
       /\ f \in Node /\ f \notin Held
  BY <1>3, <1>9, TakeFree DEF NodesAre
<1>11. Hands' /\ Held' = Held \union {f} /\ Hand' = Hand
  BY <1>2, <1>3, <1>4, <1>5, <1>10, HandTakes DEF MqInv
<1>12. Nodes' /\ Chan' = MessagesOf(data, Queue)
  BY <1>3, <1>10, <1>11, NodesNext
<1>13. Chan = MessagesOf(data, Queue)
  BY <1>9, NodesNow
<1> QED BY <1>6, <1>8, <1>11, <1>12, <1>13, PromiseStutter DEF MqInv


\* The sections of a call that touch neither a node nor the list, and leave no message
\* that a waiter could have.
LEMMA QuietMq ==
  ASSUME MqInv, At("run"), NEW c \in Thread, c = k.cur, c # Idle,
         op[c] \notin {"send_link", "recv_copy"}, NEW p \in OpPlaces \ {"send_link", "recv_copy"},
         NEW u, Resumes(k, u), u.wait = k.wait, \A x \in Thread \ {c} : u.error[x] = k.error[x],
         Then_return(u, p), UNCHANGED <<listVars, data, msg, buffer>>, Timed(c), Lives,
         entry = 0 \/ c \notin Coming \/ (p \in RecvPlaces /\ u.error[c] = "EOK")
  PROVE  MqInv' /\ PromiseStep
<1>1. /\ Moved(c) /\ k'.wait = k.wait /\ op' = [op EXCEPT ![c] = p]
      /\ c \in Coming' <=> p \in RecvPlaces /\ u.error[c] = "EOK"
  BY StayMq
<1>2. Calling' /\ (alive' => alive)
  BY <1>1, MovedCalling
<1>3. op \in [Thread -> OpPlaces] /\ msg' = msg /\ buffer' = buffer /\ data' = data /\ Hands /\ Nodes
  BY MqFacts DEF MqInv
<1>4. Hands' /\ Held' = Held /\ Hand' = Hand
  BY <1>1, <1>3, HandKeeps
<1>5. Nodes' /\ Chan' = Chan /\ entry' = entry
  BY <1>3, <1>4, NodesSame
<1>6. NoLostWakeup'
  <2>1. CASE entry = 0
    BY <1>2, <1>5, <2>1, NobodyForgotten
  <2>2. CASE entry # 0
    <3>1. Coming \subseteq Coming'
      BY <1>1, <2>2 DEF Moved
    <3> QED BY <1>1, <1>2, <1>5, <3>1, KeptMq
  <2> QED BY <2>1, <2>2
<1> QED BY <1>2, <1>4, <1>5, <1>6, PromiseStutter DEF MqInv

\* A call that ends with an error, and leaves no message that a waiter could have.
LEMMA OverMq ==
  ASSUME MqInv, NEW c \in Thread, c = k.cur, At("run"), c # Idle, Over,
         op[c] \notin {"send_link", "recv_copy"}, UNCHANGED <<listVars, data, msg, buffer, alive>>,
         entry = 0 \/ c \notin Coming
  PROVE  MqInv' /\ PromiseStep
<1> DEFINE u == [k EXCEPT !.error[c] = "EOK"]
<1>1. Then_return(u, "none") /\ time' = [time EXCEPT ![c] = 0] /\ alive' = alive
      /\ UNCHANGED <<listVars, data, msg, buffer>>
  BY DEF Over, SetTime
<1>2. Resumes(k, u) /\ u.wait = k.wait /\ u.error = [k.error EXCEPT ![c] = "EOK"]
  BY MqFacts, OverResumes DEF Error
<1> HIDE DEF u
<1>3. \A x \in Thread \ {c} : u.error[x] = k.error[x]
  BY <1>2, MqFacts
<1>4. Timed(c) /\ Lives /\ "none" \in OpPlaces \ {"send_link", "recv_copy"}
  <2>1. 0 \in Int
    OBVIOUS
  <2>2. Timed(c)
    BY <1>1, <2>1, SomeTime
  <2> QED BY <1>1, <2>2 DEF Lives, OpPlaces
<1> QED BY <1>1, <1>2, <1>3, <1>4, QuietMq

\* -RT_EFULL (ipc.c:1984-1990).
LEMMA SendFullMq ==
  ASSUME MqInv, NEW m, SendFull(m)
  PROVE  MqInv' /\ PromiseStep
<1>1. PICK c \in Thread : c = k.cur
  BY MqFacts
<1>2. At("run") /\ c # Idle /\ op[c] = "none" /\ c \notin Coming
  BY <1>1, CallerMq DEF SendFull, MqCall
<1>3. /\ Then_return(k, "none") /\ UNCHANGED <<listVars, data, msg, buffer>> /\ Timed(c) /\ Lives
      /\ Resumes(k, k) /\ "none" \in OpPlaces \ {"send_link", "recv_copy"}
  BY MqFacts, SameWaitsResumes DEF SendFull, Timed, Lives, OpPlaces
<1> QED BY <1>1, <1>2, <1>3, QuietMq

\* The thread that enters the section of rt_mq_recv.
LEMMA ReceiverMq ==
  ASSUME MqInv, NEW c \in Thread, c = k.cur, NEW n, Receiving(n)
  PROVE  At("run") /\ c # Idle /\ op[c] \in {"none", "recv_retry"}
<1>1. "recv_retry" \in OpPlaces \ {"none"}
  BY DEF OpPlaces, RecvPlaces
<1> QED BY <1>1, CallerMq DEF Receiving, MqCall

\* -RT_ETIMEOUT (ipc.c:2159-2170, 2196-2202).
LEMMA RecvEmptyMq ==
  ASSUME MqInv, NEW n, RecvEmpty(n)
  PROVE  MqInv' /\ PromiseStep
<1>1. PICK c \in Thread : c = k.cur
  BY MqFacts
<1>2. Receiving(n) /\ entry = 0 /\ Over /\ UNCHANGED <<listVars, data, msg, buffer, alive>>
  BY DEF RecvEmpty
<1>3. At("run") /\ c # Idle /\ op[c] \in {"none", "recv_retry"}
  BY <1>1, <1>2, ReceiverMq
<1> QED BY <1>1, <1>2, <1>3, OverMq

\* A thread that was resumed looks again, unless it was sent away (ipc.c:2219-2233).
LEMMA RecvWakeMq ==
  ASSUME MqInv, RecvWake
  PROVE  MqInv' /\ PromiseStep
<1>1. PICK c \in Thread : c = k.cur
  BY MqFacts
<1>2. /\ Inside("recv_wait") /\ UNCHANGED <<listVars, data, msg, buffer, alive>>
      /\ "recv_wait" \in OpPlaces \ {"none"}
  BY DEF RecvWake, WakeUp, OpPlaces, RecvPlaces
<1>3. At("run") /\ c # Idle /\ op[c] = "recv_wait"
  BY <1>1, <1>2, CallerMq
<1>4. CASE k.error[c] # "EOK"
  <2>1. Over /\ c \notin Coming
    BY <1>1, <1>4 DEF RecvWake, WakeUp, Coming, OnTheWay
  <2> QED BY <1>1, <1>2, <1>3, <2>1, OverMq
<1>5. CASE k.error[c] = "EOK"
  <2>1. Then_return(k, "recv_retry") /\ time' = time
    BY <1>1, <1>5 DEF RecvWake, WakeUp
  <2>2. /\ UNCHANGED <<listVars, data, msg, buffer>> /\ Timed(c) /\ Lives /\ Resumes(k, k)
        /\ "recv_retry" \in OpPlaces \ {"send_link", "recv_copy"} /\ "recv_retry" \in RecvPlaces
    BY <1>2, <2>1, MqFacts, SameWaitsResumes DEF Timed, Lives, OpPlaces, RecvPlaces
  <2> QED BY <1>1, <1>3, <1>5, <2>1, <2>2, QuietMq
<1> QED BY <1>4, <1>5

\* A receiver waits on an empty queue (ipc.c:2172-2217).
LEMMA RecvWaitMq ==
  ASSUME MqInv, NEW n \in Times \union Range(time), RecvWait(n)
  PROVE  MqInv' /\ PromiseStep
<1>1. PICK c \in Thread : c = k.cur
  BY MqFacts
<1>2. /\ Receiving(n) /\ entry = 0 /\ UNCHANGED <<listVars, data>> /\ msg' = msg /\ buffer' = buffer
      /\ Then_schedule(WaitOn(k, Mq, k.cur, MqFlag, n), "recv_wait")
      /\ time' = [time EXCEPT ![c] = n] /\ alive' = alive
  BY <1>1 DEF RecvWait, SetTime
<1>3. At("run") /\ c # Idle /\ op[c] \in {"none", "recv_retry"}
  BY <1>1, <1>2, ReceiverMq
<1>4. n \in Int /\ op \in [Thread -> OpPlaces] /\ Hands /\ Nodes /\ data' = data
  BY <1>2, TimeFacts, MqFacts DEF MqInv
<1>5. Moved(c) /\ op' = [op EXCEPT ![c] = "recv_wait"]
  BY <1>1, <1>2, <1>3, <1>4, JoinMq
<1>6. Calling' /\ (alive' => alive)
  BY <1>2, <1>4, <1>5, SomeTime, MovedCalling DEF Lives
<1>7. Hands' /\ Held' = Held /\ Hand' = Hand
  <2>1. "recv_wait" \in OpPlaces \ {"send_link", "recv_copy"}
    BY DEF OpPlaces, RecvPlaces
  <2> QED BY <1>2, <1>3, <1>4, <1>5, <2>1, HandKeeps
<1>8. Nodes' /\ Chan' = Chan /\ entry' = entry
  BY <1>2, <1>4, <1>7, NodesSame
<1>9. NoLostWakeup'
  BY <1>2, <1>6, <1>8, NobodyForgotten
<1> QED BY <1>6, <1>7, <1>8, <1>9, PromiseStutter DEF MqInv


\* What the hand of a thread between two sections holds.
LEMMA HolderMq ==
  ASSUME MqInv, NEW c \in Thread, op[c] \in {"send_link", "recv_copy"}
  PROVE  /\ msg[c] \in Held /\ (op[c] = "send_link" => buffer[c] \in Messages)
         /\ data \in Contents /\ c \notin Coming
<1>1. msg[c] \in Held /\ (op[c] = "send_link" => buffer[c] \in Messages)
  BY DEF MqInv, Hands, Held
<1>2. data \in Contents
  BY DEF MqInv, Nodes, NodesAre, Pool
<1>3. c \notin Coming
  BY DEF Coming, OnTheWay, RecvPlaces
<1> QED BY <1>1, <1>2, <1>3

\* The second section of a send links its message and resumes the first waiter
\* (ipc.c:1999-2038, 2089-2123).
LEMMA SendLinkMq ==
  ASSUME MqInv, SendLink
  PROVE  MqInv' /\ PromiseStep
<1> DEFINE u == rt_ipc_list_resume(k, Mq)
<1>1. PICK c \in Thread : c = k.cur
  BY MqFacts
<1>2. "send_link" \in OpPlaces \ {"none"} /\ "none" \in OpPlaces
  BY DEF OpPlaces
<1>3. At("run") /\ c # Idle /\ op[c] = "send_link"
  BY <1>1, <1>2, CallerMq DEF SendLink
<1>4. PICK x, m : x = msg[c] /\ m = buffer[c]
  OBVIOUS
<1>5. /\ Queued(x, m) /\ msg' = [msg EXCEPT ![c] = NULL] /\ buffer' = [buffer EXCEPT ![c] = Nothing]
      /\ k.wait[Mq] = << >> => Then_return(k, "none")
      /\ k.wait[Mq] # << >> => Then_schedule(u, "none")
      /\ msg_queue_free' = msg_queue_free /\ time' = time /\ alive' = alive
  BY <1>1, <1>4 DEF SendLink, Hold
<1> HIDE DEF u
<1>6. x \in Held /\ m \in Messages /\ data \in Contents /\ c \notin Coming
  BY <1>3, <1>4, HolderMq
<1>7. data' = [data EXCEPT ![msg[c]] = m] /\ entry' = entry + 1 /\ entry \in Int
      /\ op \in [Thread -> OpPlaces]
  BY <1>4, <1>5, MqFacts DEF Queued
<1>8. /\ Moved(c) /\ op' = [op EXCEPT ![c] = "none"]
      /\ k.wait[Mq] = << >> => k'.wait[Mq] = << >>
      /\ k.wait[Mq] # << >> => \E t : t \notin Coming /\ t \in Coming'
  <2>1. CASE k.wait[Mq] = << >>
    <3>1. Resumes(k, k)
      BY MqFacts, SameWaitsResumes
    <3> QED BY <1>1, <1>2, <1>3, <1>5, <2>1, <3>1, StayMq
  <2>2. CASE k.wait[Mq] # << >>
    <3>1. PICK t \in Thread : /\ Contains(k.wait[Mq], t) /\ k.stat[t] = "SUSPEND"
                              /\ Resumes(k, u) /\ TakenOff(k, u, t, "EOK")
      BY <2>2, FirstWaiter DEF u
    <3>2. /\ Moved(c) /\ op' = [op EXCEPT ![c] = "none"]
          /\ Contains(k.wait[Mq], t) => t \notin Coming /\ t \in Coming'
      BY <1>1, <1>2, <1>3, <1>5, <2>2, <3>1, WakeMq
    <3> QED BY <2>2, <3>1, <3>2
  <2> QED BY <2>1, <2>2
<1>9. Calling' /\ (alive' => alive)
  BY <1>5, <1>8, MovedCalling DEF Timed, Lives
<1>10. NoLostWakeup'
  <2>1. CASE k.wait[Mq] = << >>
    BY <1>7, <1>8, <1>9, <2>1, NobodyForgotten
  <2>2. CASE k.wait[Mq] # << >>
    <3>1. Coming \subseteq Coming' /\ \E t : t \notin Coming /\ t \in Coming'
      BY <1>6, <1>8, <2>2 DEF Moved
    <3>2. Fits(Coming, Coming', entry, entry')
      BY <1>7, <3>1 DEF Fits
    <3> QED BY <1>7, <1>9, <2>2, <3>2, NobodyForgotten
  <2> QED BY <2>1, <2>2
<1>11. /\ Hands' /\ Held' = Held \ {x} /\ Hand' = Hand
  BY <1>3, <1>4, <1>5, <1>6, <1>7, <1>8, HandGives DEF MqInv
<1>12. NodesAre(Queue, Free)
  BY DEF MqInv, Nodes
<1>13. PICK z : /\ Pool(next', data', msg_queue_head', msg_queue_tail', msg_queue_free, entry',
                        Held \ {x}, z, Free)
                /\ Sent(Queue, z, m)
  <2>1. Pool(next, data, msg_queue_head, msg_queue_tail, msg_queue_free, entry, Held, Queue, Free)
    BY <1>12 DEF NodesAre
  <2> QED BY <1>5, <1>6, <2>1, QueuedNodes, Zenon
<1>14. Nodes' /\ Chan' = MessagesOf(data', z)
  BY <1>5, <1>11, <1>13, NodesNext
<1>15. Chan = MessagesOf(data, Queue)
  BY <1>12, NodesNow
<1>16. PromiseStep
  BY <1>6, <1>11, <1>13, <1>14, <1>15, PromiseSend DEF Sent
<1> QED BY <1>9, <1>10, <1>11, <1>14, <1>16 DEF MqInv

\* A receiver takes the first message (ipc.c:2238-2250).
LEMMA RecvTakeMq ==
  ASSUME MqInv, NEW n, RecvTake(n)
  PROVE  MqInv' /\ PromiseStep
<1> DEFINE h == msg_queue_head
           l == msg_queue_tail
<1>1. PICK c \in Thread : c = k.cur
  BY MqFacts
<1>2. /\ Receiving(n) /\ entry > 0 /\ h' = next[h] /\ l' = (IF l = h THEN NULL ELSE l)
      /\ entry' = entry - 1 /\ msg' = [msg EXCEPT ![c] = h] /\ time' = [time EXCEPT ![c] = 0]
      /\ Then_return(k, "recv_copy") /\ next' = next /\ msg_queue_free' = msg_queue_free
      /\ data' = data /\ buffer' = buffer /\ alive' = alive
  BY <1>1 DEF RecvTake, Hold, SetTime
<1>3. At("run") /\ c # Idle /\ op[c] \in {"none", "recv_retry"}
  BY <1>1, <1>2, ReceiverMq
<1>4. Resumes(k, k) /\ "recv_copy" \in OpPlaces /\ op \in [Thread -> OpPlaces] /\ entry \in Int
  BY MqFacts, SameWaitsResumes DEF OpPlaces
<1>5. Moved(c) /\ k'.wait = k.wait /\ op' = [op EXCEPT ![c] = "recv_copy"]
  BY <1>1, <1>2, <1>3, <1>4, StayMq
<1>6. Calling' /\ (alive' => alive)
  <2>1. 0 \in Int
    OBVIOUS
  <2>2. Timed(c) /\ Lives
    BY <1>2, <2>1, SomeTime DEF Lives
  <2> QED BY <1>5, <2>2, MovedCalling
<1>7. Fits(Coming, Coming', entry, entry')
  BY <1>2, <1>4, <1>5 DEF Moved, Fits
<1>8. NoLostWakeup'
  <2>1. CASE k.wait[Mq] = << >>
    BY <1>2, <1>4, <1>5, <1>6, <2>1, NobodyForgotten
  <2>2. CASE k.wait[Mq] # << >>
    BY <1>2, <1>4, <1>6, <1>7, <2>2, NobodyForgotten
  <2> QED BY <2>1, <2>2
<1>9. NodesAre(Queue, Free)
  BY DEF MqInv, Nodes
<1>10. /\ Pool(next, data, next[h], IF l = h THEN NULL ELSE l, msg_queue_free, entry - 1,
               Held \union {h}, Tail(Queue), Free)
       /\ h \in Node /\ h \notin Held /\ data[h] \in Messages /\ WasFirst(data, Queue, h)
  BY <1>2, <1>9, TakeFirst DEF NodesAre
<1>11. Hands' /\ Held' = Held \union {h} /\ Hand[c] = Nothing /\ Hand' = [Hand EXCEPT ![c] = data[h]]
  BY <1>2, <1>3, <1>4, <1>5, <1>10, HandTakes DEF MqInv
<1>12. Nodes' /\ Chan' = MessagesOf(data, Tail(Queue))
  <2>1. Pool(next', data', h', l', msg_queue_free', entry', Held', Tail(Queue), Free)
    BY <1>2, <1>10, <1>11
  <2> QED BY <1>2, <2>1, NodesNext
<1>13. Chan = MessagesOf(data, Queue)
  BY <1>9, NodesNow
<1>14. PromiseStep
  <2>1. Chan # << >> /\ Chan' = Tail(Chan) /\ Head(Chan) = data[h]
    BY <1>10, <1>12, <1>13 DEF WasFirst
  <2> QED BY <1>11, <2>1, PromiseReceive
<1> QED BY <1>6, <1>8, <1>11, <1>12, <1>14 DEF MqInv

\* A receiver has copied its message and gives the node back (ipc.c:2252-2265).
LEMMA RecvFreeMq ==
  ASSUME MqInv, RecvFree
  PROVE  MqInv' /\ PromiseStep
<1>1. PICK c \in Thread : c = k.cur
  BY MqFacts
<1>2. "recv_copy" \in OpPlaces \ {"none"} /\ "none" \in OpPlaces
  BY DEF OpPlaces
<1>3. At("run") /\ c # Idle /\ op[c] = "recv_copy"
  BY <1>1, <1>2, CallerMq DEF RecvFree
<1>4. PICK x : x = msg[c]
  OBVIOUS
<1>5. /\ next' = [next EXCEPT ![x] = msg_queue_free] /\ msg_queue_free' = x
      /\ data' = [data EXCEPT ![x] = Nothing] /\ msg' = [msg EXCEPT ![c] = NULL]
      /\ Then_return(k, "none") /\ msg_queue_head' = msg_queue_head
      /\ msg_queue_tail' = msg_queue_tail /\ entry' = entry
      /\ buffer' = buffer /\ time' = time /\ alive' = alive
  BY <1>1, <1>4 DEF RecvFree, Hold
<1>6. x \in Held /\ data \in Contents /\ c \notin Coming
  BY <1>3, <1>4, HolderMq
<1>7. Resumes(k, k) /\ op \in [Thread -> OpPlaces]
  BY MqFacts, SameWaitsResumes
<1>8. Moved(c) /\ k'.wait = k.wait /\ op' = [op EXCEPT ![c] = "none"]
  BY <1>1, <1>2, <1>3, <1>5, <1>7, StayMq
<1>9. Calling' /\ (alive' => alive)
  BY <1>5, <1>8, MovedCalling DEF Timed, Lives
<1>10. NoLostWakeup'
  <2>1. Coming \subseteq Coming'
    BY <1>6, <1>8 DEF Moved
  <2> QED BY <1>5, <1>8, <1>9, <2>1, KeptMq
<1>11. /\ Hands' /\ Held' = Held \ {x} /\ Hand' = [Hand EXCEPT ![c] = Nothing] /\ Hand[c] # Nothing
  BY <1>3, <1>4, <1>5, <1>6, <1>7, <1>8, HandGives DEF MqInv
<1>12. NodesAre(Queue, Free)
  BY DEF MqInv, Nodes
<1>13. /\ Pool(next', data', msg_queue_head', msg_queue_tail', msg_queue_free', entry', Held', Queue,
               <<x>> \o Free)
       /\ MessagesOf(data', Queue) = MessagesOf(data, Queue)
  <2>1. Pool(next, data, msg_queue_head, msg_queue_tail, msg_queue_free, entry, Held, Queue, Free)
    BY <1>12 DEF NodesAre
  <2>2. /\ Pool(BeforeFirst(next, msg_queue_free, x), Filled(data, x, Nothing), msg_queue_head,
                msg_queue_tail, x, entry, Held \ {x}, Queue, <<x>> \o Free)
        /\ AreKept(data, Queue, Filled(data, x, Nothing))
    BY <1>6, <2>1, PutFree, Zenon
  <2>3. next' = BeforeFirst(next, msg_queue_free, x) /\ data' = Filled(data, x, Nothing)
    BY <1>5 DEF BeforeFirst, Filled
  <2>4. MessagesOf(Filled(data, x, Nothing), Queue) = MessagesOf(data, Queue)
    BY <2>2 DEF AreKept
  <2> QED BY <1>5, <1>11, <2>2, <2>3, <2>4, Zenon
<1>14. Nodes' /\ Chan' = MessagesOf(data', Queue)
  BY <1>13, NodesNext
<1>15. Chan = MessagesOf(data, Queue)
  BY <1>12, NodesNow
<1> QED BY <1>9, <1>10, <1>11, <1>13, <1>14, <1>15, PromiseReturn DEF MqInv


-----------------------------------------------------------------------------
(* The interrupt handler, the system, rt_mq_control and rt_mq_delete.       *)

\* The threads seen from a step that is no step of a call.
LEMMA NotOfCall ==
  ASSUME MqInv, op' = op, msg' = msg, buffer' = buffer, \A x \in Held : data'[x] = data[x]
  PROVE  /\ Idle \in Thread /\ ~Listed(k, Idle) /\ OthersKept(Idle) /\ Idle \notin Coming
         /\ Hands' /\ Held' = Held /\ Hand' = Hand
<1>1. Idle \in Thread /\ op[Idle] = "none" /\ ~Listed(k, Idle) /\ op \in [Thread -> OpPlaces]
  BY MqFacts
<1>2. OthersKept(Idle) /\ Idle \notin Coming
  BY <1>1 DEF OthersKept, Coming, OnTheWay, RecvPlaces
<1>3. "none" \in OpPlaces \ {"send_link", "recv_copy"} /\ Hands
  BY DEF OpPlaces, MqInv
<1>4. Hands' /\ Held' = Held /\ Hand' = Hand
  BY <1>1, <1>3, HandKeeps
<1> QED BY <1>1, <1>2, <1>4

\* The tick, the timeouts and the scheduler.
LEMMA SystemMq ==
  ASSUME Ordinary, MqInv, SystemStep, UNCHANGED <<listVars, data, msg, buffer, alive>>,
         time' \in [Thread -> Int]
  PROVE  MqInv' /\ PromiseStep
<1>1. IpcInv' /\ SystemEffect
  BY SystemStepOK DEF MqInv, Calling
<1>2. /\ op' = op /\ msg' = msg /\ buffer' = buffer /\ alive' = alive /\ data' = data
      /\ UNCHANGED <<listVars, data>> /\ Nodes
  BY <1>1 DEF SystemEffect, MqInv
<1>3. /\ Idle \in Thread /\ ~Listed(k, Idle) /\ OthersKept(Idle) /\ Idle \notin Coming
      /\ Hands' /\ Held' = Held /\ Hand' = Hand
  BY <1>2, NotOfCall
<1>4. /\ Waiters' /\ Coming \ {Idle} \subseteq Coming'
      /\ k.wait[Mq] = << >> => k'.wait[Mq] = << >>
  <2>1. CASE k'.wait = k.wait /\ \A t \in Thread : op[t] # "none" => k'.error[t] = k.error[t]
    <3>1. Waiters' /\ Coming \ {Idle} \subseteq Coming'
      BY <1>3, <2>1, SameLists
    <3> QED BY <2>1, <3>1
  <2>2. CASE \E t \in Thread : k.stat[t] = "SUSPEND" /\ TakenOff(k, k', t, "ETIMEOUT")
    <3>1. PICK t \in Thread : k.stat[t] = "SUSPEND" /\ TakenOff(k, k', t, "ETIMEOUT")
      BY <2>2
    <3>2. k'.wait = WaitWithout(k, t) /\ \A x \in Thread \ {t} : k'.error[x] = k.error[x]
      BY <3>1, MqFacts DEF TakenOff
    <3> QED BY <1>3, <3>1, <3>2, OneLeaves
  <2> QED BY <1>1, <2>1, <2>2 DEF SystemEffect
<1>5. Nodes' /\ Chan' = Chan /\ entry' = entry
  BY <1>2, <1>3, NodesSame
<1>6. Coming \subseteq Coming'
  BY <1>3, <1>4
<1>7. NoLostWakeup'
  BY <1>2, <1>4, <1>5, <1>6, KeptMq
<1>8. Calling'
  BY <1>1, <1>2, <1>4 DEF MqInv, Calling
<1> QED BY <1>3, <1>5, <1>7, <1>8, PromiseStutter DEF MqInv

\* rt_mq_send of an interrupt handler: a node, a message, and the first waiter.
LEMMA IrqSendMq ==
  ASSUME MqInv, NEW m \in IrqMessage, IrqSend(m)
  PROVE  MqInv' /\ PromiseStep
<1> DEFINE u == rt_ipc_list_resume(k, Mq)
<1>1. PICK f : f = msg_queue_free
  OBVIOUS
<1>2. /\ f # NULL /\ msg_queue_free' = next[f] /\ Queued(f, m) /\ IrqResume(Mq) /\ op' = op
      /\ msg' = msg /\ buffer' = buffer /\ time' = time /\ alive' = alive /\ m \in Messages
  BY <1>1 DEF IrqSend, IrqResume, Interrupt, Messages
<1>3. Pool(next, data, msg_queue_head, msg_queue_tail, f, entry, Held, Queue, Free)
  BY <1>1 DEF MqInv, Nodes, NodesAre
<1>4. /\ Pool(next, data, msg_queue_head, msg_queue_tail, next[f], entry, Held \union {f}, Queue, Tail(Free))
      /\ f \in Node /\ f \notin Held
  BY <1>2, <1>3, TakeFree
<1>5. f \in Held \union {f} /\ (Held \union {f}) \ {f} = Held
  BY <1>4
<1>6. PICK z : /\ Pool(next', data', msg_queue_head', msg_queue_tail', next[f], entry',
                       (Held \union {f}) \ {f}, z, Tail(Free))
               /\ Sent(Queue, z, m)
  BY <1>2, <1>4, <1>5, QueuedNodes, Zenon
<1>7. data' = [data EXCEPT ![f] = m] /\ entry' = entry + 1 /\ entry \in Int /\ data \in Contents
  BY <1>2, <1>3, MqFacts DEF Queued, Pool
<1>8. \A x \in Held : data'[x] = data[x]
  BY <1>3, <1>4, <1>7 DEF Contents, Pool
<1>9. /\ Idle \in Thread /\ ~Listed(k, Idle) /\ OthersKept(Idle) /\ Idle \notin Coming
      /\ Hands' /\ Held' = Held /\ Hand' = Hand
  BY <1>2, <1>8, NotOfCall
<1>10. Nodes' /\ Chan' = MessagesOf(data', z) /\ Chan = MessagesOf(data, Queue)
  <2>1. Pool(next', data', msg_queue_head', msg_queue_tail', msg_queue_free', entry', Held', z, Tail(Free))
    BY <1>2, <1>5, <1>6, <1>9
  <2>2. NodesAre(Queue, Free)
    BY DEF MqInv, Nodes
  <2> QED BY <2>1, <2>2, NodesNext, NodesNow
<1>11. /\ IpcInv' /\ Waiters' /\ Coming \ {Idle} \subseteq Coming'
       /\ k.wait[Mq] = << >> => k'.wait[Mq] = << >>
       /\ k.wait[Mq] # << >> => \E t : t \notin Coming /\ t \in Coming'
  <2>1. CASE k.wait[Mq] = << >>
    <3>1. Interrupt(k) /\ Resumes(k, k)
      BY <1>2, <2>1, MqFacts, SameWaitsResumes DEF IrqResume
    <3>2. IpcInv' /\ k'.wait = k.wait /\ k'.error = k.error
      BY <3>1, HandlerStep DEF MqInv, Calling
    <3>3. Waiters' /\ Coming \ {Idle} \subseteq Coming'
      BY <1>9, <3>2, SameLists
    <3> QED BY <2>1, <3>2, <3>3
  <2>2. CASE k.wait[Mq] # << >>
    <3>1. PICK t \in Thread : /\ Contains(k.wait[Mq], t) /\ k.stat[t] = "SUSPEND"
                              /\ Resumes(k, u) /\ TakenOff(k, u, t, "EOK")
      BY <2>2, FirstWaiter
    <3>2. Interrupt(rt_schedule(u))
      BY <1>2, <2>2 DEF IrqResume
    <3> HIDE DEF u
    <3>3. IpcInv' /\ k'.wait = u.wait /\ k'.error = u.error
      BY <3>1, <3>2, HandlerStep DEF MqInv, Calling
    <3>4. /\ k'.wait = WaitWithout(k, t) /\ k'.error[t] = "EOK"
          /\ \A x \in Thread \ {t} : k'.error[x] = k.error[x]
      BY <3>1, <3>3, MqFacts DEF TakenOff
    <3>5. /\ Waiters' /\ Coming \ {Idle} \subseteq Coming'
          /\ Contains(k.wait[Mq], t) =>
               t \notin Coming /\ (k'.error[t] = "EOK" => t \in Coming')
      BY <1>9, <3>1, <3>4, OneLeaves
    <3> QED BY <2>2, <3>1, <3>3, <3>4, <3>5
  <2> QED BY <2>1, <2>2
<1>12. Calling'
  BY <1>2, <1>11 DEF MqInv, Calling
<1>13. NoLostWakeup'
  <2>1. CASE k.wait[Mq] = << >>
    BY <1>2, <1>7, <1>11, <2>1, NobodyForgotten
  <2>2. CASE k.wait[Mq] # << >>
    <3>1. Coming \subseteq Coming' /\ \E t : t \notin Coming /\ t \in Coming'
      BY <1>9, <1>11, <2>2
    <3>2. Fits(Coming, Coming', entry, entry')
      BY <1>7, <3>1 DEF Fits
    <3> QED BY <1>2, <1>7, <2>2, <3>2, NobodyForgotten
  <2> QED BY <2>1, <2>2
<1>14. PromiseStep
  BY <1>2, <1>6, <1>9, <1>10, PromiseSend DEF Sent
<1> QED BY <1>9, <1>10, <1>12, <1>13, <1>14 DEF MqInv

\* rt_mq_control empties the queue and the list, and leaves the nodes in the hands of
\* threads alone (ipc.c:2279-2325).
LEMMA ResetMq ==
  ASSUME MqInv, Reset
  PROVE  MqInv' /\ PromiseStep
<1> DEFINE b == rt_ipc_list_resume_all(k, Mq)
<1>1. PICK c \in Thread : c = k.cur
  BY MqFacts
<1>2. At("run") /\ c # Idle /\ op[c] = "none"
  BY <1>1, CallerMq DEF Reset, MqCall
<1>3. /\ next' = StackLinks(next, msg_queue_free, Queue) /\ data' = Emptied(data, Queue)
      /\ msg_queue_free' = StackTop(msg_queue_free, Queue)
      /\ msg_queue_head' = NULL /\ msg_queue_tail' = NULL /\ entry' = 0 /\ Then_schedule(b, "none")
      /\ msg' = msg /\ buffer' = buffer /\ time' = time /\ alive' = alive
  BY DEF Reset, Queue, StackLinks, Emptied, StackTop
<1>4. Resumes(k, b) /\ AllResumed(k, b, Mq, "ERROR")
  BY MqFacts, ResumeAllOK
<1> HIDE DEF b
<1>5. k' = b /\ op' = op
  <2>1. k' = b /\ op' = [op EXCEPT ![c] = "none"]
    BY <1>1, <1>3 DEF Then_schedule, Enter
  <2> QED BY <1>2, <2>1, MqFacts
<1>6. IpcInv'
  BY <1>2, <1>3, <1>4, ResumeStep DEF MqInv, Calling
<1>7. k'.wait[Mq] = << >> /\ \A w \in WaitList \ {Mq} : k'.wait[w] = k.wait[w]
  BY <1>4, <1>5, MqFacts DEF AllResumed, Kernel
<1>8. Waiters'
  <2>1. ASSUME NEW w \in WaitList, NEW t \in Thread PROVE ~Contains(k'.wait[w], t)
    <3>1. CASE w = Mq
      BY <1>7, <3>1 DEF Contains
    <3>2. CASE w # Mq
      BY <1>7, <3>2 DEF MqInv, Calling, Waiters
    <3> QED BY <3>1, <3>2
  <2> QED BY <2>1 DEF Waiters
<1>9. Calling'
  BY <1>3, <1>5, <1>6, <1>8 DEF MqInv, Calling
<1>10. NoLostWakeup'
  BY <1>7 DEF NoLostWakeup, NoneForgotten
<1>11. Pool(next, data, msg_queue_head, msg_queue_tail, msg_queue_free, entry, Held, Queue, Free)
  BY DEF MqInv, Nodes, NodesAre
<1>12. PICK z : Pool(StackLinks(next, msg_queue_free, Queue), Emptied(data, Queue), NULL, NULL,
                     StackTop(msg_queue_free, Queue), 0, Held, << >>, z)
  BY <1>11, FreeAll, Zenon
<1>13. Untouched(data, Emptied(data, Queue), Held)
  BY <1>11, FreeAll, Zenon
<1>14. Hands' /\ Held' = Held /\ Hand' = Hand
  BY <1>3, <1>5, <1>13, NotOfCall DEF Untouched
<1>15. Nodes' /\ Chan' = MessagesOf(data', << >>)
  <2>1. Pool(next', data', msg_queue_head', msg_queue_tail', msg_queue_free', entry', Held', << >>, z)
    BY <1>3, <1>12, <1>14
  <2> QED BY <2>1, NodesNext
<1>16. MessagesOf(data', << >>) = << >>
  BY DEF MessagesOf
<1> QED BY <1>9, <1>10, <1>14, <1>15, <1>16, PromiseReset DEF MqInv

\* rt_mq_delete sends the waiters away one by one (ipc.c:1922-1948).
LEMMA DeleteMq ==
  ASSUME MqInv, Delete_call \/ DeleteLoop
  PROVE  MqInv' /\ PromiseStep
<1> DEFINE Dels == {"none", "delete", "delete_resume"}
<1>1. PICK c \in Thread : c = k.cur
  BY MqFacts
<1>2. UNCHANGED <<listVars, data, msg, buffer>> /\ Timed(c) /\ Lives
  BY DEF Delete_call, DeleteLoop, Timed, Lives
<1>3. ASSUME NEW p \in Dels PROVE p \in OpPlaces \ {"send_link", "recv_copy"} /\ p \in OpPlaces
  BY DEF OpPlaces
<1>4. ASSUME op[c] \in Dels PROVE c \notin Coming /\ op[c] \notin {"send_link", "recv_copy"}
  BY <1>4 DEF Coming, OnTheWay, RecvPlaces
<1>5. Resumes(k, k) /\ op \in [Thread -> OpPlaces] /\ op[Idle] = "none"
  BY MqFacts, SameWaitsResumes
<1>6. ASSUME At("run"), c # Idle, op[c] \in Dels, NEW p \in Dels, Then_return(k, p)
      PROVE  MqInv' /\ PromiseStep
  BY <1>1, <1>2, <1>3, <1>4, <1>5, <1>6, QuietMq
<1>7. ASSUME At("run"), c # Idle, op[c] \in Dels, NEW p \in Dels, k.wait[Mq] # << >>,
             Then_return(ResumeWithError(k, Head(k.wait[Mq])), p)
      PROVE  MqInv' /\ PromiseStep
  <2>1. PICK t \in Thread : /\ t = Head(k.wait[Mq]) /\ Contains(k.wait[Mq], t)
                            /\ k.stat[t] = "SUSPEND" /\ ~Contains(k.defunct, t)
    BY <1>7, FirstWaiter
  <2> DEFINE u == ResumeWithError(k, t)
  <2>2. Resumes(k, u) /\ TakenOff(k, u, t, "ERROR")
    BY <2>1, MqFacts, ErrorResumes DEF ResumeWithError, Error
  <2>3. Then_return(u, p)
    BY <1>7, <2>1
  <2> HIDE DEF u
  <2>4. /\ Moved(c) /\ op' = [op EXCEPT ![c] = p]
        /\ k.wait[Mq] = << >> => k'.wait[Mq] = << >>
    BY <1>1, <1>3, <1>7, <2>1, <2>2, <2>3, WakeMq
  <2>5. Calling' /\ (alive' => alive)
    BY <1>2, <2>4, MovedCalling
  <2>6. Hands' /\ Held' = Held /\ Hand' = Hand
    <3>1. Hands /\ msg' = msg /\ buffer' = buffer /\ data' = data
      BY <1>2 DEF MqInv
    <3> QED BY <1>3, <1>4, <1>5, <1>7, <2>4, <3>1, HandKeeps
  <2>7. Nodes' /\ Chan' = Chan /\ entry' = entry
    <3>1. Nodes /\ UNCHANGED <<listVars, data>>
      BY <1>2 DEF MqInv
    <3> QED BY <2>6, <3>1, NodesSame
  <2>8. NoLostWakeup'
    <3>1. Coming \subseteq Coming'
      BY <1>4, <1>7, <2>4 DEF Moved
    <3> QED BY <2>4, <2>5, <2>7, <3>1, KeptMq
  <2> QED BY <2>5, <2>6, <2>7, <2>8, PromiseStutter DEF MqInv
<1>8. CASE Delete_call
  <2>1. At("run") /\ c # Idle /\ op[c] = "none" /\ Then_return(k, "delete")
    BY <1>1, <1>8, CallerMq DEF Delete_call, MqCall
  <2> QED BY <1>6, <2>1
<1>9. CASE ResumeAllTest(Mq, "delete", "delete_resume", "none")
  <2>1. At("run") /\ op[c] = "delete" /\ c # Idle
    BY <1>1, <1>5, <1>9 DEF ResumeAllTest, Inside
  <2>2. Then_return(k, "none") \/ Then_return(k, "delete_resume")
    BY <1>9 DEF ResumeAllTest
  <2> QED BY <1>6, <2>1, <2>2
<1>10. CASE ResumeAllBody(Mq, "delete_resume", "delete")
  <2>1. /\ At("run") /\ op[c] = "delete_resume" /\ c # Idle /\ k.wait[Mq] # << >>
        /\ Then_return(ResumeWithError(k, Head(k.wait[Mq])), "delete")
    BY <1>1, <1>5, <1>10 DEF ResumeAllBody, Inside
  <2> QED BY <1>7, <2>1
<1> QED BY <1>8, <1>9, <1>10 DEF DeleteLoop


-----------------------------------------------------------------------------
(* The theorems.                                                            *)

\* The nodes of a pool, in any order, are all of them.
LEMMA AllNodes ==
  ASSUME NEW s \in SetToSeqs(Node)
  PROVE  /\ s \in Seq(Node) /\ IsInjective(s) /\ \A y \in Node : Contains(s, y)
<1> DEFINE n == Cardinality(Node)
<1>1. IsFiniteSet(Node) /\ n \in Nat
  BY NodeAssumption, FS_CardinalityType
<1>2. s \in [1 .. n -> Node] /\ \A i, j \in 1 .. n : i # j => s[i] # s[j]
  BY DEF SetToSeqs
<1>3. s \in Injection(1 .. n, Node)
  <2>1. \A i, j \in 1 .. n : s[i] = s[j] => i = j
    BY <1>2
  <2> HIDE DEF n
  <2> QED BY <1>2, <2>1 DEF Injection, IsInjective
<1>4. IsFiniteSet(1 .. n) /\ Cardinality(1 .. n) = n
  <2> HIDE DEF n
  <2> QED BY <1>1, FS_Interval
<1>5. s \in Surjection(1 .. n, Node)
  <2>1. n = Cardinality(Node)
    OBVIOUS
  <2> HIDE DEF n
  <2> QED BY <1>1, <1>3, <1>4, <2>1, FS_Injection
<1> HIDE DEF n
<1>6. s \in Seq(Node) /\ Len(s) = n
  BY <1>1, <1>2
<1>7. IsInjective(s)
  BY <1>2, <1>6 DEF IsInjective
<1>8. \A y \in Node : Contains(s, y)
  BY <1>5, <1>6 DEF Surjection, Contains
<1> QED BY <1>6, <1>7, <1>8

\* rt_mq_init.
LEMMA MqInitOK ==
  ASSUME MqInit
  PROVE  MqInv /\ Promise!Init
<1>1. /\ IpcInv /\ k.wait = [w \in WaitList |-> << >>] /\ op = [t \in Thread |-> "none"]
  BY IpcInitOK DEF MqInit
<1>2. /\ Mq \in WaitList /\ k.wait[Mq] = << >>
      /\ \A w \in WaitList, t \in Thread : ~Contains(k.wait[w], t)
  BY <1>1, MqAssumption DEF Contains
<1>3. /\ time = [t \in Thread |-> 0] /\ data = [x \in Node |-> Nothing]
      /\ msg_queue_head = NULL /\ msg_queue_tail = NULL /\ entry = 0
      /\ msg = [t \in Thread |-> NULL] /\ buffer = [t \in Thread |-> Nothing] /\ alive = TRUE
  BY DEF MqInit
<1>4. Calling
  BY <1>1, <1>2, <1>3, ThreadAssumption DEF Calling, Waiters, OpPlaces
<1>5. Hands /\ Held = {}
  BY <1>1, <1>3 DEF Hands, Held
<1>6. PICK s \in SetToSeqs(Node) :
         /\ next = [x \in Node |-> LET i == CHOOSE i \in DOMAIN s : s[i] = x
                                   IN  IF i = 1 THEN NULL ELSE s[i - 1]]
         /\ msg_queue_free = IF s = << >> THEN NULL ELSE Last(s)
  BY DEF MqInit
<1>7. s \in Seq(Node) /\ IsInjective(s) /\ \A y \in Node : Contains(s, y)
  BY AllNodes
<1>8. ASSUME NEW i \in 1 .. Len(s) PROVE next[s[i]] = IF i = 1 THEN NULL ELSE s[i - 1]
  <2>1. s[i] \in Node /\ DOMAIN s = 1 .. Len(s) /\ \A j \in 1 .. Len(s) : s[i] = s[j] => i = j
    BY <1>7 DEF IsInjective
  <2>2. (CHOOSE j \in DOMAIN s : s[j] = s[i]) = i
    BY <2>1
  <2> QED BY <1>6, <2>1, <2>2
<1>9. next \in Links
  <2>1. ASSUME NEW y \in Node PROVE next[y] \in Node \union {NULL}
    <3>1. PICK i \in 1 .. Len(s) : s[i] = y
      BY <1>7 DEF Contains
    <3>2. i # 1 => i - 1 \in 1 .. Len(s)
      BY <1>7
    <3>3. i # 1 => s[i - 1] \in Node
      BY <1>7, <3>2
    <3> QED BY <1>8, <3>1, <3>3
  <2>2. next = [y \in Node |-> next[y]]
    BY <1>6
  <2> QED BY <2>1, <2>2 DEF Links
<1>10. Linked(next, NULL, << >>) /\ \A y : ~Contains(<< >>, y)
  BY DEF Linked, IsInjective, Contains
<1>11. PICK z : /\ Linked(next, IF s = << >> THEN NULL ELSE Last(s), z)
                /\ \A y : Contains(z, y) <=> Contains(s, y) \/ Contains(<< >>, y)
  <2>1. PICK e : e = << >>
    OBVIOUS
  <2>2. Linked(next, NULL, e) /\ \A y : Contains(s, y) => ~Contains(e, y)
    BY <1>10, <2>1
  <2>3. \E z : /\ Linked(next, IF s = << >> THEN NULL ELSE Last(s), z)
               /\ \A y : Contains(z, y) <=> Contains(s, y) \/ Contains(e, y)
    BY <1>7, <1>8, <2>2, LinkedStack
  <2> QED BY <2>1, <2>3
<1>12. NodesAre(<< >>, z)
  <2>1. data \in Contents /\ Linked(next, msg_queue_free, z)
    BY <1>3, <1>6, <1>11 DEF Contents
  <2>2. \A y \in Node : Contains(z, y)
    BY <1>7, <1>11
  <2> QED BY <1>3, <1>5, <1>9, <1>10, <2>1, <2>2 DEF NodesAre, Pool
<1>13. Nodes /\ Chan = MessagesOf(data, << >>)
  BY <1>12, NodesNow
<1>14. NoLostWakeup
  BY <1>2 DEF NoLostWakeup, NoneForgotten
<1>15. Promise!Init
  <2>1. Chan = << >>
    BY <1>13 DEF MessagesOf
  <2>2. Hand = [t \in Thread |-> Nothing]
    BY <1>1 DEF Hand
  <2> QED BY <2>1, <2>2 DEF Promise!Init, Chan, Hand
<1> QED BY <1>4, <1>5, <1>13, <1>14, <1>15 DEF MqInv

\* A step that changes nothing.
LEMMA MqStutter ==
  ASSUME MqInv, UNCHANGED mqVars
  PROVE  MqInv' /\ PromiseStep
<1>1. /\ k' = k /\ pc' = pc /\ tgt' = tgt /\ isr' = isr /\ op' = op /\ time' = time
      /\ UNCHANGED <<listVars, data>> /\ data' = data /\ msg' = msg /\ buffer' = buffer /\ alive' = alive
  BY DEF mqVars
<1>2. IpcInv'
  BY <1>1 DEF MqInv, Calling, IpcInv, CallPlaces, Waits, IInv, TypeOK, Places, Started, Starting,
              Reaping, Defunct, BeingFreed, Running, Ticking, SleepEnds
<1>3. Hands' /\ Held' = Held /\ Hand' = Hand
  BY <1>1, NotOfCall
<1>4. Nodes' /\ Chan' = Chan /\ entry' = entry
  BY <1>1, <1>3, NodesSame DEF MqInv
<1>5. Calling'
  BY <1>1, <1>2 DEF MqInv, Calling, Waiters
<1>6. NoLostWakeup'
  BY <1>1, <1>4 DEF MqInv, NoLostWakeup, NoneForgotten, OnTheWay, Waiting
<1> QED BY <1>3, <1>4, <1>5, <1>6, PromiseStutter DEF MqInv

\* Every step of the message queue.
LEMMA MqStep ==
  ASSUME Ordinary, MqInv, MqNext
  PROVE  MqInv' /\ PromiseStep
<1>1. time \in [Thread -> Int]
  BY MqFacts
<1>2. CASE Tick
  <2>1. /\ SystemStep /\ UNCHANGED <<listVars, data, msg, buffer, alive>>
        /\ time' = TimeAfterTick(RecvPlaces)
    BY <1>2 DEF Tick, SystemStep
  <2>2. time' \in [Thread -> Int]
    BY <1>1, <2>1 DEF TimeAfterTick
  <2> QED BY <2>1, <2>2, SystemMq
<1>3. CASE OtherStep /\ UNCHANGED <<listVars, data, msg, buffer, time, alive>>
  <2>1. SystemStep /\ UNCHANGED <<listVars, data, msg, buffer, alive>> /\ time' \in [Thread -> Int]
    BY <1>1, <1>3 DEF SystemStep
  <2> QED BY <2>1, SystemMq
<1>4. CASE \E m \in Message \union UrgentMessage : SendTake(m) \/ SendFull(m)
  BY <1>4, SendTakeMq, SendFullMq
<1>5. CASE SendLink
  BY <1>5, SendLinkMq
<1>6. CASE \E m \in IrqMessage : IrqSend(m)
  BY <1>6, IrqSendMq
<1>7. CASE \E n \in Times \union Range(time) : RecvTake(n) \/ RecvEmpty(n) \/ RecvWait(n)
  BY <1>7, RecvTakeMq, RecvEmptyMq, RecvWaitMq
<1>8. CASE RecvFree \/ RecvWake
  BY <1>8, RecvFreeMq, RecvWakeMq
<1>9. CASE Reset
  BY <1>9, ResetMq
<1>10. CASE Delete_call \/ DeleteLoop
  BY <1>10, DeleteMq
<1> QED BY <1>2, <1>3, <1>4, <1>5, <1>6, <1>7, <1>8, <1>9, <1>10 DEF MqNext

\* Queue, free list, the nodes in the hands of threads, the waiters and the resumed
\* threads that have not looked yet fit together after every step (rt_mq_send,
\* rt_mq_urgent, rt_mq_recv, rt_mq_control, rt_mq_delete, and rt_mq_send in a handler).
THEOREM MqInvariance ==
  ASSUME Ordinary
  PROVE  MqSpec => []MqInv
<1>1. MqInit => MqInv
  BY MqInitOK
<1>2. MqInv /\ [MqNext]_mqVars => MqInv'
  BY MqStep, MqStutter
<1> QED BY <1>1, <1>2, PTL DEF MqSpec

\* The threads that have a node, and the nodes that they have, are as many.
LEMMA HandsCounted ==
  ASSUME MqInv
  PROVE  /\ {msg[t] : t \in InHand} = Held /\ IsFiniteSet(Held)
         /\ Cardinality(InHand) = Cardinality(Held)
<1> DEFINE g == [t \in InHand |-> msg[t]]
<1>1. {msg[t] : t \in InHand} = Held
  BY DEF InHand, Held
<1>2. IsFiniteSet(InHand)
  BY ThreadFinite, FS_Subset DEF InHand
<1>3. \A t, u \in InHand : msg[t] = msg[u] => t = u
  BY DEF MqInv, Hands, InHand
<1>4. g \in [InHand -> Held] /\ \A t \in InHand : g[t] = msg[t]
  BY <1>1
<1>5. \A y \in Held : \E t \in InHand : g[t] = y
  BY <1>1, <1>4
<1> HIDE DEF g
<1>6. g \in Bijection(InHand, Held)
  <2>1. \A t, u \in InHand : g[t] = g[u] => t = u
    BY <1>3, <1>4
  <2>2. g \in Injection(InHand, Held)
    BY <1>4, <2>1 DEF Injection, IsInjective
  <2>3. g \in Surjection(InHand, Held)
    BY <1>4, <1>5 DEF Surjection
  <2> QED BY <2>2, <2>3 DEF Bijection
<1>7. ExistsBijection(InHand, Held)
  BY <1>6 DEF ExistsBijection
<1> QED BY <1>1, <1>2, <1>7, FS_Bijection

\* Three sets that have nothing in common share out a fourth one.
Parted(A, B, C, D) == A \cap B = {} /\ (A \union B) \cap C = {} /\ A \union B \union C = D

\* They have as many elements together.
LEMMA ThreeParts ==
  ASSUME NEW A, NEW B, NEW C, NEW D, IsFiniteSet(A), IsFiniteSet(B), IsFiniteSet(C), Parted(A, B, C, D)
  PROVE  Cardinality(D) = Cardinality(A) + Cardinality(B) + Cardinality(C)
<1>1. /\ Cardinality({}) = 0 /\ A \cap B = {} /\ (A \union B) \cap C = {} /\ A \union B \union C = D
  BY FS_EmptySet DEF Parted
<1>2. /\ Cardinality(A) \in Nat /\ Cardinality(B) \in Nat /\ Cardinality(C) \in Nat
  BY FS_CardinalityType
<1>3. /\ IsFiniteSet(A \union B)
      /\ Cardinality(A \union B) = Cardinality(A) + Cardinality(B) - Cardinality(A \cap B)
  BY FS_Union
<1>4. Cardinality((A \union B) \union C)
        = Cardinality(A \union B) + Cardinality(C) - Cardinality((A \union B) \cap C)
  BY <1>3, FS_Union
<1>5. Cardinality(A \cap B) = 0 /\ Cardinality((A \union B) \cap C) = 0
  BY <1>1
<1>6. Cardinality(D) = Cardinality((A \union B) \union C)
  BY <1>1
<1> QED BY <1>2, <1>3, <1>4, <1>5, <1>6

\* No node is lost, shared or used twice, for any number of threads and nodes: the
\* count, the tail and the contents of the queue agree with its links, and queue, free
\* list and hands share out the pool (ipc.c:1984-2020, 2238-2259, 2297-2314).
THEOREM MqQueueConsistent ==
  ASSUME Ordinary
  PROVE  MqSpec => []QueueConsistent
<1>1. MqInv => QueueConsistent
  <2> SUFFICES ASSUME MqInv PROVE QueueConsistent
    OBVIOUS
  <2>1. NodesAre(Queue, Free)
    BY DEF MqInv, Nodes
  <2>2. /\ entry \in Nat /\ Queue \in Seq(Node) /\ Free \in Seq(Node)
        /\ IsInjective(Queue) /\ IsInjective(Free)
        /\ msg_queue_head \in Node \union {NULL} /\ msg_queue_tail \in Node \union {NULL}
        /\ msg_queue_free \in Node \union {NULL}
    BY <2>1, PoolFacts DEF NodesAre
  <2>3. /\ next \in Links /\ data \in Contents /\ entry = Len(Queue)
        /\ msg_queue_tail = IF Queue = << >> THEN NULL ELSE Last(Queue)
        /\ \A y : Contains(Queue, y) => data[y] \in Messages /\ ~Contains(Free, y)
        /\ Held \subseteq Node /\ \A y \in Node : y \in Held <=> ~Contains(Queue, y) /\ ~Contains(Free, y)
    BY <2>1 DEF NodesAre, Pool
  <2>4. MqTypeOK
    BY <2>2, <2>3 DEF MqInv, Calling, Hands, IpcInv, IInv, MqTypeOK, OpPlaces, Links, Contents
  <2> DEFINE A == ToSet(Queue)
             B == ToSet(Free)
  <2>5. \A y : (y \in A <=> Contains(Queue, y)) /\ (y \in B <=> Contains(Free, y))
    BY ListSet
  <2>6. /\ IsFiniteSet(A) /\ Cardinality(A) = Len(Queue) /\ IsFiniteSet(B) /\ Cardinality(B) = Len(Free)
    BY <2>2, ListFits
  <2>7. A \subseteq Node /\ B \subseteq Node
    BY <2>2 DEF ToSet
  <2> HIDE DEF A, B
  <2>8. A \cap B = {} /\ (A \union B) \cap Held = {} /\ A \union B \union Held = Node
    BY <2>3, <2>5, <2>7
  <2>9. {msg[t] : t \in InHand} = Held /\ IsFiniteSet(Held) /\ Cardinality(InHand) = Cardinality(Held)
    BY HandsCounted
  <2>10. Len(Queue) + Len(Free) + Cardinality(InHand) = Cardinality(Node)
    <3>1. Parted(A, B, Held, Node)
      BY <2>8 DEF Parted
    <3>2. Cardinality(Node) = Cardinality(A) + Cardinality(B) + Cardinality(Held)
      BY <2>6, <2>9, <3>1, ThreeParts
    <3> QED BY <2>6, <2>9, <3>2
  <2>11. \A y \in A : data[y] # Nothing
    BY <2>3, <2>5, MessageAssumption
  <2>12. A \union B \union {msg[t] : t \in InHand} = Node
    BY <2>8, <2>9
  <2> QED BY <2>3, <2>4, <2>10, <2>11, <2>12 DEF QueueConsistent, A, B
<1> QED BY <1>1, MqInvariance, PTL

\* No wake-up is lost: one thread is resumed per message, although a message may come
\* from a handler between the sections of a send, a resumed thread may find its message
\* taken, and may time out then (ipc.c:2025-2036, 2172-2235).
THEOREM MqNoLostWakeup ==
  ASSUME Ordinary
  PROVE  MqSpec => []NoLostWakeup
<1>1. MqInv => NoLostWakeup
  BY DEF MqInv
<1> QED BY <1>1, MqInvariance, PTL

\* Suspend list, status words and timers of the receivers agree (ipc.c:2205-2219).
THEOREM MqWaitLists ==
  ASSUME Ordinary
  PROVE  MqSpec => []WaitLists
<1>1. MqInv => WaitLists
  BY WaitListsOK DEF MqInv, Calling
<1> QED BY <1>1, MqInvariance, PTL

\* The message queue keeps the promise of ChannelSpec: every message that was linked goes
\* to one receiver, urgent ones first and the others in order, and is still what was sent
\* when the receive that took it with interrupts disabled has copied it with interrupts
\* enabled (ipc.c:1963-2039, 2053-2124, 2138-2266, 2279-2325).
THEOREM MqRefinement ==
  ASSUME Ordinary
  PROVE  MqSpec => ImplementsQueue
<1>1. MqInit => Promise!Init
  BY MqInitOK
<1>2. MqInv /\ [MqNext]_mqVars => [Promise!Next]_(Promise!vars)
  <2> SUFFICES ASSUME MqInv, [MqNext]_mqVars PROVE PromiseStep
    BY DEF PromiseStep
  <2> QED BY MqStep, MqStutter
<1> QED BY <1>1, <1>2, MqInvariance, PTL DEF MqSpec, ImplementsQueue, Promise!Spec

=============================================================================
