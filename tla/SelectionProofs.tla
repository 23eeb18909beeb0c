---------------------------- MODULE SelectionProofs ---------------------------
(***************************************************************************)
(* What Kept keeps, for sequences of any length, and the induction over    *)
(* the naturals that this takes: LeastExists.                              *)
(***************************************************************************)
EXTENDS Selection, FiniteSetTheorems, WellFoundedInduction, TLAPS

\* every set of naturals has a least element: the initial segments that its elements
\* end are finite sets, and those are well founded
LEMMA LeastExists ==
    ASSUME NEW T, T \subseteq Nat, T # {}
    PROVE  \E m \in T : \A n \in T : m <= n
<1> DEFINE Order == StrictSubsetOrdering(Nat)
           Sections == FiniteSubsetsOf(Nat)
           Upto == {0..n : n \in T}
<1>1. IsWellFoundedOn(Order, Sections)
  BY FS_StrictSubsetOrderingWellFounded
<1>2. \A n \in Nat : 0..n \in Sections
  BY FS_Interval DEF FiniteSubsetsOf
<1>3. ASSUME NEW x \in Nat, NEW y \in Nat, y < x PROVE <<0..y, 0..x>> \in Order
  <2>1. 0..y \subseteq 0..x /\ x \in 0..x /\ x \notin 0..y /\ 0..x \subseteq Nat
    BY <1>3
  <2> QED
    BY <2>1 DEF StrictSubsetOrdering
<1>4. Upto \subseteq Sections /\ Upto # {}
  BY <1>2
<1> HIDE DEF Order, Sections
<1>5. PICK s \in Upto : \A u \in Upto : <<u, s>> \notin Order
  BY <1>1, <1>4, WFMin
<1>6. PICK m \in T : s = 0..m
  BY <1>5
<1>7. \A n \in T : ~(n < m)
  BY <1>3, <1>5, <1>6
<1> QED
  BY <1>6, <1>7

\* one step of Kept: the entry at n after what is kept of those before it
Onto(s, n, c, K) == IF n \in K THEN Append(s, c[n]) ELSE s

\* f is what Kept(c, K) defines, up to the length k
Keeps(f, k, c, K) == f = [n \in 0..k |-> IF n = 0 THEN <<>> ELSE Onto(f[n - 1], n, c, K)]

\* there is such a function up to every length
LEMMA KeptExists ==
    ASSUME NEW limit \in Nat, NEW c, NEW K
    PROVE  \E f : Keeps(f, limit, c, K)
<1> DEFINE Missing == {k \in Nat : ~\E f : Keeps(f, k, c, K)}
<1>1. SUFFICES ASSUME Missing # {} PROVE FALSE
  OBVIOUS
<1>2. PICK k \in Missing : \A n \in Missing : k <= n
  <2>1. Missing \subseteq Nat
    OBVIOUS
  <2> HIDE DEF Missing
  <2> QED
    BY <1>1, <2>1, LeastExists
<1>3. CASE k = 0
  <2> DEFINE g == [n \in 0..0 |-> <<>>]
  <2>1. Keeps(g, 0, c, K)
    BY DEF Keeps
  <2> QED
    BY <1>2, <1>3, <2>1
<1>4. CASE k # 0
  <2>1. k - 1 \in Nat /\ k - 1 \notin Missing
    <3>1. k \in Nat
      OBVIOUS
    <3> HIDE DEF Missing
    <3> QED
      BY <1>2, <1>4, <3>1
  <2>2. PICK f : Keeps(f, k - 1, c, K)
    BY <2>1
  <2> DEFINE g == [n \in 0..k |-> IF n = k THEN Onto(f[k - 1], k, c, K) ELSE f[n]]
  <2>3. \A n \in 0..k : g[n] = IF n = 0 THEN <<>> ELSE Onto(g[n - 1], n, c, K)
    <3> SUFFICES ASSUME NEW n \in 0..k
                 PROVE  g[n] = IF n = 0 THEN <<>> ELSE Onto(g[n - 1], n, c, K)
      OBVIOUS
    <3>1. CASE n = k
      BY <1>4, <2>1, <3>1
    <3>2. CASE n # k
      <4>1. n \in 0..(k - 1) /\ g[n] = f[n] /\ (n # 0 => g[n - 1] = f[n - 1])
        BY <2>1, <3>2
      <4> QED
        BY <2>2, <4>1 DEF Keeps
    <3> QED
      BY <3>1, <3>2
  <2>4. Keeps(g, k, c, K)
    <3>1. g = [n \in 0..k |-> g[n]]
      OBVIOUS
    <3> QED
      BY <2>3, <3>1 DEF Keeps
  <2> QED
    BY <1>2, <2>4
<1> QED
  BY <1>3, <1>4

\* s is what K selects of the first k entries of c: it holds each of them once, in their order
Placed(s, k, c, K) ==
    \E place \in [1..Len(s) -> 1..k] :
        /\ \A i \in 1..Len(s) : place[i] \in K /\ s[i] = c[place[i]]
        /\ \A i, j \in 1..Len(s) : i < j => place[i] < place[j]
        /\ \A n \in 1..k : n \in K => \E i \in 1..Len(s) : place[i] = n

LEMMA OntoPlaced ==
    ASSUME NEW T, NEW s \in Seq(T), NEW n \in Nat \ {0}, NEW c, NEW K, c[n] \in T,
           Placed(s, n - 1, c, K)
    PROVE  Onto(s, n, c, K) \in Seq(T) /\ Placed(Onto(s, n, c, K), n, c, K)
<1>1. PICK place \in [1..Len(s) -> 1..(n - 1)] :
        /\ \A i \in 1..Len(s) : place[i] \in K /\ s[i] = c[place[i]]
        /\ \A i, j \in 1..Len(s) : i < j => place[i] < place[j]
        /\ \A m \in 1..(n - 1) : m \in K => \E i \in 1..Len(s) : place[i] = m
  BY DEF Placed
<1>2. \A i \in 1..Len(s) : place[i] \in 1..(n - 1)
  OBVIOUS
<1>3. CASE n \notin K
  <2>1. Onto(s, n, c, K) = s
    BY <1>3 DEF Onto
  <2>2. place \in [1..Len(s) -> 1..n]
    BY <1>2
  <2>3. \A m \in 1..n : m \in K => m \in 1..(n - 1)
    BY <1>3
  <2>4. \A m \in 1..n : m \in K => \E i \in 1..Len(s) : place[i] = m
    BY <1>1, <2>3
  <2>5. Placed(s, n, c, K)
    BY <1>1, <2>2, <2>4 DEF Placed
  <2> QED
    BY <2>1, <2>5
<1>4. CASE n \in K
  <2> DEFINE r == Append(s, c[n])
             to == [i \in 1..Len(r) |-> IF i = Len(r) THEN n ELSE place[i]]
  <2>1. /\ Onto(s, n, c, K) = r /\ r \in Seq(T) /\ Len(r) = Len(s) + 1
        /\ r[Len(r)] = c[n]
        /\ \A i \in 1..Len(s) : r[i] = s[i]
    BY <1>4 DEF Onto
  <2>2. \A i \in 1..Len(r) : i = Len(r) \/ i \in 1..Len(s)
    BY <2>1
  <2>3. /\ Len(r) \in 1..Len(r) /\ to[Len(r)] = n
        /\ \A i \in 1..Len(s) : i \in 1..Len(r) /\ i # Len(r) /\ to[i] = place[i]
    BY <2>1
  <2> HIDE DEF r
  <2>4. to \in [1..Len(r) -> 1..n]
    BY <1>2, <2>2, <2>3
  <2> HIDE DEF to
  <2>5. \A i \in 1..Len(r) : to[i] \in K /\ r[i] = c[to[i]]
    BY <1>1, <1>4, <2>1, <2>2, <2>3
  <2>6. \A i, j \in 1..Len(r) : i < j => to[i] < to[j]
    <3> SUFFICES ASSUME NEW i \in 1..Len(r), NEW j \in 1..Len(r), i < j PROVE to[i] < to[j]
      OBVIOUS
    <3>1. i \in 1..Len(s)
      BY <2>1, <2>2
    <3>2. to[i] = place[i] /\ place[i] \in 1..(n - 1)
      BY <1>2, <2>3, <3>1
    <3>3. CASE j = Len(r)
      BY <2>3, <3>2, <3>3
    <3>4. CASE j \in 1..Len(s)
      BY <1>1, <2>3, <3>1, <3>4
    <3> QED
      BY <2>2, <3>3, <3>4
  <2>7. \A m \in 1..n : m \in K => \E i \in 1..Len(r) : to[i] = m
    <3> SUFFICES ASSUME NEW m \in 1..n, m \in K PROVE \E i \in 1..Len(r) : to[i] = m
      OBVIOUS
    <3>1. CASE m = n
      BY <2>3, <3>1
    <3>2. CASE m # n
      <4>1. m \in 1..(n - 1)
        BY <3>2
      <4>2. PICK i \in 1..Len(s) : place[i] = m
        BY <1>1, <4>1
      <4> QED
        BY <2>3, <4>2
    <3> QED
      BY <3>1, <3>2
  <2> QED
    BY <2>1, <2>4, <2>5, <2>6, <2>7 DEF Placed
<1> QED
  BY <1>3, <1>4

\* What is kept of a sequence: its entries at the places K, each once and in their order.
LEMMA KeptIs ==
    ASSUME NEW T, NEW c \in Seq(T), NEW K
    PROVE  Kept(c, K) \in Seq(T) /\ Placed(Kept(c, K), Len(c), c, K)
<1> DEFINE kept == CHOOSE f : Keeps(f, Len(c), c, K)
           Good(n) == kept[n] \in Seq(T) /\ Placed(kept[n], n, c, K)
<1>1. Len(c) \in Nat
  OBVIOUS
<1>2. \E f : Keeps(f, Len(c), c, K)
  BY <1>1, KeptExists
<1>3. Keeps(kept, Len(c), c, K)
  BY <1>2
<1>4. Kept(c, K) = kept[Len(c)]
  BY DEF Kept, Keeps, Onto
<1>5. kept[0] = <<>> /\ \A n \in 1..Len(c) : kept[n] = Onto(kept[n - 1], n, c, K)
  <2>1. \A n \in 0..Len(c) : kept[n] = IF n = 0 THEN <<>> ELSE Onto(kept[n - 1], n, c, K)
    BY <1>3 DEF Keeps
  <2>2. 0 \in 0..Len(c) /\ \A n \in 1..Len(c) : n \in 0..Len(c) /\ n # 0
    BY <1>1
  <2> HIDE DEF kept
  <2> QED
    BY <2>1, <2>2
<1> HIDE DEF kept
<1> DEFINE Bad == {n \in 0..Len(c) : ~Good(n)}
<1>6. SUFFICES ASSUME Bad # {} PROVE FALSE
  BY <1>1, <1>4
<1>7. PICK m \in Bad : \A n \in Bad : m <= n
  <2>1. Bad \subseteq Nat
    BY <1>1
  <2> HIDE DEF Bad
  <2> QED
    BY <1>6, <2>1, LeastExists
<1>8. m # 0
  <2>1. <<>> \in Seq(T) /\ Placed(<<>>, 0, c, K)
    <3> DEFINE none == [i \in 1..0 |-> 0]
    <3>1. none \in [1..0 -> 1..0] /\ Len(<<>>) = 0 /\ <<>> \in Seq(T)
      OBVIOUS
    <3>2. \A i \in 1..0 : FALSE
      OBVIOUS
    <3> HIDE DEF none
    <3>3. Placed(<<>>, 0, c, K)
      BY <3>1, <3>2 DEF Placed
    <3> QED
      BY <3>1, <3>3
  <2>2. Good(0)
    BY <1>5, <2>1
  <2> HIDE DEF Good
  <2> QED
    BY <2>2
<1>9. m \in 1..Len(c) /\ m - 1 \in 0..Len(c) /\ m - 1 \notin Bad
  <2>1. m \in 0..Len(c)
    OBVIOUS
  <2> HIDE DEF Bad
  <2> QED
    BY <1>1, <1>7, <1>8, <2>1
<1>10. Good(m - 1) /\ c[m] \in T /\ m \in Nat \ {0}
  BY <1>9
<1>11. Good(m)
  BY <1>5, <1>9, <1>10, OntoPlaced
<1> QED
  BY <1>11

\* So it is no longer than the sequence.
LEMMA KeptIsShort ==
    ASSUME NEW T, NEW c \in Seq(T), NEW K
    PROVE  Len(Kept(c, K)) <= Len(c)
<1> DEFINE l == Len(Kept(c, K))
           n == Len(c)
<1>1. l \in Nat /\ n \in Nat
  BY KeptIs
<1>2. PICK place \in [1..l -> 1..n] : \A i, j \in 1..l : i < j => place[i] < place[j]
  BY KeptIs DEF Placed
<1> HIDE DEF l, n
<1>3. \A i \in 1..l : place[i] \in 1..n
  OBVIOUS
<1>4. ASSUME NEW i \in 1..l, NEW j \in 1..l, place[i] = place[j] PROVE i = j
  <2>1. place[i] \in Int /\ place[j] \in Int
    BY <1>1, <1>3
  <2>2. ~(i < j) /\ ~(j < i)
    BY <1>2, <1>4, <2>1
  <2> QED
    BY <1>1, <2>2
<1>5. place \in Injection(1..l, 1..n)
  BY <1>4 DEF Injection, IsInjective
<1>6. /\ IsFiniteSet(1..n) /\ Cardinality(1..n) = n
      /\ IsFiniteSet(1..l) /\ Cardinality(1..l) = l
  BY <1>1, FS_Interval
<1>7. Cardinality(1..l) <= Cardinality(1..n)
  BY <1>5, <1>6, FS_Injection
<1> QED
  BY <1>6, <1>7 DEF l, n

================================================================================
