---------------------------- MODULE Order_proofs ----------------------------
(***************************************************************************)
(* Facts about sets of numbers, loops and sequences that the proofs of the *)
(* components need: a least and a greatest number, induction, the order of *)
(* InOrder, the functions that loops define, and where the characters of   *)
(* joined sequences stand.                                                 *)
(*                                                                         *)
(* The provers cannot instantiate an induction theorem whose parameter is  *)
(* an operator.  Least and Induction speak of sets instead: a property is  *)
(* given as the set of the numbers that have it.                           *)
(***************************************************************************)
EXTENDS Order, FiniteSetTheorems, SequenceTheorems, WellFoundedInduction, TLAPS

\* Every set of natural numbers has a least one.
THEOREM Least ==
  ASSUME NEW T \in SUBSET Nat, T # {}
  PROVE  \E x \in T : \A y \in T : x <= y
<1> DEFINE R == OpToRel(<, Nat)
<1>1. \A x, y \in Nat : <<y, x>> \in R <=> y < x
  BY DEF OpToRel
<1> HIDE DEF R
<1>2. IsWellFoundedOn(R, Nat)
  BY NatLessThanWellFounded DEF R
<1>3. \E x \in T : \A y \in T : ~(<<y, x>> \in R)
  BY <1>2, WFMin
<1>4. PICK x \in T : \A y \in T : ~(<<y, x>> \in R)
  BY <1>3
<1>5. \A y \in T : x <= y
  <2>1. TAKE y \in T
  <2>2. x \in Nat /\ y \in Nat /\ ~(y < x)
    BY <1>1, <1>4
  <2>3. QED
    BY <2>2
<1>6. QED
  BY <1>5

\* Induction: a set that holds 0 and with each number the next one holds all.
THEOREM Induction ==
  ASSUME NEW S, 0 \in S, \A n \in Nat : n \in S => n + 1 \in S
  PROVE  Nat \subseteq S
<1> DEFINE T == Nat \ S
<1>1. SUFFICES ASSUME T # {} PROVE FALSE
  OBVIOUS
<1>2. PICK x \in T : \A y \in T : x <= y
  BY <1>1, Least
<1>3. x # 0 /\ x - 1 \in Nat /\ x - 1 \notin T
  BY <1>2
<1>4. QED
  BY <1>3

\* A set of natural numbers with a bound has a greatest one.
THEOREM Greatest ==
  ASSUME NEW S \in SUBSET Nat, S # {}, NEW b \in Nat, \A x \in S : x <= b
  PROVE  \E x \in S : \A y \in S : y <= x
<1> DEFINE T == {n \in Nat : \A y \in S : y <= n}
<1>1. PICK m \in T : \A n \in T : m <= n
  <2>1. b \in T /\ T \in SUBSET Nat
    OBVIOUS
  <2>2. QED
    BY <2>1, Least
<1>2. m \in S
  <2>1. SUFFICES ASSUME m \notin S PROVE FALSE
    OBVIOUS
  <2>2. \A y \in S : y < m
    BY <1>1, <2>1
  <2>3. m # 0 /\ m - 1 \in Nat
    <3>1. PICK y \in S : TRUE
      OBVIOUS
    <3>2. y \in Nat /\ m \in Nat /\ y < m
      BY <2>2, <3>1
    <3>3. QED
      BY <3>2
  <2>4. m - 1 \in T
    BY <2>2, <2>3
  <2>5. QED
    BY <1>1, <2>3, <2>4
<1>3. QED
  BY <1>1, <1>2
-----------------------------------------------------------------------------
(* InOrder                                                                 *)

\* How many numbers of S are not above x.
Rank(S, x) == Cardinality({y \in S : y <= x})

\* The ranks are 1 to the size of S, and they grow with the numbers.
LEMMA Ranks ==
  ASSUME NEW S \in SUBSET Nat, IsFiniteSet(S)
  PROVE  /\ \A x \in S : Rank(S, x) \in 1..Cardinality(S)
         /\ \A x, y \in S : x < y => Rank(S, x) < Rank(S, y)
<1> DEFINE U(x) == {y \in S : y <= x}
<1>1. Cardinality(S) \in Nat
  BY FS_CardinalityType
<1>2. \A x \in S : IsFiniteSet(U(x)) /\ Cardinality(U(x)) \in Nat /\ Cardinality(U(x)) <= Cardinality(S)
  <2>1. TAKE x \in S
  <2>2. U(x) \in SUBSET S
    OBVIOUS
  <2>3. IsFiniteSet(U(x)) /\ Cardinality(U(x)) <= Cardinality(S)
    BY <2>2, FS_Subset
  <2>4. QED
    BY <2>3, FS_CardinalityType
<1>3. \A x \in S : Cardinality(U(x)) # 0
  <2>1. TAKE x \in S
  <2>2. x \in U(x)
    OBVIOUS
  <2>3. QED
    BY <1>2, <2>2, FS_EmptySet
<1>4. \A x, y \in S : x < y => Cardinality(U(x)) < Cardinality(U(y))
  <2>1. TAKE x, y \in S
  <2>2. HAVE x < y
  <2>3. U(x) \in SUBSET U(y) /\ y \in U(y) /\ y \notin U(x)
    <3>1. x \in Nat /\ y \in Nat
      OBVIOUS
    <3>2. \A z \in Nat : z <= x => z <= y
      BY <2>2, <3>1
    <3>3. ~(y <= x) /\ y <= y
      BY <2>2, <3>1
    <3>4. QED
      BY <3>2, <3>3
  <2>4. Cardinality(U(x)) <= Cardinality(U(y)) /\ Cardinality(U(x)) # Cardinality(U(y))
    BY <1>2, <2>3, FS_Subset
  <2>5. QED
    BY <1>2, <2>4
<1>5. QED
  BY <1>1, <1>2, <1>3, <1>4 DEF Rank

\* A rising list of S as long as S is large names each of S.
LEMMA AscendingOnto ==
  ASSUME NEW S \in SUBSET Nat, IsFiniteSet(S), NEW q \in [1..Cardinality(S) -> S], Ascending(q)
  PROVE  \A x \in S : \E i \in 1..Cardinality(S) : q[i] = x
<1> DEFINE D == 1..Cardinality(S)
<1>1. Cardinality(S) \in Nat /\ IsFiniteSet(D) /\ Cardinality(D) = Cardinality(S)
  <2>1. Cardinality(S) \in Nat
    BY FS_CardinalityType
  <2>2. QED
    BY <2>1, FS_Interval
<1>2. \A i, j \in D : q[i] = q[j] => i = j
  <2>1. TAKE i, j \in D
  <2>2. i \in Nat /\ j \in Nat /\ q[i] \in Nat /\ q[j] \in Nat
    <3>1. i \in Nat /\ j \in Nat
      BY <1>1
    <3>2. q[i] \in S /\ q[j] \in S
      OBVIOUS
    <3> HIDE DEF D
    <3>3. QED
      BY <3>1, <3>2
  <2>3. (i < j => q[i] < q[j]) /\ (j < i => q[j] < q[i])
    BY DEF Ascending
  <2>4. QED
    BY <2>2, <2>3
<1>3. q \in Injection(D, S)
  BY <1>2 DEF Injection, IsInjective
<1>4. q \in Surjection(D, S)
  BY <1>1, <1>3, FS_Injection
<1>5. QED
  BY <1>4 DEF Surjection

\* InOrder(S) lists S: its numbers rise, and each of S is among them.
THEOREM InOrderLists ==
  ASSUME NEW S \in SUBSET Nat, IsFiniteSet(S)
  PROVE  /\ InOrder(S) \in [1..Cardinality(S) -> S] /\ Ascending(InOrder(S))
         /\ \A x \in S : \E i \in 1..Cardinality(S) : InOrder(S)[i] = x
<1> DEFINE n == Cardinality(S)
           D == 1..n
           r == [x \in S |-> Rank(S, x)]
<1>1. n \in Nat
  BY FS_CardinalityType
<1>2. r \in [S -> D] /\ \A x, y \in S : x < y => r[x] < r[y]
  BY Ranks
<1>3. \A x, y \in S : r[x] = r[y] => x = y
  <2>1. TAKE x, y \in S
  <2>2. x \in Nat /\ y \in Nat /\ r[x] \in Nat /\ r[y] \in Nat
    BY <1>1, <1>2
  <2>3. QED
    BY <1>2, <2>2
<1>4. r \in Surjection(S, D)
  <2>1. r \in Injection(S, D)
    BY <1>2, <1>3 DEF Injection, IsInjective
  <2>2. IsFiniteSet(D) /\ Cardinality(D) = n
    BY <1>1, FS_Interval
  <2>3. QED
    BY <2>1, <2>2, FS_Injection
<1>5. \A i \in D : \E x \in S : r[x] = i
  BY <1>4 DEF Surjection
<1> DEFINE q == [i \in D |-> CHOOSE x \in S : r[x] = i]
<1>6. q \in [D -> S] /\ \A i \in D : r[q[i]] = i
  BY <1>5
<1>7. Ascending(q)
  <2>1. SUFFICES ASSUME NEW i \in D, NEW j \in D, i < j PROVE q[i] < q[j]
    BY <1>6 DEF Ascending
  <2>2. q[i] \in S /\ q[j] \in S /\ r[q[i]] = i /\ r[q[j]] = j
    BY <1>6
  <2>3. q[i] \in Nat /\ q[j] \in Nat /\ i \in Nat /\ j \in Nat
    <3>1. \A z \in S : z \in Nat
      OBVIOUS
    <3>2. i \in Nat /\ j \in Nat
      BY <1>1
    <3> HIDE DEF q, r, D, n
    <3>3. QED
      BY <2>2, <3>1, <3>2
  <2> HIDE DEF q, r, D, n
  <2>4. ~(q[j] < q[i]) /\ q[i] # q[j]
    BY <1>2, <2>1, <2>2, <2>3
  <2>5. QED
    BY <2>3, <2>4
<1>8. \E p \in [1..Cardinality(S) -> S] : Ascending(p)
  BY <1>6, <1>7
<1>9. InOrder(S) \in [1..Cardinality(S) -> S] /\ Ascending(InOrder(S))
  BY <1>8 DEF InOrder
<1> HIDE DEF q, r, D, n
<1>10. \A x \in S : \E i \in 1..Cardinality(S) : InOrder(S)[i] = x
  BY <1>9, AscendingOnto
<1>11. QED
  BY <1>9, <1>10

\* Two rising lists of the same numbers are the same.
THEOREM OneOrder ==
  ASSUME NEW S \in SUBSET Nat, NEW n \in Nat, NEW m \in Nat,
         NEW p \in [1..n -> S], NEW q \in [1..m -> S], Ascending(p), Ascending(q),
         \A x \in S : \E i \in 1..n : p[i] = x,
         \A x \in S : \E i \in 1..m : q[i] = x
  PROVE  p = q
<1>1. ASSUME NEW j \in Nat, NEW a \in Nat, NEW b \in Nat,
             NEW f \in [1..a -> S], NEW g \in [1..b -> S], Ascending(f), Ascending(g),
             \A x \in S : \E i \in 1..b : g[i] = x,
             j \in 1..a, \A i \in 1..(j - 1) : i \in 1..b /\ f[i] = g[i],
             j \in 1..b
      PROVE  f[j] >= g[j]
  <2>1. PICK k \in 1..b : g[k] = f[j]
    BY <1>1
  <2>2. k >= j
    <3>1. SUFFICES ASSUME k < j PROVE FALSE
      BY <1>1
    <3>2. k \in 1..(j - 1) /\ k \in 1..a /\ f[k] = f[j]
      BY <1>1, <2>1, <3>1
    <3>3. f[k] < f[j] /\ f[k] \in S
      BY <1>1, <3>1, <3>2 DEF Ascending
    <3>4. f[k] \in Nat
      BY <3>3
    <3>5. QED
      BY <3>2, <3>3, <3>4
  <2>3. CASE k = j
    <3>1. f[j] = g[j] /\ g[j] \in S
      BY <1>1, <2>1, <2>3
    <3>2. g[j] \in Nat
      BY <3>1
    <3>3. QED
      BY <3>1, <3>2
  <2>4. CASE k > j
    <3>1. g[j] < g[k] /\ g[j] \in S /\ g[k] \in S
      BY <1>1, <2>1, <2>4 DEF Ascending
    <3>2. g[j] \in Nat /\ g[k] \in Nat
      BY <3>1
    <3>3. QED
      BY <2>1, <3>1, <3>2
  <2>5. QED
    BY <1>1, <2>2, <2>3, <2>4
<1> DEFINE Differ == {j \in Nat : j \in 1..n /\ j \in 1..m /\ p[j] # q[j]}
<1>2. Differ = {}
  <2>1. SUFFICES ASSUME Differ # {} PROVE FALSE
    OBVIOUS
  <2>2. PICK j \in Differ : \A i \in Differ : j <= i
    BY <2>1, Least
  <2>3. \A i \in 1..(j - 1) : i \in 1..n /\ i \in 1..m /\ p[i] = q[i]
    BY <2>2
  <2>4. p[j] >= q[j]
    BY <1>1, <2>2, <2>3
  <2>5. q[j] >= p[j]
    BY <1>1, <2>2, <2>3
  <2>6. p[j] \in Nat /\ q[j] \in Nat /\ p[j] # q[j]
    BY <2>2
  <2>7. QED
    BY <2>4, <2>5, <2>6
<1>3. n = m
  <2>1. ASSUME NEW a \in Nat, NEW b \in Nat, NEW f \in [1..a -> S], NEW g \in [1..b -> S],
               Ascending(f), a < b, Ascending(g), \A i \in 1..a : f[i] = g[i],
               \A x \in S : \E i \in 1..a : f[i] = x
        PROVE  FALSE
    <3>1. a + 1 \in 1..b /\ g[a + 1] \in S
      BY <2>1
    <3>2. PICK i \in 1..a : f[i] = g[a + 1]
      BY <2>1, <3>1
    <3>3. i \in 1..b /\ i < a + 1 /\ g[i] = g[a + 1] /\ g[i] \in S
      BY <2>1, <3>2
    <3>4. g[i] < g[a + 1]
      BY <2>1, <3>1, <3>3 DEF Ascending
    <3>5. g[i] \in Nat
      BY <3>3
    <3>6. QED
      BY <3>3, <3>4, <3>5
  <2>2. \A i \in Nat : i \in 1..n /\ i \in 1..m => p[i] = q[i]
    BY <1>2
  <2>3. CASE n < m
    <3>1. \A i \in 1..n : p[i] = q[i]
      BY <2>2, <2>3
    <3>2. QED
      BY <2>1, <2>3, <3>1
  <2>4. CASE m < n
    <3>1. \A i \in 1..m : q[i] = p[i]
      BY <2>2, <2>4
    <3>2. QED
      BY <2>1, <2>4, <3>1
  <2>5. QED
    BY <2>3, <2>4
<1>4. \A i \in 1..n : p[i] = q[i]
  BY <1>2, <1>3
<1>5. QED
  BY <1>3, <1>4

\* The list of no numbers is empty.
LEMMA InOrderEmpty == InOrder({}) = <<>>
<1>1. InOrder({}) \in [1..0 -> {}]
  BY InOrderLists, FS_EmptySet
<1>2. QED
  BY <1>1

-----------------------------------------------------------------------------
(* Induction up to a bound, and counting *)

\* Induction up to a bound.
LEMMA Upto ==
  ASSUME NEW b \in Nat, NEW T, 0 \in T, \A n \in Nat : n + 1 <= b /\ n \in T => n + 1 \in T
  PROVE  b \in T /\ \A n \in 0..b : n \in T
<1> DEFINE U == {n \in Nat : n <= b => n \in T}
<1>1. 0 \in U
  OBVIOUS
<1>2. ASSUME NEW n \in Nat, n \in U PROVE n + 1 \in U
  <2>1. SUFFICES ASSUME n + 1 <= b PROVE n + 1 \in T
    OBVIOUS
  <2>2. n <= b
    BY <2>1
  <2>3. QED
    BY <1>2, <2>1, <2>2
<1>3. Nat \subseteq U
  <2>1. \A n \in Nat : n \in U => n + 1 \in U
    BY <1>2
  <2> HIDE DEF U
  <2>2. QED
    BY <1>1, <2>1, Induction
<1>4. QED
  BY <1>3

\* As many things as numbers, when no two of them are the same.
LEMMA Counted ==
  ASSUME NEW a \in Nat, NEW p, \A k, m \in 0..a : p[k] = p[m] => k = m
  PROVE  Cardinality({p[k] : k \in 0..a}) = a + 1
<1> DEFINE T == {p[k] : k \in 0..a}
           f == [k \in 0..a |-> p[k]]
<1>1. IsFiniteSet(0..a) /\ Cardinality(0..a) = a + 1
  BY FS_Interval
<1>2. f \in Surjection(0..a, T)
  BY DEF Surjection
<1>3. f \in Injection(0..a, T)
  <2>1. f \in [0..a -> T] /\ \A k, m \in 0..a : f[k] = f[m] => k = m
    OBVIOUS
  <2> HIDE DEF f, T
  <2>2. QED
    BY <2>1 DEF Injection, IsInjective
<1>4. Cardinality(T) = Cardinality(0..a)
  <2> HIDE DEF f, T
  <2>1. QED
    BY <1>1, <1>2, <1>3, FS_Surjection
<1>5. QED
  BY <1>1, <1>4

-----------------------------------------------------------------------------
(* Loops *)

\* f goes from a by n steps, the k-th of which takes a state s to step[k, s].
Path(n, a, step, f) ==
  f = [k \in 0..n |-> IF k = 0 THEN a ELSE step[<<k, f[k - 1]>>]]

\* A loop of n steps over the states of a set has its recursive function.
LEMMA Loops ==
  ASSUME NEW S, NEW a \in S, NEW n \in Nat,
         NEW step, \A k \in 1..n, s \in S : step[<<k, s>>] \in S
  PROVE  \E f \in [0..n -> S] : Path(n, a, step, f)
<1> DEFINE Good(m) == m <= n => \E f \in [0..m -> S] : Path(m, a, step, f)
           T == {m \in Nat : Good(m)}
<1>1. Good(0)
  <2> DEFINE f == [k \in 0..0 |-> a]
  <2>1. f \in [0..0 -> S] /\ Path(0, a, step, f)
    BY DEF Path
  <2>2. QED
    BY <2>1
<1>2. ASSUME NEW m \in Nat, Good(m) PROVE Good(m + 1)
  <2>1. SUFFICES ASSUME m + 1 <= n PROVE \E f \in [0..(m + 1) -> S] : Path(m + 1, a, step, f)
    OBVIOUS
  <2>2. PICK f \in [0..m -> S] : Path(m, a, step, f)
    BY <2>1, <1>2
  <2> DEFINE g == [k \in 0..(m + 1) |-> IF k = m + 1 THEN step[<<m + 1, f[m]>>] ELSE f[k]]
  <2>3. g \in [0..(m + 1) -> S]
    <3>1. step[<<m + 1, f[m]>>] \in S
      <4>1. m + 1 \in 1..n /\ f[m] \in S
        BY <2>1, <2>2
      <4>2. QED
        BY <4>1
    <3>2. QED
      BY <3>1, <2>2
  <2>4. ASSUME NEW k \in 0..(m + 1)
        PROVE  g[k] = IF k = 0 THEN a ELSE step[<<k, g[k - 1]>>]
    <3>1. CASE k = m + 1
      <4>1. g[m + 1] = step[<<m + 1, f[m]>>] /\ g[m] = f[m] /\ m + 1 # 0 /\ (m + 1) - 1 = m
        OBVIOUS
      <4> HIDE DEF g
      <4>2. QED
        BY <3>1, <4>1
    <3>2. CASE k # m + 1
      <4>1. k \in 0..m /\ (k # 0 => k - 1 \in 0..m)
        BY <3>2
      <4>2. f[k] = IF k = 0 THEN a ELSE step[<<k, f[k - 1]>>]
        BY <2>2, <4>1 DEF Path
      <4>3. g[k] = f[k] /\ (k # 0 => g[k - 1] = f[k - 1])
        BY <3>2, <4>1
      <4>4. QED
        BY <4>2, <4>3
    <3>3. QED
      BY <3>1, <3>2
  <2>5. Path(m + 1, a, step, g)
    <3> DEFINE h == [k \in 0..(m + 1) |-> IF k = 0 THEN a ELSE step[<<k, g[k - 1]>>]]
    <3>1. \A k \in 0..(m + 1) : g[k] = h[k]
      BY <2>4
    <3>2. g = h
      BY <3>1
    <3> HIDE DEF g
    <3>3. QED
      BY <3>2 DEF Path
  <2>6. QED
    BY <2>3, <2>5
<1> HIDE DEF Good
<1>3. Nat \subseteq T
  <2>1. 0 \in T /\ \A m \in Nat : m \in T => m + 1 \in T
    BY <1>1, <1>2
  <2> HIDE DEF T
  <2>2. QED
    BY <2>1, Induction
<1>4. QED
  BY <1>3 DEF Good

\* A loop that writes own[s] in the state s, ends in the states of stop and goes
\* on to next[s] from the others: what it writes from each state, written as a
\* recursion that may not end, is a set.
Written(S, own, stop, next, F) ==
  F = [s \in S |-> {own[s]} \union (IF s \in stop THEN {} ELSE F[next[s]])]

\* The least one is that set.
LEMMA LoopsWrite ==
  ASSUME NEW S, NEW P, NEW own \in [S -> P], NEW stop, NEW next \in [S -> S]
  PROVE  \E F \in [S -> SUBSET P] : Written(S, own, stop, next, F)
<1> DEFINE More1(g, s) == {own[s]} \union (IF s \in stop THEN {} ELSE g[next[s]])
           Closed == {g \in [S -> SUBSET P] : \A s \in S : More1(g, s) \subseteq g[s]}
           F == [s \in S |-> {p \in P : \A g \in Closed : p \in g[s]}]
           H == [s \in S |-> More1(F, s)]
<1>1. F \in [S -> SUBSET P]
  OBVIOUS
<1>2. \A g \in Closed, s \in S : F[s] \subseteq g[s]
  OBVIOUS
<1>3. ASSUME NEW s \in S PROVE H[s] \subseteq F[s]
  <2>1. SUFFICES ASSUME NEW p \in More1(F, s), NEW g \in Closed PROVE p \in P /\ p \in g[s]
    OBVIOUS
  <2>2. More1(F, s) \subseteq More1(g, s)
    <3>1. next[s] \in S
      OBVIOUS
    <3> HIDE DEF F, Closed
    <3>2. F[next[s]] \subseteq g[next[s]]
      BY <1>2, <3>1
    <3>3. QED
      BY <3>2
  <2>3. More1(g, s) \subseteq g[s] /\ g[s] \subseteq P
    OBVIOUS
  <2> HIDE DEF More1, F, Closed
  <2>4. QED
    BY <2>1, <2>2, <2>3
<1>4. H \in Closed
  <2> HIDE DEF F
  <2>1. H \in [S -> SUBSET P]
    <3>1. ASSUME NEW s \in S PROVE More1(F, s) \subseteq P
      <4>1. next[s] \in S /\ own[s] \in P
        OBVIOUS
      <4>2. F[next[s]] \subseteq P
        BY <1>1, <4>1
      <4>3. QED
        BY <4>1, <4>2
    <3> HIDE DEF More1
    <3>2. QED
      BY <3>1
  <2>2. ASSUME NEW s \in S PROVE More1(H, s) \subseteq H[s]
    <3>1. next[s] \in S
      OBVIOUS
    <3>2. H[next[s]] \subseteq F[next[s]]
      BY <1>3, <3>1
    <3>3. H[s] = More1(F, s)
      OBVIOUS
    <3> HIDE DEF H
    <3>4. QED
      BY <3>2, <3>3
  <2> HIDE DEF H
  <2>3. QED
    BY <2>1, <2>2
<1>5. F = H
  <2>1. \A s \in S : F[s] = H[s]
    <3> HIDE DEF F, H, Closed
    <3>1. QED
      BY <1>2, <1>3, <1>4
  <2>2. QED
    BY <2>1
<1>6. Written(S, own, stop, next, F)
  <2> HIDE DEF F
  <2>1. QED
    BY <1>5 DEF Written
<1>7. QED
  <2> HIDE DEF F
  <2>1. QED
    BY <1>1, <1>6

\* What the states of a path of n steps have.
Along(own, q, n) == {own[q[k]] : k \in 0..n}

\* A path of n steps that comes to stop with its last.
Goes(q, n, stop, next) ==
  q[n] \in stop /\ \A k \in 0..(n - 1) : q[k] \notin stop /\ next[q[k]] = q[k + 1]

\* From a state whose path comes to a state of stop, the loop writes what the
\* states of the path have.
LEMMA LoopWrites ==
  ASSUME NEW S, NEW own, NEW stop, NEW next, NEW F, Written(S, own, stop, next, F),
         NEW n \in Nat, NEW q \in [0..n -> S],
         Goes(q, n, stop, next)
  PROVE  F[q[0]] = Along(own, q, n)
<1> DEFINE Tail1(j) == {own[q[k]] : k \in j..n}
           Good(m) == m <= n => F[q[n - m]] = Tail1(n - m)
           T == {m \in Nat : Good(m)}
<1>1. \A s \in S : F[s] = {own[s]} \union (IF s \in stop THEN {} ELSE F[next[s]])
  BY DEF Written
<1>2. Good(0)
  <2>1. Tail1(n) = {own[q[n]]}
    OBVIOUS
  <2>2. q[n] \in S
    OBVIOUS
  <2>3. F[q[n]] = {own[q[n]]}
    BY <1>1, <2>2 DEF Goes
  <2>4. n - 0 = n
    OBVIOUS
  <2> HIDE DEF Tail1
  <2>5. QED
    BY <2>1, <2>3, <2>4
<1>3. ASSUME NEW m \in Nat, Good(m) PROVE Good(m + 1)
  <2>1. SUFFICES ASSUME m + 1 <= n PROVE F[q[n - (m + 1)]] = Tail1(n - (m + 1))
    OBVIOUS
  <2> DEFINE j == n - (m + 1)
  <2>2. j \in 0..(n - 1) /\ j \in 0..n /\ j + 1 = n - m /\ m <= n
    BY <2>1
  <2> HIDE DEF j
  <2>3. F[q[j + 1]] = Tail1(j + 1)
    BY <1>3, <2>2
  <2>4. F[q[j]] = {own[q[j]]} \union F[q[j + 1]]
    BY <1>1, <2>2 DEF Goes
  <2>5. Tail1(j) = {own[q[j]]} \union Tail1(j + 1)
    <3>1. j..n = {j} \union ((j + 1)..n)
      BY <2>2
    <3>2. QED
      BY <3>1
  <2> HIDE DEF Tail1
  <2>6. QED
    BY <2>3, <2>4, <2>5 DEF j
<1> HIDE DEF Good
<1>4. Nat \subseteq T
  <2>1. 0 \in T
    BY <1>2
  <2>2. \A m \in Nat : m \in T => m + 1 \in T
    BY <1>3
  <2> HIDE DEF T
  <2>3. QED
    BY <2>1, <2>2, Induction
<1>5. Good(n) /\ n - n = 0
  BY <1>4
<1>6. QED
  BY <1>5 DEF Good, Along

-----------------------------------------------------------------------------
(* Sequences *)

\* Sequences written out.
LEMMA Short ==
  ASSUME NEW C
  PROVE  /\ \A c \in C : <<c>> \in Seq(C) /\ Len(<<c>>) = 1
         /\ \A c, d \in C : <<c, d>> \in Seq(C) /\ Len(<<c, d>>) = 2
         /\ \A c, d, e \in C : <<c, d, e>> \in Seq(C)
         /\ <<>> \in Seq(C) /\ Len(<<>>) = 0
OBVIOUS

\* A table is a sequence.
LEMMA SeqOfLength ==
  ASSUME NEW n \in Nat, NEW p \in [1..n -> Int]
  PROVE  p \in Seq(Int) /\ Len(p) = n
OBVIOUS

\* A function that is given for each place is a sequence.
LEMMA Tabled ==
  ASSUME NEW M, NEW n \in Nat, NEW f, f = [i \in 1..n |-> f[i]], \A i \in 1..n : f[i] \in M
  PROVE  f \in Seq(M) /\ Len(f) = n
OBVIOUS

\* A sequence is given by its places.
LEMMA Spelled ==
  ASSUME NEW C, NEW s \in Seq(C), NEW n, Len(s) = n
  PROVE  s = [i \in 1..n |-> s[i]]
OBVIOUS

\* The same thing k times.
LEMMA Repeated ==
  ASSUME NEW C, NEW c \in C, NEW k \in Nat
  PROVE  /\ [i \in 1..k |-> c] \in Seq(C) /\ Len([i \in 1..k |-> c]) = k
         /\ \A i \in 1..k : [j \in 1..k |-> c][i] = c
OBVIOUS

\* The first k of a sequence.
LEMMA Beginning ==
  ASSUME NEW C, NEW s \in Seq(C), NEW k \in 1..Len(s)
  PROVE  /\ SubSeq(s, 1, k) \in Seq(C) /\ Len(SubSeq(s, 1, k)) = k /\ DOMAIN SubSeq(s, 1, k) = 1..k
         /\ \A i \in 1..k : SubSeq(s, 1, k)[i] = s[i]
OBVIOUS

\* Where everything stands in two joined sequences.
LEMMA Concatenated ==
  ASSUME NEW C, NEW s \in Seq(C), NEW t \in Seq(C)
  PROVE  /\ s \o t \in Seq(C) /\ Len(s \o t) = Len(s) + Len(t)
         /\ \A i \in 1..Len(s) : (s \o t)[i] = s[i]
         /\ \A i \in 1..Len(t) : (s \o t)[Len(s) + i] = t[i]
<1> DEFINE u == s \o t
           a == Len(s)
           b == Len(t)
<1>1. /\ u \in Seq(C) /\ Len(u) = a + b
      /\ \A i \in 1..(a + b) : u[i] = IF i <= a THEN s[i] ELSE t[i - a]
  BY ConcatProperties
<1>2. a \in Nat /\ b \in Nat
  OBVIOUS
<1> HIDE DEF u, a, b
<1>3. \A i \in 1..a : i \in 1..(a + b) /\ i <= a
  BY <1>2
<1>4. \A i \in 1..b : a + i \in 1..(a + b) /\ ~(a + i <= a) /\ (a + i) - a = i
  BY <1>2
<1>5. /\ \A i \in 1..a : u[i] = s[i]
      /\ \A i \in 1..b : u[a + i] = t[i]
  BY <1>1, <1>3, <1>4
<1>6. QED
  BY <1>1, <1>5 DEF u, a, b

\* The same with the lengths named.
LEMMA TwoParts ==
  ASSUME NEW C, NEW p \in Seq(C), NEW q \in Seq(C), NEW a, NEW b, Len(p) = a, Len(q) = b
  PROVE  /\ p \o q \in Seq(C) /\ Len(p \o q) = a + b
         /\ \A i \in 1..a : (p \o q)[i] = p[i]
         /\ \A i \in 1..b : (p \o q)[a + i] = q[i]
<1>1. p \o q \in Seq(C) /\ Len(p \o q) = Len(p) + Len(q)
  BY Concatenated
<1>2. \A i \in 1..Len(p) : (p \o q)[i] = p[i]
  BY Concatenated
<1>3. \A i \in 1..Len(q) : (p \o q)[Len(p) + i] = q[i]
  BY Concatenated
<1> DEFINE u == p \o q
<1> HIDE DEF u
<1>4. QED
  BY <1>1, <1>2, <1>3 DEF u

\* One in front.
LEMMA Prefixed ==
  ASSUME NEW C, NEW x \in C, NEW u \in Seq(C)
  PROVE  /\ <<x>> \o u \in Seq(C) /\ Len(<<x>> \o u) = Len(u) + 1 /\ (<<x>> \o u)[1] = x
         /\ \A i \in 1..Len(u) : (<<x>> \o u)[i + 1] = u[i]
<1> DEFINE w == <<x>>
<1>1. w \in Seq(C) /\ Len(w) = 1 /\ w[1] = x /\ Len(u) \in Nat
  OBVIOUS
<1> HIDE DEF w
<1>2. w \in Seq(C)
  BY <1>1
<1>3. w \o u \in Seq(C) /\ Len(w \o u) = Len(w) + Len(u)
  BY <1>2, Concatenated
<1>4. \A i \in 1..Len(w) : (w \o u)[i] = w[i]
  BY <1>2, Concatenated
<1>5. \A i \in 1..Len(u) : (w \o u)[Len(w) + i] = u[i]
  BY <1>2, Concatenated
<1>6. 1 \in 1..Len(w) /\ \A i \in 1..Len(u) : Len(w) + i = i + 1
  BY <1>1
<1>7. QED
  BY <1>1, <1>3, <1>4, <1>5, <1>6 DEF w

\* Two, the second with nothing behind it.
LEMMA Pair ==
  ASSUME NEW c, NEW d
  PROVE  <<c>> \o (<<d>> \o <<>>) = <<c, d>>
<1> DEFINE C == {c, d}
           p == <<c>>
           q == <<d>>
           u == p \o q
<1>1. p \in Seq(C) /\ q \in Seq(C) /\ Len(p) = 1 /\ Len(q) = 1 /\ p[1] = c /\ q[1] = d
  OBVIOUS
<1>2. q \o <<>> = q
  BY <1>1
<1> HIDE DEF p, q, C
<1>3. u \in Seq(C) /\ Len(u) = Len(p) + Len(q)
  BY <1>1, Concatenated
<1>4. \A i \in 1..Len(p) : u[i] = p[i]
  BY <1>1, Concatenated
<1>5. \A i \in 1..Len(q) : u[Len(p) + i] = q[i]
  BY <1>1, Concatenated
<1> HIDE DEF u
<1>6. Len(u) = 2 /\ u[1] = c /\ u[2] = d
  <2>1. Len(p) + 1 = 2 /\ 1 \in 1..Len(p) /\ 1 \in 1..Len(q)
    BY <1>1
  <2>2. QED
    BY <1>1, <1>3, <1>4, <1>5, <2>1
<1>7. u = <<c, d>>
  <2>1. u = [i \in 1..2 |-> u[i]]
    <3>1. u \in Seq(C)
      BY <1>3, Zenon
    <3>2. Len(u) = 2
      BY <1>6, Zenon
    <3>3. QED
      BY <3>1, <3>2, Spelled
  <2> DEFINE r == <<c, d>>
  <2>2. r = [i \in 1..2 |-> r[i]] /\ r[1] = c /\ r[2] = d
    OBVIOUS
  <2>3. \A i \in 1..2 : i = 1 \/ i = 2
    OBVIOUS
  <2> HIDE DEF r
  <2>4. \A i \in 1..2 : u[i] = r[i]
    BY <1>6, <2>2, <2>3
  <2>5. u = r
    BY <2>1, <2>2, <2>4
  <2>6. QED
    BY <2>5 DEF r
<1>8. QED
  BY <1>2, <1>7 DEF u, p, q

\* What an Append is, place by place.
LEMMA AppendIs ==
  ASSUME NEW C, NEW p \in Seq(C), NEW e \in C, NEW r \in Seq(C), Len(r) = Len(p) + 1,
         r[Len(p) + 1] = e, \A i \in 1..Len(p) : r[i] = p[i]
  PROVE  Append(p, e) = r
<1> DEFINE u == Append(p, e)
<1>1. u \in Seq(C) /\ Len(u) = Len(p) + 1
  BY AppendProperties
<1>2. u[Len(p) + 1] = e
  BY AppendProperties
<1>3. \A i \in 1..Len(p) : u[i] = p[i]
  BY AppendProperties
<1> HIDE DEF u
<1>4. \A i \in 1..Len(u) : i \in 1..Len(p) \/ i = Len(p) + 1
  BY <1>1
<1>5. \A i \in 1..Len(u) : u[i] = r[i]
  BY <1>2, <1>3, <1>4
<1>6. u = r
  BY <1>1, <1>5, SeqEqual
<1>7. QED
  BY <1>6 DEF u

\* Two and one more.
LEMMA Three ==
  ASSUME NEW c, NEW d, NEW e
  PROVE  Append(<<c, d>>, e) = <<c, d, e>>
<1> DEFINE C == {c, d, e}
           p == <<c, d>>
           r == <<c, d, e>>
<1>1. p \in Seq(C) /\ e \in C /\ Len(p) = 2 /\ p[1] = c /\ p[2] = d
  OBVIOUS
<1>2. r \in Seq(C) /\ Len(r) = 3 /\ r[1] = c /\ r[2] = d /\ r[3] = e
  OBVIOUS
<1> HIDE DEF p, C, r
<1>3. Len(r) = Len(p) + 1 /\ r[Len(p) + 1] = e
  BY <1>1, <1>2
<1>4. \A i \in 1..Len(p) : r[i] = p[i]
  <2>1. \A i \in 1..2 : i = 1 \/ i = 2
    OBVIOUS
  <2>2. QED
    BY <1>1, <1>2, <2>1
<1>5. Append(p, e) = r
  BY <1>1, <1>2, <1>3, <1>4, AppendIs
<1>6. QED
  BY <1>5 DEF p, r

-----------------------------------------------------------------------------
(* The first so many of a sequence *)

\* The first so many of a text, or all of it.
First(s, n) == SubSeq(s, 1, IF Len(s) < n THEN Len(s) ELSE n)

\* How many they are, and which.
LEMMA Firsts ==
  ASSUME NEW C, NEW s \in Seq(C), NEW n \in Nat
  PROVE  /\ First(s, n) \in Seq(C) /\ Len(First(s, n)) = IF Len(s) < n THEN Len(s) ELSE n
         /\ \A i \in 1..Len(First(s, n)) : First(s, n)[i] = s[i]
         /\ Len(s) <= n => First(s, n) = s
<1> DEFINE m == IF Len(s) < n THEN Len(s) ELSE n
           u == SubSeq(s, 1, m)
<1>1. Len(s) \in Nat /\ m \in Nat /\ m <= Len(s)
  OBVIOUS
<1>2. u = [i \in 1..(m - 1 + 1) |-> s[i + 1 - 1]]
  BY <1>1
<1>3. m - 1 + 1 = m
  BY <1>1
<1>4. \A i \in 1..m : s[i] \in C /\ i + 1 - 1 = i
  BY <1>1
<1> HIDE DEF m
<1>5. u = [i \in 1..m |-> s[i]]
  <2> DEFINE v == [i \in 1..m |-> s[i + 1 - 1]]
             w == [i \in 1..m |-> s[i]]
  <2>1. u = v
    BY <1>2, <1>3
  <2>2. \A i \in 1..m : s[i + 1 - 1] = s[i]
    BY <1>4
  <2>3. v = w
    BY <2>2
  <2>4. QED
    BY <2>1, <2>3
<1> HIDE DEF u
<1>6. u \in Seq(C) /\ Len(u) = m /\ \A i \in 1..m : u[i] = s[i]
  BY <1>1, <1>4, <1>5
<1>7. Len(s) <= n => u = s
  <2>1. Len(s) <= n => m = Len(s)
    BY <1>1 DEF m
  <2>2. QED
    BY <1>6, <2>1, SeqEqual
<1>8. First(s, n) = u
  BY DEF First, u, m
<1>9. QED
  BY <1>6, <1>7, <1>8 DEF m

\* What a text shows of one with a part more: as much of the part as there is room for.
LEMMA FirstMore ==
  ASSUME NEW C, NEW s \in Seq(C), NEW t \in Seq(C), NEW n \in Nat
  PROVE  /\ Len(s) < n => First(s \o t, n) = s \o First(t, n - Len(s))
         /\ Len(s) >= n => First(s \o t, n) = First(s, n)
<1> DEFINE u == s \o t
<1>1. u \in Seq(C) /\ Len(u) = Len(s) + Len(t) /\ \A i \in 1..Len(s) : u[i] = s[i]
  BY Concatenated
<1>2. \A i \in 1..Len(t) : u[Len(s) + i] = t[i]
  BY Concatenated
<1>3. Len(s) \in Nat /\ Len(t) \in Nat
  OBVIOUS
<1> HIDE DEF u
<1> DEFINE v == First(u, n)
<1>4. /\ v \in Seq(C) /\ Len(v) = IF Len(u) < n THEN Len(u) ELSE n
      /\ \A i \in 1..Len(v) : v[i] = u[i]
  BY <1>1, Firsts
<1> HIDE DEF v
<1>5. ASSUME Len(s) < n PROVE v = s \o First(t, n - Len(s))
  <2> DEFINE l == n - Len(s)
             x == First(t, l)
             y == s \o x
  <2>1. l \in Nat
    BY <1>3, <1>5
  <2>2. /\ x \in Seq(C) /\ Len(x) = IF Len(t) < l THEN Len(t) ELSE l
        /\ \A i \in 1..Len(x) : x[i] = t[i]
    <3> HIDE DEF l
    <3>1. QED
      BY <2>1, Firsts
  <2> HIDE DEF x
  <2>3. /\ y \in Seq(C) /\ Len(y) = Len(s) + Len(x) /\ \A i \in 1..Len(s) : y[i] = s[i]
        /\ \A i \in 1..Len(x) : y[Len(s) + i] = x[i]
    <3>1. x \in Seq(C)
      BY <2>2
    <3> HIDE DEF l
    <3>2. s \o x \in Seq(C) /\ Len(s \o x) = Len(s) + Len(x)
      BY <3>1, Concatenated
    <3>3. \A i \in 1..Len(s) : (s \o x)[i] = s[i]
      BY <3>1, Concatenated
    <3>4. \A i \in 1..Len(x) : (s \o x)[Len(s) + i] = x[i]
      BY <3>1, Concatenated
    <3>5. QED
      BY <3>2, <3>3, <3>4, Zenon
  <2> HIDE DEF y
  <2>4. Len(v) = Len(y)
    BY <1>1, <1>3, <1>4, <2>2, <2>3
  <2>5. ASSUME NEW i \in 1..Len(v) PROVE v[i] = y[i]
    <3>1. CASE i <= Len(s)
      <4>1. i \in 1..Len(s)
        BY <1>3, <3>1
      <4>2. QED
        BY <1>1, <1>4, <2>3, <4>1
    <3>2. CASE i > Len(s)
      <4>1. i - Len(s) \in 1..Len(x) /\ Len(s) + (i - Len(s)) = i /\ i - Len(s) \in 1..Len(t)
        BY <1>3, <2>2, <2>3, <2>4, <3>2
      <4>2. y[i] = x[i - Len(s)] /\ u[i] = t[i - Len(s)]
        BY <1>2, <2>3, <4>1
      <4>3. QED
        BY <1>4, <2>2, <4>1, <4>2
    <3>3. QED
      BY <1>3, <3>1, <3>2
  <2>6. v = y
    BY <1>4, <2>3, <2>4, <2>5, SeqEqual
  <2>7. QED
    BY <2>6 DEF y, x, l
<1>6. ASSUME Len(s) >= n PROVE v = First(s, n)
  <2> DEFINE x == First(s, n)
  <2>1. /\ x \in Seq(C) /\ Len(x) = IF Len(s) < n THEN Len(s) ELSE n
        /\ \A i \in 1..Len(x) : x[i] = s[i]
    BY Firsts
  <2> HIDE DEF x
  <2>2. Len(v) = Len(x) /\ Len(x) <= Len(s)
    BY <1>1, <1>3, <1>4, <1>6, <2>1
  <2>3. \A i \in 1..Len(v) : i \in 1..Len(s) /\ i \in 1..Len(x)
    BY <1>3, <2>1, <2>2
  <2>4. \A i \in 1..Len(v) : v[i] = x[i]
    BY <1>1, <1>4, <2>1, <2>3
  <2>5. v = x
    BY <1>4, <2>1, <2>2, <2>4, SeqEqual
  <2>6. QED
    BY <2>5 DEF x
<1>7. QED
  BY <1>5, <1>6 DEF v, u

-----------------------------------------------------------------------------
(* A sequence that stands in a longer one *)

\* q stands in s from its at-th character on.
Within(s, at, q) ==
  /\ at \in Nat /\ at >= 1 /\ at + Len(q) <= Len(s) + 1
  /\ \A i \in 1..Len(q) : s[at + i - 1] = q[i]

\* The second of two parts stands behind the first.
LEMMA WithinEnd ==
  ASSUME NEW C, NEW s \in Seq(C), NEW q \in Seq(C)
  PROVE  s \o q \in Seq(C) /\ Len(s \o q) = Len(s) + Len(q) /\ Within(s \o q, Len(s) + 1, q)
<1>1. s \o q \in Seq(C) /\ Len(s \o q) = Len(s) + Len(q)
  BY Concatenated
<1>2. \A i \in 1..Len(q) : (s \o q)[Len(s) + i] = q[i]
  BY Concatenated
<1>3. Len(s) \in Nat /\ Len(q) \in Nat
  OBVIOUS
<1>4. \A i \in 1..Len(q) : (Len(s) + 1) + i - 1 = Len(s) + i
  BY <1>3
<1> DEFINE u == s \o q
<1> HIDE DEF u
<1>5. \A i \in 1..Len(q) : u[(Len(s) + 1) + i - 1] = q[i]
  BY <1>2, <1>4 DEF u
<1>6. Len(s) + 1 \in Nat /\ Len(s) + 1 >= 1 /\ (Len(s) + 1) + Len(q) <= Len(u) + 1
  BY <1>1, <1>3 DEF u
<1>7. Within(u, Len(s) + 1, q)
  BY <1>5, <1>6 DEF Within
<1>8. QED
  BY <1>1, <1>7 DEF u

\* What is joined behind does not matter.
LEMMA WithinMore ==
  ASSUME NEW C, NEW s \in Seq(C), NEW t \in Seq(C), NEW q \in Seq(C), NEW at, Within(s, at, q)
  PROVE  Within(s \o t, at, q)
<1> DEFINE u == s \o t
<1>1. Len(u) = Len(s) + Len(t)
  BY Concatenated
<1>2. \A i \in 1..Len(s) : u[i] = s[i]
  BY Concatenated
<1>3. Len(s) \in Nat /\ Len(t) \in Nat /\ Len(q) \in Nat
  OBVIOUS
<1> HIDE DEF u
<1>4. \A i \in 1..Len(q) : at + i - 1 \in 1..Len(s)
  BY <1>3 DEF Within
<1>5. QED
  BY <1>1, <1>2, <1>3, <1>4 DEF Within, u

\* What stands there is cut out again.
LEMMA WithinSub ==
  ASSUME NEW C, NEW s \in Seq(C), NEW q \in Seq(C), NEW at, Within(s, at, q), q # <<>>
  PROVE  SubSeq(s, at, at + Len(q) - 1) = q
<1> DEFINE b == at + Len(q) - 1
           u == SubSeq(s, at, b)
<1>1. Len(q) \in Nat /\ Len(q) >= 1 /\ Len(s) \in Nat
  BY EmptySeq
<1>2. at \in 1..Len(s) /\ b \in 1..Len(s) /\ at <= b /\ at \in Int /\ b \in Int /\ b - at + 1 = Len(q)
  BY <1>1 DEF Within
<1>3. \A i \in at..b : s[i] \in C
  BY <1>2
<1>4. u = [i \in 1..(b - at + 1) |-> s[i + at - 1]]
  BY <1>2
<1>5. u \in Seq(C) /\ Len(u) = Len(q) /\ \A i \in 1..Len(q) : u[i] = s[i + at - 1]
  <2>1. \A i \in 1..Len(q) : i + at - 1 \in at..b
    BY <1>1, <1>2
  <2>2. \A i \in 1..Len(q) : s[i + at - 1] \in C
    BY <1>3, <2>1
  <2> HIDE DEF b
  <2>3. u = [i \in 1..Len(q) |-> s[i + at - 1]]
    BY <1>2, <1>4
  <2> HIDE DEF u
  <2>4. QED
    BY <1>1, <2>2, <2>3
<1> HIDE DEF u
<1>6. \A i \in 1..Len(q) : u[i] = q[i]
  <2>1. \A i \in 1..Len(q) : i + at - 1 = at + i - 1
    BY <1>1, <1>2
  <2>2. QED
    BY <1>5, <2>1 DEF Within
<1>7. u = q
  BY <1>5, <1>6, SeqEqual
<1>8. QED
  BY <1>7 DEF u

\* One that stands there.
LEMMA WithinOne ==
  ASSUME NEW C, NEW s \in Seq(C), NEW n, NEW c \in C, Within(s, n, <<c>>)
  PROVE  ~(n > Len(s)) /\ s[n] = c /\ n \in Nat
<1> DEFINE q == <<c>>
<1>1. Len(q) = 1 /\ q[1] = c
  OBVIOUS
<1>2. Within(s, n, q)
  OBVIOUS
<1> HIDE DEF q
<1>3. n \in Nat /\ n + 1 <= Len(s) + 1 /\ Len(s) \in Nat
  BY <1>1, <1>2 DEF Within
<1>4. s[n + 1 - 1] = q[1] /\ n + 1 - 1 = n
  BY <1>1, <1>2, <1>3 DEF Within
<1>5. QED
  BY <1>1, <1>3, <1>4

\* Two that stand there.
LEMMA WithinTwo ==
  ASSUME NEW C, NEW s \in Seq(C), NEW n, NEW c \in C, NEW d \in C, Within(s, n, <<c, d>>)
  PROVE  ~(n > Len(s)) /\ n # Len(s) /\ s[n] = c /\ s[n + 1] = d /\ n \in Nat
<1> DEFINE q == <<c, d>>
<1>1. Len(q) = 2 /\ q[1] = c /\ q[2] = d
  OBVIOUS
<1>2. Within(s, n, q)
  OBVIOUS
<1> HIDE DEF q
<1>3. n \in Nat /\ n + 2 <= Len(s) + 1 /\ Len(s) \in Nat
  BY <1>1, <1>2 DEF Within
<1>4. s[n + 1 - 1] = q[1] /\ n + 1 - 1 = n /\ s[n + 2 - 1] = q[2] /\ n + 2 - 1 = n + 1
  BY <1>1, <1>2, <1>3 DEF Within
<1>5. QED
  BY <1>1, <1>3, <1>4
=============================================================================
