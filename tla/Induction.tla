------------------------------- MODULE Induction -------------------------------
(***************************************************************************)
(* Induction and recursion over the natural numbers and finite sets, and   *)
(* sums over finite sets, stated with sets and functions in place of       *)
(* operators: what the proofs about this project's components need of      *)
(* them.                                                                   *)
(***************************************************************************)
EXTENDS Integers, FiniteSets, Functions, FiniteSetTheorems, WellFoundedInduction, TLAPS

\* A set of natural numbers that is not empty has a least one.
LEMMA LeastNumber ==
  ASSUME NEW T \in SUBSET Nat, T # {}
  PROVE  \E x \in T : \A y \in T : x <= y
<1> DEFINE R == OpToRel(<, Nat)
<1>1. \E x \in T : \A y \in T : ~ (<<y, x>> \in R)
  BY NatLessThanWellFounded, WFMin
<1>2. \A x, y \in Nat : <<y, x>> \in R <=> y < x
  BY DEF OpToRel
<1>3. PICK x \in T : \A y \in T : ~ (<<y, x>> \in R)
  BY <1>1
<1> HIDE DEF R
<1>4. \A y \in T : ~(y < x)
  BY <1>2, <1>3
<1>5. \A y \in T : x <= y
  BY <1>4
<1>6. QED
  BY <1>5

\* So does a set whose elements have numbers f.
LEMMA LeastOf ==
  ASSUME NEW S, S # {}, NEW f, \A x \in S : f[x] \in Nat
  PROVE  \E x \in S : \A y \in S : f[x] <= f[y]
<1> DEFINE T == {f[x] : x \in S}
<1>1. T \in SUBSET Nat /\ T # {}
  OBVIOUS
<1>2. PICK n \in T : \A m \in T : n <= m
  BY <1>1, LeastNumber
<1>3. QED
  BY <1>2

\* A set of natural numbers that are not above n has a greatest one.
LEMMA GreatestBelow ==
  ASSUME NEW T \in SUBSET Nat, T # {}, NEW n \in Nat, \A l \in T : l <= n
  PROVE  \E x \in T : \A l \in T : l <= x
<1> DEFINE gaps == {n - l : l \in T}
<1>1. gaps \in SUBSET Nat /\ gaps # {}
  <2>1. \A l \in T : n - l \in Nat
    OBVIOUS
  <2>2. QED
    BY <2>1
<1>2. PICK g \in gaps : \A h \in gaps : g <= h
  <2> HIDE DEF gaps
  <2>1. QED
    BY <1>1, LeastNumber
<1>3. PICK x \in T : g = n - x
  BY <1>2
<1>4. \A l \in T : n - x <= n - l /\ l \in Nat
  BY <1>2, <1>3
<1>5. QED
  BY <1>4

\* A set that has 0, and with every number the next one, has all the numbers.
LEMMA InductionInSet ==
  ASSUME NEW T, 0 \in T, \A n \in Nat : n \in T => n + 1 \in T
  PROVE  \A n \in Nat : n \in T
<1> DEFINE Missing == Nat \ T
<1>1. SUFFICES ASSUME Missing # {} PROVE FALSE
  OBVIOUS
<1>2. PICK x \in Missing : \A y \in Missing : x <= y
  BY <1>1, LeastNumber
<1>3. x # 0 /\ x - 1 \in Nat /\ x - 1 + 1 = x /\ ~(x <= x - 1)
  BY <1>2
<1>4. x - 1 \in T
  BY <1>2, <1>3
<1>5. QED
  BY <1>2, <1>3, <1>4

\* The values of a recursion: value a at 0, and G of a number and its value at the
\* next one; up to number m, or for all of them.
RecursionTo(f, a, G, m) ==
  f[0] = a /\ \A n \in Nat : n < m => f[n + 1] = G[<<n, f[n]>>]

Recursion(f, a, G) ==
  f[0] = a /\ \A n \in Nat : f[n + 1] = G[<<n, f[n]>>]

\* Up to any number, there is one.
LEMMA RecursionUpTo ==
  ASSUME NEW D, NEW a \in D, NEW G \in [Nat \X D -> D]
  PROVE  \A m \in Nat : \E f \in [Nat -> D] : RecursionTo(f, a, G, m)
<1> DEFINE T == {m \in Nat : \E f \in [Nat -> D] : RecursionTo(f, a, G, m)}
<1>1. 0 \in T
  <2>1. RecursionTo([n \in Nat |-> a], a, G, 0) /\ [n \in Nat |-> a] \in [Nat -> D]
    BY DEF RecursionTo
  <2>2. QED
    BY <2>1
<1>2. ASSUME NEW m \in Nat, m \in T
      PROVE  m + 1 \in T
  <2>1. PICK f \in [Nat -> D] : RecursionTo(f, a, G, m)
    BY <1>2
  <2> DEFINE g == [f EXCEPT ![m + 1] = G[<<m, f[m]>>]]
  <2>2. g \in [Nat -> D] /\ g[m + 1] = G[<<m, f[m]>>] /\ \A n \in Nat : n # m + 1 => g[n] = f[n]
    OBVIOUS
  <2> HIDE DEF g
  <2>3. g[0] = a
    BY <2>1, <2>2 DEF RecursionTo
  <2>4. ASSUME NEW n \in Nat, n < m + 1
        PROVE  g[n + 1] = G[<<n, g[n]>>]
    <3>1. g[n] = f[n]
      BY <2>2, <2>4
    <3>2. CASE n = m
      BY <2>2, <3>1, <3>2
    <3>3. CASE n # m
      <4>1. n < m /\ n + 1 # m + 1
        BY <2>4, <3>3
      <4>2. g[n + 1] = f[n + 1]
        BY <2>2, <4>1
      <4>3. QED
        BY <2>1, <3>1, <4>1, <4>2 DEF RecursionTo
    <3>4. QED
      BY <3>2, <3>3
  <2>5. RecursionTo(g, a, G, m + 1)
    BY <2>3, <2>4 DEF RecursionTo
  <2>6. QED
    BY <2>2, <2>5
<1>3. \A m \in Nat : m \in T
  <2> HIDE DEF T
  <2>1. QED
    BY <1>1, <1>2, InductionInSet
<1>4. QED
  BY <1>3

\* Two of them agree as far as both go.
LEMMA RecursionsAgree ==
  ASSUME NEW a, NEW G, NEW f, NEW g,
         NEW m \in Nat, NEW k \in Nat, RecursionTo(f, a, G, m), RecursionTo(g, a, G, k),
         NEW l \in Nat, l <= m, l <= k
  PROVE  f[l] = g[l]
<1> DEFINE T == {n \in Nat : n <= m /\ n <= k => f[n] = g[n]}
<1>1. 0 \in T
  BY DEF RecursionTo
<1>2. ASSUME NEW n \in Nat, n \in T
      PROVE  n + 1 \in T
  <2> SUFFICES ASSUME n + 1 <= m, n + 1 <= k PROVE f[n + 1] = g[n + 1]
    OBVIOUS
  <2>1. n < m /\ n < k /\ n <= m /\ n <= k
    OBVIOUS
  <2>2. f[n + 1] = G[<<n, f[n]>>] /\ g[n + 1] = G[<<n, g[n]>>] /\ f[n] = g[n]
    BY <1>2, <2>1 DEF RecursionTo
  <2>3. QED
    BY <2>2
<1>3. \A n \in Nat : n \in T
  <2> HIDE DEF T
  <2>1. QED
    BY <1>1, <1>2, InductionInSet
<1>4. QED
  BY <1>3

\* The recursion has a solution over all the numbers.
LEMMA RecursionExists ==
  ASSUME NEW D, NEW a \in D, NEW G \in [Nat \X D -> D]
  PROVE  \E f \in [Nat -> D] : Recursion(f, a, G)
<1> DEFINE h == [m \in Nat |-> CHOOSE g \in [Nat -> D] : RecursionTo(g, a, G, m)]
           f == [m \in Nat |-> h[m][m]]
<1>1. \A m \in Nat : \E g \in [Nat -> D] : RecursionTo(g, a, G, m)
  BY RecursionUpTo
<1>2. \A m \in Nat : h[m] \in [Nat -> D] /\ RecursionTo(h[m], a, G, m)
  BY <1>1
<1> HIDE DEF h
<1>3. f \in [Nat -> D] /\ \A m \in Nat : f[m] = h[m][m]
  BY <1>2
<1> HIDE DEF f
<1>4. f[0] = a
  BY <1>2, <1>3 DEF RecursionTo
<1>5. ASSUME NEW n \in Nat
      PROVE  f[n + 1] = G[<<n, f[n]>>]
  <2>1. h[n + 1][n + 1] = G[<<n, h[n + 1][n]>>]
    BY <1>2 DEF RecursionTo
  <2>2. h[n + 1][n] = h[n][n]
    <3>1. n + 1 \in Nat /\ n <= n + 1 /\ n <= n
      OBVIOUS
    <3>2. RecursionTo(h[n], a, G, n) /\ RecursionTo(h[n + 1], a, G, n + 1)
      BY <1>2, <3>1
    <3>3. QED
      BY <3>1, <3>2, RecursionsAgree
  <2>3. QED
    BY <1>3, <2>1, <2>2
<1>6. QED
  BY <1>3, <1>4, <1>5 DEF Recursion

\* The equation of a recursive function on the numbers up to N, which has a solution.
RecursiveOn(W, a, G, N) ==
  W = [n \in 0..N |-> IF n = 0 THEN a ELSE G[<<n - 1, W[n - 1]>>]]

LEMMA BoundedRecursion ==
  ASSUME NEW D, NEW a \in D, NEW G \in [Nat \X D -> D], NEW N \in Nat
  PROVE  \E W \in [0..N -> D] : RecursiveOn(W, a, G, N)
<1>1. PICK f \in [Nat -> D] : Recursion(f, a, G)
  BY RecursionExists
<1> DEFINE W == [n \in 0..N |-> f[n]]
<1>2. W \in [0..N -> D] /\ \A n \in 0..N : W[n] = f[n]
  OBVIOUS
<1> HIDE DEF W
<1>3. ASSUME NEW n \in 0..N
      PROVE  W[n] = IF n = 0 THEN a ELSE G[<<n - 1, W[n - 1]>>]
  <2>1. CASE n = 0
    BY <1>1, <1>2, <2>1 DEF Recursion
  <2>2. CASE n # 0
    <3>1. n - 1 \in Nat /\ n - 1 \in 0..N /\ n - 1 + 1 = n
      BY <2>2
    <3>2. f[n - 1 + 1] = G[<<n - 1, f[n - 1]>>]
      BY <1>1, <3>1 DEF Recursion
    <3>3. QED
      BY <1>2, <2>2, <3>1, <3>2
  <2>3. QED
    BY <2>1, <2>2
<1>4. RecursiveOn(W, a, G, N)
  BY <1>2, <1>3 DEF RecursiveOn
<1>5. QED
  BY <1>2, <1>4

\* A collection of sets that has the empty one, and with every set those with one
\* more element of S, has the finite set S.
LEMMA InductionInFiniteSet ==
  ASSUME NEW S, IsFiniteSet(S), NEW C, {} \in C,
         \A T \in SUBSET S, x \in S : T \in C /\ x \notin T => T \cup {x} \in C
  PROVE  S \in C
<1> DEFINE N == {n \in Nat : \A T \in SUBSET S : Cardinality(T) = n => T \in C}
<1>0. \A T \in SUBSET S : IsFiniteSet(T) /\ Cardinality(T) \in Nat
  BY FS_Subset, FS_CardinalityType
<1>1. 0 \in N
  BY <1>0, FS_EmptySet
<1>2. ASSUME NEW n \in Nat, n \in N
      PROVE  n + 1 \in N
  <2> SUFFICES ASSUME NEW T \in SUBSET S, Cardinality(T) = n + 1 PROVE T \in C
    OBVIOUS
  <2>1. T # {}
    <3>1. n + 1 # 0
      OBVIOUS
    <3>2. QED
      BY <3>1, FS_EmptySet
  <2>2. PICK x \in T : TRUE
    BY <2>1
  <2>3. Cardinality(T \ {x}) = n
    <3>1. IsFiniteSet(T)
      BY <1>0
    <3>2. Cardinality(T \ {x}) = Cardinality(T) - 1
      BY <2>2, <3>1, FS_RemoveElement
    <3>3. QED
      BY <3>2
  <2>4. T \ {x} \in C /\ x \in S /\ x \notin T \ {x} /\ (T \ {x}) \cup {x} = T
    BY <1>2, <2>2, <2>3
  <2>5. QED
    BY <2>4
<1>3. \A n \in Nat : n \in N
  <2> HIDE DEF N
  <2>1. QED
    BY <1>1, <1>2, InductionInSet
<1>4. QED
  BY <1>0, <1>3


------------------------------------------------------------------------------
(* Sums of functions with finite domains: SumFunction of the community        *)
(* modules takes its numbers in an order of its own                           *)

\* Sums along next, which leads from every p to one of rank 0: of val at the points
\* passed.
SumsAlong(W, P, val, next, rank) ==
  W = [p \in P |-> IF rank[p] = 0 THEN 0 ELSE val[p] + W[next[p]]]

LEMMA SumsAlongExist ==
  ASSUME NEW P, NEW val \in [P -> Int], NEW next \in [P -> P], NEW rank \in [P -> Nat],
         \A p \in P : rank[p] # 0 => rank[next[p]] < rank[p]
  PROVE  \E W \in [P -> Int] : SumsAlong(W, P, val, next, rank)
<1> DEFINE D == [P -> Int]
           Body(g) == [p \in P |-> IF rank[p] = 0 THEN 0 ELSE val[p] + g[next[p]]]
           zero == [p \in P |-> 0]
           G == [m \in Nat \X D |-> Body(m[2])]
<1>1. zero \in D /\ \A g \in D : Body(g) \in D
  OBVIOUS
<1>2. G \in [Nat \X D -> D] /\ \A n \in Nat, g \in D : G[<<n, g>>] = Body(g)
  <2> HIDE DEF D, Body
  <2>1. QED
    BY <1>1
<1>3. PICK h \in [Nat -> D] : Recursion(h, zero, G)
  <2> HIDE DEF D, G, zero
  <2>1. QED
    BY <1>1, <1>2, RecursionExists
<1>4. \A n \in Nat : h[n] \in D /\ h[n + 1] = Body(h[n])
  <2> HIDE DEF D, G, zero, Body
  <2>1. QED
    BY <1>2, <1>3 DEF Recursion
<1> HIDE DEF G, zero
<1>5. \A n \in Nat : \A p \in P :
        h[n + 1][p] = IF rank[p] = 0 THEN 0 ELSE val[p] + h[n][next[p]]
  BY <1>4
<1> DEFINE Stable == {n \in Nat : \A p \in P, m \in Nat :
                        rank[p] < n /\ n <= m => h[m][p] = h[n][p]}
<1>6. \A n \in Nat : n \in Stable
  <2>1. 0 \in Stable
    OBVIOUS
  <2>2. ASSUME NEW n \in Nat, n \in Stable
        PROVE  n + 1 \in Stable
    <3> SUFFICES ASSUME NEW p \in P, NEW m \in Nat, rank[p] < n + 1, n + 1 <= m
                 PROVE  h[m][p] = h[n + 1][p]
      OBVIOUS
    <3>1. m - 1 \in Nat /\ n <= m - 1 /\ m - 1 + 1 = m
      OBVIOUS
    <3>2. h[m - 1 + 1][p] = IF rank[p] = 0 THEN 0 ELSE val[p] + h[m - 1][next[p]]
      BY <1>5, <3>1
    <3>3. rank[p] # 0 => h[m - 1][next[p]] = h[n][next[p]]
      <4>1. rank[p] # 0 => rank[next[p]] < n
        OBVIOUS
      <4>2. QED
        BY <2>2, <3>1, <4>1
    <3>4. QED
      BY <1>5, <3>1, <3>2, <3>3
  <2> HIDE DEF Stable
  <2>3. QED
    BY <2>1, <2>2, InductionInSet
<1> DEFINE W == [p \in P |-> h[rank[p] + 1][p]]
<1>7. W \in [P -> Int]
  BY <1>4
<1>8. \A p \in P : W[p] = h[rank[p] + 1][p]
  OBVIOUS
<1>9. W = [p \in P |-> W[p]]
  OBVIOUS
<1> HIDE DEF W
<1>10. ASSUME NEW p \in P
       PROVE  W[p] = IF rank[p] = 0 THEN 0 ELSE val[p] + W[next[p]]
  <2>1. W[p] = IF rank[p] = 0 THEN 0 ELSE val[p] + h[rank[p]][next[p]]
    BY <1>5, <1>8
  <2>2. ASSUME rank[p] # 0
        PROVE  h[rank[p]][next[p]] = W[next[p]]
    <3>1. rank[next[p]] < rank[next[p]] + 1 /\ rank[next[p]] + 1 <= rank[p]
          /\ rank[next[p]] + 1 \in Nat /\ rank[p] \in Nat /\ next[p] \in P
      BY <2>2
    <3>2. h[rank[p]][next[p]] = h[rank[next[p]] + 1][next[p]]
      BY <1>6, <3>1
    <3>3. QED
      BY <1>8, <3>2
  <2>3. QED
    BY <2>1, <2>2
<1>11. SumsAlong(W, P, val, next, rank)
  BY <1>9, <1>10 DEF SumsAlong
<1>12. QED
  BY <1>7, <1>11

LEMMA SumsAlongTyped ==
  ASSUME NEW P, NEW val \in [P -> Int], NEW next \in [P -> P], NEW rank \in [P -> Nat],
         \A p \in P : rank[p] # 0 => rank[next[p]] < rank[p],
         NEW W, SumsAlong(W, P, val, next, rank)
  PROVE  W \in [P -> Int]
<1>1. \A p \in P : W[p] = IF rank[p] = 0 THEN 0 ELSE val[p] + W[next[p]]
  BY DEF SumsAlong
<1> DEFINE T == {n \in Nat : \A p \in P : rank[p] < n => W[p] \in Int}
<1>2. \A n \in Nat : n \in T
  <2>1. 0 \in T
    OBVIOUS
  <2>2. ASSUME NEW n \in Nat, n \in T
        PROVE  n + 1 \in T
    <3> SUFFICES ASSUME NEW p \in P, rank[p] < n + 1 PROVE W[p] \in Int
      OBVIOUS
    <3>1. rank[p] # 0 => rank[next[p]] < n
      OBVIOUS
    <3>2. rank[p] # 0 => W[next[p]] \in Int
      BY <2>2, <3>1
    <3>3. QED
      BY <1>1, <3>2
  <2> HIDE DEF T
  <2>3. QED
    BY <2>1, <2>2, InductionInSet
<1>3. \A p \in P : W[p] \in Int
  <2> SUFFICES ASSUME NEW p \in P PROVE W[p] \in Int
    OBVIOUS
  <2>1. rank[p] + 1 \in Nat /\ rank[p] < rank[p] + 1
    OBVIOUS
  <2>2. QED
    BY <1>2, <2>1
<1>4. QED
  BY <1>3 DEF SumsAlong

Some(s) == CHOOSE x \in s : TRUE

\* W has the sums of f over the subsets of S, as SumFunction computes them.
SumsOver(W, f, S) ==
  W = [s \in SUBSET S |-> IF s = {} THEN 0 ELSE f[Some(s)] + W[s \ {Some(s)}]]

LEMMA SumIsASum ==
  ASSUME NEW S, IsFiniteSet(S), NEW f \in [S -> Int]
  PROVE  \E W \in [SUBSET S -> Int] : SumsOver(W, f, S) /\ SumFunction(f) = W[S]
<1> DEFINE P == SUBSET S
           val == [s \in P |-> IF s = {} THEN 0 ELSE f[Some(s)]]
           next == [s \in P |-> IF s = {} THEN s ELSE s \ {Some(s)}]
           rank == [s \in P |-> Cardinality(s)]
           V == CHOOSE W : SumsOver(W, f, S)
<1>1. ASSUME NEW s \in P
      PROVE  /\ Cardinality(s) \in Nat /\ (Cardinality(s) = 0 <=> s = {})
             /\ s # {} => /\ Some(s) \in S /\ s \ {Some(s)} \in P
                          /\ Cardinality(s \ {Some(s)}) < Cardinality(s)
  <2>1. IsFiniteSet(s) /\ Cardinality(s) \in Nat
    BY FS_Subset, FS_CardinalityType
  <2>2. Cardinality(s) = 0 <=> s = {}
    BY <2>1, FS_EmptySet
  <2>3. ASSUME s # {}
        PROVE  /\ Some(s) \in S /\ s \ {Some(s)} \in P
               /\ Cardinality(s \ {Some(s)}) < Cardinality(s)
    <3>1. Some(s) \in s
      BY <2>3 DEF Some
    <3>2. Cardinality(s \ {Some(s)}) = Cardinality(s) - 1
      BY <2>1, <3>1, FS_RemoveElement
    <3>3. QED
      BY <2>1, <3>1, <3>2
  <2>4. QED
    BY <2>1, <2>2, <2>3
<1>2. val \in [P -> Int]
  <2> HIDE DEF P
  <2>1. \A s \in P : s # {} => Some(s) \in S
    BY <1>1
  <2>2. \A s \in P : s # {} => f[Some(s)] \in Int
    BY <2>1
  <2>3. QED
    BY <2>2
<1>3. next \in [P -> P]
  <2> HIDE DEF P
  <2>1. QED
    BY <1>1
<1>4. rank \in [P -> Nat]
  <2> HIDE DEF P
  <2>1. QED
    BY <1>1
<1>5. \A s \in P : /\ rank[s] = 0 <=> s = {}
                   /\ s # {} => val[s] = f[Some(s)] /\ next[s] = s \ {Some(s)}
                   /\ rank[s] # 0 => rank[next[s]] < rank[s]
  <2> HIDE DEF P
  <2>1. QED
    BY <1>1
<1>6. ASSUME NEW W
      PROVE  SumsAlong(W, P, val, next, rank) <=> SumsOver(W, f, S)
  <2>1. [s \in P |-> IF rank[s] = 0 THEN 0 ELSE val[s] + W[next[s]]]
          = [s \in P |-> IF s = {} THEN 0 ELSE f[Some(s)] + W[s \ {Some(s)}]]
    <3> HIDE DEF P, val, next, rank
    <3>1. QED
      BY <1>5
  <2>2. QED
    BY <2>1 DEF SumsAlong, SumsOver
<1>7. \E W : SumsOver(W, f, S)
  <2> HIDE DEF P, val, next, rank
  <2>1. \E W \in [P -> Int] : SumsAlong(W, P, val, next, rank)
    BY <1>2, <1>3, <1>4, <1>5, SumsAlongExist
  <2>2. QED
    BY <1>6, <2>1
<1>8. SumsOver(V, f, S)
  BY <1>7
<1>9. SumFunction(f) = V[S]
  BY DEF SumFunction, SumFunctionOnSet, FoldFunctionOnSet, MapThenFoldSet, SumsOver, Some
<1> HIDE DEF V
<1>10. V \in [P -> Int]
  <2> HIDE DEF P, val, next, rank
  <2>1. SumsAlong(V, P, val, next, rank)
    BY <1>6, <1>8
  <2>2. QED
    BY <1>2, <1>3, <1>4, <1>5, <2>1, SumsAlongTyped
<1>11. QED
  BY <1>8, <1>9, <1>10

InAnyOrder(W, f, S) == \A s \in SUBSET S : \A x \in s : W[s] = f[x] + W[s \ {x}]

\* The first number may be any of them.
LEMMA SumsInAnyOrder ==
  ASSUME NEW S, IsFiniteSet(S), NEW f \in [S -> Int], NEW W \in [SUBSET S -> Int],
         SumsOver(W, f, S)
  PROVE  W[{}] = 0 /\ InAnyOrder(W, f, S)
<1> DEFINE P == SUBSET S
           T == {n \in Nat : \A s \in P : Cardinality(s) = n =>
                               \A x \in s : W[s] = f[x] + W[s \ {x}]}
<1>1. \A s \in P : W[s] = IF s = {} THEN 0 ELSE f[Some(s)] + W[s \ {Some(s)}]
  BY DEF SumsOver
<1>2. ASSUME NEW s \in P
      PROVE  /\ IsFiniteSet(s) /\ Cardinality(s) \in Nat
             /\ s # {} => Some(s) \in s
             /\ \A x \in s : /\ x \in S /\ f[x] \in Int
                             /\ s \ {x} \in P /\ W[s \ {x}] \in Int
                             /\ Cardinality(s \ {x}) = Cardinality(s) - 1
  <2>1. IsFiniteSet(s) /\ Cardinality(s) \in Nat
    BY FS_Subset, FS_CardinalityType
  <2>2. s # {} => Some(s) \in s
    BY DEF Some
  <2>3. ASSUME NEW x \in s
        PROVE  /\ x \in S /\ f[x] \in Int
               /\ s \ {x} \in P /\ W[s \ {x}] \in Int
               /\ Cardinality(s \ {x}) = Cardinality(s) - 1
    <3>1. x \in S /\ s \ {x} \in P
      OBVIOUS
    <3>2. Cardinality(s \ {x}) = Cardinality(s) - 1
      BY <2>1, FS_RemoveElement
    <3>3. QED
      BY <3>1, <3>2
  <2>4. QED
    BY <2>1, <2>2, <2>3
<1>3. W[{}] = 0
  BY <1>1
<1> HIDE DEF P
<1>4. ASSUME NEW n \in Nat, \A m \in Nat : m < n => m \in T
      PROVE  n \in T
  <2> SUFFICES ASSUME NEW s \in P, Cardinality(s) = n, NEW x \in s
               PROVE  W[s] = f[x] + W[s \ {x}]
    OBVIOUS
  <2> DEFINE y == Some(s)
             t == s \ {x}
             u == s \ {y}
             v == (s \ {x}) \ {y}
  <2>1. /\ s # {} /\ y \in s /\ W[s] = f[y] + W[u]
    BY <1>1, <1>2
  <2>2. CASE x = y
    BY <2>1, <2>2
  <2>3. CASE x # y
    <3>1. /\ t \in P /\ u \in P /\ x \in u /\ y \in t
          /\ v = t \ {y} /\ v = u \ {x}
      BY <1>2, <2>1, <2>3
    <3>2. Cardinality(t) \in Nat /\ Cardinality(u) \in Nat /\ Cardinality(t) < n
          /\ Cardinality(u) < n
      <4>1. /\ Cardinality(t) = Cardinality(s) - 1 /\ Cardinality(t) \in Nat
            /\ Cardinality(u) = Cardinality(s) - 1 /\ Cardinality(u) \in Nat
        <5> HIDE DEF y, T
        <5>1. QED
          BY <1>2, <2>1, <3>1
      <4>2. QED
        BY <4>1
    <3>3. Cardinality(t) \in T /\ Cardinality(u) \in T
      <4> HIDE DEF T, t, u
      <4>1. QED
        BY <1>4, <3>2
    <3>4. \A r \in P : Cardinality(r) \in T => \A z \in r : W[r] = f[z] + W[r \ {z}]
      OBVIOUS
    <3> HIDE DEF t, u, v, y, T
    <3>5. W[t] = f[y] + W[t \ {y}] /\ W[u] = f[x] + W[u \ {x}]
      BY <3>1, <3>3, <3>4
    <3>6. W[t] = f[y] + W[v] /\ W[u] = f[x] + W[v]
      BY <3>1, <3>5
    <3>7. f[x] \in Int /\ f[y] \in Int /\ W[v] \in Int
      BY <1>2, <2>1, <3>1
    <3>8. W[s] = f[x] + W[t]
      BY <2>1, <3>6, <3>7
    <3>9. QED
      BY <3>8 DEF t
  <2>4. QED
    BY <2>2, <2>3
<1>5. \A n \in Nat : n \in T
  <2> DEFINE U == {n \in Nat : \A m \in Nat : m < n => m \in T}
  <2> HIDE DEF T
  <2>1. 0 \in U
    OBVIOUS
  <2>2. ASSUME NEW n \in Nat, n \in U
        PROVE  n + 1 \in U
    <3>1. n \in T
      BY <1>4, <2>2
    <3>2. \A m \in Nat : m < n + 1 => m < n \/ m = n
      OBVIOUS
    <3>3. QED
      BY <2>2, <3>1, <3>2
  <2>3. \A n \in Nat : n \in U
    <3> HIDE DEF U
    <3>1. QED
      BY <2>1, <2>2, InductionInSet
  <2>4. QED
    BY <1>4, <2>3
<1>6. \A s \in P : \A x \in s : W[s] = f[x] + W[s \ {x}]
  BY <1>2, <1>5
<1>7. QED
  BY <1>3, <1>6 DEF P, InAnyOrder

\* The sum over a part of the domain.
LEMMA SumOfAPart ==
  ASSUME NEW S, IsFiniteSet(S), NEW f \in [S -> Int], NEW W \in [SUBSET S -> Int],
         SumsOver(W, f, S), NEW s \in SUBSET S
  PROVE  SumFunction([x \in s |-> f[x]]) = W[s]
<1> DEFINE g == [x \in s |-> f[x]]
           C == {T \in SUBSET s : TRUE}
<1>0. IsFiniteSet(s) /\ g \in [s -> Int] /\ \A x \in s : g[x] = f[x]
  BY FS_Subset
<1> HIDE DEF g
<1>1. PICK V \in [SUBSET s -> Int] : SumsOver(V, g, s) /\ SumFunction(g) = V[s]
  BY <1>0, SumIsASum
<1> DEFINE A == {T \in SUBSET s : V[T] = W[T]}
<1>2. {} \in A
  BY <1>0, <1>1, SumsInAnyOrder
<1>3. ASSUME NEW T \in SUBSET s, NEW x \in s, T \in A, x \notin T
      PROVE  T \cup {x} \in A
  <2> DEFINE U == T \cup {x}
  <2>1. U \in SUBSET s /\ U \in SUBSET S /\ x \in U /\ U \ {x} = T
    BY <1>3
  <2> HIDE DEF U
  <2>2. V[U] = g[x] + V[U \ {x}]
    <3>1. InAnyOrder(V, g, s)
      BY <1>0, <1>1, SumsInAnyOrder
    <3>2. QED
      BY <2>1, <3>1 DEF InAnyOrder
  <2>3. W[U] = f[x] + W[U \ {x}]
    <3>1. InAnyOrder(W, f, S)
      BY SumsInAnyOrder
    <3>2. QED
      BY <2>1, <3>1 DEF InAnyOrder
  <2>4. V[U] = W[U]
    BY <1>0, <1>3, <2>1, <2>2, <2>3
  <2>5. QED
    BY <2>1, <2>4 DEF U
<1>4. s \in A
  <2> HIDE DEF A
  <2>1. QED
    BY <1>0, <1>2, <1>3, InductionInFiniteSet
<1>5. QED
  BY <1>1, <1>4 DEF g

LEMMA SumOfNone ==
  ASSUME NEW f, DOMAIN f = {}, f = [x \in {} |-> f[x]]
  PROVE  SumFunction(f) = 0
<1>1. f \in [{} -> Int] /\ IsFiniteSet({})
  BY FS_EmptySet
<1>2. PICK W \in [SUBSET {} -> Int] : SumsOver(W, f, {}) /\ SumFunction(f) = W[{}]
  BY <1>1, SumIsASum
<1>3. QED
  BY <1>1, <1>2, SumsInAnyOrder

LEMMA SumIsAnInteger ==
  ASSUME NEW S, IsFiniteSet(S), NEW f \in [S -> Int]
  PROVE  SumFunction(f) \in Int
<1>1. PICK W \in [SUBSET S -> Int] : SumFunction(f) = W[S]
  BY SumIsASum
<1>2. S \in SUBSET S
  OBVIOUS
<1>3. QED
  BY <1>1, <1>2

\* The sum of all is that of any one and the rest.
LEMMA SumOfOneMore ==
  ASSUME NEW S, IsFiniteSet(S), NEW f \in [S -> Int], NEW x \in S
  PROVE  /\ SumFunction(f) = f[x] + SumFunction([y \in S \ {x} |-> f[y]])
         /\ SumFunction([y \in S \ {x} |-> f[y]]) \in Int
<1>1. PICK W \in [SUBSET S -> Int] : SumsOver(W, f, S) /\ SumFunction(f) = W[S]
  BY SumIsASum
<1>2. S \in SUBSET S /\ S \ {x} \in SUBSET S
  OBVIOUS
<1>3. W[S] = f[x] + W[S \ {x}]
  <2>1. InAnyOrder(W, f, S)
    BY <1>1, SumsInAnyOrder
  <2>2. QED
    BY <1>2, <2>1 DEF InAnyOrder
<1>4. SumFunction([y \in S \ {x} |-> f[y]]) = W[S \ {x}]
  BY <1>1, <1>2, SumOfAPart
<1>5. QED
  BY <1>1, <1>2, <1>3, <1>4

\* Equal numbers, in the order of another set, have the same sum.
LEMMA SumAlongBijection ==
  ASSUME NEW S, IsFiniteSet(S), NEW T, IsFiniteSet(T), NEW b \in Bijection(S, T),
         NEW f \in [S -> Int], NEW g \in [T -> Int], \A x \in S : f[x] = g[b[x]]
  PROVE  SumFunction(f) = SumFunction(g)
<1>1. PICK V \in [SUBSET S -> Int] : SumsOver(V, f, S) /\ SumFunction(f) = V[S]
  BY SumIsASum
<1>2. PICK W \in [SUBSET T -> Int] : SumsOver(W, g, T) /\ SumFunction(g) = W[T]
  BY SumIsASum
<1>3. V[{}] = 0 /\ InAnyOrder(V, f, S) /\ W[{}] = 0 /\ InAnyOrder(W, g, T)
  BY <1>1, <1>2, SumsInAnyOrder
<1>4. /\ b \in [S -> T] /\ \A y \in T : \E x \in S : b[x] = y
      /\ \A x, y \in S : b[x] = b[y] => x = y
  BY DEF Bijection, Injection, Surjection, IsInjective
<1> DEFINE Reached(s) == {b[x] : x \in s}
           C == {s \in SUBSET S : V[s] = W[Reached(s)]}
<1>5. {} \in C
  <2>1. Reached({}) = {}
    OBVIOUS
  <2>2. QED
    BY <1>3, <2>1
<1>6. ASSUME NEW s \in SUBSET S, NEW x \in S, s \in C, x \notin s
      PROVE  s \cup {x} \in C
  <2>1. PICK t : t = s \cup {x}
    OBVIOUS
  <2>2. t \in SUBSET S /\ x \in t /\ t \ {x} = s
    BY <1>6, <2>1
  <2>3. /\ Reached(t) \in SUBSET T /\ b[x] \in Reached(t)
        /\ Reached(t) \ {b[x]} = Reached(s) /\ Reached(s) \in SUBSET T
    <3>1. Reached(t) = Reached(s) \cup {b[x]}
      BY <2>1
    <3>2. b[x] \notin Reached(s)
      BY <1>4, <1>6
    <3>3. b[x] \in T /\ Reached(s) \in SUBSET T
      BY <1>4
    <3> HIDE DEF Reached
    <3>4. QED
      BY <3>1, <3>2, <3>3
  <2>4. V[s] = W[Reached(s)]
    BY <1>6
  <2> HIDE DEF Reached
  <2>5. V[t] = f[x] + V[s] /\ W[Reached(t)] = g[b[x]] + W[Reached(s)]
    BY <1>3, <2>2, <2>3 DEF InAnyOrder
  <2>6. V[t] = W[Reached(t)]
    BY <2>4, <2>5
  <2>7. QED
    BY <2>1, <2>2, <2>6
<1>7. S \in C
  <2> HIDE DEF C
  <2>1. QED
    BY <1>5, <1>6, InductionInFiniteSet
<1>8. Reached(S) = T
  BY <1>4
<1>9. QED
  BY <1>1, <1>2, <1>7, <1>8

\* Some of the numbers, when none is negative, have no larger sum than all.
LEMMA SumOfSomeIsLess ==
  ASSUME NEW S, IsFiniteSet(S), NEW f \in [S -> Int], \A x \in S : f[x] \in Nat,
         NEW s \in SUBSET S
  PROVE  SumFunction([x \in s |-> f[x]]) <= SumFunction(f)
<1>1. PICK W \in [SUBSET S -> Int] : SumsOver(W, f, S) /\ SumFunction(f) = W[S]
  BY SumIsASum
<1>2. SumFunction([x \in s |-> f[x]]) = W[s]
  BY <1>1, SumOfAPart
<1>3. InAnyOrder(W, f, S)
  BY <1>1, SumsInAnyOrder
<1> DEFINE C == {t \in SUBSET (S \ s) : W[s] <= W[s \cup t]}
<1>4. {} \in C
  <2>1. s \cup {} = s /\ W[s] \in Int
    OBVIOUS
  <2>2. QED
    BY <2>1
<1>5. ASSUME NEW t \in SUBSET (S \ s), NEW x \in S \ s, t \in C, x \notin t
      PROVE  t \cup {x} \in C
  <2>1. PICK u, v : u = s \cup t /\ v = s \cup (t \cup {x})
    OBVIOUS
  <2>2. u \in SUBSET S /\ v \in SUBSET S /\ x \in v /\ v \ {x} = u /\ x \in S
    BY <1>5, <2>1
  <2>3. W[v] = f[x] + W[u] /\ W[u] \in Int /\ W[v] \in Int /\ f[x] \in Nat
    BY <1>3, <2>2 DEF InAnyOrder
  <2>4. W[s] <= W[u] /\ W[s] \in Int
    BY <1>5, <2>1
  <2>5. W[s] <= W[v]
    BY <2>3, <2>4
  <2>6. QED
    BY <2>1, <2>5
<1>6. IsFiniteSet(S \ s)
  BY FS_Subset
<1>7. S \ s \in C
  <2> HIDE DEF C
  <2>1. QED
    BY <1>4, <1>5, <1>6, InductionInFiniteSet
<1>8. s \cup (S \ s) = S
  OBVIOUS
<1>9. QED
  BY <1>1, <1>2, <1>7, <1>8


\* A finite set of numbers, the values of a function, has a bound.
LEMMA BoundExists ==
  ASSUME NEW S, IsFiniteSet(S), NEW f \in [S -> Nat]
  PROVE  \E k \in Nat : \A x \in S : f[x] < k
<1> DEFINE C == {T \in SUBSET S : \E k \in Nat : \A x \in T : f[x] < k}
<1>1. {} \in C
  <2>1. 0 \in Nat /\ \A x \in {} : f[x] < 0
    OBVIOUS
  <2>2. QED
    BY <2>1
<1>2. ASSUME NEW T \in SUBSET S, NEW x \in S, T \in C
      PROVE  T \cup {x} \in C
  <2>1. PICK k \in Nat : \A y \in T : f[y] < k
    BY <1>2
  <2>2. f[x] \in Nat /\ \A y \in T : f[y] \in Nat
    OBVIOUS
  <2> DEFINE l == k + f[x] + 1
  <2>3. l \in Nat /\ \A y \in T \cup {x} : f[y] < l
    BY <2>1, <2>2
  <2> HIDE DEF l
  <2>4. QED
    BY <2>3
<1>3. S \in C
  <2> HIDE DEF C
  <2>1. QED
    BY <1>1, <1>2, InductionInFiniteSet
<1>4. QED
  BY <1>3

\* One of the elements of a finite set has the greatest value.
LEMMA GreatestValue ==
  ASSUME NEW S, IsFiniteSet(S), NEW f \in [S -> Nat], NEW T \in SUBSET S, T # {}
  PROVE  \E x \in T : \A y \in T : f[y] <= f[x]
<1>1. PICK k \in Nat : \A x \in S : f[x] < k
  BY BoundExists
<1> DEFINE gaps == {k - f[x] : x \in T}
<1>2. gaps \in SUBSET Nat /\ gaps # {}
  BY <1>1
<1>3. PICK g \in gaps : \A h \in gaps : g <= h
  <2> HIDE DEF gaps
  <2>1. QED
    BY <1>2, LeastNumber
<1>4. PICK x \in T : g = k - f[x]
  BY <1>3
<1>5. \A y \in T : k - f[x] <= k - f[y] /\ f[x] \in Nat /\ f[y] \in Nat
  BY <1>3, <1>4
<1>6. QED
  BY <1>4, <1>5

\* The sets W[0], W[1], .. W[N] grow within S, each from the one before.
Grows(W, S, F, N) ==
  /\ F \in [SUBSET S -> SUBSET S] /\ \A T \in SUBSET S : T \subseteq F[T]
  /\ W[0] \in SUBSET S
  /\ \A n \in Nat : n < N => W[n + 1] = F[W[n]]

\* Within a finite set, they grow no more after as many steps as it has elements.
LEMMA GrowthEnds ==
  ASSUME NEW S, IsFiniteSet(S), NEW F, NEW N \in Nat, Cardinality(S) <= N,
         NEW W, Grows(W, S, F, N)
  PROVE  /\ \A n \in Nat : n <= N => W[n] \in SUBSET S
         /\ F[W[N]] = W[N]
<1> USE DEF Grows
<1>0. Cardinality(S) \in Nat /\ \A T \in SUBSET S : IsFiniteSet(T) /\ Cardinality(T) \in Nat
  BY FS_Subset, FS_CardinalityType
<1> DEFINE Grown == {n \in Nat : n <= N =>
                       /\ W[n] \in SUBSET S
                       /\ F[W[n]] = W[n] \/ n <= Cardinality(W[n])}
<1>1. \A n \in Nat : n \in Grown
  <2>1. 0 \in Grown
    BY <1>0
  <2>2. ASSUME NEW n \in Nat, n \in Grown
        PROVE  n + 1 \in Grown
    <3> SUFFICES ASSUME n + 1 <= N
                 PROVE  /\ W[n + 1] \in SUBSET S
                        /\ F[W[n + 1]] = W[n + 1] \/ n + 1 <= Cardinality(W[n + 1])
      OBVIOUS
    <3>1. n < N /\ n <= N
      OBVIOUS
    <3>2. W[n + 1] = F[W[n]] /\ W[n] \in SUBSET S
      BY <2>2, <3>1
    <3>3. W[n + 1] \in SUBSET S /\ W[n] \subseteq W[n + 1]
      BY <3>2
    <3>4. CASE F[W[n]] = W[n]
      BY <3>2, <3>3, <3>4
    <3>5. CASE F[W[n]] # W[n]
      <4>1. n <= Cardinality(W[n])
        BY <2>2, <3>1, <3>5
      <4>2. Cardinality(W[n]) < Cardinality(W[n + 1])
        <5>1. W[n] # W[n + 1] /\ IsFiniteSet(W[n + 1])
          BY <1>0, <3>2, <3>3, <3>5
        <5>2. QED
          BY <1>0, <3>3, <5>1, FS_Subset
      <4>3. Cardinality(W[n]) \in Nat /\ Cardinality(W[n + 1]) \in Nat
        BY <1>0, <3>2, <3>3
      <4>4. QED
        BY <3>3, <4>1, <4>2, <4>3
    <3>6. QED
      BY <3>4, <3>5
  <2> HIDE DEF Grown
  <2>3. QED
    BY <2>1, <2>2, InductionInSet
<1>2. \A n \in Nat : n <= N => W[n] \in SUBSET S
  BY <1>1
<1>3. F[W[N]] = W[N] \/ N <= Cardinality(W[N])
  BY <1>1
<1>4. ASSUME N <= Cardinality(W[N])
      PROVE  F[W[N]] = W[N]
  <2>1. W[N] \in SUBSET S /\ Cardinality(W[N]) \in Nat
    BY <1>0, <1>2
  <2>2. W[N] = S
    <3>1. Cardinality(W[N]) <= Cardinality(S)
      BY <2>1, FS_Subset
    <3>2. Cardinality(S) = Cardinality(W[N])
      BY <1>0, <1>4, <2>1, <3>1
    <3>3. QED
      BY <2>1, <3>2, FS_Subset
  <2>3. QED
    BY <2>1, <2>2
<1>5. QED
  BY <1>2, <1>3, <1>4

------------------------------------------------------------------------------
(* Recursion and induction along a rank                                      *)

\* A recursion over S in which the value at an element comes from those of elements
\* of lower rank has a solution.
FromLower(G, S, rank, T) ==
  /\ G \in [S \X [S -> T] -> T]
  /\ \A x \in S : \A f, g \in [S -> T] :
       (\A y \in S : rank[y] < rank[x] => f[y] = g[y]) => G[<<x, f>>] = G[<<x, g>>]

Solves(F, G, S) == F = [x \in S |-> G[<<x, F>>]]

LEMMA RecursionByRank ==
  ASSUME NEW S, NEW rank \in [S -> Nat], NEW T, T # {}, NEW G, FromLower(G, S, rank, T)
  PROVE  \E F \in [S -> T] : Solves(F, G, S)
<1> DEFINE D == [S -> T]
           Body(g) == [x \in S |-> G[<<x, g>>]]
           H == [m \in Nat \X D |-> Body(m[2])]
<1>1. PICK none \in D : TRUE
  <2>1. PICK t \in T : TRUE
    OBVIOUS
  <2>2. [x \in S |-> t] \in D
    OBVIOUS
  <2>3. QED
    BY <2>2
<1>2. ASSUME NEW g \in D PROVE Body(g) \in D
  BY DEF FromLower
<1>3. H \in [Nat \X D -> D] /\ \A n \in Nat, g \in D : H[<<n, g>>] = Body(g)
  <2> HIDE DEF D, Body
  <2>1. QED
    BY <1>2
<1>4. PICK f \in [Nat -> D] : Recursion(f, none, H)
  <2> HIDE DEF D, H
  <2>1. QED
    BY <1>1, <1>3, RecursionExists
<1>5. \A n \in Nat : f[n] \in D /\ f[n + 1] = Body(f[n])
  <2> HIDE DEF D, H, Body
  <2>1. QED
    BY <1>3, <1>4 DEF Recursion
<1> HIDE DEF H
<1>6. \A n \in Nat : \A x \in S : f[n + 1][x] = G[<<x, f[n]>>]
  BY <1>5
<1> HIDE DEF D
<1>7. \A n \in Nat : f[n] \in D
  BY <1>5
<1>8. \A x \in S : \A g, h \in D :
        (\A y \in S : rank[y] < rank[x] => g[y] = h[y]) => G[<<x, g>>] = G[<<x, h>>]
  BY DEF FromLower, D
<1> HIDE DEF Body
<1> DEFINE Stable == {n \in Nat : \A x \in S, m \in Nat :
                        rank[x] < n /\ n <= m => f[m][x] = f[n][x]}
<1>9. \A n \in Nat : n \in Stable
  <2>1. 0 \in Stable
    OBVIOUS
  <2>2. ASSUME NEW n \in Nat, n \in Stable
        PROVE  n + 1 \in Stable
    <3> SUFFICES ASSUME NEW x \in S, NEW m \in Nat, rank[x] < n + 1, n + 1 <= m
                 PROVE  f[m][x] = f[n + 1][x]
      OBVIOUS
    <3>1. m - 1 \in Nat /\ n <= m - 1 /\ m - 1 + 1 = m
      OBVIOUS
    <3>2. ASSUME NEW y \in S, rank[y] < rank[x]
          PROVE  f[m - 1][y] = f[n][y]
      <4>1. rank[y] < n
        BY <3>2
      <4>2. QED
        BY <2>2, <3>1, <4>1
    <3>3. G[<<x, f[m - 1]>>] = G[<<x, f[n]>>]
      BY <1>7, <1>8, <3>1, <3>2
    <3>4. f[m - 1 + 1][x] = G[<<x, f[m - 1]>>]
      BY <1>6, <3>1
    <3>5. QED
      BY <1>6, <3>1, <3>3, <3>4
  <2> HIDE DEF Stable
  <2>3. QED
    BY <2>1, <2>2, InductionInSet
<1> DEFINE F == [x \in S |-> f[rank[x] + 1][x]]
<1>10. F \in D /\ \A x \in S : F[x] = f[rank[x] + 1][x]
  <2>1. \A x \in S : f[rank[x] + 1] \in D
    BY <1>7
  <2>2. QED
    BY <2>1 DEF D
<1> HIDE DEF F
<1>11. ASSUME NEW x \in S
       PROVE  F[x] = G[<<x, F>>]
  <2>1. rank[x] \in Nat
    OBVIOUS
  <2>2. ASSUME NEW y \in S, rank[y] < rank[x]
        PROVE  F[y] = f[rank[x]][y]
    <3>1. rank[y] \in Nat /\ rank[y] + 1 \in Nat /\ rank[y] < rank[y] + 1 /\ rank[y] + 1 <= rank[x]
      BY <2>1, <2>2
    <3>2. f[rank[x]][y] = f[rank[y] + 1][y]
      BY <1>9, <2>1, <3>1
    <3>3. QED
      BY <1>10, <3>2
  <2>3. G[<<x, F>>] = G[<<x, f[rank[x]]>>]
    BY <1>7, <1>8, <1>10, <2>1, <2>2
  <2>4. QED
    BY <1>6, <1>10, <2>1, <2>3
<1>12. F \in [S -> T] /\ Solves(F, G, S)
  BY <1>10, <1>11 DEF D, Solves
<1>13. QED
  BY <1>12

\* What is true of an element when it is true of those of lower rank is true of all.
LEMMA InductionByRank ==
  ASSUME NEW S, NEW rank \in [S -> Nat], NEW C,
         \A x \in S : (\A y \in S : rank[y] < rank[x] => y \in C) => x \in C
  PROVE  S \subseteq C
<1> DEFINE T == {n \in Nat : \A x \in S : rank[x] < n => x \in C}
<1>1. \A n \in Nat : n \in T
  <2>1. 0 \in T
    OBVIOUS
  <2>2. ASSUME NEW n \in Nat, n \in T
        PROVE  n + 1 \in T
    <3> SUFFICES ASSUME NEW x \in S, rank[x] < n + 1 PROVE x \in C
      OBVIOUS
    <3>1. \A y \in S : rank[y] < rank[x] => rank[y] < n
      OBVIOUS
    <3>2. QED
      BY <2>2, <3>1
  <2> HIDE DEF T
  <2>3. QED
    BY <2>1, <2>2, InductionInSet
<1>2. \A x \in S : rank[x] + 1 \in Nat /\ rank[x] < rank[x] + 1
  OBVIOUS
<1>3. QED
  BY <1>1, <1>2

================================================================================
