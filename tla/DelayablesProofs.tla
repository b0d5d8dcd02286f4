---------------------------- MODULE DelayablesProofs ----------------------------
(***************************************************************************)
(* Proofs about module Delayables, for every set of delayables, chains,    *)
(* groups, transactions, users and keys.                                   *)
(***************************************************************************)
EXTENDS Delayables, FiniteSetTheorems, SequenceTheorems, Induction, TLAPS

------------------------------------------------------------------------------
(* The recursive functions of the graph                                      *)

EndsType == [head : SUBSET Delayable, tail : SUBSET Delayable]

\* What Ends is at o, in terms of its values at the parts of o.
EndsOf(f, o) ==
  IF o \in Delayable THEN [head |-> {o}, tail |-> {o}]
  ELSE IF parts[o].kind = "chain"
  THEN [head |-> f[parts[o].of[1]].tail, tail |-> f[Last(parts[o].of)].head]
  ELSE [head |-> UNION {f[p].head : p \in Parts(o)},
        tail |-> UNION {f[p].tail : p \in Parts(o)}]

\* No chain or group is within itself: objects have ranks.
Ranked(r) ==
  r \in [Object -> Nat] /\ \A o \in Object : \A p \in Parts(o) : r[p] < r[o]

Acyclic == \E r : Ranked(r)

LEMMA PartsCases ==
  ASSUME NEW o
  PROVE  /\ o \in Delayable => Parts(o) = {}
         /\ o \notin Delayable /\ parts[o].kind = "chain" =>
              Parts(o) = {parts[o].of[i] : i \in DOMAIN parts[o].of}
         /\ o \notin Delayable /\ parts[o].kind = "group" => Parts(o) = parts[o].of
         /\ o \notin Delayable /\ parts[o].kind = "none" => Parts(o) = {}
BY DEF Parts

\* The parts of a compound.
LEMMA PartsOf ==
  ASSUME TypeOK, NEW o \in Object
  PROVE  /\ Parts(o) \subseteq Object
         /\ o \notin Delayable /\ parts[o].kind = "chain" =>
              parts[o].of[1] \in Parts(o) /\ Last(parts[o].of) \in Parts(o)
<1>1. CASE o \in Delayable
  BY <1>1, PartsCases
<1>2. CASE o \notin Delayable
  <2>1. o \in Compound
    BY <1>2 DEF Object
  <2>2. Parts(o) \subseteq Object
    BY <2>1 DEF TypeOK
  <2>3. ASSUME parts[o].kind = "chain"
        PROVE  parts[o].of[1] \in Parts(o) /\ Last(parts[o].of) \in Parts(o)
    <3>1. parts[o].of \in Seq(Object) \ {<<>>}
      BY <2>1, <2>3 DEF TypeOK, Compounds, Unmade
    <3>2. /\ DOMAIN parts[o].of = 1..Len(parts[o].of)
          /\ Len(parts[o].of) \in Nat \ {0}
      BY <3>1, LenProperties, EmptySeq
    <3>3. Parts(o) = {parts[o].of[i] : i \in DOMAIN parts[o].of}
      BY <1>2, <2>3, PartsCases
    <3>4. 1 \in DOMAIN parts[o].of /\ Len(parts[o].of) \in DOMAIN parts[o].of
      BY <3>2
    <3>5. QED
      BY <3>3, <3>4 DEF Last
  <2>4. QED
    BY <2>2, <2>3
<1>3. QED
  BY <1>1, <1>2

LEMMA EndsOfParts ==
  ASSUME TypeOK, NEW o \in Object, NEW f, NEW g, \A p \in Parts(o) : f[p] = g[p]
  PROVE  EndsOf(f, o) = EndsOf(g, o)
<1>1. CASE o \in Delayable
  BY <1>1 DEF EndsOf
<1>2. CASE o \notin Delayable /\ parts[o].kind = "chain"
  BY <1>2, PartsOf DEF EndsOf
<1>3. CASE o \notin Delayable /\ parts[o].kind # "chain"
  <2>1. /\ UNION {f[p].head : p \in Parts(o)} = UNION {g[p].head : p \in Parts(o)}
        /\ UNION {f[p].tail : p \in Parts(o)} = UNION {g[p].tail : p \in Parts(o)}
    OBVIOUS
  <2>2. QED
    BY <1>3, <2>1 DEF EndsOf
<1>4. QED
  BY <1>1, <1>2, <1>3

LEMMA EndsOfType ==
  ASSUME TypeOK, NEW o \in Object, NEW f, \A p \in Parts(o) : f[p] \in EndsType
  PROVE  EndsOf(f, o) \in EndsType
<1>1. CASE o \in Delayable
  BY <1>1 DEF EndsOf, EndsType
<1>2. CASE o \notin Delayable /\ parts[o].kind = "chain"
  BY <1>2, PartsOf DEF EndsOf, EndsType
<1>3. CASE o \notin Delayable /\ parts[o].kind # "chain"
  <2>1. /\ UNION {f[p].head : p \in Parts(o)} \in SUBSET Delayable
        /\ UNION {f[p].tail : p \in Parts(o)} \in SUBSET Delayable
    BY DEF EndsType
  <2>2. QED
    BY <1>3, <2>1 DEF EndsOf, EndsType
<1>4. QED
  BY <1>1, <1>2, <1>3

\* A recursion from the parts of an object to the object itself has a solution: G
\* looks at the values of the parts only.
FromParts(G, T) ==
  /\ G \in [Object \X [Object -> T] -> T]
  /\ \A o \in Object : \A f, g \in [Object -> T] :
       (\A p \in Parts(o) : f[p] = g[p]) => G[<<o, f>>] = G[<<o, g>>]

AlongParts(F, G) == F = [o \in Object |-> G[<<o, F>>]]

LEMMA RecursionAlongParts ==
  ASSUME TypeOK, Acyclic, NEW T, T # {}, NEW G, FromParts(G, T)
  PROVE  \E F \in [Object -> T] : AlongParts(F, G)
<1>1. PICK r : Ranked(r)
  BY DEF Acyclic
<1>2. r \in [Object -> Nat] /\ \A o \in Object : \A p \in Parts(o) : p \in Object /\ r[p] < r[o]
  BY <1>1, PartsOf DEF Ranked
<1>3. FromLower(G, Object, r, T)
  BY <1>2 DEF FromParts, FromLower
<1>4. \E F \in [Object -> T] : Solves(F, G, Object)
  BY <1>2, <1>3, RecursionByRank
<1>5. QED
  BY <1>4 DEF Solves, AlongParts

\* What is true of an object when it is true of its parts is true of all.
LEMMA InductionAlongParts ==
  ASSUME TypeOK, Acyclic, NEW C,
         \A o \in Object : (\A p \in Parts(o) : p \in C) => o \in C
  PROVE  Object \subseteq C
<1>1. PICK r : Ranked(r)
  BY DEF Acyclic
<1>2. r \in [Object -> Nat] /\ \A o \in Object : \A p \in Parts(o) : p \in Object /\ r[p] < r[o]
  BY <1>1, PartsOf DEF Ranked
<1>3. \A o \in Object : (\A p \in Object : r[p] < r[o] => p \in C) => o \in C
  BY <1>2
<1>4. QED
  BY <1>2, <1>3, InductionByRank

\* Ends satisfies its definition: following the parts of parts comes to an end.
LEMMA EndsIsDefined ==
  ASSUME TypeOK, Acyclic
  PROVE  Ends = [o \in Object |-> EndsOf(Ends, o)]
<1> DEFINE T == EndsType
           G == [m \in Object \X [Object -> T] |-> EndsOf(m[2], m[1])]
<1>1. ASSUME NEW o \in Object, NEW f \in [Object -> T]
      PROVE  EndsOf(f, o) \in T
  <2>1. \A p \in Parts(o) : f[p] \in T
    BY PartsOf
  <2>2. QED
    BY <2>1, EndsOfType
<1>2. /\ G \in [Object \X [Object -> T] -> T]
      /\ \A o \in Object, f \in [Object -> T] : G[<<o, f>>] = EndsOf(f, o)
  <2> HIDE DEF T
  <2>1. QED
    BY <1>1
<1> HIDE DEF G
<1>3. FromParts(G, T)
  <2> HIDE DEF T
  <2>1. QED
    BY <1>2, EndsOfParts DEF FromParts
<1>4. PICK F \in [Object -> T] : AlongParts(F, G)
  <2>1. [head |-> {}, tail |-> {}] \in T
    BY DEF EndsType
  <2>2. T # {}
    BY <2>1
  <2> HIDE DEF T
  <2>3. QED
    BY <1>3, <2>2, RecursionAlongParts
<1> HIDE DEF T
<1>5. F = [o \in Object |-> EndsOf(F, o)]
  BY <1>2, <1>4 DEF AlongParts
<1>6. Ends = CHOOSE g : g = [o \in Object |-> EndsOf(g, o)]
  BY DEF Ends, EndsOf
<1>7. QED
  BY <1>5, <1>6

LEMMA EndsTyped ==
  ASSUME TypeOK, Acyclic, NEW o \in Object
  PROVE  Ends[o] \in EndsType
<1> DEFINE C == {p \in Object : Ends[p] \in EndsType}
<1>1. \A p \in Object : Ends[p] = EndsOf(Ends, p)
  BY EndsIsDefined
<1>2. ASSUME NEW p \in Object, \A q \in Parts(p) : q \in C
      PROVE  p \in C
  <2>1. \A q \in Parts(p) : Ends[q] \in EndsType
    BY <1>2
  <2>2. QED
    BY <1>1, <2>1, EndsOfType
<1>3. Object \subseteq C
  <2> HIDE DEF C
  <2>1. QED
    BY <1>2, InductionAlongParts
<1>4. QED
  BY <1>3

LEMMA FiniteObjects == IsFiniteSet(Object) /\ Cardinality(Object) \in Nat
BY DelayAssumption, FS_Union, FS_CardinalityType DEF Object

\* What _connect_graphs finds at x, and one round of it.
Near(x) == Parts(x) \cup UNION {{e[1], e[2]} : e \in graph[x]}
Grow(S) == S \cup UNION {Near(x) : x \in S}

LEMMA NearType ==
  ASSUME TypeOK, NEW x \in Object
  PROVE  Near(x) \subseteq Object
BY PartsOf DEF TypeOK, Near

\* The rounds are Cardinality(Object) many.
LEMMA VisitedSteps ==
  ASSUME TypeOK, NEW o \in Object
  PROVE  \E V : /\ V[0] = {o} /\ Visited(o) = V[Cardinality(Object)]
                /\ \A n \in Nat : n < Cardinality(Object) => V[n + 1] = Grow(V[n])
<1> DEFINE D == SUBSET Object
           a == {o}
           G == [m \in Nat \X D |-> Grow(m[2])]
           N == Cardinality(Object)
           Eq(W) == W = [n \in 0..N |-> IF n = 0 THEN {o} ELSE Grow(W[n - 1])]
<1>2. \A S \in D : Grow(S) \in D
  BY NearType DEF Grow
<1>3. a \in D /\ N \in Nat
  BY FiniteObjects
<1>4. G \in [Nat \X D -> D] /\ \A n \in Nat, S \in D : G[<<n, S>>] = Grow(S)
  <2> HIDE DEF D
  <2>1. QED
    BY <1>2
<1>5. PICK W \in [0..N -> D] : RecursiveOn(W, a, G, N)
  <2> HIDE DEF D, G, N, a
  <2>1. QED
    BY <1>3, <1>4, BoundedRecursion
<1>6. Eq(W)
  <2>1. \A n \in 0..N : n = 0 \/ (n - 1 \in Nat /\ n - 1 \in 0..N)
    BY <1>3
  <2> HIDE DEF D, N
  <2>2. \A n \in 0..N : n # 0 => G[<<n - 1, W[n - 1]>>] = Grow(W[n - 1])
    BY <1>4, <1>5, <2>1
  <2> HIDE DEF G
  <2>3. QED
    BY <1>5, <2>2 DEF RecursiveOn
<1> DEFINE V == CHOOSE W2 : Eq(W2)
<1>7. Eq(V)
  <2> HIDE DEF Eq
  <2>1. QED
    BY <1>6
<1>8. Visited(o) = V[N]
  BY DEF Visited, Grow, Near
<1>9. N \in Nat
  BY <1>3
<1> HIDE DEF V, N
<1>10. V[0] = {o}
  BY <1>7, <1>9
<1>11. ASSUME NEW n \in Nat, n < N
       PROVE  V[n + 1] = Grow(V[n])
  <2>1. n + 1 \in 0..N /\ n + 1 # 0 /\ n + 1 - 1 = n
    BY <1>9, <1>11
  <2>2. \A m \in 0..N : V[m] = IF m = 0 THEN {o} ELSE Grow(V[m - 1])
    BY <1>7
  <2>3. QED
    BY <2>1, <2>2
<1>12. /\ V[0] = {o} /\ Visited(o) = V[Cardinality(Object)]
       /\ \A n \in Nat : n < Cardinality(Object) => V[n + 1] = Grow(V[n])
  BY <1>8, <1>10, <1>11 DEF N
<1>13. QED
  BY <1>12

\* What is visited is the least set that has o, and with an object all that is near it.
LEMMA VisitedClosed ==
  ASSUME TypeOK, NEW o \in Object
  PROVE  /\ Visited(o) \subseteq Object /\ o \in Visited(o)
         /\ \A x \in Visited(o) : Near(x) \subseteq Visited(o)
         /\ \A S : o \in S /\ (\A x \in S \cap Object : Near(x) \subseteq S)
              => Visited(o) \subseteq S
<1> DEFINE N == Cardinality(Object)
           F == [T \in SUBSET Object |-> Grow(T)]
<1>1. PICK V : /\ V[0] = {o} /\ Visited(o) = V[N]
               /\ \A n \in Nat : n < N => V[n + 1] = Grow(V[n])
  BY VisitedSteps
<1>2. IsFiniteSet(Object) /\ N \in Nat
  BY FiniteObjects
<1>3. \A T \in SUBSET Object : Grow(T) \in SUBSET Object /\ T \subseteq Grow(T)
  BY NearType DEF Grow
<1> HIDE DEF N
<1>4. /\ F \in [SUBSET Object -> SUBSET Object]
      /\ \A T \in SUBSET Object : F[T] = Grow(T) /\ T \subseteq F[T]
  BY <1>3
<1> HIDE DEF F
<1> DEFINE Typed == {n \in Nat : n <= N => V[n] \in SUBSET Object /\ o \in V[n]}
<1>5. \A n \in Nat : n \in Typed
  <2>1. 0 \in Typed
    BY <1>1
  <2>2. ASSUME NEW n \in Nat, n \in Typed
        PROVE  n + 1 \in Typed
    <3> SUFFICES ASSUME n + 1 <= N
                 PROVE  V[n + 1] \in SUBSET Object /\ o \in V[n + 1]
      OBVIOUS
    <3>1. n < N /\ n <= N
      BY <1>2
    <3>2. V[n] \in SUBSET Object /\ o \in V[n]
      BY <2>2, <3>1
    <3>3. QED
      BY <1>1, <1>3, <3>1, <3>2
  <2> HIDE DEF Typed
  <2>3. QED
    BY <2>1, <2>2, InductionInSet
<1>6. \A n \in Nat : n < N => V[n + 1] = F[V[n]]
  <2> SUFFICES ASSUME NEW n \in Nat, n < N PROVE V[n + 1] = F[V[n]]
    OBVIOUS
  <2>1. n <= N
    BY <1>2
  <2>2. V[n] \in SUBSET Object
    BY <1>5, <2>1
  <2>3. QED
    BY <1>1, <1>4, <2>2
<1>7. F[V[N]] = V[N]
  <2>1. Cardinality(Object) <= N
    BY <1>2 DEF N
  <2>2. V[0] \in SUBSET Object
    BY <1>1
  <2>3. \A T \in SUBSET Object : T \subseteq F[T]
    BY <1>4
  <2>4. Grows(V, Object, F, N)
    BY <1>4, <1>6, <2>2, <2>3 DEF Grows
  <2>5. QED
    BY <1>2, <2>1, <2>4, GrowthEnds
<1>8. N <= N
  BY <1>2
<1>9. Visited(o) \in SUBSET Object /\ o \in Visited(o) /\ Grow(Visited(o)) = Visited(o)
  BY <1>1, <1>2, <1>4, <1>5, <1>7, <1>8
<1>10. \A x \in Visited(o) : Near(x) \subseteq Visited(o)
  BY <1>9 DEF Grow
<1>11. ASSUME NEW S, o \in S, \A x \in S \cap Object : Near(x) \subseteq S
       PROVE  Visited(o) \subseteq S
  <2> DEFINE Within == {n \in Nat : n <= N => V[n] \subseteq S}
  <2>1. 0 \in Within
    BY <1>1, <1>11
  <2>2. ASSUME NEW n \in Nat, n \in Within
        PROVE  n + 1 \in Within
    <3> SUFFICES ASSUME n + 1 <= N PROVE V[n + 1] \subseteq S
      OBVIOUS
    <3>1. n < N /\ n <= N
      BY <1>2
    <3>2. V[n] \subseteq S /\ V[n] \subseteq Object
      BY <1>5, <2>2, <3>1
    <3>3. Grow(V[n]) \subseteq S
      BY <1>11, <3>2 DEF Grow
    <3>4. QED
      BY <1>1, <3>1, <3>3
  <2>3. \A n \in Nat : n \in Within
    <3> HIDE DEF Within
    <3>1. QED
      BY <2>1, <2>2, InductionInSet
  <2>4. QED
    BY <1>1, <1>2, <1>8, <2>3
<1>12. QED
  BY <1>9, <1>10, <1>11

\* The edges between jobs join delayables.
LEMMA EdgesType ==
  ASSUME TypeOK, Acyclic, NEW o \in Object
  PROVE  Edges(o) \subseteq Delayable \X Delayable /\ Vertices(o) \subseteq Delayable
<1>1. ASSUME NEW edges \in SUBSET (Object \X Object)
      PROVE  Merged(edges) \subseteq Delayable \X Delayable
  <2>1. \A e \in edges : /\ Ends[e[1]].tail \subseteq Delayable
                         /\ Ends[e[2]].head \subseteq Delayable
    BY EndsTyped DEF EndsType
  <2>2. QED
    BY <2>1 DEF Merged
<1>2. \A x \in Visited(o) : graph[x] \in SUBSET (Object \X Object)
  BY VisitedClosed DEF TypeOK
<1>3. QED
  BY <1>1, <1>2 DEF Edges, Vertices

------------------------------------------------------------------------------
(* The invariant                                                             *)

\* What is a part of something has been made.
PartsInv == Acyclic /\ \A o \in Object : \A p \in Parts(o) : Made(p)

RowsInv == SnapshotInv /\ ReadyInv /\ CancelInv /\ StrandedInv

IInv == TypeOK /\ PartsInv /\ RowsInv

LEMMA RowsUnmoved ==
  ASSUME RowsInv, UNCHANGED <<txn, row, dep, cancel>>
  PROVE  RowsInv'
BY DEF RowsInv, SnapshotInv, ReadyInv, CancelInv, StrandedInv, ExistingKeys, KeysIn, Ended

LEMMA PartsUnmoved ==
  ASSUME PartsInv, UNCHANGED parts
  PROVE  PartsInv'
BY DEF PartsInv, Acyclic, Ranked, Parts, Made

LEMMA TypeInit == Init => IInv
<1> SUFFICES ASSUME Init PROVE IInv
  OBVIOUS
<1>1. \A o \in Object : Parts(o) = {}
  <2>1. \A c \in Compound : c \notin Delayable /\ parts[c].kind = "none"
    BY DelayAssumption DEF Init, Unmade
  <2>2. QED
    BY <2>1, PartsCases DEF Object
<1>2. TypeOK
  <2>1. txn \in [{Program} \cup Single ->
                   [at : {"build", "new", "open", "over"}, keys : SUBSET Key,
                    gone : SUBSET (Key \cup {NoKey})]]
    BY DEF Init
  <2>2. /\ direct \in [all : SUBSET Delayable, edges : SUBSET (Delayable \X Delayable),
                       queue : SUBSET Delayable, ran : SUBSET Delayable]
        /\ direct.queue \cup direct.ran \subseteq direct.all
    BY DEF Init, Idle
  <2>3. /\ cancel \in [User -> [job : SUBSET Job, writes : SUBSET Job, stale : SUBSET Job]]
        /\ \A u \in User : cancel[u].job \subseteq cancel[u].writes
    BY DEF Init, NoCancel
  <2>4. failures \in 0..MaxFailures
    BY DelayAssumption DEF Init
  <2>5. \A c \in Compound : Parts(c) \subseteq Object \ {c}
    BY <1>1 DEF Object
  <2>6. QED
    BY <2>1, <2>2, <2>3, <2>4, <2>5 DEF Init, TypeOK
<1>3. PartsInv
  <2>1. Ranked([o \in Object |-> 0])
    BY <1>1 DEF Ranked
  <2>2. QED
    BY <1>1, <2>1 DEF PartsInv, Acyclic
<1>4. RowsInv
  <2>1. \A j \in Job : row[j] = NoRow /\ dep[j] = {} /\ row[j].state = Absent
    BY DEF Init, NoRow
  <2>2. SnapshotInv
    BY <2>1 DEF SnapshotInv, Init, Job
  <2>3. ReadyInv /\ StrandedInv
    BY <2>1 DEF ReadyInv, StrandedInv, Absent, PENDING, STARTED, FAILED, ENQUEUED,
       WAIT_DEPENDENCIES
  <2>4. CancelInv
    BY DEF CancelInv, Init, NoCancel
  <2>5. QED
    BY <2>2, <2>3, <2>4 DEF RowsInv
<1>5. QED
  BY <1>2, <1>3, <1>4 DEF IInv

------------------------------------------------------------------------------
(* Building                                                                  *)

LEMMA TriplesAreLists ==
  ASSUME NEW s \in Triples
  PROVE  /\ s \in Seq(Object) \ {<<>>}
         /\ Len(s) \in 1..3 /\ DOMAIN s = 1..Len(s) /\ \A i \in DOMAIN s : s[i] \in Object
<1>1. PICK n \in 1..3 : s \in [1..n -> Object]
  BY DEF Triples
<1>2. s \in Seq(Object) /\ Len(s) = n
  BY <1>1, IsASeq, LenProperties
<1>3. QED
  BY <1>1, <1>2, EmptySeq

\* What a building step may do to the parts and the graph.
LEMMA BuildKeeps ==
  ASSUME IInv, UNCHANGED <<direct, txn, database>>,
         parts' \in [Compound -> {Unmade} \cup Compounds],
         \A c \in Compound : Parts(c)' \subseteq Object \ {c},
         graph' \in [Object -> SUBSET (Object \X Object)],
         PartsInv'
  PROVE  IInv'
<1>1. RowsInv'
  BY RowsUnmoved DEF IInv, database
<1>2. TypeOK'
  BY DEF IInv, TypeOK, database
<1>3. QED
  BY <1>1, <1>2 DEF IInv

\* A chain or a group c is made of the objects in s.
LEMMA NewCompound ==
  ASSUME IInv, NEW c \in Compound, NEW chain \in BOOLEAN, NEW s \in Triples,
         NEW spent \in SUBSET Delayable, parts[c] = Unmade,
         \A i \in DOMAIN s : Made(s[i]) /\ s[i] # c,
         parts' = [parts EXCEPT ![c] = Compounded(chain, s, spent)]
  PROVE  /\ parts' \in [Compound -> {Unmade} \cup Compounds]
         /\ \A x \in Compound : Parts(x)' \subseteq Object \ {x}
         /\ PartsInv'
<1>0. /\ parts \in [Compound -> {Unmade} \cup Compounds]
      /\ \A x \in Compound : Parts(x) \subseteq Object \ {x}
      /\ \A x \in Compound : x \notin Delayable /\ x \in Object
  BY DelayAssumption DEF IInv, TypeOK, Object
<1>1. /\ s \in Seq(Object) \ {<<>>} /\ Len(s) \in 1..3 /\ DOMAIN s = 1..Len(s)
      /\ \A i \in DOMAIN s : s[i] \in Object
  BY TriplesAreLists
<1> DEFINE new == Compounded(chain, s, spent)
<1>2. new \in Compounds /\ new # Unmade
  <2>1. CASE chain
    BY <1>1, <2>1 DEF Compounded, Compounds, Unmade
  <2>2. CASE ~chain
    BY <1>1, <2>2 DEF Compounded, Compounds, Unmade
  <2>3. QED
    BY <2>1, <2>2
<1>3. /\ new.kind = (IF chain THEN "chain" ELSE "group")
      /\ new.of = (IF chain THEN s ELSE {s[i] : i \in DOMAIN s})
  BY DEF Compounded
<1>4. parts'[c] = new /\ \A x \in Compound : x # c => parts'[x] = parts[x]
  BY <1>0
<1>5. parts' \in [Compound -> {Unmade} \cup Compounds]
  BY <1>0, <1>2
<1> HIDE DEF new
<1>6. Parts(c)' = {s[i] : i \in DOMAIN s}
  <2>1. CASE chain
    <3>1. /\ c \notin Delayable
          /\ parts'[c].kind = "chain" /\ parts'[c].of = s
      BY <1>0, <1>3, <1>4, <2>1
    <3>2. Parts(c)' = {parts'[c].of[i] : i \in DOMAIN parts'[c].of}
      BY <3>1 DEF Parts
    <3>3. QED
      BY <3>1, <3>2
  <2>2. CASE ~chain
    BY <1>0, <1>3, <1>4, <2>2 DEF Parts
  <2>3. QED
    BY <2>1, <2>2
<1>7. \A x \in Object : x # c => Parts(x)' = Parts(x)
  BY <1>4 DEF Parts, Object
<1>8. \A x \in Object : Made(x) => Made(x)'
  BY <1>2, <1>4 DEF Made
<1>9. \A x \in Compound : Parts(x)' \subseteq Object \ {x}
  BY <1>0, <1>1, <1>6, <1>7
<1>10. Acyclic'
  <2>1. PICK r : Ranked(r)
    BY DEF IInv, PartsInv, Acyclic
  <2> DEFINE q(i) == IF i \in DOMAIN s THEN r[s[i]] ELSE 0
             k == q(1) + q(2) + q(3) + 1
             r2 == [r EXCEPT ![c] = k]
  <2>2. q(1) \in Nat /\ q(2) \in Nat /\ q(3) \in Nat
    BY <1>1, <2>1 DEF Ranked
  <2>3. k \in Nat /\ \A i \in DOMAIN s : r[s[i]] < k
    <3>1. q(1) < k /\ q(2) < k /\ q(3) < k /\ k \in Nat
      <4> HIDE DEF q
      <4>1. QED
        BY <2>2
    <3>2. \A i \in DOMAIN s : i \in {1, 2, 3} /\ r[s[i]] = q(i)
      BY <1>1
    <3> HIDE DEF k, q
    <3>3. QED
      BY <3>1, <3>2
  <2> HIDE DEF k, q
  <2>4. r2 \in [Object -> Nat] /\ r2[c] = k /\ \A x \in Object : x # c => r2[x] = r[x]
    BY <1>0, <2>1, <2>3 DEF Ranked
  <2> HIDE DEF r2
  <2>5. \A x \in Object : \A p \in Parts(x) : p # c /\ p \in Object
    BY <1>0, PartsOf DEF IInv, PartsInv, Made
  <2>6. ASSUME NEW x \in Object, NEW p \in Parts(x)'
        PROVE  r2[p] < r2[x]
    <3>1. CASE x = c
      BY <1>1, <1>6, <2>3, <2>4, <2>6, <3>1
    <3>2. CASE x # c
      BY <1>7, <2>1, <2>4, <2>5, <2>6, <3>2 DEF Ranked
    <3>3. QED
      BY <3>1, <3>2
  <2>7. Ranked(r2)'
    BY <2>4, <2>6 DEF Ranked
  <2>8. QED
    BY <2>7 DEF Acyclic
<1>11. ASSUME NEW x \in Object, NEW p \in Parts(x)'
       PROVE  Made(p)'
  <2>1. CASE x = c
    BY <1>1, <1>6, <1>8, <1>11, <2>1
  <2>2. CASE x # c
    BY <1>7, <1>8, <1>11, <2>2, PartsOf DEF IInv, PartsInv
  <2>3. QED
    BY <2>1, <2>2
<1>12. QED
  BY <1>5, <1>9, <1>10, <1>11 DEF PartsInv

LEMMA InnerType ==
  ASSUME NEW s \in Triples, NEW chain \in BOOLEAN
  PROVE  Inner(chain, s) \subseteq Object \X Object
<1>1. Len(s) \in 1..3 /\ DOMAIN s = 1..Len(s) /\ \A i \in DOMAIN s : s[i] \in Object
  BY TriplesAreLists
<1>2. \A i \in 1..(Len(s) - 1) : i \in DOMAIN s /\ i + 1 \in DOMAIN s
  BY <1>1
<1>3. QED
  BY <1>1, <1>2 DEF Inner

LEMMA OnDoneFromType ==
  ASSUME TypeOK, NEW o \in Object
  PROVE  OnDoneFrom(o) \subseteq Object
BY PartsOf DEF OnDoneFrom, Object

LEMMA BuildKept ==
  ASSUME IInv, BuildStep
  PROVE  IInv'
<1>0. /\ graph \in [Object -> SUBSET (Object \X Object)]
      /\ \A x \in Compound : x \in Object /\ x \notin Delayable
      /\ \A x \in Delayable : Made(x) /\ x \in Object
  BY DelayAssumption DEF IInv, TypeOK, Object, Made
<1>1. ASSUME NEW c \in Compound, NEW chain \in BOOLEAN, NEW s \in Triples,
             MakeCompound(c, chain, s)
      PROVE  IInv'
  <2>1. /\ parts[c] = Unmade /\ \A i \in DOMAIN s : Made(s[i]) /\ s[i] # c
        /\ parts' = [parts EXCEPT ![c] = Compounded(chain, s, {})]
        /\ graph' = [graph EXCEPT ![c] = Inner(chain, s)]
        /\ UNCHANGED <<direct, txn, database>>
    BY <1>1 DEF MakeCompound, Made
  <2>2. graph' \in [Object -> SUBSET (Object \X Object)]
    BY <1>0, <2>1, InnerType
  <2>3. {} \in SUBSET Delayable
    OBVIOUS
  <2>4. /\ parts' \in [Compound -> {Unmade} \cup Compounds]
        /\ \A x \in Compound : Parts(x)' \subseteq Object \ {x}
        /\ PartsInv'
    BY <2>1, <2>3, NewCompound
  <2>5. QED
    BY <2>1, <2>2, <2>4, BuildKeeps
<1>2. \A s \in Pairs : s \in Triples
  BY DEF Pairs
<1>3. ASSUME NEW c \in Compound, NEW chain \in BOOLEAN, NEW s \in Pairs,
             NEW d \in Delayable, Split(c, d, chain, s)
      PROVE  IInv'
  <2>1. /\ parts[c] = Unmade /\ \A i \in DOMAIN s : Made(s[i]) /\ s[i] # c
        /\ parts' = [parts EXCEPT ![c] = Compounded(chain, s, {d})]
        /\ graph' = [graph EXCEPT ![c] = Inner(chain, s)]
        /\ UNCHANGED <<direct, txn, database>>
    BY <1>0, <1>3 DEF Split, Fresh
  <2>2. graph' \in [Object -> SUBSET (Object \X Object)]
    BY <1>0, <1>2, <2>1, InnerType
  <2>3. {d} \in SUBSET Delayable
    OBVIOUS
  <2>4. /\ parts' \in [Compound -> {Unmade} \cup Compounds]
        /\ \A x \in Compound : Parts(x)' \subseteq Object \ {x}
        /\ PartsInv'
    BY <1>2, <2>1, <2>3, NewCompound
  <2>5. QED
    BY <2>1, <2>2, <2>4, BuildKeeps
<1>4. ASSUME NEW c \in Compound, NEW chain \in BOOLEAN, NEW s \in Pairs,
             NEW tail \in Compound, CreateTestJobs(c, chain, s, tail)
      PROVE  IInv'
  <2>1. /\ parts[c] = Unmade /\ \A i \in DOMAIN s : Made(s[i]) /\ s[i] # c
        /\ parts' = [parts EXCEPT ![c] = Compounded(chain, s, {})]
        /\ graph' = [graph EXCEPT ![c] = Inner(chain, s),
                                  ![tail] = @ \cup {<<p, c>> : p \in OnDoneFrom(tail)}]
        /\ UNCHANGED <<direct, txn, database>>
    BY <1>0, <1>4 DEF CreateTestJobs, Fresh
  <2>2. graph' \in [Object -> SUBSET (Object \X Object)]
    <3>1. Inner(chain, s) \in SUBSET (Object \X Object)
      BY <1>2, InnerType
    <3>2. {<<p, c>> : p \in OnDoneFrom(tail)} \in SUBSET (Object \X Object)
      BY <1>0, OnDoneFromType DEF IInv
    <3>3. QED
      BY <1>0, <2>1, <3>1, <3>2
  <2>3. {} \in SUBSET Delayable
    OBVIOUS
  <2>4. /\ parts' \in [Compound -> {Unmade} \cup Compounds]
        /\ \A x \in Compound : Parts(x)' \subseteq Object \ {x}
        /\ PartsInv'
    BY <1>2, <2>1, <2>3, NewCompound
  <2>5. QED
    BY <2>1, <2>2, <2>4, BuildKeeps
<1>5. ASSUME NEW o \in Object, NEW d \in Object, OnDone(o, d)
      PROVE  IInv'
  <2>1. /\ graph' = [graph EXCEPT ![o] = @ \cup {<<p, d>> : p \in OnDoneFrom(o)}]
        /\ UNCHANGED <<parts, direct, txn, database>>
    BY <1>5 DEF OnDone
  <2>2. graph' \in [Object -> SUBSET (Object \X Object)]
    <3>1. {<<p, d>> : p \in OnDoneFrom(o)} \in SUBSET (Object \X Object)
      BY OnDoneFromType DEF IInv
    <3>2. QED
      BY <1>0, <2>1, <3>1
  <2>3. /\ parts' \in [Compound -> {Unmade} \cup Compounds]
        /\ \A c \in Compound : Parts(c)' \subseteq Object \ {c}
    BY <2>1 DEF IInv, TypeOK, Parts
  <2>4. QED
    BY <2>1, <2>2, <2>3, PartsUnmoved, BuildKeeps DEF IInv
<1>6. QED
  BY <1>1, <1>3, <1>4, <1>5 DEF BuildStep

------------------------------------------------------------------------------
(* The rows change                                                           *)

RowType == {NoRow} \cup [state : States, key : Key \cup {NoKey}, dated : BOOLEAN]

Gone == {DONE, Absent}
Active == {WAIT_DEPENDENCIES, PENDING, ENQUEUED, STARTED, FAILED}

\* What may become of the row of j when the rows become new: it keeps its key, does
\* not come back, gets ready only when its parents have gone, waits again only for
\* parents, and is not cancelled under a child that has no other parent.
LegalRow(new, j) ==
  /\ new[j] \in RowType
  /\ new[j].state = row[j].state => new[j] = row[j]
  /\ new[j].state # Absent => new[j].key = row[j].key
  /\ row[j].state = Absent => new[j].state = Absent
  /\ row[j].state = DONE => new[j].state \in Gone
  /\ new[j].state \in {PENDING, STARTED, FAILED} =>
       row[j].state \in {PENDING, STARTED, FAILED} \/ \A p \in dep[j] : new[p].state \in Gone
  /\ new[j].state = WAIT_DEPENDENCIES =>
       row[j].state = WAIT_DEPENDENCIES \/ (row[j].state = FAILED /\ dep[j] # {})
  /\ new[j].state \in Active => ~new[j].dated
  /\ new[j].state = CANCELLED /\ row[j].state # CANCELLED /\ new[j].dated =>
       \A c \in Job : dep[c] = {j} => new[c].state # WAIT_DEPENDENCIES

Legal(new) == new = [j \in Job |-> new[j]] /\ \A j \in Job : LegalRow(new, j)

\* The type invariant's part about the rows.
LEMMA RowTypes ==
  ASSUME IInv
  PROVE  /\ row \in [Job -> RowType]
         /\ dep \in [Job -> SUBSET Delayable] /\ Delayable \subseteq Job
         /\ txn \in [{Program} \cup Single ->
               [at : {"build", "new", "open", "over"}, keys : SUBSET Key,
                gone : SUBSET (Key \cup {NoKey})]]
         /\ cancel \in [User -> [job : SUBSET Job, writes : SUBSET Job, stale : SUBSET Job]]
         /\ \A u \in User : cancel[u].job \subseteq cancel[u].writes
         /\ \A j \in Job : row[j].state = Absent <=> row[j] = NoRow
         /\ \A j \in Job : row[j].state # Absent => row[j].key \in Key \cup {NoKey}
<1>1. /\ row \in [Job -> RowType]
      /\ dep \in [Job -> SUBSET Delayable] /\ Delayable \subseteq Job
      /\ txn \in [{Program} \cup Single ->
               [at : {"build", "new", "open", "over"}, keys : SUBSET Key,
                gone : SUBSET (Key \cup {NoKey})]]
      /\ cancel \in [User -> [job : SUBSET Job, writes : SUBSET Job, stale : SUBSET Job]]
      /\ \A u \in User : cancel[u].job \subseteq cancel[u].writes
  BY DEF IInv, TypeOK, RowType, Job
<1>2. \A r \in RowType : (r.state = Absent <=> r = NoRow)
                         /\ (r.state # Absent => r.key \in Key \cup {NoKey})
  BY DEF RowType, NoRow, States, Absent, WAIT_DEPENDENCIES, PENDING, ENQUEUED, STARTED,
     DONE, CANCELLED, FAILED
<1>3. QED
  BY <1>1, <1>2

\* What a transaction of the rows leaves of the invariant.
LEMMA ChangeKept ==
  ASSUME IInv, NEW me, NEW new, Legal(new), Change(me, new), failures' \in 0..MaxFailures
  PROVE  IInv'
<1> DEFINE changed == {j \in Job : new[j].state # row[j].state}
           gone == {row[j].key : j \in {k \in changed : new[k].state # PENDING}}
<1>1. /\ row' = new
      /\ txn' = [t \in DOMAIN txn |->
                   IF txn[t].at = "open" THEN [txn[t] EXCEPT !.gone = @ \cup gone]
                   ELSE txn[t]]
      /\ cancel' = [u \in User |->
                      IF u = me \/ cancel[u] = NoCancel THEN NoCancel
                      ELSE [cancel[u] EXCEPT !.stale = @ \cup changed]]
      /\ UNCHANGED <<parts, graph, direct, dep>>
  BY DEF Change, building
<1>2. /\ row \in [Job -> RowType]
      /\ dep \in [Job -> SUBSET Delayable] /\ Delayable \subseteq Job
      /\ txn \in [{Program} \cup Single ->
               [at : {"build", "new", "open", "over"}, keys : SUBSET Key,
                gone : SUBSET (Key \cup {NoKey})]]
      /\ cancel \in [User -> [job : SUBSET Job, writes : SUBSET Job, stale : SUBSET Job]]
      /\ \A u \in User : cancel[u].job \subseteq cancel[u].writes
      /\ \A j \in Job : row[j].state = Absent <=> row[j] = NoRow
      /\ \A j \in Job : row[j].state # Absent => row[j].key \in Key \cup {NoKey}
  BY RowTypes
<1>3. \A j \in Job : LegalRow(new, j)
  BY DEF Legal
<1>4. new \in [Job -> RowType]
  BY <1>3 DEF Legal, LegalRow
<1>5. gone \subseteq Key \cup {NoKey}
  <2>1. \A j \in changed : row[j].state # Absent
    BY <1>3 DEF LegalRow
  <2>2. QED
    BY <1>2, <2>1
<1>6. /\ DOMAIN txn' = DOMAIN txn /\ DOMAIN txn = {Program} \cup Single
      /\ \A t \in DOMAIN txn : /\ txn'[t].at = txn[t].at /\ txn'[t].keys = txn[t].keys
                               /\ txn[t].at = "open" => txn'[t].gone = txn[t].gone \cup gone
                               /\ txn[t].at # "open" => txn'[t] = txn[t]
  <2> HIDE DEF gone
  <2>1. QED
    BY <1>1, <1>2
<1>7. /\ DOMAIN cancel' = User
      /\ \A u \in User :
           \/ cancel'[u] = NoCancel
           \/ /\ cancel'[u].job = cancel[u].job /\ cancel'[u].writes = cancel[u].writes
              /\ cancel'[u].stale = cancel[u].stale \cup changed
              /\ cancel'[u] \in [job : SUBSET Job, writes : SUBSET Job, stale : SUBSET Job]
  <2>1. changed \subseteq Job
    OBVIOUS
  <2> HIDE DEF changed
  <2>2. QED
    BY <1>1, <1>2, <2>1
<1>8. \A j \in Job \ changed : new[j] = row[j]
  BY <1>3 DEF LegalRow
<1>9. \A j \in Job : j \in changed <=> new[j].state # row[j].state
  OBVIOUS
<1>10. \A j \in changed : new[j].state # PENDING => row[j].key \in gone
  OBVIOUS
<1> HIDE DEF changed, gone
<1>11. TypeOK'
  <2>1. txn' \in [{Program} \cup Single ->
                   [at : {"build", "new", "open", "over"}, keys : SUBSET Key,
                    gone : SUBSET (Key \cup {NoKey})]]
    BY <1>1, <1>2, <1>5
  <2>2. cancel' \in [User -> [job : SUBSET Job, writes : SUBSET Job, stale : SUBSET Job]]
    <3>1. NoCancel \in [job : SUBSET Job, writes : SUBSET Job, stale : SUBSET Job]
      BY DEF NoCancel
    <3>2. cancel' = [u \in User |-> cancel'[u]]
      BY <1>1
    <3>3. QED
      BY <1>7, <3>1, <3>2
  <2>3. \A u \in User : cancel'[u].job \subseteq cancel'[u].writes
    BY <1>2, <1>7 DEF NoCancel
  <2>4. \A c \in Compound : Parts(c)' \subseteq Object \ {c}
    BY <1>1 DEF IInv, TypeOK, Parts
  <2>5. QED
    BY <1>1, <1>4, <2>1, <2>2, <2>3, <2>4 DEF IInv, TypeOK, RowType
<1>12. SnapshotInv'
  <2>1. \A j \in Job : row[j] = NoRow => new[j] = NoRow
    BY <1>2, <1>3 DEF LegalRow
  <2>2. /\ txn'[Program].at # "over" => \A d \in Delayable : row'[d] = NoRow /\ dep'[d] = {}
        /\ \A s \in Single : dep'[s] = {} /\ (txn'[s].at # "over" => row'[s] = NoRow)
    BY <1>1, <1>6, <2>1 DEF IInv, RowsInv, SnapshotInv, Job
  <2>3. ASSUME NEW t \in DOMAIN txn', txn'[t].at = "open", NEW k \in txn'[t].keys
        PROVE  k \in ExistingKeys' \cup txn'[t].gone
    <3>1. /\ t \in DOMAIN txn /\ txn[t].at = "open" /\ k \in txn[t].keys
          /\ txn'[t].gone = txn[t].gone \cup gone
      BY <1>6, <2>3
    <3>2. k \in ExistingKeys \cup txn[t].gone
      BY <3>1 DEF IInv, RowsInv, SnapshotInv
    <3>3. CASE k \in ExistingKeys
      <4>1. PICK j \in Job : /\ row[j].state \in {WAIT_DEPENDENCIES, PENDING, ENQUEUED}
                             /\ row[j].key = k /\ k # NoKey
        BY <3>3 DEF ExistingKeys, KeysIn
      <4>2. CASE new[j].state \in {WAIT_DEPENDENCIES, PENDING, ENQUEUED}
        <5>1. new[j].key = k
          BY <1>3, <4>1, <4>2 DEF LegalRow, WAIT_DEPENDENCIES, PENDING, ENQUEUED, Absent
        <5>2. k \in ExistingKeys'
          BY <1>1, <4>1, <4>2, <5>1 DEF ExistingKeys, KeysIn
        <5>3. QED
          BY <5>2
      <4>3. CASE new[j].state \notin {WAIT_DEPENDENCIES, PENDING, ENQUEUED}
        BY <1>9, <1>10, <3>1, <4>1, <4>3
      <4>4. QED
        BY <4>2, <4>3
    <3>4. QED
      BY <3>1, <3>2, <3>3
  <2>4. QED
    BY <2>2, <2>3 DEF SnapshotInv
<1>13. \A p \in Job : row[p].state \in Gone => new[p].state \in Gone
  BY <1>3 DEF LegalRow, Gone
<1>14. ReadyInv'
  <2> SUFFICES ASSUME NEW j \in Job
               PROVE  /\ new[j].state \in {PENDING, STARTED, FAILED} =>
                           \A p \in dep[j] : new[p].state \in Gone
                      /\ new[j].state \in Active => ~new[j].dated
    BY <1>1 DEF ReadyInv, Ended, Gone, Active
  <2>1. row[j].state \in {PENDING, STARTED, FAILED} => \A p \in dep[j] : row[p].state \in Gone
    BY DEF IInv, RowsInv, ReadyInv, Ended, Gone
  <2>2. \A p \in dep[j] : p \in Job
    BY <1>2
  <2>3. QED
    BY <1>3, <1>13, <2>1, <2>2 DEF LegalRow
<1>15. CancelInv'
  <2> SUFFICES ASSUME NEW u \in User
               PROVE  /\ \A j \in cancel'[u].writes \ cancel'[u].stale :
                           new[j].state \in {WAIT_DEPENDENCIES, PENDING, ENQUEUED, FAILED}
                      /\ \A p \in cancel'[u].job \ cancel'[u].stale, c \in Job :
                           dep[c] = {p} /\ new[c].state = WAIT_DEPENDENCIES
                             => c \in cancel'[u].writes
    BY <1>1 DEF CancelInv
  <2>1. CASE cancel'[u] = NoCancel
    BY <2>1 DEF NoCancel
  <2>2. CASE cancel'[u] # NoCancel
    <3>1. /\ cancel'[u].job = cancel[u].job /\ cancel'[u].writes = cancel[u].writes
          /\ cancel'[u].stale = cancel[u].stale \cup changed
          /\ cancel[u].job \subseteq cancel[u].writes /\ cancel[u].writes \subseteq Job
      BY <1>2, <1>7, <2>2
    <3>2. /\ \A j \in cancel[u].writes \ cancel[u].stale :
               row[j].state \in {WAIT_DEPENDENCIES, PENDING, ENQUEUED, FAILED}
          /\ \A p \in cancel[u].job \ cancel[u].stale, c \in Job :
               dep[c] = {p} /\ row[c].state = WAIT_DEPENDENCIES => c \in cancel[u].writes
      BY DEF IInv, RowsInv, CancelInv
    <3>3. ASSUME NEW p \in cancel[u].job \ (cancel[u].stale \cup changed), NEW c \in Job,
                 dep[c] = {p}, new[c].state = WAIT_DEPENDENCIES
          PROVE  c \in cancel[u].writes
      <4>1. CASE row[c].state = WAIT_DEPENDENCIES
        BY <3>2, <3>3, <4>1
      <4>2. CASE row[c].state # WAIT_DEPENDENCIES
        <5>1. row[c].state = FAILED
          BY <1>3, <3>3, <4>2 DEF LegalRow
        <5>2. row[p].state \in Gone
          BY <3>3, <5>1 DEF IInv, RowsInv, ReadyInv, Ended, Gone
        <5>3. row[p].state \in {WAIT_DEPENDENCIES, PENDING, ENQUEUED, FAILED}
          BY <3>1, <3>2
        <5>4. QED
          BY <5>2, <5>3 DEF Gone, DONE, Absent, WAIT_DEPENDENCIES, PENDING, ENQUEUED, FAILED
      <4>3. QED
        BY <4>1, <4>2
    <3>4. QED
      BY <1>8, <3>1, <3>2, <3>3
  <2>3. QED
    BY <2>1, <2>2
<1>16. StrandedInv'
  <2> SUFFICES ASSUME NEW j \in Job, new[j].state = WAIT_DEPENDENCIES
               PROVE  /\ dep[j] # {}
                      /\ \A p \in dep[j] :
                           dep[j] = {p} /\ new[p].state = CANCELLED => ~new[p].dated
    BY <1>1 DEF StrandedInv
  <2>1. /\ row[j].state = WAIT_DEPENDENCIES =>
             /\ dep[j] # {}
             /\ \A p \in dep[j] : dep[j] = {p} /\ row[p].state = CANCELLED => ~row[p].dated
        /\ row[j].state = FAILED => \A p \in dep[j] : row[p].state \in Gone
    BY DEF IInv, RowsInv, StrandedInv, ReadyInv, Ended, Gone
  <2>2. row[j].state = WAIT_DEPENDENCIES \/ (row[j].state = FAILED /\ dep[j] # {})
    BY <1>3 DEF LegalRow
  <2>3. ASSUME NEW p \in dep[j], dep[j] = {p}, new[p].state = CANCELLED, new[p].dated
        PROVE  FALSE
    <3>1. p \in Job
      BY <1>2
    <3>2. row[p].state = CANCELLED /\ new[p] = row[p]
      BY <1>3, <2>3, <3>1 DEF LegalRow
    <3>3. row[j].state = FAILED
      BY <2>1, <2>2, <2>3, <3>2
    <3>4. row[p].state \in Gone
      BY <2>1, <3>3
    <3>5. QED
      BY <3>2, <3>4 DEF Gone, CANCELLED, DONE, Absent
  <2>4. QED
    BY <2>1, <2>2, <2>3
<1>17. PartsInv'
  BY <1>1, PartsUnmoved DEF IInv
<1>18. QED
  BY <1>11, <1>12, <1>14, <1>15, <1>16, <1>17 DEF IInv, RowsInv

LEMMA SameRow ==
  ASSUME IInv, NEW new, NEW j \in Job, new[j] = row[j]
  PROVE  LegalRow(new, j)
<1>1. row[j] \in RowType
  BY RowTypes
<1>2. row[j].state \in Active => ~row[j].dated
  BY DEF IInv, RowsInv, ReadyInv, Active
<1>3. QED
  BY <1>1, <1>2 DEF LegalRow, DONE, Gone, Absent

\* A row that is not deleted has its three fields.
LEMMA ThereIsARow ==
  ASSUME IInv, NEW j \in Job, row[j].state # Absent
  PROVE  /\ row[j] \in [state : States, key : Key \cup {NoKey}, dated : BOOLEAN]
         /\ \A s \in States, b \in BOOLEAN :
              /\ [row[j] EXCEPT !.state = s] \in RowType
              /\ [row[j] EXCEPT !.state = s].state = s
              /\ [row[j] EXCEPT !.state = s].key = row[j].key
              /\ [row[j] EXCEPT !.state = s].dated = row[j].dated
              /\ [row[j] EXCEPT !.state = s, !.dated = b] \in RowType
              /\ [row[j] EXCEPT !.state = s, !.dated = b].state = s
              /\ [row[j] EXCEPT !.state = s, !.dated = b].key = row[j].key
              /\ [row[j] EXCEPT !.state = s, !.dated = b].dated = b
         /\ row[j].state \in Active => row[j].dated = FALSE
<1>1. row[j] \in [state : States, key : Key \cup {NoKey}, dated : BOOLEAN]
  BY RowTypes DEF RowType
<1>2. row[j].state \in Active => row[j].dated = FALSE
  BY <1>1 DEF IInv, RowsInv, ReadyInv, Active
<1>3. QED
  BY <1>1, <1>2 DEF RowType

LEMMA ChangeOfOne ==
  ASSUME IInv, NEW j \in Job, NEW r,
         LegalRow([row EXCEPT ![j] = r], j)
  PROVE  Legal([row EXCEPT ![j] = r])
<1> DEFINE new == [row EXCEPT ![j] = r]
<1>1. row \in [Job -> RowType]
  BY RowTypes
<1>2. \A k \in Job : k # j => new[k] = row[k]
  BY <1>1
<1>3. new = [k \in Job |-> new[k]]
  BY <1>1
<1>4. LegalRow(new, j)
  OBVIOUS
<1> HIDE DEF new
<1>5. \A k \in Job : k # j => LegalRow(new, k)
  BY <1>2, SameRow
<1>6. Legal(new)
  BY <1>3, <1>4, <1>5 DEF Legal
<1>7. QED
  BY <1>6 DEF new

LEMMA StartKept ==
  ASSUME IInv, NEW j \in Job, Start(j)
  PROVE  IInv'
<1> DEFINE r == [row[j] EXCEPT !.state = STARTED]
           new == [row EXCEPT ![j] = r]
<1>1. row[j].state = PENDING /\ Change(Nobody, new) /\ failures' = failures
  BY DEF Start
<1>2. row \in [Job -> RowType]
  BY RowTypes
<1>3. /\ r \in RowType /\ r.state = STARTED /\ r.key = row[j].key /\ r.dated = FALSE
  BY <1>1, ThereIsARow DEF States, Active, PENDING, STARTED, Absent
<1> HIDE DEF r
<1>4. new[j] = r
  BY <1>2
<1> HIDE DEF new
<1>5. LegalRow(new, j)
  BY <1>1, <1>3, <1>4 DEF LegalRow, Gone, Active, PENDING, STARTED, FAILED, Absent, DONE,
     WAIT_DEPENDENCIES, CANCELLED
<1>6. Legal(new)
  BY <1>5, ChangeOfOne DEF new
<1>7. QED
  BY <1>1, <1>6, ChangeKept DEF IInv, TypeOK

LEMMA FailKept ==
  ASSUME IInv, NEW j \in Job, Fail(j)
  PROVE  IInv'
<1> DEFINE r == [row[j] EXCEPT !.state = FAILED]
           new == [row EXCEPT ![j] = r]
<1>1. row[j].state = STARTED /\ Change(Nobody, new) /\ failures < MaxFailures
      /\ failures' = failures + 1
  BY DEF Fail
<1>2. row \in [Job -> RowType] /\ failures' \in 0..MaxFailures
  <2>1. failures \in 0..MaxFailures /\ MaxFailures \in Nat
    BY DelayAssumption DEF IInv, TypeOK
  <2>2. QED
    BY <1>1, <2>1, RowTypes
<1>3. /\ r \in RowType /\ r.state = FAILED /\ r.key = row[j].key /\ r.dated = FALSE
  BY <1>1, ThereIsARow DEF States, Active, FAILED, STARTED, Absent
<1> HIDE DEF r
<1>4. new[j] = r
  BY <1>2
<1> HIDE DEF new
<1>5. LegalRow(new, j)
  BY <1>1, <1>3, <1>4 DEF LegalRow, Gone, Active, PENDING, STARTED, FAILED, Absent, DONE,
     WAIT_DEPENDENCIES, CANCELLED
<1>6. Legal(new)
  BY <1>5, ChangeOfOne DEF new
<1>7. QED
  BY <1>1, <1>2, <1>6, ChangeKept

LEMMA RequeueKept ==
  ASSUME IInv, NEW j \in Job, Requeue(j)
  PROVE  IInv'
<1> DEFINE ready == \A p \in dep[j] : row[p].state \in Gone
           r == NewRow(row[j].key, ready)
           new == [row EXCEPT ![j] = r]
<1>1. row[j].state = FAILED /\ Change(Nobody, new) /\ failures' = failures
  BY DEF Requeue, Gone
<1>2. row \in [Job -> RowType] /\ row[j].key \in Key \cup {NoKey}
  BY <1>1, RowTypes DEF FAILED, Absent
<1>3. /\ r \in RowType /\ r.key = row[j].key /\ r.dated = FALSE
      /\ r.state = IF ready THEN PENDING ELSE WAIT_DEPENDENCIES
  BY <1>2 DEF NewRow, RowType, States
<1>4. ~ready => dep[j] # {}
  OBVIOUS
<1> HIDE DEF r
<1>5. new[j] = r
  BY <1>2
<1>6. ready => \A p \in dep[j] : new[p].state \in Gone
  <2>1. \A p \in dep[j] : p \in Job
    BY RowTypes
  <2>2. QED
    BY <1>1, <1>2, <2>1 DEF Gone, FAILED, DONE, Absent
<1> HIDE DEF new
<1>7. LegalRow(new, j)
  BY <1>1, <1>3, <1>4, <1>5, <1>6 DEF LegalRow, Gone, Active, PENDING, STARTED, FAILED, Absent,
     DONE, WAIT_DEPENDENCIES, CANCELLED
<1>8. Legal(new)
  BY <1>7, ChangeOfOne DEF new
<1>9. QED
  BY <1>1, <1>8, ChangeKept DEF IInv, TypeOK

LEMMA AutovacuumKept ==
  ASSUME IInv, NEW j \in Job, Autovacuum(j)
  PROVE  IInv'
<1> DEFINE new == [row EXCEPT ![j] = NoRow]
<1>1. row[j].state # Absent /\ row[j].dated /\ Change(Nobody, new) /\ failures' = failures
  BY DEF Autovacuum
<1>2. row \in [Job -> RowType]
  BY RowTypes
<1>3. new[j] = NoRow /\ NoRow \in RowType /\ NoRow.state = Absent
  BY <1>2 DEF RowType, NoRow
<1> HIDE DEF new
<1>4. LegalRow(new, j)
  BY <1>1, <1>3 DEF LegalRow, Gone, Active, PENDING, STARTED, FAILED, Absent, DONE,
     WAIT_DEPENDENCIES, CANCELLED, ENQUEUED
<1>5. Legal(new)
  BY <1>4, ChangeOfOne DEF new
<1>6. QED
  BY <1>1, <1>5, ChangeKept DEF IInv, TypeOK

LEMMA FinishKept ==
  ASSUME IInv, NEW j \in Job, Finish(j)
  PROVE  IInv'
<1> DEFINE released == Released(j)
           new == [k \in Job |->
                     CASE k = j          -> [row[k] EXCEPT !.state = DONE, !.dated = TRUE]
                       [] k \in released -> [row[k] EXCEPT !.state = PENDING]
                       [] OTHER          -> row[k]]
<1>1. row[j].state = STARTED /\ Change(Nobody, new) /\ failures' = failures
  BY DEF Finish
<1>2. /\ row \in [Job -> RowType] /\ dep \in [Job -> SUBSET Delayable]
      /\ Delayable \subseteq Job
  BY RowTypes
<1>3. \A c \in released : /\ c \in Job /\ c # j /\ row[c].state = WAIT_DEPENDENCIES
                          /\ \A p \in dep[c] : p = j \/ row[p].state \in Gone
  BY <1>1 DEF Released, Gone, STARTED, WAIT_DEPENDENCIES
<1> HIDE DEF released
<1>4. new = [k \in Job |-> new[k]]
  OBVIOUS
<1>5. /\ new[j] \in RowType /\ new[j].state = DONE /\ new[j].key = row[j].key
  <2>1. new[j] = [row[j] EXCEPT !.state = DONE, !.dated = TRUE]
    BY <1>3
  <2> HIDE DEF new
  <2>2. row[j] \in [state : States, key : Key \cup {NoKey}, dated : BOOLEAN]
    BY <1>1, ThereIsARow DEF STARTED, Absent
  <2>3. QED
    BY <2>1, <2>2 DEF RowType, States
<1>6. \A c \in released : /\ new[c] \in RowType /\ new[c].state = PENDING
                          /\ new[c].key = row[c].key /\ new[c].dated = FALSE
  <2>1. \A c \in released : new[c] = [row[c] EXCEPT !.state = PENDING]
    BY <1>3
  <2> HIDE DEF new
  <2>2. \A c \in released :
          /\ row[c] \in [state : States, key : Key \cup {NoKey}, dated : BOOLEAN]
          /\ row[c].dated = FALSE
    BY <1>3, ThereIsARow DEF Active, WAIT_DEPENDENCIES, Absent
  <2>3. QED
    BY <2>1, <2>2 DEF RowType, States
<1>7. \A k \in Job : k # j /\ k \notin released => new[k] = row[k]
  OBVIOUS
<1> HIDE DEF new
<1>8. ASSUME NEW k \in Job
      PROVE  LegalRow(new, k)
  <2>1. CASE k = j
    BY <1>1, <1>5, <2>1 DEF LegalRow, Gone, Active, PENDING, STARTED, FAILED, Absent, DONE,
       WAIT_DEPENDENCIES, CANCELLED, ENQUEUED
  <2>2. CASE k \in released
    <3>1. ASSUME NEW p \in dep[k]
          PROVE  new[p].state \in Gone
      <4>1. p \in Job /\ (p = j \/ row[p].state \in Gone)
        BY <1>2, <1>3, <2>2
      <4>2. p \notin released \/ p = j
        BY <1>3, <4>1 DEF Gone, DONE, Absent, WAIT_DEPENDENCIES
      <4>3. QED
        BY <1>5, <1>7, <4>1, <4>2 DEF Gone
    <3>2. QED
      BY <1>3, <1>6, <2>2, <3>1 DEF LegalRow, Gone, Active, PENDING, STARTED, FAILED,
         Absent, DONE, WAIT_DEPENDENCIES, CANCELLED, ENQUEUED
  <2>3. CASE k # j /\ k \notin released
    BY <1>7, <2>3, SameRow
  <2>4. QED
    BY <2>1, <2>2, <2>3
<1>9. Legal(new)
  BY <1>4, <1>8 DEF Legal
<1>10. QED
  BY <1>1, <1>9, ChangeKept DEF IInv, TypeOK

LEMMA CommitCancelKept ==
  ASSUME IInv, NEW u \in User, CommitCancel(u)
  PROVE  IInv'
<1> DEFINE W == cancel[u].writes
           new == [k \in Job |->
                     IF k \in W
                     THEN [row[k] EXCEPT !.state = CANCELLED, !.dated = @ \/ k \in cancel[u].job]
                     ELSE row[k]]
<1>1. cancel[u].stale \cap W = {} /\ Change(u, new) /\ failures' = failures
  BY DEF CommitCancel
<1>2. W \subseteq Job /\ cancel[u].job \subseteq W
  BY RowTypes
<1>3. /\ \A j \in W : row[j].state \in {WAIT_DEPENDENCIES, PENDING, ENQUEUED, FAILED}
      /\ \A p \in cancel[u].job, c \in Job :
           dep[c] = {p} /\ row[c].state = WAIT_DEPENDENCIES => c \in W
  BY <1>1, <1>2 DEF IInv, RowsInv, CancelInv
<1>4. new = [k \in Job |-> new[k]]
  OBVIOUS
<1>5. \A k \in W : new[k] = [row[k] EXCEPT !.state = CANCELLED,
                                           !.dated = @ \/ k \in cancel[u].job]
  BY <1>2
<1>6. \A k \in Job \ W : new[k] = row[k]
  OBVIOUS
<1> HIDE DEF new, W
<1>7. \A k \in W : /\ new[k] \in RowType /\ new[k].state = CANCELLED
                   /\ new[k].key = row[k].key /\ (new[k].dated => k \in cancel[u].job)
  <2> SUFFICES ASSUME NEW k \in W
               PROVE  /\ new[k] \in RowType /\ new[k].state = CANCELLED
                      /\ new[k].key = row[k].key /\ (new[k].dated => k \in cancel[u].job)
    OBVIOUS
  <2>1. k \in Job /\ row[k].state # Absent /\ row[k].state \in Active
    BY <1>2, <1>3 DEF Active, Absent, WAIT_DEPENDENCIES, PENDING, ENQUEUED, FAILED
  <2> DEFINE b == row[k].dated \/ k \in cancel[u].job
  <2>2. b \in BOOLEAN /\ row[k].dated = FALSE
    BY <2>1, ThereIsARow
  <2>3. row[k] \in [state : States, key : Key \cup {NoKey}, dated : BOOLEAN]
    BY <2>1, ThereIsARow
  <2>4. new[k] = [row[k] EXCEPT !.state = CANCELLED, !.dated = b]
    BY <1>5, <2>3
  <2>5. b => k \in cancel[u].job
    BY <2>2
  <2> HIDE DEF b
  <2>6. QED
    BY <2>2, <2>3, <2>4, <2>5 DEF RowType, States
<1>8. ASSUME NEW k \in Job
      PROVE  LegalRow(new, k)
  <2>1. CASE k \in W
    <3>1. ASSUME k \in cancel[u].job, NEW c \in Job, dep[c] = {k}
          PROVE  new[c].state # WAIT_DEPENDENCIES
      BY <1>3, <1>6, <1>7, <3>1 DEF CANCELLED, WAIT_DEPENDENCIES
    <3>2. QED
      BY <1>3, <1>7, <2>1, <3>1 DEF LegalRow, Gone, Active, PENDING, STARTED, FAILED,
         Absent, DONE, WAIT_DEPENDENCIES, CANCELLED, ENQUEUED
  <2>2. CASE k \notin W
    BY <1>6, <2>2, SameRow
  <2>3. QED
    BY <2>1, <2>2
<1>9. Legal(new)
  BY <1>4, <1>8 DEF Legal
<1>10. QED
  BY <1>1, <1>9, ChangeKept DEF IInv, TypeOK

LEMMA AbortCancelKept ==
  ASSUME IInv, NEW u \in User, AbortCancel(u)
  PROVE  IInv'
<1>1. cancel' = [cancel EXCEPT ![u] = NoCancel]
      /\ UNCHANGED <<parts, graph, direct, txn, row, dep, failures>>
  BY DEF AbortCancel, building
<1>2. cancel \in [User -> [job : SUBSET Job, writes : SUBSET Job, stale : SUBSET Job]]
  BY RowTypes
<1>3. \A v \in User : cancel'[v] = NoCancel \/ cancel'[v] = cancel[v]
  BY <1>1, <1>2
<1>4. /\ cancel' \in [User -> [job : SUBSET Job, writes : SUBSET Job, stale : SUBSET Job]]
      /\ \A v \in User : cancel'[v].job \subseteq cancel'[v].writes
  BY <1>1, <1>2, <1>3, RowTypes DEF NoCancel
<1>5. TypeOK'
  BY <1>1, <1>4 DEF IInv, TypeOK, Parts
<1>6. RowsInv'
  <2>1. CancelInv'
    BY <1>1, <1>3 DEF IInv, RowsInv, CancelInv, NoCancel
  <2>2. QED
    BY <1>1, <2>1 DEF IInv, RowsInv, SnapshotInv, ReadyInv, StrandedInv, ExistingKeys, KeysIn,
       Ended
<1>7. QED
  BY <1>1, <1>5, <1>6, PartsUnmoved DEF IInv

------------------------------------------------------------------------------
(* What a user cancels                                                       *)

LEMMA SelectionsAreLists ==
  ASSUME NEW s \in Selections
  PROVE  Len(s) \in 1..2 /\ DOMAIN s = 1..Len(s) /\ \A i \in DOMAIN s : s[i] \in Job
<1>1. PICK n \in 1..2 : s \in [1..n -> Job]
  BY DEF Selections
<1>2. s \in Seq(Job) /\ Len(s) = n
  BY <1>1, IsASeq, LenProperties
<1>3. QED
  BY <1>1, <1>2

\* What is cancelled once the first n jobs of s are.
Cancelling(s, n, W) ==
  /\ W \subseteq Job
  /\ \A j \in W : row[j].state \in {WAIT_DEPENDENCIES, PENDING, ENQUEUED, FAILED}
  /\ \A i \in 1..n : s[i] \in W
  /\ \A i \in 1..n, c \in Job :
       dep[c] = {s[i]} /\ row[c].state = WAIT_DEPENDENCIES => c \in W

\* A selection is cancelled with all the waiting jobs that have no parent but one of
\* it, and nothing that runs or is over.
LEMMA WhatIsCancelled ==
  ASSUME NEW s \in Selections, \A i \in DOMAIN s : Cancellable(s[i])
  PROVE  Cancelling(s, Len(s), CancelledBy(s))
<1> DEFINE Cancelled(p, W) == p \in W \/ row[p].state \in {CANCELLED, Absent}
           Add(n, V) == V \cup {c \in Job : /\ s[n] \in dep[c]
                                            /\ row[c].state = WAIT_DEPENDENCIES
                                            /\ \A p \in dep[c] : Cancelled(p, V)}
           Step(n, W) == Add(n, W \cup {s[n]})
           D == SUBSET Job
           N == Len(s)
           none == {}
           G == [m \in Nat \X D |-> IF m[1] + 1 \in 1..N THEN Step(m[1] + 1, m[2]) ELSE m[2]]
           Eq(A) == A = [n \in 0..N |-> IF n = 0 THEN {} ELSE Step(n, A[n - 1])]
<1>1. N \in Nat /\ \A i \in 1..N : s[i] \in Job /\ Cancellable(s[i])
  BY SelectionsAreLists
<1>2. \A n \in 1..N, W \in D : Step(n, W) \in D
  BY <1>1
<1>3. ASSUME NEW n \in 1..N, NEW W \in D, Cancelling(s, n - 1, W)
      PROVE  Cancelling(s, n, Step(n, W))
  <2>1. /\ Step(n, W) \subseteq Job /\ W \subseteq Step(n, W) /\ s[n] \in Step(n, W)
        /\ \A j \in Step(n, W) : j \in W \/ j = s[n] \/ row[j].state = WAIT_DEPENDENCIES
        /\ \A c \in Job : dep[c] = {s[n]} /\ row[c].state = WAIT_DEPENDENCIES => c \in Step(n, W)
    BY <1>1
  <2> HIDE DEF Step
  <2>2. \A i \in 1..n : i \in 1..(n - 1) \/ i = n
    OBVIOUS
  <2>3. row[s[n]].state \in {WAIT_DEPENDENCIES, PENDING, ENQUEUED, FAILED}
    BY <1>1 DEF Cancellable
  <2>4. QED
    BY <1>3, <2>1, <2>2, <2>3 DEF Cancelling
<1> HIDE DEF Step
<1>4. none \in D /\ Cancelling(s, 0, none)
  BY DEF Cancelling
<1>5. /\ G \in [Nat \X D -> D]
      /\ \A m \in Nat, W \in D : m + 1 \in 1..N => G[<<m, W>>] = Step(m + 1, W)
  <2> HIDE DEF D, N
  <2>1. QED
    BY <1>2
<1>6. PICK A \in [0..N -> D] : RecursiveOn(A, none, G, N)
  <2> HIDE DEF D, G, N, none
  <2>1. QED
    BY <1>1, <1>4, <1>5, BoundedRecursion
<1>7. Eq(A)
  <2>1. \A n \in 0..N : n = 0 \/ (n - 1 \in Nat /\ n - 1 \in 0..N /\ n - 1 + 1 = n /\ n \in 1..N)
    BY <1>1
  <2> HIDE DEF D, N
  <2>2. \A n \in 0..N : n # 0 => G[<<n - 1, A[n - 1]>>] = Step(n, A[n - 1])
    BY <1>5, <1>6, <2>1
  <2> HIDE DEF G
  <2>3. QED
    BY <1>6, <2>2 DEF RecursiveOn
<1> DEFINE V == CHOOSE B : Eq(B)
<1>8. Eq(V)
  <2> HIDE DEF Eq
  <2>1. QED
    BY <1>7
<1>9. CancelledBy(s) = V[N]
  BY DEF CancelledBy, Step
<1> HIDE DEF V, N
<1>10. /\ V[0] = {}
       /\ \A n \in 1..N : V[n] = Step(n, V[n - 1])
  <2>1. 0 \in 0..N /\ \A n \in 1..N : n \in 0..N /\ n # 0
    BY <1>1
  <2>2. \A n \in 0..N : V[n] = IF n = 0 THEN {} ELSE Step(n, V[n - 1])
    BY <1>8
  <2>3. QED
    BY <2>1, <2>2
<1> DEFINE T == {n \in Nat : n <= N => V[n] \in D /\ Cancelling(s, n, V[n])}
<1>11. \A n \in Nat : n \in T
  <2>1. 0 \in T
    BY <1>4, <1>10
  <2>2. ASSUME NEW n \in Nat, n \in T
        PROVE  n + 1 \in T
    <3> SUFFICES ASSUME n + 1 <= N PROVE V[n + 1] \in D /\ Cancelling(s, n + 1, V[n + 1])
      OBVIOUS
    <3>1. n + 1 \in 1..N /\ n + 1 - 1 = n /\ n <= N
      BY <1>1
    <3>2. V[n] \in D /\ Cancelling(s, n, V[n])
      BY <2>2, <3>1
    <3> HIDE DEF D
    <3>3. V[n + 1] = Step(n + 1, V[n])
      BY <1>10, <3>1
    <3>4. QED
      BY <1>2, <1>3, <3>1, <3>2, <3>3
  <2> HIDE DEF T
  <2>3. QED
    BY <2>1, <2>2, InductionInSet
<1>12. Cancelling(s, N, V[N])
  BY <1>1, <1>11
<1>13. Cancelling(s, N, CancelledBy(s))
  BY <1>9, <1>12
<1>14. QED
  BY <1>13 DEF N

LEMMA OpenCancelKept ==
  ASSUME IInv, NEW u \in User, NEW s \in Selections, OpenCancel(u, s)
  PROVE  IInv'
<1> DEFINE W == CancelledBy(s)
           jobs == {s[i] : i \in DOMAIN s}
           opened == [job |-> jobs, writes |-> W, stale |-> {}]
<1>1. /\ cancel' = [cancel EXCEPT ![u] = opened]
      /\ \A i \in DOMAIN s : Cancellable(s[i])
      /\ UNCHANGED <<parts, graph, direct, txn, row, dep, failures>>
  BY DEF OpenCancel, building
<1>2. Cancelling(s, Len(s), W) /\ DOMAIN s = 1..Len(s)
  BY <1>1, WhatIsCancelled, SelectionsAreLists
<1>3. /\ W \subseteq Job /\ jobs \subseteq W
      /\ \A j \in W : row[j].state \in {WAIT_DEPENDENCIES, PENDING, ENQUEUED, FAILED}
      /\ \A p \in jobs, c \in Job :
           dep[c] = {p} /\ row[c].state = WAIT_DEPENDENCIES => c \in W
  <2> HIDE DEF W
  <2>1. QED
    BY <1>2 DEF Cancelling
<1> HIDE DEF W, jobs
<1>4. cancel \in [User -> [job : SUBSET Job, writes : SUBSET Job, stale : SUBSET Job]]
  BY RowTypes
<1>5. /\ opened \in [job : SUBSET Job, writes : SUBSET Job, stale : SUBSET Job]
      /\ opened.job = jobs /\ opened.writes = W /\ opened.stale = {}
  BY <1>3
<1> HIDE DEF opened
<1>6. \A v \in User : (v = u /\ cancel'[v] = opened) \/ cancel'[v] = cancel[v]
  BY <1>1, <1>4
<1>7. /\ cancel' \in [User -> [job : SUBSET Job, writes : SUBSET Job, stale : SUBSET Job]]
      /\ \A v \in User : cancel'[v].job \subseteq cancel'[v].writes
  BY <1>1, <1>3, <1>4, <1>5, <1>6, RowTypes
<1>8. TypeOK'
  BY <1>1, <1>7 DEF IInv, TypeOK, Parts
<1>9. CancelInv'
  <2> SUFFICES ASSUME NEW v \in User
               PROVE  /\ \A j \in cancel'[v].writes \ cancel'[v].stale :
                           row[j].state \in {WAIT_DEPENDENCIES, PENDING, ENQUEUED, FAILED}
                      /\ \A p \in cancel'[v].job \ cancel'[v].stale, c \in Job :
                           dep[c] = {p} /\ row[c].state = WAIT_DEPENDENCIES
                             => c \in cancel'[v].writes
    BY <1>1 DEF CancelInv
  <2>1. CASE cancel'[v] = opened
    BY <1>3, <1>5, <2>1
  <2>2. CASE cancel'[v] = cancel[v]
    BY <2>2 DEF IInv, RowsInv, CancelInv
  <2>3. QED
    BY <1>6, <2>1, <2>2
<1>10. RowsInv'
  BY <1>1, <1>9 DEF IInv, RowsInv, SnapshotInv, ReadyInv, StrandedInv, ExistingKeys, KeysIn,
     Ended
<1>11. QED
  BY <1>1, <1>8, <1>10, PartsUnmoved DEF IInv

LEMMA RowKept ==
  ASSUME IInv, RowStep
  PROVE  IInv'
BY StartKept, FinishKept, FailKept, RequeueKept, AutovacuumKept, CommitCancelKept,
   AbortCancelKept, OpenCancelKept DEF RowStep

------------------------------------------------------------------------------
(* Delaying                                                                  *)

TxnType == [at : {"build", "new", "open", "over"}, keys : SUBSET Key,
            gone : SUBSET (Key \cup {NoKey})]

LEMMA ExistingKeysType ==
  ASSUME IInv
  PROVE  ExistingKeys \subseteq Key
<1>1. \A j \in Job : row[j].state \in {WAIT_DEPENDENCIES, PENDING, ENQUEUED} =>
        row[j].key \in Key \cup {NoKey}
  BY RowTypes DEF WAIT_DEPENDENCIES, PENDING, ENQUEUED, Absent
<1>2. QED
  BY <1>1 DEF ExistingKeys, KeysIn

\* The rows stay; no transaction comes back, and one that is open has its snapshot.
LEMMA TransactionsKept ==
  ASSUME IInv, UNCHANGED <<row, dep, cancel>>,
         \A t \in {Program} \cup Single :
           /\ txn[t].at = "over" => txn'[t].at = "over"
           /\ txn'[t].at = "open" => txn'[t].keys \subseteq ExistingKeys \cup txn'[t].gone,
         txn' \in [{Program} \cup Single -> TxnType]
  PROVE  RowsInv'
<1>1. ExistingKeys' = ExistingKeys
  BY DEF ExistingKeys, KeysIn
<1>2. SnapshotInv'
  BY <1>1 DEF IInv, RowsInv, SnapshotInv
<1>3. ReadyInv' /\ CancelInv' /\ StrandedInv'
  BY DEF IInv, RowsInv, ReadyInv, CancelInv, StrandedInv, Ended
<1>4. QED
  BY <1>2, <1>3 DEF RowsInv

\* The objects of the program are forgotten.
LEMMA ForgetKept ==
  ASSUME Forget
  PROVE  /\ parts' \in [Compound -> {Unmade} \cup Compounds]
         /\ \A c \in Compound : Parts(c)' \subseteq Object \ {c}
         /\ graph' \in [Object -> SUBSET (Object \X Object)]
         /\ PartsInv'
<1>1. \A o \in Object : Parts(o)' = {}
  <2>1. ASSUME NEW c \in Compound PROVE c \notin Delayable /\ parts'[c].kind = "none"
    BY DelayAssumption DEF Forget, Unmade
  <2>2. QED
    BY <2>1 DEF Parts, Object
<1>2. Ranked([o \in Object |-> 0])'
  BY <1>1 DEF Ranked
<1>3. QED
  BY <1>1, <1>2 DEF Forget, PartsInv, Acyclic, Object

LEMMA BuiltKept ==
  ASSUME IInv, Built
  PROVE  IInv'
<1>1. /\ txn[Program].at = "build" /\ txn' = [txn EXCEPT ![Program].at = "new"]
      /\ UNCHANGED <<parts, graph, direct, row, dep, cancel, failures>>
  BY DEF Built, Building, building, database
<1>2. txn \in [{Program} \cup Single -> TxnType]
  BY RowTypes DEF TxnType
<1>3. /\ txn' \in [{Program} \cup Single -> TxnType]
      /\ txn'[Program].at = "new"
      /\ \A t \in Single : txn'[t] = txn[t]
  BY <1>1, <1>2, DelayAssumption DEF TxnType
<1>4. RowsInv'
  BY <1>1, <1>2, <1>3, TransactionsKept DEF IInv, RowsInv, SnapshotInv
<1>5. TypeOK'
  BY <1>1, <1>3 DEF IInv, TypeOK, TxnType, Parts
<1>6. QED
  BY <1>1, <1>4, <1>5, PartsUnmoved DEF IInv

LEMMA BeginKept ==
  ASSUME IInv, NEW t \in DOMAIN txn, Begin(t)
  PROVE  IInv'
<1>1. /\ txn[t].at = "new"
      /\ txn' = [txn EXCEPT ![t] = [at |-> "open", keys |-> ExistingKeys, gone |-> {}]]
      /\ UNCHANGED <<parts, graph, direct, row, dep, cancel, failures>>
  BY DEF Begin, building, database
<1>2. txn \in [{Program} \cup Single -> TxnType]
  BY RowTypes DEF TxnType
<1>3. /\ txn' \in [{Program} \cup Single -> TxnType]
      /\ txn'[t] = [at |-> "open", keys |-> ExistingKeys, gone |-> {}]
      /\ \A u \in {Program} \cup Single : u # t => txn'[u] = txn[u]
  BY <1>1, <1>2, ExistingKeysType DEF TxnType
<1>4. RowsInv'
  BY <1>1, <1>2, <1>3, TransactionsKept DEF IInv, RowsInv, SnapshotInv
<1>5. TypeOK'
  BY <1>1, <1>3 DEF IInv, TypeOK, TxnType, Parts
<1>6. QED
  BY <1>1, <1>4, <1>5, PartsUnmoved DEF IInv

\* What the end of a transaction does to the transactions.
LEMMA OverKept ==
  ASSUME IInv, NEW t \in {Program} \cup Single, NEW refused, Over(t, refused),
         refused \subseteq Key \cup {NoKey}
  PROVE  /\ txn' \in [{Program} \cup Single -> TxnType]
         /\ txn'[t].at = "over" /\ txn'[t].keys = refused \ {NoKey}
         /\ \A u \in {Program} \cup Single : u # t => txn'[u] = txn[u]
<1>1. txn \in [{Program} \cup Single -> TxnType]
  BY RowTypes DEF TxnType
<1>2. QED
  BY <1>1 DEF Over, TxnType

LEMMA RunWithoutDelayKept ==
  ASSUME IInv, NEW s \in Single, RunWithoutDelay(s)
  PROVE  IInv'
<1>1. /\ txn[s].at = "open"
      /\ txn' = [txn EXCEPT ![s] = [at |-> "new", keys |-> {}, gone |-> {}]]
      /\ UNCHANGED <<parts, graph, direct, row, dep, cancel, failures>>
  BY DEF RunWithoutDelay, building, database
<1>2. txn \in [{Program} \cup Single -> TxnType]
  BY RowTypes DEF TxnType
<1>3. /\ txn' \in [{Program} \cup Single -> TxnType]
      /\ txn'[s].at = "new"
      /\ \A u \in {Program} \cup Single : u # s => txn'[u] = txn[u]
  BY <1>1, <1>2 DEF TxnType
<1>4. RowsInv'
  BY <1>1, <1>2, <1>3, TransactionsKept DEF IInv, RowsInv, SnapshotInv
<1>5. TypeOK'
  BY <1>1, <1>3 DEF IInv, TypeOK, TxnType, Parts
<1>6. QED
  BY <1>1, <1>4, <1>5, PartsUnmoved DEF IInv

LEMMA DelayDirectKept ==
  ASSUME IInv, NEW o \in Object, DelayDirect(o)
  PROVE  IInv'
<1> DEFINE V == Vertices(o)
           E == Edges(o)
<1>1. /\ direct' = [all |-> V, edges |-> E, ran |-> {}, queue |-> Roots(V, E)]
      /\ Over(Program, {}) /\ Forget
      /\ UNCHANGED <<row, dep, cancel, failures>>
  BY DEF DelayDirect, database
<1>2. V \subseteq Delayable /\ E \subseteq Delayable \X Delayable
  BY EdgesType DEF IInv, PartsInv
<1> HIDE DEF V, E
<1>3. /\ txn' \in [{Program} \cup Single -> TxnType]
      /\ txn'[Program].at = "over"
      /\ \A u \in {Program} \cup Single : u # Program => txn'[u] = txn[u]
  BY <1>1, OverKept
<1>4. RowsInv'
  BY <1>1, <1>3, TransactionsKept, RowTypes DEF IInv, RowsInv, SnapshotInv
<1>5. /\ direct' \in [all : SUBSET Delayable, edges : SUBSET (Delayable \X Delayable),
                      queue : SUBSET Delayable, ran : SUBSET Delayable]
      /\ direct'.queue \cup direct'.ran \subseteq direct'.all
  BY <1>1, <1>2 DEF Roots
<1>6. TypeOK'
  BY <1>1, <1>3, <1>5, ForgetKept DEF IInv, TypeOK, TxnType
<1>7. QED
  BY <1>1, <1>4, <1>6, ForgetKept DEF IInv

LEMMA ExecuteKept ==
  ASSUME IInv, ExecuteRaises \/ \E v \in Delayable : ExecuteNext(v)
  PROVE  IInv'
<1>0. /\ direct \in [all : SUBSET Delayable, edges : SUBSET (Delayable \X Delayable),
                     queue : SUBSET Delayable, ran : SUBSET Delayable]
      /\ direct.queue \cup direct.ran \subseteq direct.all
  BY DEF IInv, TypeOK
<1>1. UNCHANGED <<parts, graph, txn, row, dep, cancel, failures>>
  BY DEF ExecuteRaises, ExecuteNext, building, database
<1>2. /\ direct' \in [all : SUBSET Delayable, edges : SUBSET (Delayable \X Delayable),
                      queue : SUBSET Delayable, ran : SUBSET Delayable]
      /\ direct'.queue \cup direct'.ran \subseteq direct'.all
  <2>1. CASE ExecuteRaises
    BY <2>1 DEF ExecuteRaises, Idle
  <2>2. ASSUME NEW v \in Delayable, ExecuteNext(v)
        PROVE  /\ direct' \in [all : SUBSET Delayable, edges : SUBSET (Delayable \X Delayable),
                               queue : SUBSET Delayable, ran : SUBSET Delayable]
               /\ direct'.queue \cup direct'.ran \subseteq direct'.all
    BY <1>0, <2>2 DEF ExecuteNext
  <2>3. QED
    BY <2>1, <2>2
<1>3. TypeOK'
  BY <1>1, <1>2 DEF IInv, TypeOK, Parts
<1>4. QED
  BY <1>1, <1>3, RowsUnmoved, PartsUnmoved DEF IInv

LEMMA DelaySingleKept ==
  ASSUME IInv, NEW s \in Single, NEW k \in Key, DelaySingle(s, k)
  PROVE  IInv'
<1> DEFINE r == IF k \in txn[s].keys THEN NoRow ELSE NewRow(k, TRUE)
<1>1. /\ txn[s].at = "open" /\ row' = [row EXCEPT ![s] = r]
      /\ Over(s, {k} \cap txn[s].keys)
      /\ UNCHANGED <<parts, graph, direct, dep, cancel, failures>>
  BY DEF DelaySingle, EnqueueJob, building
<1>2. /\ row \in [Job -> RowType] /\ s \in Job /\ row[s] = NoRow /\ dep[s] = {}
      /\ row[s].state = Absent
  BY <1>1, RowTypes DEF IInv, RowsInv, SnapshotInv, Job, NoRow
<1>3. r \in RowType /\ r.state \in {Absent, PENDING} /\ (r = NoRow \/ r.dated = FALSE)
  BY DEF NewRow, RowType, States, NoRow
<1> HIDE DEF r
<1>4. row' \in [Job -> RowType] /\ row'[s] = r /\ \A j \in Job : j # s => row'[j] = row[j]
  BY <1>1, <1>2, <1>3
<1>5. /\ txn' \in [{Program} \cup Single -> TxnType]
      /\ txn'[s].at = "over"
      /\ \A u \in {Program} \cup Single : u # s => txn'[u] = txn[u]
  BY <1>1, OverKept
<1>6. ExistingKeys \subseteq ExistingKeys'
  BY <1>2, <1>4 DEF ExistingKeys, KeysIn, Absent, WAIT_DEPENDENCIES, PENDING, ENQUEUED
<1>7. SnapshotInv'
  <2>1. txn'[Program].at # "over" => \A d \in Delayable : row'[d] = NoRow /\ dep'[d] = {}
    BY <1>1, <1>4, <1>5, DelayAssumption DEF IInv, RowsInv, SnapshotInv, Job
  <2>2. \A t \in Single : dep'[t] = {} /\ (txn'[t].at # "over" => row'[t] = NoRow)
    BY <1>1, <1>4, <1>5 DEF IInv, RowsInv, SnapshotInv, Job
  <2>3. ASSUME NEW t \in DOMAIN txn', txn'[t].at = "open"
        PROVE  txn'[t].keys \subseteq ExistingKeys' \cup txn'[t].gone
    <3>1. t # s /\ txn'[t] = txn[t] /\ t \in DOMAIN txn
      BY <1>5, <2>3, RowTypes
    <3>2. QED
      BY <1>6, <2>3, <3>1 DEF IInv, RowsInv, SnapshotInv
  <2>4. QED
    BY <2>1, <2>2, <2>3 DEF SnapshotInv
<1>8. \A p \in Job : row[p].state \in Gone => p = s \/ row'[p].state \in Gone
  BY <1>4
<1>9. \A j \in Job : s \notin dep[j]
  BY RowTypes, DelayAssumption
<1>10. ReadyInv'
  BY <1>1, <1>2, <1>3, <1>4, <1>9, RowTypes DEF IInv, RowsInv, ReadyInv, Ended, Absent, PENDING,
     STARTED, FAILED, ENQUEUED, WAIT_DEPENDENCIES, NoRow
<1>11. StrandedInv'
  BY <1>1, <1>3, <1>4, <1>9, RowTypes DEF IInv, RowsInv, StrandedInv, WAIT_DEPENDENCIES, Absent,
     PENDING
<1>12. CancelInv'
  <2>1. \A u \in User : s \notin cancel[u].writes \ cancel[u].stale
    BY <1>2 DEF IInv, RowsInv, CancelInv, Absent, WAIT_DEPENDENCIES, PENDING, ENQUEUED, FAILED
  <2>2. ASSUME NEW u \in User
        PROVE  /\ \A j \in cancel[u].writes \ cancel[u].stale :
                    row'[j].state \in {WAIT_DEPENDENCIES, PENDING, ENQUEUED, FAILED}
               /\ \A p \in cancel[u].job \ cancel[u].stale, c \in Job :
                    dep[c] = {p} /\ row'[c].state = WAIT_DEPENDENCIES => c \in cancel[u].writes
    <3>1. \A j \in cancel[u].writes \ cancel[u].stale : row'[j] = row[j]
      BY <1>4, <2>1, RowTypes
    <3>2. \A c \in Job : c # s => row'[c] = row[c]
      BY <1>4
    <3>3. QED
      BY <1>2, <3>1, <3>2 DEF IInv, RowsInv, CancelInv
  <2>3. QED
    BY <1>1, <2>2 DEF CancelInv
<1>13. TypeOK'
  BY <1>1, <1>4, <1>5 DEF IInv, TypeOK, TxnType, RowType, Parts
<1>14. QED
  BY <1>1, <1>7, <1>10, <1>11, <1>12, <1>13, PartsUnmoved DEF IInv, RowsInv

LEMMA DelayKept ==
  ASSUME IInv, NEW o \in Object, Delay(o)
  PROVE  IInv'
<1> DEFINE V == Vertices(o)
           E == Edges(o)
<1>1. PICK keys \in [V -> Key \cup {NoKey}], stored \in {{}, V} :
        /\ row' = [j \in Job |-> IF j \in stored
                                 THEN NewRow(keys[j], ParentsIn(E, j) = {}) ELSE row[j]]
        /\ dep' = [j \in Job |-> IF j \in stored THEN ParentsIn(E, j) ELSE dep[j]]
        /\ Over(Program, {keys[v] : v \in V \ stored})
  BY DEF Delay
<1>2. /\ txn[Program].at = "open" /\ Forget /\ UNCHANGED <<direct, cancel, failures>>
  BY DEF Delay
<1>3. V \subseteq Delayable /\ E \subseteq Delayable \X Delayable
  BY EdgesType DEF IInv, PartsInv
<1> HIDE DEF V, E
<1>4. \A j \in Job : ParentsIn(E, j) \subseteq Delayable
  BY <1>3 DEF ParentsIn
<1>5. stored \subseteq Delayable /\ stored \subseteq V /\ Delayable \subseteq Job
  BY <1>3 DEF Job
<1>6. /\ row \in [Job -> RowType] /\ dep \in [Job -> SUBSET Delayable]
      /\ \A d \in Delayable : row[d] = NoRow /\ dep[d] = {} /\ row[d].state = Absent
      /\ \A j \in Job : dep[j] = {}
  BY <1>2, RowTypes DEF IInv, RowsInv, SnapshotInv, Job, NoRow
<1>7. \A j \in stored : /\ row'[j] \in RowType
                        /\ row'[j].dated = FALSE /\ dep'[j] = ParentsIn(E, j)
                        /\ row'[j].state = IF dep'[j] = {} THEN PENDING ELSE WAIT_DEPENDENCIES
  BY <1>1, <1>5 DEF NewRow, RowType, States
<1>8. \A j \in Job \ stored : row'[j] = row[j] /\ dep'[j] = dep[j]
  BY <1>1
<1>9. dep' \in [Job -> SUBSET Delayable] /\ row' \in [Job -> RowType]
  <2>1. dep' = [j \in Job |-> dep'[j]] /\ row' = [j \in Job |-> row'[j]]
    BY <1>1
  <2>2. \A j \in Job : dep'[j] \subseteq Delayable /\ row'[j] \in RowType
    BY <1>4, <1>6, <1>7, <1>8
  <2>3. QED
    BY <2>1, <2>2
<1>10. /\ txn' \in [{Program} \cup Single -> TxnType]
       /\ txn'[Program].at = "over"
       /\ \A u \in {Program} \cup Single : u # Program => txn'[u] = txn[u]
  <2> DEFINE refused == {keys[v] : v \in V \ stored}
  <2>1. refused \subseteq Key \cup {NoKey} /\ Over(Program, refused)
    BY <1>1
  <2> HIDE DEF refused
  <2>2. QED
    BY <2>1, OverKept
<1>11. ExistingKeys \subseteq ExistingKeys'
  BY <1>5, <1>6, <1>8 DEF ExistingKeys, KeysIn, Absent, WAIT_DEPENDENCIES, PENDING, ENQUEUED
<1>12. \A s \in Single : s \in Job /\ s \notin stored
  BY <1>5, DelayAssumption DEF Job
<1>13. SnapshotInv'
  <2>1. \A t \in Single : dep'[t] = {} /\ (txn'[t].at # "over" => row'[t] = NoRow)
    BY <1>8, <1>10, <1>12, DelayAssumption DEF IInv, RowsInv, SnapshotInv
  <2>2. ASSUME NEW t \in DOMAIN txn', txn'[t].at = "open"
        PROVE  txn'[t].keys \subseteq ExistingKeys' \cup txn'[t].gone
    <3>1. t # Program /\ txn'[t] = txn[t] /\ t \in DOMAIN txn
      BY <1>10, <2>2, RowTypes
    <3>2. QED
      BY <1>11, <2>2, <3>1 DEF IInv, RowsInv, SnapshotInv
  <2>3. QED
    BY <1>10, <2>1, <2>2 DEF SnapshotInv
<1>14. ReadyInv'
  BY <1>6, <1>7, <1>8 DEF IInv, RowsInv, ReadyInv, Absent, PENDING, STARTED, FAILED, ENQUEUED,
     WAIT_DEPENDENCIES
<1>15. StrandedInv'
  <2>1. \A p \in Delayable : row'[p].state # CANCELLED
    BY <1>5, <1>6, <1>7, <1>8 DEF Absent, PENDING, WAIT_DEPENDENCIES, CANCELLED
  <2>2. \A j \in Job \ stored : row[j].state # WAIT_DEPENDENCIES
    BY <1>6 DEF IInv, RowsInv, StrandedInv
  <2>3. QED
    BY <1>7, <1>8, <1>9, <2>1, <2>2 DEF StrandedInv, PENDING, WAIT_DEPENDENCIES
<1>16. CancelInv'
  <2>1. \A u \in User : \A p \in cancel[u].writes \ cancel[u].stale : p \in Job \ Delayable
    BY <1>6, RowTypes DEF IInv, RowsInv, CancelInv, Absent, WAIT_DEPENDENCIES, PENDING, ENQUEUED,
       FAILED
  <2>2. \A u \in User : \A p \in cancel[u].job \ cancel[u].stale : p \notin Delayable
    BY <2>1, RowTypes
  <2>3. \A c \in Job : \A p : dep'[c] = {p} => p \in Delayable
    BY <1>9
  <2>4. \A u \in User : \A p \in cancel[u].writes \ cancel[u].stale : row'[p] = row[p]
    BY <1>5, <1>8, <2>1
  <2>5. QED
    BY <1>2, <2>2, <2>3, <2>4 DEF IInv, RowsInv, CancelInv
<1>17. TypeOK'
  BY <1>2, <1>9, <1>10, ForgetKept DEF IInv, TypeOK, TxnType, RowType
<1>18. QED
  BY <1>2, <1>13, <1>14, <1>15, <1>16, <1>17, ForgetKept DEF IInv, RowsInv

LEMMA DelayStepKept ==
  ASSUME IInv, DelayStep
  PROVE  IInv'
BY BuiltKept, BeginKept, DelayKept, DelayDirectKept, RunWithoutDelayKept, DelaySingleKept,
   ExecuteKept DEF DelayStep, AutoDelay, WithDelay

LEMMA Induct ==
  ASSUME IInv, [Next]_vars
  PROVE  IInv'
<1>1. CASE UNCHANGED vars
  BY <1>1, RowsUnmoved, PartsUnmoved DEF vars, IInv, TypeOK, Parts
<1>2. QED
  BY <1>1, BuildKept, DelayStepKept, RowKept DEF Next

LEMMA Invariance == Spec => []IInv
<1>1. QED
  BY TypeInit, Induct, PTL DEF Spec

------------------------------------------------------------------------------
(* The theorems                                                              *)

\* Every variable keeps its type, and no chain or group is a part of itself.
THEOREM TypeCorrect == Spec => []TypeOK
<1>1. IInv => TypeOK
  BY DEF IInv
<1>2. QED
  BY <1>1, Invariance, PTL

LEMMA KeysFromSnapshot ==
  ASSUME IInv, NEW t \in {Program} \cup Single, txn[t].at = "open",
         NEW refused \in SUBSET (txn[t].keys \cup {NoKey}), Over(t, refused)
  PROVE  txn'[t].keys \subseteq
           KeysIn({WAIT_DEPENDENCIES, PENDING, ENQUEUED}) \cup txn[t].gone
<1>1. txn[t].keys \subseteq ExistingKeys \cup txn[t].gone /\ txn[t].keys \subseteq Key
  BY RowTypes DEF IInv, RowsInv, SnapshotInv
<1>2. txn'[t].keys = refused \ {NoKey}
  BY <1>1, OverKept
<1>3. QED
  BY <1>1, <1>2 DEF ExistingKeys

\* A job that is not stored because of its identity key leaves a job with that key
\* that nobody had begun to run when the transaction took its snapshot: what delay(),
\* enqueue and job_record_with_same_identity_key rest on.
THEOREM RefusedWorkIsKept == Spec => KeyedWorkIsKept
<1> DEFINE A(t) == txn[t].at = "open" /\ txn'[t].at = "over" =>
                     txn'[t].keys \subseteq
                       KeysIn({WAIT_DEPENDENCIES, PENDING, ENQUEUED}) \cup txn[t].gone
<1>1. ASSUME IInv, [Next]_vars, NEW t \in DOMAIN txn, txn[t].at = "open", txn'[t].at = "over"
      PROVE  txn'[t].keys \subseteq
               KeysIn({WAIT_DEPENDENCIES, PENDING, ENQUEUED}) \cup txn[t].gone
  <2>0. t \in {Program} \cup Single /\ txn \in [{Program} \cup Single -> TxnType]
    BY <1>1, RowTypes DEF TxnType
  <2>1. ASSUME NEW s \in {Program} \cup Single,
               NEW refused \in SUBSET (txn[s].keys \cup {NoKey}),
               txn[s].at = "open", Over(s, refused)
        PROVE  txn'[t].keys \subseteq
                 KeysIn({WAIT_DEPENDENCIES, PENDING, ENQUEUED}) \cup txn[t].gone
    <3>1. CASE t = s
      BY <1>1, <2>1, <3>1, KeysFromSnapshot
    <3>2. CASE t # s
      BY <1>1, <2>0, <2>1, <3>2 DEF Over
    <3>3. QED
      BY <3>1, <3>2
  <2>2. ASSUME NEW o \in Object, Delay(o)
        PROVE  txn'[t].keys \subseteq
                 KeysIn({WAIT_DEPENDENCIES, PENDING, ENQUEUED}) \cup txn[t].gone
    <3> DEFINE V == Vertices(o)
    <3>1. PICK keys \in [V -> Key \cup {NoKey}] :
            LET stored == IF AllExist(Program, V, keys) THEN {} ELSE V
            IN  Over(Program, {keys[v] : v \in V \ stored})
      BY <2>2 DEF Delay
    <3> DEFINE stored == IF AllExist(Program, V, keys) THEN {} ELSE V
               refused == {keys[v] : v \in V \ stored}
    <3>2. Over(Program, refused) /\ txn[Program].at = "open"
      BY <2>2, <3>1 DEF Delay
    <3>3. refused \in SUBSET (txn[Program].keys \cup {NoKey})
      <4> HIDE DEF V
      <4>1. CASE AllExist(Program, V, keys)
        BY <4>1 DEF AllExist
      <4>2. CASE ~AllExist(Program, V, keys)
        BY <4>2
      <4>3. QED
        BY <4>1, <4>2
    <3> HIDE DEF refused
    <3>4. QED
      BY <2>1, <3>2, <3>3
  <2>3. ASSUME NEW o \in Object, DelayDirect(o)
        PROVE  txn'[t].keys \subseteq
                 KeysIn({WAIT_DEPENDENCIES, PENDING, ENQUEUED}) \cup txn[t].gone
    BY <2>1, <2>3 DEF DelayDirect
  <2>4. ASSUME NEW s \in Single, NEW k \in Key, DelaySingle(s, k)
        PROVE  txn'[t].keys \subseteq
                 KeysIn({WAIT_DEPENDENCIES, PENDING, ENQUEUED}) \cup txn[t].gone
    <3> DEFINE refused == {k} \cap txn[s].keys
    <3>1. refused \in SUBSET (txn[s].keys \cup {NoKey})
      OBVIOUS
    <3>2. Over(s, refused) /\ txn[s].at = "open"
      BY <2>4 DEF DelaySingle, EnqueueJob
    <3> HIDE DEF refused
    <3>3. QED
      BY <2>1, <3>1, <3>2
  <2>5. ASSUME NEW s \in Single, RunWithoutDelay(s)
        PROVE  txn'[t].at # "over"
    BY <1>1, <2>0, <2>5 DEF RunWithoutDelay
  <2>6. ASSUME Built \/ \E s \in DOMAIN txn : Begin(s)
        PROVE  txn'[t].at # "over"
    BY <1>1, <2>0, <2>6 DEF Built, Begin, TxnType
  <2>7. ASSUME BuildStep \/ UNCHANGED vars \/ ExecuteRaises \/ \E v \in Delayable : ExecuteNext(v)
        PROVE  txn' = txn
    BY <2>7 DEF BuildStep, MakeCompound, Split, CreateTestJobs, OnDone, vars, ExecuteRaises,
       ExecuteNext
  <2>8. ASSUME RowStep
        PROVE  txn'[t].at # "over"
    <3>1. ASSUME NEW me, NEW new, Change(me, new)
          PROVE  txn'[t].at # "over"
      BY <1>1, <2>0, <3>1 DEF Change, TxnType
    <3>2. ASSUME txn' = txn
          PROVE  txn'[t].at # "over"
      BY <1>1, <3>2
    <3>3. ASSUME NEW j \in Job, Start(j) \/ Finish(j) \/ Fail(j) \/ Requeue(j) \/ Autovacuum(j)
          PROVE  txn'[t].at # "over"
      BY <3>1, <3>3 DEF Start, Finish, Fail, Requeue, Autovacuum
    <3>4. ASSUME NEW u \in User, NEW s \in Selections,
                 CommitCancel(u) \/ AbortCancel(u) \/ OpenCancel(u, s)
          PROVE  txn'[t].at # "over"
      BY <3>1, <3>2, <3>4 DEF CommitCancel, AbortCancel, OpenCancel
    <3>5. ASSUME NEW u \in User, CommitCancel(u) \/ AbortCancel(u)
          PROVE  txn'[t].at # "over"
      BY <3>1, <3>2, <3>5 DEF CommitCancel, AbortCancel
    <3>6. QED
      BY <2>8, <3>3, <3>4, <3>5 DEF RowStep
  <2>9. QED
    BY <1>1, <2>2, <2>3, <2>4, <2>5, <2>6, <2>7, <2>8 DEF Next, DelayStep, AutoDelay, WithDelay
<1>2. IInv /\ [Next]_vars => [\A t \in DOMAIN txn : A(t)]_vars
  BY <1>1
<1> HIDE DEF A
<1>3. Spec => [][\A t \in DOMAIN txn : A(t)]_vars
  BY <1>2, Invariance, PTL DEF Spec
<1>4. QED
  BY <1>3 DEF KeyedWorkIsKept, A

\* A job that waits for cancelled parents alone has two of them or more, or one that
\* was cancelled along with its own parents: button_cancelled with its SQL, two users
\* at a time, and jobs that finish and are removed meanwhile.
THEOREM StrandedHaveMoreParents == Spec => []OnlyGrandchildrenStranded
<1>1. IInv => OnlyGrandchildrenStranded
  <2> SUFFICES ASSUME IInv, NEW j \in Job, Stranded(j), \A p \in dep[j] : row[p].dated
               PROVE  Cardinality(dep[j]) > 1
    BY DEF OnlyGrandchildrenStranded
  <2>1. /\ dep[j] # {} /\ \A p \in dep[j] : row[p].state = CANCELLED
        /\ \A p \in dep[j] : dep[j] # {p}
    BY DEF Stranded, IInv, RowsInv, StrandedInv
  <2>2. IsFiniteSet(dep[j]) /\ Cardinality(dep[j]) \in Nat
    BY RowTypes, DelayAssumption, FS_Subset, FS_CardinalityType
  <2>3. Cardinality(dep[j]) # 0
    BY <2>1, <2>2, FS_EmptySet
  <2>4. Cardinality(dep[j]) # 1
    BY <2>1, <2>2, FS_Singleton
  <2>5. QED
    BY <2>2, <2>3, <2>4
<1>2. QED
  BY <1>1, Invariance, PTL

LEMMA DirectSteps ==
  ASSUME [Next]_vars
  PROVE  \/ UNCHANGED direct \/ ExecuteRaises \/ \E v \in Delayable : ExecuteNext(v)
         \/ \E o \in Object : DelayDirect(o)
<1>1. BuildStep \/ RowStep \/ UNCHANGED vars => UNCHANGED direct
  BY DEF BuildStep, MakeCompound, Split, CreateTestJobs, OnDone, vars, RowStep, Start, Finish,
     Fail, Requeue, Autovacuum, CommitCancel, AbortCancel, OpenCancel, Change
<1>2. ASSUME DelayStep
      PROVE  \/ UNCHANGED direct \/ ExecuteRaises \/ \E v \in Delayable : ExecuteNext(v)
             \/ \E o \in Object : DelayDirect(o)
  BY <1>2 DEF DelayStep, Built, Begin, Delay, AutoDelay, WithDelay, RunWithoutDelay, DelaySingle
<1>3. QED
  BY <1>1, <1>2 DEF Next

LEMMA DequeKept ==
  ASSUME IInv, DequeInv, [Next]_vars
  PROVE  DequeInv'
<1>1. CASE UNCHANGED direct
  BY <1>1 DEF DequeInv
<1>2. ASSUME NEW o \in Object, DelayDirect(o)
      PROVE  DequeInv'
  <2> DEFINE V == Vertices(o)
             E == Edges(o)
  <2>1. direct' = [all |-> V, edges |-> E, ran |-> {}, queue |-> Roots(V, E)]
    BY <1>2 DEF DelayDirect
  <2> HIDE DEF V, E
  <2>2. QED
    BY <2>1 DEF DequeInv, Roots, ParentsIn
<1>3. CASE ExecuteRaises
  BY <1>3 DEF ExecuteRaises, Idle, DequeInv
<1>4. ASSUME NEW v \in Delayable, ExecuteNext(v)
      PROVE  DequeInv'
  <2> DEFINE Parents(n) == ParentsIn(direct.edges, n)
             ran == direct.ran \cup {v}
             ready == {n \in direct.all : v \in Parents(n) /\ Parents(n) \subseteq ran}
             queue == (direct.queue \ {v}) \cup ready
  <2>1. /\ v \in direct.queue
        /\ direct'.ran = ran /\ direct'.queue = queue
        /\ direct'.all = direct.all /\ direct'.edges = direct.edges
    BY <1>4 DEF ExecuteNext, IInv, TypeOK
  <2>2. /\ direct.queue \cap direct.ran = {}
        /\ \A u \in direct.queue \cup direct.ran : Parents(u) \subseteq direct.ran
        /\ \A u \in direct.all \ (direct.queue \cup direct.ran) : ~(Parents(u) \subseteq direct.ran)
    BY DEF DequeInv
  <2> HIDE DEF Parents
  <2>3. queue \cap ran = {}
    BY <2>1, <2>2
  <2>4. \A u \in queue \cup ran : Parents(u) \subseteq ran
    BY <2>1, <2>2
  <2>5. \A u \in direct.all \ (queue \cup ran) : ~(Parents(u) \subseteq ran)
    BY <2>1, <2>2
  <2> HIDE DEF queue, ran
  <2>6. QED
    BY <2>1, <2>3, <2>4, <2>5 DEF DequeInv, Parents
<1>5. QED
  BY <1>1, <1>2, <1>3, <1>4, DirectSteps

\* The edges make no cycle: the jobs have ranks that grow along them.
Sortable ==
  \E r \in [Delayable -> Nat] :
    \A e \in direct.edges : e[1] \in direct.all /\ r[e[1]] < r[e[2]]

\* What has run ran after its parents.
ParentsRan == \A e \in direct.edges : e[2] \in direct.ran => e[1] \in direct.ran

LEMMA ParentsRunFirst ==
  ASSUME IInv, DequeInv
  PROVE  ParentsRan
<1>1. QED
  BY DEF DequeInv, ParentsIn, ParentsRan

LEMMA DequeRunsAll ==
  ASSUME IInv, DequeInv, Sortable
  PROVE  DirectRunsAll
<1>1. /\ direct \in [all : SUBSET Delayable, edges : SUBSET (Delayable \X Delayable),
                     queue : SUBSET Delayable, ran : SUBSET Delayable]
      /\ direct.queue \cup direct.ran \subseteq direct.all
  BY DEF IInv, TypeOK
<1>2. \A e \in direct.edges : e[2] \in direct.ran => e[1] \in direct.ran
  BY ParentsRunFirst DEF ParentsRan
<1>3. ASSUME direct.queue = {}, direct.ran # direct.all
      PROVE  FALSE
  <2>1. PICK r \in [Delayable -> Nat] :
          \A e \in direct.edges : e[1] \in direct.all /\ r[e[1]] < r[e[2]]
    BY DEF Sortable
  <2> DEFINE late == direct.all \ direct.ran
             ranks == {r[v] : v \in late}
  <2>2. ranks \in SUBSET Nat /\ ranks # {}
    BY <1>1, <1>3
  <2>3. PICK n \in ranks : \A m \in ranks : n <= m
    <3> HIDE DEF ranks
    <3>1. QED
      BY <2>2, LeastNumber
  <2>4. PICK v \in late : n = r[v] /\ r[v] \in Nat
    BY <1>1, <2>3
  <2>5. PICK e \in direct.edges : e[2] = v /\ e[1] \notin direct.ran
    BY <1>3, <2>4 DEF DequeInv, ParentsIn
  <2>6. e[1] \in late /\ r[e[1]] < r[v] /\ r[e[1]] \in Nat
    BY <1>1, <2>1, <2>5
  <2>7. r[v] <= r[e[1]]
    BY <2>3, <2>4, <2>6
  <2>8. QED
    BY <2>4, <2>6, <2>7
<1>4. QED
  BY <1>2, <1>3 DEF DirectRunsAll

------------------------------------------------------------------------------
(* Paths                                                                     *)

\* The paths in P, and those that are one edge longer.
Longer(P, edges) ==
  P \cup {<<q[1][1], q[2][2]>> : q \in {x \in P \X edges : x[1][2] = x[2][1]}}

LEMMA LongerPaths ==
  ASSUME NEW P \in SUBSET (Delayable \X Delayable),
         NEW edges \in SUBSET (Delayable \X Delayable)
  PROVE  /\ Longer(P, edges) \subseteq Delayable \X Delayable /\ P \subseteq Longer(P, edges)
         /\ \A a, b \in Delayable : <<a, b>> \in Longer(P, edges) <=>
              <<a, b>> \in P \/ \E c \in Delayable : <<a, c>> \in P /\ <<c, b>> \in edges
<1>1. Longer(P, edges) \subseteq Delayable \X Delayable /\ P \subseteq Longer(P, edges)
  BY DEF Longer
<1>2. ASSUME NEW a \in Delayable, NEW b \in Delayable, NEW c \in Delayable,
             <<a, c>> \in P, <<c, b>> \in edges
      PROVE  <<a, b>> \in Longer(P, edges)
  <2> DEFINE q == <<<<a, c>>, <<c, b>>>>
  <2>1. q \in {x \in P \X edges : x[1][2] = x[2][1]} /\ <<a, b>> = <<q[1][1], q[2][2]>>
    BY <1>2
  <2> HIDE DEF q
  <2>2. QED
    BY <2>1 DEF Longer
<1>3. ASSUME NEW a \in Delayable, NEW b \in Delayable, <<a, b>> \in Longer(P, edges),
             <<a, b>> \notin P
      PROVE  \E c \in Delayable : <<a, c>> \in P /\ <<c, b>> \in edges
  <2>1. PICK x \in P \X edges : x[1][2] = x[2][1] /\ <<a, b>> = <<x[1][1], x[2][2]>>
    BY <1>3 DEF Longer
  <2>2. /\ x[1] \in P /\ x[2] \in edges
        /\ x[1] = <<x[1][1], x[1][2]>> /\ x[2] = <<x[2][1], x[2][2]>> /\ x[1][2] \in Delayable
    BY <2>1
  <2>3. x[1][1] = a /\ x[2][2] = b
    BY <2>1
  <2>4. QED
    BY <2>1, <2>2, <2>3
<1>4. QED
  BY <1>1, <1>2, <1>3

LEMMA OrderedSteps ==
  ASSUME NEW edges \in SUBSET (Delayable \X Delayable)
  PROVE  \E P : /\ P[0] = edges /\ Ordered(edges) = P[Cardinality(Delayable)]
                /\ \A n \in Nat : n < Cardinality(Delayable) => P[n + 1] = Longer(P[n], edges)
                /\ \A n \in Nat : n <= Cardinality(Delayable) =>
                     P[n] \in SUBSET (Delayable \X Delayable)
<1> DEFINE D == SUBSET (Delayable \X Delayable)
           G == [m \in Nat \X D |-> Longer(m[2], edges)]
           N == Cardinality(Delayable)
           Eq(W) == W = [n \in 0..N |-> IF n = 0 THEN edges ELSE Longer(W[n - 1], edges)]
<1>1. \A S \in D : Longer(S, edges) \in D
  BY LongerPaths
<1>2. edges \in D /\ N \in Nat
  BY DelayAssumption, FS_CardinalityType
<1>3. G \in [Nat \X D -> D] /\ \A n \in Nat, S \in D : G[<<n, S>>] = Longer(S, edges)
  <2> HIDE DEF D
  <2>1. QED
    BY <1>1
<1>4. PICK W \in [0..N -> D] : RecursiveOn(W, edges, G, N)
  <2> HIDE DEF D, G, N
  <2>1. QED
    BY <1>2, <1>3, BoundedRecursion
<1>5. Eq(W)
  <2>1. \A n \in 0..N : n = 0 \/ (n - 1 \in Nat /\ n - 1 \in 0..N)
    BY <1>2
  <2> HIDE DEF D, N
  <2>2. \A n \in 0..N : n # 0 => G[<<n - 1, W[n - 1]>>] = Longer(W[n - 1], edges)
    BY <1>3, <1>4, <2>1
  <2> HIDE DEF G
  <2>3. QED
    BY <1>4, <2>2 DEF RecursiveOn
<1> DEFINE P == CHOOSE W2 : Eq(W2)
<1>6. Eq(P)
  <2> HIDE DEF Eq
  <2>1. QED
    BY <1>5
<1>7. Ordered(edges) = P[N]
  BY DEF Ordered, Longer
<1>8. N \in Nat
  BY <1>2
<1> HIDE DEF P, N
<1>9. P[0] = edges
  BY <1>6, <1>8
<1>10. ASSUME NEW n \in Nat, n < N
       PROVE  P[n + 1] = Longer(P[n], edges)
  <2>1. n + 1 \in 0..N /\ n + 1 # 0 /\ n + 1 - 1 = n
    BY <1>8, <1>10
  <2>2. \A m \in 0..N : P[m] = IF m = 0 THEN edges ELSE Longer(P[m - 1], edges)
    BY <1>6
  <2>3. QED
    BY <2>1, <2>2
<1> DEFINE Typed == {n \in Nat : n <= N => P[n] \in D}
<1>11. \A n \in Nat : n \in Typed
  <2>1. 0 \in Typed
    BY <1>9
  <2>2. ASSUME NEW n \in Nat, n \in Typed
        PROVE  n + 1 \in Typed
    <3> SUFFICES ASSUME n + 1 <= N PROVE P[n + 1] \in D
      OBVIOUS
    <3>1. n < N /\ n <= N
      BY <1>8
    <3> HIDE DEF D
    <3>2. QED
      BY <1>1, <1>10, <2>2, <3>1
  <2> HIDE DEF Typed
  <2>3. QED
    BY <2>1, <2>2, InductionInSet
<1>12. /\ P[0] = edges /\ Ordered(edges) = P[Cardinality(Delayable)]
       /\ \A n \in Nat : n < Cardinality(Delayable) => P[n + 1] = Longer(P[n], edges)
       /\ \A n \in Nat : n <= Cardinality(Delayable) =>
            P[n] \in SUBSET (Delayable \X Delayable)
  BY <1>7, <1>9, <1>10, <1>11 DEF N
<1>13. QED
  BY <1>12

\* Ordered(edges) is the least set that has the edges, and with a path those that are
\* one edge longer.
LEMMA OrderedClosed ==
  ASSUME NEW edges \in SUBSET (Delayable \X Delayable)
  PROVE  /\ Ordered(edges) \subseteq Delayable \X Delayable /\ edges \subseteq Ordered(edges)
         /\ \A a, b, c \in Delayable :
              <<a, b>> \in Ordered(edges) /\ <<b, c>> \in edges => <<a, c>> \in Ordered(edges)
         /\ \A R : /\ edges \subseteq R
                   /\ \A a, b, c \in Delayable : <<a, b>> \in R /\ <<b, c>> \in edges
                                                   => <<a, c>> \in R
                   => Ordered(edges) \subseteq R
<1> DEFINE D == SUBSET (Delayable \X Delayable)
           N == Cardinality(Delayable)
<1>1. PICK P : /\ P[0] = edges /\ Ordered(edges) = P[N]
               /\ \A n \in Nat : n < N => P[n + 1] = Longer(P[n], edges)
               /\ \A n \in Nat : n <= N => P[n] \in D
  BY OrderedSteps
<1>2. IsFiniteSet(Delayable) /\ N \in Nat /\ Cardinality(Delayable) <= N /\ N <= N
  BY DelayAssumption, FS_CardinalityType
<1> HIDE DEF N
<1>3. Ordered(edges) \in D
  BY <1>1, <1>2
<1> DEFINE Within(R) == {n \in Nat : n <= N => P[n] \subseteq R}
<1>4. ASSUME NEW R, edges \subseteq R,
             \A n \in Nat : n < N /\ P[n] \subseteq R => Longer(P[n], edges) \subseteq R
      PROVE  Ordered(edges) \subseteq R
  <2>1. 0 \in Within(R)
    BY <1>1, <1>4
  <2>2. ASSUME NEW n \in Nat, n \in Within(R)
        PROVE  n + 1 \in Within(R)
    <3> SUFFICES ASSUME n + 1 <= N PROVE P[n + 1] \subseteq R
      OBVIOUS
    <3>1. n < N /\ n <= N
      BY <1>2
    <3>2. QED
      BY <1>1, <1>4, <2>2, <3>1
  <2>3. \A n \in Nat : n \in Within(R)
    <3> HIDE DEF Within
    <3>1. QED
      BY <2>1, <2>2, InductionInSet
  <2>4. QED
    BY <1>1, <1>2, <2>3
<1>5. edges \subseteq Ordered(edges)
  <2> DEFINE Has == {n \in Nat : n <= N => edges \subseteq P[n]}
  <2>1. 0 \in Has
    BY <1>1
  <2>2. ASSUME NEW n \in Nat, n \in Has
        PROVE  n + 1 \in Has
    <3> SUFFICES ASSUME n + 1 <= N PROVE edges \subseteq P[n + 1]
      OBVIOUS
    <3>1. n < N /\ n <= N
      BY <1>2
    <3>2. edges \subseteq P[n] /\ P[n] \subseteq Longer(P[n], edges)
      BY <1>1, <2>2, <3>1, LongerPaths
    <3>3. QED
      BY <1>1, <3>1, <3>2
  <2>3. \A n \in Nat : n \in Has
    <3> HIDE DEF Has
    <3>1. QED
      BY <2>1, <2>2, InductionInSet
  <2>4. QED
    BY <1>1, <1>2, <2>3
<1>6. ASSUME NEW a \in Delayable, NEW b \in Delayable, NEW c \in Delayable,
             <<a, b>> \in Ordered(edges), <<b, c>> \in edges
      PROVE  <<a, c>> \in Ordered(edges)
  <2> DEFINE W == [n \in Nat |-> {x \in Delayable : <<a, x>> \in P[n]}]
             F == [T \in SUBSET Delayable |->
                     T \cup {x \in Delayable : \E y \in T : <<y, x>> \in edges}]
  <2>1. /\ F \in [SUBSET Delayable -> SUBSET Delayable]
        /\ \A T \in SUBSET Delayable :
             /\ T \subseteq F[T]
             /\ F[T] \subseteq Delayable
             /\ \A x \in Delayable : x \in F[T] <=> x \in T \/ \E y \in T : <<y, x>> \in edges
    OBVIOUS
  <2>2. \A n \in Nat : W[n] = {x \in Delayable : <<a, x>> \in P[n]}
    OBVIOUS
  <2> HIDE DEF W, F
  <2>3. ASSUME NEW n \in Nat, n < N
        PROVE  W[n + 1] = F[W[n]]
    <3>1. n <= N /\ n + 1 \in Nat
      BY <1>2, <2>3
    <3>2. P[n] \in D /\ P[n + 1] = Longer(P[n], edges)
      BY <1>1, <2>3, <3>1
    <3>3. \A x \in Delayable : <<a, x>> \in P[n + 1] <=>
            <<a, x>> \in P[n] \/ \E y \in Delayable : <<a, y>> \in P[n] /\ <<y, x>> \in edges
      <4>1. \A z, x \in Delayable : <<z, x>> \in Longer(P[n], edges) <=>
              <<z, x>> \in P[n] \/ \E y \in Delayable : <<z, y>> \in P[n] /\ <<y, x>> \in edges
        BY <3>2, LongerPaths
      <4>2. QED
        BY <3>2, <4>1
    <3>4. W[n] \in SUBSET Delayable /\ \A x \in Delayable : x \in W[n] <=> <<a, x>> \in P[n]
      BY <2>2
    <3>5. /\ W[n + 1] \subseteq Delayable
          /\ \A x \in Delayable : x \in W[n + 1] <=> <<a, x>> \in P[n + 1]
      BY <2>2, <3>1
    <3>6. /\ F[W[n]] \subseteq Delayable
          /\ \A x \in Delayable : x \in F[W[n]] <=>
               x \in W[n] \/ \E y \in W[n] : <<y, x>> \in edges
      BY <2>1, <3>4
    <3>7. \A x \in Delayable : x \in W[n + 1] <=> x \in F[W[n]]
      BY <3>3, <3>4, <3>5, <3>6
    <3>8. QED
      BY <3>5, <3>6, <3>7
  <2>4. W[0] \in SUBSET Delayable
    BY <2>2
  <2>5. Grows(W, Delayable, F, N)
    BY <2>1, <2>3, <2>4 DEF Grows
  <2>6. F[W[N]] = W[N]
    BY <1>2, <2>5, GrowthEnds
  <2>7. b \in W[N] /\ W[N] \subseteq Delayable
    BY <1>1, <1>2, <1>6, <2>2
  <2>8. c \in F[W[N]]
    BY <1>6, <2>1, <2>7
  <2>9. QED
    BY <1>1, <1>2, <2>2, <2>6, <2>8
<1>7. ASSUME NEW R, edges \subseteq R,
             \A a, b, c \in Delayable : <<a, b>> \in R /\ <<b, c>> \in edges => <<a, c>> \in R
      PROVE  Ordered(edges) \subseteq R
  <2>1. ASSUME NEW n \in Nat, n < N, P[n] \subseteq R
        PROVE  Longer(P[n], edges) \subseteq R
    <3>1. n <= N
      BY <1>2, <2>1
    <3>2. P[n] \in D
      BY <1>1, <3>1
    <3>3. /\ Longer(P[n], edges) \subseteq Delayable \X Delayable
          /\ \A a, b \in Delayable : <<a, b>> \in Longer(P[n], edges) =>
               <<a, b>> \in P[n] \/ \E c \in Delayable : <<a, c>> \in P[n] /\ <<c, b>> \in edges
      BY <3>2, LongerPaths
    <3>4. \A a, b \in Delayable : <<a, b>> \in Longer(P[n], edges) => <<a, b>> \in R
      BY <1>7, <2>1, <3>3
    <3>5. QED
      BY <3>3, <3>4
  <2>2. QED
    BY <1>4, <1>7, <2>1
<1>8. QED
  BY <1>3, <1>5, <1>6, <1>7

\* Paths join.
LEMMA PathsJoin ==
  ASSUME NEW edges \in SUBSET (Delayable \X Delayable), NEW a \in Delayable,
         NEW b \in Delayable, NEW c \in Delayable,
         <<a, b>> \in Ordered(edges), <<b, c>> \in Ordered(edges)
  PROVE  <<a, c>> \in Ordered(edges)
<1> DEFINE R == {q \in Delayable \X Delayable :
                   <<a, q[1]>> \in Ordered(edges) => <<a, q[2]>> \in Ordered(edges)}
<1>1. \A x, y \in Delayable : <<x, y>> \in R <=>
        (<<a, x>> \in Ordered(edges) => <<a, y>> \in Ordered(edges))
  OBVIOUS
<1>2. edges \subseteq R
  <2>1. ASSUME NEW e \in edges PROVE e \in R
    <3>1. e = <<e[1], e[2]>> /\ e[1] \in Delayable /\ e[2] \in Delayable
      OBVIOUS
    <3>2. <<a, e[1]>> \in Ordered(edges) => <<a, e[2]>> \in Ordered(edges)
      BY <3>1, OrderedClosed
    <3>3. QED
      BY <3>1, <3>2
  <2>2. QED
    BY <2>1
<1> HIDE DEF R
<1>3. \A x, y, z \in Delayable : <<x, y>> \in R /\ <<y, z>> \in edges => <<x, z>> \in R
  BY <1>1, OrderedClosed
<1>4. Ordered(edges) \subseteq R
  BY <1>2, <1>3, OrderedClosed
<1>5. QED
  BY <1>1, <1>4

\* Where every edge of one graph is a path of the other, so is every path.
LEMMA PathsOfPaths ==
  ASSUME NEW edges \in SUBSET (Delayable \X Delayable),
         NEW others \in SUBSET (Delayable \X Delayable), edges \subseteq Ordered(others)
  PROVE  Ordered(edges) \subseteq Ordered(others)
<1>1. \A a, b, c \in Delayable :
        <<a, b>> \in Ordered(others) /\ <<b, c>> \in edges => <<a, c>> \in Ordered(others)
  BY PathsJoin
<1>2. QED
  BY <1>1, OrderedClosed

LEMMA LeavesDefined ==
  ASSUME TypeOK, Acyclic
  PROVE  /\ Leaves \in [Object -> SUBSET Delayable]
         /\ \A o \in Object :
              Leaves[o] = IF o \in Delayable THEN {o} ELSE UNION {Leaves[p] : p \in Parts(o)}
<1> DEFINE T == SUBSET Delayable
           Body(o, f) == IF o \in Delayable THEN {o} ELSE UNION {f[p] : p \in Parts(o)}
           G == [m \in Object \X [Object -> T] |-> Body(m[1], m[2])]
<1>1. ASSUME NEW o \in Object, NEW f \in [Object -> T]
      PROVE  Body(o, f) \in T
  <2>1. \A p \in Parts(o) : f[p] \in T
    BY PartsOf
  <2>2. QED
    BY <2>1
<1>2. ASSUME NEW o \in Object, NEW f, NEW g, \A p \in Parts(o) : f[p] = g[p]
      PROVE  Body(o, f) = Body(o, g)
  <2>1. UNION {f[p] : p \in Parts(o)} = UNION {g[p] : p \in Parts(o)}
    BY <1>2
  <2>2. QED
    BY <2>1
<1> HIDE DEF Body
<1>3. /\ G \in [Object \X [Object -> T] -> T]
      /\ \A o \in Object, f \in [Object -> T] : G[<<o, f>>] = Body(o, f)
  BY <1>1
<1> HIDE DEF G
<1>4. FromParts(G, T)
  BY <1>2, <1>3 DEF FromParts
<1>5. PICK F \in [Object -> T] : AlongParts(F, G)
  <2>1. T # {}
    OBVIOUS
  <2> HIDE DEF T
  <2>2. QED
    BY <1>4, <2>1, RecursionAlongParts
<1>6. F = [o \in Object |-> Body(o, F)]
  BY <1>3, <1>5 DEF AlongParts
<1>7. Leaves = CHOOSE g : g = [o \in Object |-> Body(o, g)]
  BY DEF Leaves, Body
<1>8. Leaves = [o \in Object |-> Body(o, Leaves)]
  BY <1>6, <1>7
<1> DEFINE C == {o \in Object : Leaves[o] \in T}
<1>9. ASSUME NEW o \in Object, \A p \in Parts(o) : p \in C
      PROVE  o \in C
  <2>1. Leaves[o] = Body(o, Leaves)
    BY <1>8
  <2>2. QED
    BY <1>9, <2>1 DEF Body
<1>10. Object \subseteq C
  <2> HIDE DEF C
  <2>1. QED
    BY <1>9, InductionAlongParts
<1>11. Leaves = [o \in Object |-> Leaves[o]] /\ \A o \in Object : Leaves[o] = Body(o, Leaves)
  BY <1>8
<1>12. \A o \in Object : Leaves[o] \in T
  BY <1>10
<1>13. QED
  BY <1>11, <1>12 DEF Body

LEMMA HasChainDefined ==
  ASSUME TypeOK, Acyclic, NEW o \in Object
  PROVE  HasChain[o] <=> o \in Compound /\ (parts[o].kind = "chain" \/ \E p \in Parts(o) : HasChain[p])
<1> DEFINE T == BOOLEAN
           Body(x, f) == x \in Compound /\ (parts[x].kind = "chain" \/ \E p \in Parts(x) : f[p])
           G == [m \in Object \X [Object -> T] |-> Body(m[1], m[2])]
<1>1. ASSUME NEW x \in Object, NEW f \in [Object -> T], NEW g \in [Object -> T],
             \A p \in Parts(x) : f[p] = g[p]
      PROVE  Body(x, f) = Body(x, g)
  BY <1>1
<1>2. \A x \in Object, f \in [Object -> T] : Body(x, f) \in T
  OBVIOUS
<1> HIDE DEF Body
<1>3. /\ G \in [Object \X [Object -> T] -> T]
      /\ \A x \in Object, f \in [Object -> T] : G[<<x, f>>] = Body(x, f)
  <2> HIDE DEF T
  <2>1. QED
    BY <1>2
<1> HIDE DEF G
<1>4. FromParts(G, T)
  <2> HIDE DEF T
  <2>1. QED
    BY <1>1, <1>3 DEF FromParts
<1>5. PICK F \in [Object -> T] : AlongParts(F, G)
  <2>1. T # {}
    OBVIOUS
  <2> HIDE DEF T
  <2>2. QED
    BY <1>4, <2>1, RecursionAlongParts
<1>6. F = [x \in Object |-> Body(x, F)]
  BY <1>3, <1>5 DEF AlongParts
<1>7. HasChain = CHOOSE g : g = [x \in Object |-> Body(x, g)]
  BY DEF HasChain, Body
<1>8. HasChain = [x \in Object |-> Body(x, HasChain)]
  BY <1>6, <1>7
<1>9. HasChain[o] = Body(o, HasChain)
  BY <1>8
<1>10. QED
  BY <1>9 DEF Body

LEMMA EndsAre ==
  ASSUME TypeOK, Acyclic, NEW o \in Object
  PROVE  /\ o \in Delayable => Ends[o].head = {o} /\ Ends[o].tail = {o}
         /\ o \notin Delayable /\ parts[o].kind = "chain" =>
              /\ Ends[o].head = Ends[parts[o].of[1]].tail
              /\ Ends[o].tail = Ends[Last(parts[o].of)].head
         /\ o \notin Delayable /\ parts[o].kind # "chain" =>
              /\ Ends[o].head = UNION {Ends[p].head : p \in Parts(o)}
              /\ Ends[o].tail = UNION {Ends[p].tail : p \in Parts(o)}
<1>1. Ends[o] = EndsOf(Ends, o)
  BY EndsIsDefined
<1>2. QED
  BY <1>1 DEF EndsOf

LEMMA LeavesAre ==
  ASSUME TypeOK, Acyclic, NEW o \in Object
  PROVE  /\ Leaves[o] \subseteq Delayable
         /\ o \in Delayable => Leaves[o] = {o}
         /\ o \notin Delayable => /\ Leaves[o] = UNION {Leaves[p] : p \in Parts(o)}
                                /\ \A p \in Parts(o) : Leaves[p] \subseteq Leaves[o]
<1>1. /\ Leaves[o] \in SUBSET Delayable
      /\ Leaves[o] = IF o \in Delayable THEN {o} ELSE UNION {Leaves[p] : p \in Parts(o)}
  BY LeavesDefined
<1>2. QED
  BY <1>1

\* The heads and tails of an object are among its jobs.
LEMMA EndsAreLeaves ==
  ASSUME TypeOK, Acyclic, NEW o \in Object
  PROVE  Ends[o].head \subseteq Leaves[o] /\ Ends[o].tail \subseteq Leaves[o]
<1> DEFINE C == {x \in Object : Ends[x].head \subseteq Leaves[x] /\ Ends[x].tail \subseteq Leaves[x]}
<1>1. ASSUME NEW x \in Object, \A p \in Parts(x) : p \in C
      PROVE  x \in C
  <2>1. CASE x \in Delayable
    BY <2>1, EndsAre, LeavesAre
  <2>2. CASE x \notin Delayable
    <3>1. \A p \in Parts(x) : Leaves[p] \subseteq Leaves[x]
      BY <2>2, LeavesAre
    <3>2. CASE parts[x].kind = "chain"
      BY <1>1, <2>2, <3>1, <3>2, EndsAre, PartsOf
    <3>3. CASE parts[x].kind # "chain"
      BY <1>1, <2>2, <3>1, <3>3, EndsAre
    <3>4. QED
      BY <3>2, <3>3
  <2>3. QED
    BY <2>1, <2>2
<1>2. Object \subseteq C
  <2> HIDE DEF C
  <2>1. QED
    BY <1>1, InductionAlongParts
<1>3. QED
  BY <1>2

\* In an object without a chain, all jobs are heads and tails.
LEMMA EndsOfPlain ==
  ASSUME TypeOK, Acyclic, NEW o \in Object, ~HasChain[o]
  PROVE  Ends[o].head = Leaves[o] /\ Ends[o].tail = Leaves[o]
<1> DEFINE C == {x \in Object : ~HasChain[x] => Ends[x].head = Leaves[x] /\ Ends[x].tail = Leaves[x]}
<1>1. ASSUME NEW x \in Object, \A p \in Parts(x) : p \in C, ~HasChain[x]
      PROVE  Ends[x].head = Leaves[x] /\ Ends[x].tail = Leaves[x]
  <2>1. CASE x \in Delayable
    BY <2>1, EndsAre, LeavesAre
  <2>2. CASE x \notin Delayable
    <3>1. parts[x].kind # "chain" /\ \A p \in Parts(x) : ~HasChain[p]
      BY <1>1, <2>2, HasChainDefined DEF Object
    <3>2. \A p \in Parts(x) : Ends[p].head = Leaves[p] /\ Ends[p].tail = Leaves[p]
      BY <1>1, <3>1
    <3>3. /\ UNION {Ends[p].head : p \in Parts(x)} = UNION {Leaves[p] : p \in Parts(x)}
          /\ UNION {Ends[p].tail : p \in Parts(x)} = UNION {Leaves[p] : p \in Parts(x)}
      BY <3>2
    <3>4. Leaves[x] = UNION {Leaves[p] : p \in Parts(x)}
      BY <2>2, LeavesAre
    <3>5. /\ Ends[x].head = UNION {Ends[p].head : p \in Parts(x)}
          /\ Ends[x].tail = UNION {Ends[p].tail : p \in Parts(x)}
      BY <2>2, <3>1, EndsAre
    <3>6. QED
      BY <3>3, <3>4, <3>5
  <2>3. QED
    BY <2>1, <2>2
<1>2. Object \subseteq C
  <2>1. \A x \in Object : (\A p \in Parts(x) : p \in C) => x \in C
    BY <1>1
  <2> HIDE DEF C
  <2>2. QED
    BY <2>1, InductionAlongParts
<1>3. QED
  BY <1>2

\* What has been made is a delayable, a chain or a group.
LEMMA KindOfMade ==
  ASSUME TypeOK, NEW o \in Object, Made(o), o \notin Delayable
  PROVE  /\ o \in Compound /\ parts[o] \in Compounds
         /\ parts[o].kind = "chain" \/ parts[o].kind = "group"
<1>1. o \in Compound
  BY DEF Object
<1>2. parts[o] \in Compounds
  BY <1>1 DEF TypeOK, Made
<1>3. QED
  BY <1>1, <1>2 DEF Compounds

\* It has a job, a head and a tail.
LEMMA MadeHasEnds ==
  ASSUME TypeOK, PartsInv, ShapeInv, NEW o \in Object, Made(o)
  PROVE  Ends[o].head # {} /\ Ends[o].tail # {}
<1> DEFINE C == {x \in Object : Made(x) => Ends[x].head # {} /\ Ends[x].tail # {}}
<1>0. Acyclic /\ \A x \in Object : \A p \in Parts(x) : Made(p)
  BY DEF PartsInv
<1>1. ASSUME NEW x \in Object, \A p \in Parts(x) : p \in C, Made(x)
      PROVE  Ends[x].head # {} /\ Ends[x].tail # {}
  <2>0. \A p \in Parts(x) : Ends[p].head # {} /\ Ends[p].tail # {}
    BY <1>0, <1>1
  <2>1. CASE x \in Delayable
    BY <1>0, <2>1, EndsAre
  <2>2. CASE x \notin Delayable /\ parts[x].kind = "chain"
    BY <1>0, <2>0, <2>2, EndsAre, PartsOf
  <2>3. CASE x \notin Delayable /\ parts[x].kind = "group"
    <3>1. PICK p \in Parts(x) : TRUE
      BY <1>1, <2>3, PartsCases, KindOfMade DEF ShapeInv
    <3>2. QED
      BY <1>0, <2>0, <2>3, <3>1, EndsAre
  <2>4. QED
    BY <1>1, <2>1, <2>2, <2>3, KindOfMade
<1>2. Object \subseteq C
  <2>1. \A x \in Object : (\A p \in Parts(x) : p \in C) => x \in C
    BY <1>1
  <2> HIDE DEF C
  <2>2. QED
    BY <1>0, <2>1, InductionAlongParts
<1>3. QED
  BY <1>2

------------------------------------------------------------------------------
(* The order of the jobs                                                     *)

\* b is a or comes after it.
Reached(E, a, b) == a = b \/ <<a, b>> \in Ordered(E)

LEMMA ReachedJoin ==
  ASSUME NEW E \in SUBSET (Delayable \X Delayable), NEW a \in Delayable,
         NEW b \in Delayable, NEW c \in Delayable, Reached(E, a, b), Reached(E, b, c)
  PROVE  Reached(E, a, c)
BY PathsJoin DEF Reached

\* Every job of x leads to a tail of x, and is reached from a head.
Spans(E, x) ==
  /\ \A a \in Leaves[x] : \E b \in Ends[x].tail : Reached(E, a, b)
  /\ \A a \in Leaves[x] : \E b \in Ends[x].head : Reached(E, b, a)

\* A chain's parts are joined, tails to heads.
Joined(E, s) ==
  \A i \in 1..(Len(s) - 1) : Ends[s[i]].tail \X Ends[s[i + 1]].head \subseteq E

\* The jobs of a chain lead to every job... of its last part, if each part spans.
LEMMA ChainReaches ==
  ASSUME TypeOK, PartsInv, ShapeInv, NEW E \in SUBSET (Delayable \X Delayable),
         NEW s \in Seq(Object), s # <<>>, Joined(E, s),
         \A i \in 1..Len(s) : Made(s[i]) /\ Spans(E, s[i])
  PROVE  /\ \A i \in 1..Len(s) : \A a \in Leaves[s[i]] :
              \E b \in Leaves[Last(s)] : Reached(E, a, b)
         /\ \A i \in 1..Len(s) : \A a \in Leaves[s[i]] :
              \E b \in Leaves[s[1]] : Reached(E, b, a)
<1> DEFINE n == Len(s)
<1>0. n \in Nat /\ n >= 1 /\ \A i \in 1..n : s[i] \in Object
  BY EmptySeq, LenProperties, ElementOfSeq
<1>1. Acyclic
  BY DEF PartsInv
<1>2. \A i \in 1..n : /\ Leaves[s[i]] \subseteq Delayable
                      /\ Ends[s[i]].head \subseteq Leaves[s[i]]
                      /\ Ends[s[i]].tail \subseteq Leaves[s[i]]
                      /\ Ends[s[i]].head # {} /\ Ends[s[i]].tail # {}
  BY <1>0, <1>1, EndsAreLeaves, LeavesAre, MadeHasEnds
<1>3. Last(s) = s[n]
  BY DEF Last
<1> HIDE DEF n
<1>4. ASSUME NEW i \in 1..n, i < n
      PROVE  i + 1 \in 1..n /\ Ends[s[i]].tail \X Ends[s[i + 1]].head \subseteq E
  <2>1. i \in 1..(n - 1) /\ i + 1 \in 1..n
    BY <1>0, <1>4
  <2>2. QED
    BY <2>1 DEF Joined, n
<1>5. \A i \in 1..n : Spans(E, s[i])
  BY DEF n
<1> DEFINE Down == {k \in Nat : k < n =>
                      \A a \in Leaves[s[n - k]] : \E b \in Leaves[s[n]] : Reached(E, a, b)}
           Up == {k \in Nat : k < n =>
                      \A a \in Leaves[s[k + 1]] : \E b \in Leaves[s[1]] : Reached(E, b, a)}
<1>6. \A k \in Nat : k \in Down
  <2>1. 0 \in Down
    <3>1. n - 0 = n
      BY <1>0
    <3>2. QED
      BY <3>1 DEF Reached
  <2>2. ASSUME NEW k \in Nat, k \in Down
        PROVE  k + 1 \in Down
    <3> SUFFICES ASSUME k + 1 < n, NEW a \in Leaves[s[n - (k + 1)]]
                 PROVE  \E b \in Leaves[s[n]] : Reached(E, a, b)
      OBVIOUS
    <3> DEFINE i == n - (k + 1)
    <3>1. i \in 1..n /\ i < n /\ i + 1 = n - k /\ k < n /\ n \in 1..n
      BY <1>0
    <3>2. a \in Leaves[s[i]] /\ a \in Delayable
      BY <1>2, <3>1
    <3> HIDE DEF i
    <3>3. PICK t \in Ends[s[i]].tail : Reached(E, a, t)
      BY <1>5, <3>1, <3>2 DEF Spans
    <3>4. PICK h \in Ends[s[i + 1]].head : TRUE
      BY <1>2, <1>4, <3>1
    <3>5. h \in Leaves[s[i + 1]] /\ h \in Delayable /\ t \in Delayable
      BY <1>2, <1>4, <3>1, <3>3, <3>4
    <3>6. PICK b \in Leaves[s[n]] : Reached(E, h, b)
      BY <2>2, <3>1, <3>5
    <3>7. b \in Delayable
      BY <1>2, <3>1
    <3>8. <<t, h>> \in E
      BY <1>4, <3>1, <3>3, <3>4
    <3>9. Reached(E, t, h)
      BY <3>8, OrderedClosed DEF Reached
    <3>10. Reached(E, a, b)
      BY <3>2, <3>3, <3>5, <3>6, <3>7, <3>9, ReachedJoin
    <3>11. QED
      BY <3>10
  <2> HIDE DEF Down
  <2>3. QED
    BY <2>1, <2>2, InductionInSet
<1>7. \A k \in Nat : k \in Up
  <2>1. 0 \in Up
    BY DEF Reached
  <2>2. ASSUME NEW k \in Nat, k \in Up
        PROVE  k + 1 \in Up
    <3> SUFFICES ASSUME k + 1 < n, NEW a \in Leaves[s[k + 1 + 1]]
                 PROVE  \E b \in Leaves[s[1]] : Reached(E, b, a)
      OBVIOUS
    <3> DEFINE i == k + 1
    <3>1. i \in 1..n /\ i < n /\ k < n /\ 1 \in 1..n /\ i + 1 \in 1..n
      BY <1>0
    <3>2. a \in Leaves[s[i + 1]] /\ a \in Delayable
      BY <1>2, <3>1
    <3>0. k \in Up /\ i = k + 1
      BY <2>2
    <3> HIDE DEF i
    <3>3. PICK h \in Ends[s[i + 1]].head : Reached(E, h, a)
      BY <1>5, <3>1, <3>2 DEF Spans
    <3>4. PICK t \in Ends[s[i]].tail : TRUE
      BY <1>2, <3>1
    <3>5. t \in Leaves[s[i]] /\ h \in Delayable /\ t \in Delayable
      BY <1>2, <3>1, <3>3, <3>4
    <3>6. PICK b \in Leaves[s[1]] : Reached(E, b, t)
      BY <3>0, <3>1, <3>5
    <3>7. b \in Delayable
      BY <1>2, <3>1
    <3>8. <<t, h>> \in E
      BY <1>4, <3>1, <3>3, <3>4
    <3>9. Reached(E, t, h)
      BY <3>8, OrderedClosed DEF Reached
    <3>10. Reached(E, b, a)
      BY <3>2, <3>3, <3>5, <3>6, <3>7, <3>9, ReachedJoin
    <3>11. QED
      BY <3>10
  <2> HIDE DEF Up
  <2>3. QED
    BY <2>1, <2>2, InductionInSet
<1>8. ASSUME NEW i \in 1..n
      PROVE  /\ \A a \in Leaves[s[i]] : \E b \in Leaves[s[n]] : Reached(E, a, b)
             /\ \A a \in Leaves[s[i]] : \E b \in Leaves[s[1]] : Reached(E, b, a)
  <2>1. n - i \in Nat /\ n - i < n /\ n - (n - i) = i /\ i - 1 \in Nat /\ i - 1 < n /\ i - 1 + 1 = i
    BY <1>0
  <2>2. n - i \in Down /\ i - 1 \in Up
    BY <1>6, <1>7, <2>1
  <2>3. QED
    BY <2>1, <2>2
<1>9. QED
  BY <1>3, <1>8 DEF n

\* Every edge between objects that is drawn around o is in the graph of its jobs.
LEMMA EdgesAround ==
  ASSUME TypeOK, PartsInv, NEW o \in Object, NEW x \in Visited(o), NEW e \in graph[x]
  PROVE  /\ Edges(o) \in SUBSET (Delayable \X Delayable)
         /\ Ends[e[1]].tail \X Ends[e[2]].head \subseteq Edges(o)
         /\ e[1] \in Visited(o) /\ e[2] \in Visited(o) /\ e[1] \in Object /\ e[2] \in Object
<1>1. Edges(o) \in SUBSET (Delayable \X Delayable)
  BY EdgesType DEF PartsInv
<1>2. Ends[e[1]].tail \X Ends[e[2]].head \subseteq Merged(graph[x])
  BY DEF Merged
<1>3. Merged(graph[x]) \subseteq Edges(o)
  BY DEF Edges
<1>4. /\ Visited(o) \subseteq Object
      /\ e[1] \in Near(x) /\ e[2] \in Near(x) /\ Near(x) \subseteq Visited(o)
  BY VisitedClosed DEF Near
<1>5. QED
  BY <1>1, <1>2, <1>3, <1>4

\* What is visited from an object that has been made has been made.
LEMMA VisitedMade ==
  ASSUME TypeOK, PartsInv, ShapeInv, NEW o \in Object, Made(o)
  PROVE  \A x \in Visited(o) : Made(x)
<1> DEFINE S == {x \in Object : Made(x)}
<1>1. ASSUME NEW x \in S PROVE Near(x) \subseteq S
  <2>1. \A p \in Parts(x) : p \in S
    BY PartsOf DEF PartsInv
  <2>2. \A e \in graph[x] : e[1] \in S /\ e[2] \in S
    BY DEF ShapeInv, TypeOK
  <2>3. QED
    BY <2>1, <2>2 DEF Near
<1>2. o \in S
  OBVIOUS
<1> HIDE DEF S
<1>3. Visited(o) \subseteq S
  BY <1>1, <1>2, VisitedClosed
<1>4. QED
  BY <1>3 DEF S

\* With flat ends, every object spans the order of the graph that it is in.
LEMMA VisitedSpan ==
  ASSUME TypeOK, PartsInv, ShapeInv, FlatEnds, NEW o \in Object, Made(o)
  PROVE  \A x \in Visited(o) : Spans(Edges(o), x)
<1> DEFINE E == Edges(o)
           C == {x \in Object : x \in Visited(o) => Spans(E, x)}
<1>0. Acyclic /\ Visited(o) \subseteq Object /\ E \in SUBSET (Delayable \X Delayable)
  BY EdgesType, VisitedClosed DEF PartsInv
<1> HIDE DEF E
<1>1. ASSUME NEW x \in Object, \A p \in Parts(x) : p \in C, x \in Visited(o)
      PROVE  Spans(E, x)
  <2>0. /\ Made(x)
        /\ \A p \in Parts(x) : p \in Object /\ Made(p) /\ Spans(E, p) /\ Leaves[p] \subseteq Delayable
    <3>1. Parts(x) \subseteq Visited(o)
      BY <1>1, VisitedClosed DEF Near
    <3>2. \A p \in Parts(x) : p \in Object /\ Made(p) /\ Spans(E, p)
      BY <1>0, <1>1, <3>1, VisitedMade
    <3>3. QED
      BY <1>0, <1>1, <3>2, VisitedMade, LeavesAre
  <2>1. CASE x \in Delayable
    BY <1>0, <2>1, EndsAre, LeavesAre DEF Spans, Reached
  <2>2. CASE x \notin Delayable /\ parts[x].kind = "group"
    <3>1. /\ Leaves[x] = UNION {Leaves[p] : p \in Parts(x)}
      BY <1>0, <2>2, LeavesAre
    <3>2. \A p \in Parts(x) : Ends[p].head \subseteq Ends[x].head /\ Ends[p].tail \subseteq Ends[x].tail
      BY <1>0, <2>2, EndsAre
    <3>3. QED
      BY <2>0, <3>1, <3>2 DEF Spans
  <2>3. CASE x \notin Delayable /\ parts[x].kind = "chain"
    <3> DEFINE s == parts[x].of
    <3>1. x \in Compound /\ s \in Seq(Object) /\ s # <<>>
      BY <2>0, <2>3, KindOfMade DEF Compounds
    <3>2. Parts(x) = {s[i] : i \in DOMAIN s} /\ DOMAIN s = 1..Len(s) /\ Len(s) \in Nat \ {0}
      BY <2>3, <3>1, PartsCases, LenProperties, EmptySeq
    <3>3. s[1] \in Parts(x) /\ Last(s) \in Parts(x)
      BY <2>3, PartsOf
    <3>4. /\ Ends[x].head = Ends[s[1]].tail /\ Ends[x].tail = Ends[Last(s)].head
          /\ Ends[s[1]].tail = Leaves[s[1]] /\ Ends[Last(s)].head = Leaves[Last(s)]
      <4>1. ~HasChain[s[1]] /\ ~HasChain[Last(s)]
        BY <2>3, <3>1 DEF FlatEnds
      <4>2. QED
        BY <1>0, <2>0, <2>3, <3>3, <4>1, EndsAre, EndsOfPlain
    <3>5. Joined(E, s)
      <4>1. ASSUME NEW i \in 1..(Len(s) - 1)
            PROVE  Ends[s[i]].tail \X Ends[s[i + 1]].head \subseteq E
        <5> DEFINE e == <<s[i], s[i + 1]>>
        <5>1. e \in Inner(TRUE, s)
          BY DEF Inner
        <5>2. e \in graph[x]
          BY <2>3, <3>1, <5>1 DEF ShapeInv
        <5>3. e[1] = s[i] /\ e[2] = s[i + 1]
          OBVIOUS
        <5> HIDE DEF e
        <5>4. Ends[e[1]].tail \X Ends[e[2]].head \subseteq E
          BY <1>1, <5>2, EdgesAround DEF E
        <5>5. QED
          BY <5>3, <5>4
      <4>2. QED
        BY <4>1 DEF Joined
    <3>6. \A i \in 1..Len(s) : Made(s[i]) /\ Spans(E, s[i])
      BY <2>0, <3>2
    <3> HIDE DEF s
    <3>7. /\ \A i \in 1..Len(s) : \A a \in Leaves[s[i]] :
              \E b \in Leaves[Last(s)] : Reached(E, a, b)
          /\ \A i \in 1..Len(s) : \A a \in Leaves[s[i]] :
              \E b \in Leaves[s[1]] : Reached(E, b, a)
      BY <1>0, <3>1, <3>5, <3>6, ChainReaches
    <3>8. Leaves[x] = UNION {Leaves[p] : p \in Parts(x)}
      BY <1>0, <2>3, LeavesAre
    <3>9. \A a \in Leaves[x] : \E i \in 1..Len(s) : a \in Leaves[s[i]]
      BY <3>2, <3>8
    <3>10. QED
      BY <3>4, <3>7, <3>9 DEF Spans
  <2>4. QED
    BY <2>0, <2>1, <2>2, <2>3, KindOfMade
<1>2. \A x \in Object : (\A p \in Parts(x) : p \in C) => x \in C
  BY <1>1
<1>3. Object \subseteq C
  <2> HIDE DEF C
  <2>1. QED
    BY <1>0, <1>2, InductionAlongParts
<1>4. QED
  BY <1>0, <1>3 DEF E

LEMMA PromisedType ==
  ASSUME TypeOK, PartsInv, NEW o \in Object
  PROVE  Promised(o) \in SUBSET (Delayable \X Delayable)
<1>1. ASSUME NEW x \in Visited(o), NEW e \in graph[x]
      PROVE  Leaves[e[1]] \subseteq Delayable /\ Leaves[e[2]] \subseteq Delayable
  BY EdgesAround, LeavesAre DEF PartsInv
<1>2. QED
  BY <1>1 DEF Promised

\* The jobs wait for each other as promised.
LEMMA OrderIsKept ==
  ASSUME TypeOK, PartsInv, ShapeInv, FlatEnds, NEW o \in Object, Made(o)
  PROVE  OrderKept(o)
<1> DEFINE E == Edges(o)
           P == Promised(o)
<1>0. /\ Acyclic /\ E \in SUBSET (Delayable \X Delayable)
      /\ P \in SUBSET (Delayable \X Delayable)
  BY EdgesType, PromisedType DEF PartsInv
<1>1. E \subseteq P
  <2>1. ASSUME NEW x \in Visited(o), NEW e \in graph[x]
        PROVE  Ends[e[1]].tail \X Ends[e[2]].head \subseteq Leaves[e[1]] \X Leaves[e[2]]
    BY <1>0, EdgesAround, EndsAreLeaves
  <2>2. QED
    BY <2>1 DEF Edges, Merged, Promised
<1>2. ASSUME NEW x \in Visited(o), NEW e \in graph[x],
             NEW a \in Leaves[e[1]], NEW b \in Leaves[e[2]]
      PROVE  <<a, b>> \in Ordered(E)
  <2>1. /\ Ends[e[1]].tail \X Ends[e[2]].head \subseteq E
        /\ e[1] \in Visited(o) /\ e[2] \in Visited(o) /\ e[1] \in Object /\ e[2] \in Object
    BY EdgesAround
  <2>2. Spans(E, e[1]) /\ Spans(E, e[2])
    BY <2>1, VisitedSpan
  <2>3. PICK t \in Ends[e[1]].tail : Reached(E, a, t)
    BY <2>2 DEF Spans
  <2>4. PICK h \in Ends[e[2]].head : Reached(E, h, b)
    BY <2>2 DEF Spans
  <2>5. a \in Delayable /\ b \in Delayable /\ t \in Delayable /\ h \in Delayable
    <3>1. /\ Leaves[e[1]] \subseteq Delayable /\ Leaves[e[2]] \subseteq Delayable
          /\ Ends[e[1]].tail \subseteq Leaves[e[1]] /\ Ends[e[2]].head \subseteq Leaves[e[2]]
      BY <1>0, <2>1, LeavesAre, EndsAreLeaves
    <3>2. QED
      BY <3>1
  <2>6. <<t, h>> \in Ordered(E)
    <3>1. <<t, h>> \in E
      BY <2>1
    <3>2. QED
      BY <1>0, <3>1, OrderedClosed
  <2> HIDE DEF E
  <2>7. <<a, h>> \in Ordered(E)
    BY <1>0, <2>3, <2>5, <2>6, PathsJoin DEF Reached
  <2>8. QED
    BY <1>0, <2>4, <2>5, <2>7, PathsJoin DEF Reached
<1>3. P \subseteq Ordered(E)
  BY <1>2 DEF Promised
<1>4. E \subseteq Ordered(P)
  <2> HIDE DEF E, P
  <2>1. QED
    BY <1>0, <1>1, OrderedClosed
<1>5. Ordered(E) = Ordered(P)
  <2> HIDE DEF E, P
  <2>1. QED
    BY <1>0, <1>3, <1>4, PathsOfPaths
<1>6. QED
  BY <1>5 DEF OrderKept

------------------------------------------------------------------------------
(* Building keeps the shape                                                  *)

LEMMA ShapeUnmoved ==
  ASSUME ShapeInv, UNCHANGED <<parts, graph>>
  PROVE  ShapeInv'
BY DEF ShapeInv, Made

\* The compound c is made of s.
Making(c, chain, s, spent) ==
  /\ parts[c] = Unmade /\ \A i \in DOMAIN s : s[i] # c
  /\ parts' = [parts EXCEPT ![c] = Compounded(chain, s, spent)]

LEMMA NewParts ==
  ASSUME IInv, NEW c \in Compound, NEW chain \in BOOLEAN, NEW s \in Triples,
         NEW spent, Making(c, chain, s, spent)
  PROVE  /\ c \in Object /\ c \notin Delayable
         /\ parts'[c].kind = (IF chain THEN "chain" ELSE "group")
         /\ parts'[c].of = (IF chain THEN s ELSE {s[i] : i \in DOMAIN s})
         /\ Parts(c)' = {s[i] : i \in DOMAIN s} /\ Parts(c) = {}
         /\ \A x \in Compound : x # c => parts'[x] = parts[x]
         /\ \A x \in Object : x # c => Parts(x)' = Parts(x)
         /\ \A x \in Object : Made(x) => Made(x)' /\ x # c
         /\ Made(c)' /\ \A x \in Object : c \notin Parts(x)' /\ c \notin Parts(x)
<1>0. /\ parts \in [Compound -> {Unmade} \cup Compounds]
      /\ \A x \in Compound : x \notin Delayable /\ x \in Object
  BY DelayAssumption DEF IInv, TypeOK, Object
<1>m. /\ parts[c] = Unmade /\ \A i \in DOMAIN s : s[i] # c
      /\ parts' = [parts EXCEPT ![c] = Compounded(chain, s, spent)]
  BY DEF Making
<1>1. /\ parts'[c] = Compounded(chain, s, spent)
      /\ \A x \in Compound : x # c => parts'[x] = parts[x]
  BY <1>0, <1>m
<1>2. /\ parts'[c].kind = (IF chain THEN "chain" ELSE "group")
      /\ parts'[c].of = (IF chain THEN s ELSE {s[i] : i \in DOMAIN s})
  BY <1>1 DEF Compounded
<1>3. Parts(c)' = {s[i] : i \in DOMAIN s}
  <2>1. CASE chain
    BY <1>0, <1>2, <2>1 DEF Parts
  <2>2. CASE ~chain
    BY <1>0, <1>2, <2>2 DEF Parts
  <2>3. QED
    BY <2>1, <2>2
<1>4. Parts(c) = {}
  BY <1>0, <1>m, PartsCases DEF Unmade
<1>5. \A x \in Object : x # c => Parts(x)' = Parts(x)
  BY <1>1 DEF Parts, Object
<1>6. parts'[c] # Unmade
  BY <1>1 DEF Compounded, Unmade
<1>7. \A x \in Object : Made(x) => Made(x)' /\ x # c
  BY <1>1, <1>6, <1>m DEF Made
<1>8. \A x \in Object : c \notin Parts(x)
  BY <1>m DEF IInv, PartsInv, Made
<1>9. \A x \in Object : c \notin Parts(x)'
  BY <1>3, <1>5, <1>8, <1>m
<1>10. QED
  BY <1>0, <1>1, <1>2, <1>3, <1>4, <1>5, <1>6, <1>7, <1>8, <1>9 DEF Made

LEMMA InnerIs ==
  ASSUME NEW s \in Triples, NEW chain \in BOOLEAN
  PROVE  /\ \A e \in Inner(chain, s) : \E i \in DOMAIN s :
              i + 1 \in DOMAIN s /\ e = <<s[i], s[i + 1]>>
         /\ chain => Inner(TRUE, s) = Inner(chain, s)
<1>1. Len(s) \in 1..3 /\ DOMAIN s = 1..Len(s)
  BY TriplesAreLists
<1>2. \A i \in 1..(Len(s) - 1) : i \in DOMAIN s /\ i + 1 \in DOMAIN s
  BY <1>1
<1>3. QED
  BY <1>2 DEF Inner

\* c gets the edges within s, and the others no edge but from what has been made.
Drawn(c, chain, s) ==
  /\ graph'[c] = Inner(chain, s)
  /\ \A x \in Object \ {c} :
       /\ graph[x] \subseteq graph'[x]
       /\ \A e \in graph'[x] \ graph[x] : Made(e[1])' /\ Made(e[2])'

LEMMA NewShape ==
  ASSUME IInv, ShapeInv, NEW c \in Compound, NEW chain \in BOOLEAN, NEW s \in Triples,
         NEW spent, Making(c, chain, s, spent), \A i \in DOMAIN s : Made(s[i]),
         Drawn(c, chain, s)
  PROVE  ShapeInv'
<1>1. /\ c \in Object /\ c \notin Delayable
      /\ parts'[c].kind = (IF chain THEN "chain" ELSE "group")
      /\ parts'[c].of = (IF chain THEN s ELSE {s[i] : i \in DOMAIN s})
      /\ \A x \in Compound : x # c => parts'[x] = parts[x]
      /\ \A x \in Object : Made(x) => Made(x)'
  BY NewParts
<1>2. \A i \in DOMAIN s : s[i] \in Object /\ Made(s[i])'
  BY <1>1, TriplesAreLists
<1>3. 1 \in DOMAIN s
  BY TriplesAreLists
<1>4. ASSUME NEW x \in Compound
      PROVE  /\ parts'[x].kind = "group" => parts'[x].of # {}
             /\ parts'[x].kind = "chain" => Inner(TRUE, parts'[x].of) \subseteq graph'[x]
  <2>1. CASE x = c
    <3>1. CASE chain
      <4>1. parts'[c].kind = "chain" /\ parts'[c].of = s /\ graph'[c] = Inner(chain, s)
        BY <1>1, <3>1 DEF Drawn
      <4>2. Inner(TRUE, s) = Inner(chain, s)
        BY <3>1, InnerIs
      <4>3. QED
        BY <2>1, <4>1, <4>2
    <3>2. CASE ~chain
      <4>1. parts'[c].kind = "group" /\ parts'[c].of = {s[i] : i \in DOMAIN s}
        BY <1>1, <3>2
      <4>2. s[1] \in {s[i] : i \in DOMAIN s}
        BY <1>3
      <4>3. "group" # "chain" /\ parts'[c].of # {}
        BY <4>1, <4>2
      <4>4. QED
        BY <2>1, <4>1, <4>3
    <3>3. QED
      BY <3>1, <3>2
  <2>2. CASE x # c
    <3>1. x \in Object
      BY DEF Object
    <3>2. QED
      BY <1>1, <2>2, <3>1 DEF ShapeInv, Drawn
  <2>3. QED
    BY <2>1, <2>2
<1>5. ASSUME NEW x \in Object, NEW e \in graph'[x]
      PROVE  Made(e[1])' /\ Made(e[2])'
  <2>1. CASE x = c
    <3>1. PICK i \in DOMAIN s : i + 1 \in DOMAIN s /\ e = <<s[i], s[i + 1]>>
      <4>1. e \in Inner(chain, s)
        BY <1>5, <2>1 DEF Drawn
      <4>2. QED
        BY <4>1, InnerIs
    <3>2. QED
      BY <1>2, <3>1
  <2>2. CASE x # c /\ e \in graph[x]
    <3>1. Made(e[1]) /\ Made(e[2]) /\ e[1] \in Object /\ e[2] \in Object
      BY <2>2 DEF ShapeInv, IInv, TypeOK
    <3>2. QED
      BY <1>1, <3>1
  <2>3. CASE x # c /\ e \notin graph[x]
    BY <1>5, <2>3 DEF Drawn
  <2>4. QED
    BY <2>1, <2>2, <2>3
<1>6. \A x \in Compound : /\ (parts[x].kind = "group")' => (parts[x].of)' # {}
                          /\ (parts[x].kind = "chain")' => Inner(TRUE, parts[x].of)' \subseteq (graph[x])'
  BY <1>4 DEF Inner
<1>7. QED
  BY <1>5, <1>6 DEF ShapeInv

\* Where on_done draws edges from has been made.
LEMMA OnDoneFromMade ==
  ASSUME IInv, NEW o \in Object, Made(o)
  PROVE  \A p \in OnDoneFrom(o) : p \in Object /\ Made(p) /\ (p = o \/ p \in Parts(o))
<1>1. \A p \in Parts(o) : p \in Object /\ Made(p)
  BY PartsOf DEF IInv, PartsInv
<1>2. CASE o \in Delayable
  BY <1>2 DEF OnDoneFrom
<1>3. CASE o \notin Delayable /\ parts[o].kind = "chain"
  BY <1>1, <1>3, PartsOf DEF OnDoneFrom, IInv
<1>4. CASE o \notin Delayable /\ parts[o].kind # "chain"
  BY <1>1, <1>4 DEF OnDoneFrom
<1>5. QED
  BY <1>2, <1>3, <1>4

LEMMA BuildingSteps ==
  ASSUME [Next]_vars
  PROVE  BuildStep \/ Forget \/ UNCHANGED <<parts, graph>>
BY DEF vars, Next, DelayStep, Built, Begin, Delay, DelayDirect, AutoDelay, WithDelay,
   RunWithoutDelay, DelaySingle, ExecuteRaises, ExecuteNext, building, RowStep, Start,
   Finish, Fail, Requeue, Autovacuum, CommitCancel, AbortCancel, OpenCancel, Change

LEMMA ShapeKept ==
  ASSUME IInv, ShapeInv, [Next]_vars
  PROVE  ShapeInv'
<1>0. /\ graph \in [Object -> SUBSET (Object \X Object)]
      /\ \A x \in Compound : x \in Object /\ x \notin Delayable
      /\ \A x \in Delayable : Made(x) /\ x \in Object
      /\ \A s \in Pairs : s \in Triples
  BY DelayAssumption DEF IInv, TypeOK, Object, Made, Pairs
<1>1. ASSUME NEW c \in Compound, NEW chain \in BOOLEAN, NEW s \in Triples,
             MakeCompound(c, chain, s)
      PROVE  ShapeInv'
  <2>1. /\ parts[c] = Unmade /\ \A i \in DOMAIN s : Made(s[i]) /\ s[i] # c
        /\ parts' = [parts EXCEPT ![c] = Compounded(chain, s, {})]
        /\ graph' = [graph EXCEPT ![c] = Inner(chain, s)]
    BY <1>1 DEF MakeCompound, Made
  <2>2. graph'[c] = Inner(chain, s) /\ \A x \in Object \ {c} : graph'[x] = graph[x]
    BY <1>0, <2>1
  <2>3. Making(c, chain, s, {}) /\ Drawn(c, chain, s)
    BY <2>1, <2>2 DEF Making, Drawn
  <2>4. QED
    BY <2>1, <2>3, NewShape
<1>2. ASSUME NEW c \in Compound, NEW chain \in BOOLEAN, NEW s \in Pairs,
             NEW d \in Delayable, Split(c, d, chain, s)
      PROVE  ShapeInv'
  <2>1. /\ parts[c] = Unmade /\ \A i \in DOMAIN s : Made(s[i]) /\ s[i] # c
        /\ parts' = [parts EXCEPT ![c] = Compounded(chain, s, {d})]
        /\ graph' = [graph EXCEPT ![c] = Inner(chain, s)]
    BY <1>0, <1>2 DEF Split, Fresh
  <2>2. graph'[c] = Inner(chain, s) /\ \A x \in Object \ {c} : graph'[x] = graph[x]
    BY <1>0, <2>1
  <2>3. Making(c, chain, s, {d}) /\ Drawn(c, chain, s)
    BY <2>1, <2>2 DEF Making, Drawn
  <2>4. QED
    BY <1>0, <2>1, <2>3, NewShape
<1>3. ASSUME NEW c \in Compound, NEW chain \in BOOLEAN, NEW s \in Pairs,
             NEW tail \in Compound, CreateTestJobs(c, chain, s, tail)
      PROVE  ShapeInv'
  <2>1. /\ parts[c] = Unmade /\ \A i \in DOMAIN s : Made(s[i]) /\ s[i] # c
        /\ parts' = [parts EXCEPT ![c] = Compounded(chain, s, {})]
        /\ graph' = [graph EXCEPT ![c] = Inner(chain, s),
                                  ![tail] = @ \cup {<<p, c>> : p \in OnDoneFrom(tail)}]
        /\ parts[tail] # Unmade /\ tail # c
    BY <1>0, <1>3 DEF CreateTestJobs, Fresh
  <2>2. graph'[c] = Inner(chain, s)
    BY <1>0, <2>1
  <2>3. \A x \in Object \ {c} : /\ graph[x] \subseteq graph'[x]
          /\ \A e \in graph'[x] \ graph[x] : \E p \in OnDoneFrom(tail) : e = <<p, c>>
    BY <1>0, <2>1
  <2>m. Making(c, chain, s, {})
    BY <2>1 DEF Making
  <2>4. Made(c)' /\ \A x \in Object : Made(x) => Made(x)'
    BY <1>0, <2>m, NewParts
  <2>5. \A p \in OnDoneFrom(tail) : Made(p)'
    BY <1>0, <2>1, <2>4, OnDoneFromMade DEF Made
  <2>6. \A x \in Object \ {c} : graph[x] \subseteq graph'[x]
          /\ \A e \in graph'[x] \ graph[x] : Made(e[1])' /\ Made(e[2])'
    BY <2>3, <2>4, <2>5
  <2>7. Drawn(c, chain, s)
    BY <2>2, <2>6 DEF Drawn
  <2>8. QED
    BY <1>0, <2>1, <2>m, <2>7, NewShape
<1>4. ASSUME NEW o \in Object, NEW d \in Object, OnDone(o, d)
      PROVE  ShapeInv'
  <2>1. /\ graph' = [graph EXCEPT ![o] = @ \cup {<<p, d>> : p \in OnDoneFrom(o)}]
        /\ UNCHANGED parts /\ Made(o) /\ Made(d)
    BY <1>4 DEF OnDone
  <2>2. \A x \in Object : /\ graph[x] \subseteq graph'[x]
          /\ \A e \in graph'[x] \ graph[x] : \E p \in OnDoneFrom(o) : e = <<p, d>>
    BY <1>0, <2>1
  <2>3. \A x \in Object : \A e \in graph'[x] \ graph[x] : Made(e[1]) /\ Made(e[2])
    BY <2>1, <2>2, OnDoneFromMade
  <2>4. \A x \in Object : \A e \in graph'[x] : Made(e[1])' /\ Made(e[2])'
    BY <2>1, <2>3 DEF ShapeInv, Made
  <2>5. \A x \in Compound : Inner(TRUE, parts'[x].of) = Inner(TRUE, parts[x].of)
    BY <2>1
  <2>6. \A x \in Compound :
          /\ parts[x].kind = "group" => parts[x].of # {}
          /\ parts[x].kind = "chain" => Inner(TRUE, parts[x].of) \subseteq graph'[x]
    BY <1>0, <2>2 DEF ShapeInv
  <2>7. QED
    BY <2>1, <2>4, <2>6 DEF ShapeInv, Inner
<1>5. CASE BuildStep
  BY <1>1, <1>2, <1>3, <1>4, <1>5 DEF BuildStep
<1>6. CASE Forget
  BY <1>6, DelayAssumption DEF Forget, ShapeInv, Unmade, Object
<1>7. CASE UNCHANGED <<parts, graph>>
  BY <1>7, ShapeUnmoved
<1>8. QED
  BY <1>5, <1>6, <1>7, BuildingSteps

LEMMA ShapeInit == Init => ShapeInv
<1> SUFFICES ASSUME Init PROVE ShapeInv
  OBVIOUS
<1>1. \A c \in Compound : parts[c].kind = "none"
  BY DEF Init, Unmade
<1>2. \A o \in Object : graph[o] = {}
  BY DEF Init
<1>3. QED
  BY <1>1, <1>2 DEF ShapeInv

\* Jobs that were put one after the other, by a chain of jobs or groups of jobs or by
\* on_done, are so connected in the graph (delay.py:250-275).
THEOREM FlatOrderIsKept == Spec => []FlatOrderKept
<1>1. Spec => []ShapeInv
  BY ShapeInit, ShapeKept, Invariance, PTL DEF Spec
<1>2. IInv /\ ShapeInv => FlatOrderKept
  BY OrderIsKept DEF IInv, FlatOrderKept
<1>3. QED
  BY <1>1, <1>2, Invariance, PTL

------------------------------------------------------------------------------
(* What is built has no cycle                                                *)

\* An object and all that is within it are laid on an interval of numbers, of which
\* root is the outermost object.  An edge leads to a later interval, and on_done
\* leads to nothing that is within another object, unless they were put there
\* together.
Laid(root, lo, hi) ==
  /\ root \in [Object -> Object] /\ lo \in [Object -> Nat] /\ hi \in [Object -> Nat]
  /\ \A x \in Object : lo[x] <= hi[x] /\ (x \notin AllParts => root[x] = x)
  /\ \A x \in Object : \A p \in Parts(x) :
       root[p] = root[x] /\ lo[x] <= lo[p] /\ hi[p] <= hi[x]
  /\ \A x \in Object : \A e \in graph[x] :
       /\ root[e[1]] = root[x] /\ hi[e[1]] < lo[e[2]]
       /\ e[2] \notin AllParts \/ root[e[2]] = root[x]

LaidOut == \E root, lo, hi : Laid(root, lo, hi)

\* From the outermost object one gets to all that is within it.
LEMMA Descend ==
  ASSUME TypeOK, Acyclic, NEW root, NEW lo, NEW hi, Laid(root, lo, hi), NEW V,
         \A x \in V \cap Object : Parts(x) \subseteq V
  PROVE  \A x \in Object : root[x] \in V => x \in V
<1>1. PICK r : Ranked(r)
  BY DEF Acyclic
<1> DEFINE T == {x \in Object : root[x] \in V /\ x \notin V}
<1>2. ASSUME T # {}
      PROVE  FALSE
  <2>1. PICK x \in T : \A y \in T : r[y] <= r[x]
    <3>1. IsFiniteSet(Object) /\ r \in [Object -> Nat] /\ T \in SUBSET Object
      BY <1>1, FiniteObjects DEF Ranked
    <3> HIDE DEF T
    <3>2. QED
      BY <1>2, <3>1, GreatestValue
  <2>2. x \in Object /\ x \in AllParts
    BY <2>1 DEF Laid
  <2>3. PICK y \in Object : x \in Parts(y)
    BY <2>2 DEF AllParts
  <2>4. root[y] = root[x] /\ r[x] < r[y] /\ r[x] \in Nat /\ r[y] \in Nat
    BY <1>1, <2>2, <2>3 DEF Laid, Ranked
  <2>5. y \notin V
    BY <2>1, <2>3
  <2>6. y \in T
    BY <2>1, <2>4, <2>5
  <2>7. QED
    BY <2>1, <2>4, <2>6
<1>3. QED
  BY <1>2

\* What is around an object is around the outermost object that it is in.
LEMMA RootsVisited ==
  ASSUME TypeOK, Acyclic, NEW root, NEW lo, NEW hi, Laid(root, lo, hi),
         NEW d \in Object, d \notin AllParts
  PROVE  \A x \in Object : root[x] \in Visited(d) <=> x \in Visited(d)
<1> DEFINE S == {x \in Object : root[x] \in Visited(d)}
<1>1. /\ Visited(d) \subseteq Object /\ d \in Visited(d)
      /\ \A x \in Visited(d) : Near(x) \subseteq Visited(d)
      /\ \A T : d \in T /\ (\A x \in T \cap Object : Near(x) \subseteq T)
           => Visited(d) \subseteq T
  BY VisitedClosed
<1>2. \A x \in Object : root[x] \in Visited(d) => x \in Visited(d)
  <2>1. \A x \in Visited(d) \cap Object : Parts(x) \subseteq Visited(d)
    BY <1>1 DEF Near
  <2>2. QED
    BY <2>1, Descend
<1>3. d \in S
  BY <1>1 DEF Laid
<1>4. ASSUME NEW x \in S \cap Object
      PROVE  Near(x) \subseteq S
  <2>1. x \in Object /\ root[x] \in Visited(d) /\ x \in Visited(d)
    BY <1>2, <1>4
  <2>2. Near(x) \subseteq Visited(d) /\ Near(x) \subseteq Object
    BY <1>1, <2>1
  <2>3. \A p \in Parts(x) : p \in S
    BY <2>1, <2>2 DEF Laid, Near
  <2>4. ASSUME NEW e \in graph[x]
        PROVE  e[1] \in S /\ e[2] \in S
    <3>1. e[1] \in Near(x) /\ e[2] \in Near(x)
      BY <2>4 DEF Near
    <3>2. root[e[1]] = root[x] /\ (e[2] \notin AllParts \/ root[e[2]] = root[x])
      BY <2>1, <2>4 DEF Laid
    <3>3. e[2] \notin AllParts => root[e[2]] = e[2]
      BY <2>2, <3>1 DEF Laid
    <3>4. QED
      BY <2>1, <2>2, <3>1, <3>2, <3>3
  <2>5. QED
    BY <2>3, <2>4 DEF Near
<1>5. Visited(d) \subseteq S
  <2> HIDE DEF S
  <2>1. QED
    BY <1>1, <1>3, <1>4
<1>6. QED
  BY <1>2, <1>5

LEMMA LaidInit == Init => LaidOut
<1> SUFFICES ASSUME Init PROVE LaidOut
  OBVIOUS
<1>1. \A o \in Object : Parts(o) = {} /\ graph[o] = {}
  <2>1. \A c \in Compound : c \notin Delayable /\ parts[c].kind = "none"
    BY DelayAssumption DEF Init, Unmade
  <2>2. QED
    BY <2>1, PartsCases DEF Object, Init
<1>2. Laid([o \in Object |-> o], [o \in Object |-> 0], [o \in Object |-> 0])
  BY <1>1 DEF Laid
<1>3. QED
  BY <1>2 DEF LaidOut

LEMMA LaidUnmoved ==
  ASSUME LaidOut, UNCHANGED <<parts, graph>>
  PROVE  LaidOut'
<1>1. PICK root, lo, hi : Laid(root, lo, hi)
  BY DEF LaidOut
<1>2. \A x : Parts(x)' = Parts(x)
  BY DEF Parts
<1>3. AllParts' = AllParts
  BY <1>2 DEF AllParts
<1>4. Laid(root, lo, hi)'
  BY <1>1, <1>2, <1>3 DEF Laid
<1>5. QED
  BY <1>4 DEF LaidOut

LEMMA LaidForget ==
  ASSUME Forget
  PROVE  LaidOut'
<1>1. \A o \in Object : Parts(o)' = {} /\ graph'[o] = {}
  <2>1. \A c \in Compound : parts'[c] = Unmade
    BY DEF Forget
  <2>2. QED
    BY <2>1, DelayAssumption DEF Parts, Object, Unmade, Forget
<1>2. Laid([o \in Object |-> o], [o \in Object |-> 0], [o \in Object |-> 0])'
  BY <1>1 DEF Laid
<1>3. QED
  BY <1>2 DEF LaidOut

\* The numbers of the intervals have a bound.
LEMMA LaidBound ==
  ASSUME NEW root, NEW lo, NEW hi, Laid(root, lo, hi)
  PROVE  \E K \in Nat : \A x \in Object : hi[x] < K /\ lo[x] < K
<1>1. IsFiniteSet(Object) /\ hi \in [Object -> Nat] /\ lo \in [Object -> Nat]
  BY FiniteObjects DEF Laid
<1>2. PICK K \in Nat : \A x \in Object : hi[x] < K
  BY <1>1, BoundExists
<1>3. \A x \in Object : lo[x] <= hi[x] /\ hi[x] \in Nat /\ lo[x] \in Nat
  BY <1>1 DEF Laid
<1>4. \A x \in Object : hi[x] < K /\ lo[x] < K
  BY <1>2, <1>3
<1>5. QED
  BY <1>4

\* on_done moves what comes later, and all that it leads to, behind the rest.
LEMMA OnDoneLaid ==
  ASSUME IInv, LaidOut, NEW o \in Object, NEW d \in Object, OnDone(o, d)
  PROVE  LaidOut'
<1>1. PICK root, lo, hi : Laid(root, lo, hi)
  BY DEF LaidOut
<1>2. PICK K \in Nat : \A x \in Object : hi[x] < K /\ lo[x] < K
  BY <1>1, LaidBound
<1>v. PICK V : V = Visited(d)
  OBVIOUS
<1> DEFINE by(x) == IF root[x] \in V THEN K ELSE 0
           lo2 == [x \in Object |-> lo[x] + by(x)]
           hi2 == [x \in Object |-> hi[x] + by(x)]
<1>3. /\ TypeOK /\ Acyclic /\ Made(o) /\ d \notin AllParts /\ o \notin V
      /\ graph' = [graph EXCEPT ![o] = @ \cup {<<p, d>> : p \in OnDoneFrom(o)}]
      /\ UNCHANGED parts
  BY <1>v DEF OnDone, IInv, PartsInv
<1>4. \A x \in Object : root[x] \in V <=> x \in V
  BY <1>1, <1>3, <1>v, RootsVisited
<1>5. /\ V \subseteq Object /\ d \in V
      /\ \A x \in V : Near(x) \subseteq V
  BY <1>3, <1>v, VisitedClosed
<1>6. /\ root \in [Object -> Object] /\ lo2 \in [Object -> Nat] /\ hi2 \in [Object -> Nat]
      /\ \A x \in Object : lo[x] \in Nat /\ hi[x] \in Nat
      /\ \A x \in Object : by(x) \in Nat /\ lo2[x] = lo[x] + by(x) /\ hi2[x] = hi[x] + by(x)
  BY <1>1 DEF Laid
<1>7. (\A x : Parts(x)' = Parts(x)) /\ AllParts' = AllParts
  BY <1>3 DEF AllParts, Parts
<1>8. graph \in [Object -> SUBSET (Object \X Object)]
  BY <1>3 DEF TypeOK
<1>9. by(o) = 0 /\ by(d) = K
  BY <1>3, <1>4, <1>5
<1> HIDE DEF lo2, hi2
<1>10. \A x \in Object : lo2[x] <= hi2[x] /\ (x \notin AllParts => root[x] = x)
  <2>1. \A x \in Object : lo[x] <= hi[x]
    BY <1>1 DEF Laid
  <2> HIDE DEF by
  <2>2. \A x \in Object : lo2[x] <= hi2[x]
    BY <1>6, <2>1
  <2>3. QED
    BY <1>1, <2>2 DEF Laid
<1>11. ASSUME NEW x \in Object, NEW p \in Parts(x)
       PROVE  root[p] = root[x] /\ lo2[x] <= lo2[p] /\ hi2[p] <= hi2[x]
  <2>1. p \in Object /\ root[p] = root[x] /\ lo[x] <= lo[p] /\ hi[p] <= hi[x]
    BY <1>1, <1>3, PartsOf DEF Laid
  <2>2. by(p) = by(x)
    BY <2>1
  <2> HIDE DEF by
  <2>3. QED
    BY <1>6, <2>1, <2>2
<1>12. ASSUME NEW x \in Object, NEW e \in graph[x]
       PROVE  /\ root[e[1]] = root[x] /\ hi2[e[1]] < lo2[e[2]]
              /\ e[2] \notin AllParts \/ root[e[2]] = root[x]
  <2>1. /\ e[1] \in Object /\ e[2] \in Object
        /\ root[e[1]] = root[x] /\ hi[e[1]] < lo[e[2]]
        /\ e[2] \notin AllParts \/ root[e[2]] = root[x]
    BY <1>1, <1>8 DEF Laid
  <2>2. by(e[1]) <= by(e[2])
    <3>1. ASSUME root[x] \in V PROVE root[e[2]] \in V
      <4>1. e[2] \in V
        BY <1>4, <1>5, <3>1 DEF Near
      <4>2. QED
        BY <1>4, <2>1, <4>1
    <3>2. QED
      BY <2>1, <3>1
  <2> HIDE DEF by
  <2>3. QED
    BY <1>6, <2>1, <2>2
<1>13. ASSUME NEW p \in OnDoneFrom(o)
       PROVE  root[p] = root[o] /\ hi2[p] < lo2[d] /\ p \in Object
  <2>1. p \in Object /\ root[p] = root[o]
    BY <1>1, <1>3, OnDoneFromMade DEF Laid
  <2>2. by(p) = 0
    BY <1>9, <2>1
  <2> HIDE DEF by
  <2>3. QED
    BY <1>2, <1>6, <1>9, <2>1, <2>2
<1>14. ASSUME NEW x \in Object, NEW e \in graph'[x]
       PROVE  /\ root[e[1]] = root[x] /\ hi2[e[1]] < lo2[e[2]]
              /\ e[2] \notin AllParts \/ root[e[2]] = root[x]
  <2>1. CASE e \in graph[x]
    BY <1>12, <2>1
  <2>2. CASE e \notin graph[x]
    <3>1. x = o /\ \E p \in OnDoneFrom(o) : e = <<p, d>>
      BY <1>3, <1>8, <1>14, <2>2
    <3>2. QED
      BY <1>3, <1>13, <3>1
  <2>3. QED
    BY <2>1, <2>2
<1>15. Laid(root, lo2, hi2)'
  <2>1. \A x \in Object : \A p \in Parts(x)' :
          root[p] = root[x] /\ lo2[x] <= lo2[p] /\ hi2[p] <= hi2[x]
    BY <1>7, <1>11
  <2>2. \A x \in Object : \A e \in graph'[x] :
          /\ root[e[1]] = root[x] /\ hi2[e[1]] < lo2[e[2]]
          /\ e[2] \notin AllParts' \/ root[e[2]] = root[x]
    BY <1>7, <1>14
  <2>3. QED
    BY <1>6, <1>7, <1>10, <2>1, <2>2 DEF Laid
<1>16. QED
  BY <1>15 DEF LaidOut

\* What nothing else is joined to yet: the objects that may be made into a compound.
Free(s) == \A i \in DOMAIN s : s[i] \notin AllParts \cup Targets

\* A chain or a group puts the intervals of its parts one after another, before all the rest.
LEMMA CompoundLaid ==
  ASSUME IInv, ShapeInv, LaidOut, NEW c \in Compound, NEW chain \in BOOLEAN,
         NEW s \in Triples, NEW spent, Making(c, chain, s, spent), Free(s),
         graph' = [graph EXCEPT ![c] = Inner(chain, s)]
  PROVE  LaidOut'
<1>1. PICK root, lo, hi : Laid(root, lo, hi)
  BY DEF LaidOut
<1>2. PICK K \in Nat : \A x \in Object : hi[x] < K /\ lo[x] < K
  BY <1>1, LaidBound
<1> DEFINE Within(x) == root[x] \in {s[i] : i \in DOMAIN s}
           After(y) == IF y = s[1] THEN 0
                       ELSE IF 2 \in DOMAIN s /\ y = s[2] THEN K
                       ELSE IF 3 \in DOMAIN s /\ y = s[3] THEN K + K
                       ELSE K + K + K
           by(x) == After(root[x])
           root2 == [x \in Object |-> IF Within(x) THEN c ELSE root[x]]
           lo2 == [x \in Object |-> IF x = c THEN 0 ELSE lo[x] + by(x)]
           hi2 == [x \in Object |-> IF x = c THEN K + K + K + K ELSE hi[x] + by(x)]
<1>3. /\ c \in Object
      /\ Parts(c)' = {s[i] : i \in DOMAIN s}
      /\ \A x \in Object : x # c => Parts(x)' = Parts(x)
      /\ \A x \in Object : Made(x) => x # c
      /\ \A x \in Object : c \notin Parts(x)
  <2>1. c \in Object /\ Parts(c)' = {s[i] : i \in DOMAIN s}
    <3>1. /\ c \in Object /\ c \notin Delayable
          /\ parts'[c].kind = (IF chain THEN "chain" ELSE "group")
          /\ parts'[c].of = (IF chain THEN s ELSE {s[i] : i \in DOMAIN s})
      BY NewParts
    <3>2. CASE chain
      BY <3>1, <3>2 DEF Parts
    <3>3. CASE ~chain
      BY <3>1, <3>3 DEF Parts
    <3>4. QED
      BY <3>1, <3>2, <3>3
  <2>2. \A x \in Object : x # c => Parts(x)' = Parts(x)
    BY NewParts
  <2>3. \A x \in Object : Made(x) => x # c
    BY NewParts
  <2>4. \A x \in Object : c \notin Parts(x)
    BY NewParts
  <2>5. QED
    BY <2>1, <2>2, <2>3, <2>4
<1>4. /\ Len(s) \in 1..3 /\ DOMAIN s = 1..Len(s) /\ \A i \in DOMAIN s : s[i] \in Object /\ s[i] # c
      /\ \A i, k \in DOMAIN s : s[i] = s[k] => i = k
  BY TriplesAreLists DEF Triples, Making
<1>5. graph \in [Object -> SUBSET (Object \X Object)] /\ TypeOK
  BY DEF IInv, TypeOK
<1>6. graph'[c] = Inner(chain, s) /\ \A x \in Object : x # c => graph'[x] = graph[x]
  BY <1>3, <1>5
<1>7. /\ root \in [Object -> Object] /\ lo \in [Object -> Nat] /\ hi \in [Object -> Nat]
      /\ \A x \in Object : lo[x] <= hi[x] /\ (x \notin AllParts => root[x] = x)
  BY <1>1 DEF Laid
<1>8. /\ \A i \in DOMAIN s : s[i] \notin AllParts /\ root[s[i]] = s[i]
      /\ c \notin AllParts /\ root[c] = c /\ ~Within(c)
  BY <1>3, <1>4, <1>7 DEF Free, AllParts
<1>9. \A x \in Object : by(x) \in {0, K, K + K, K + K + K}
  OBVIOUS
<1>10. \A x \in Object : ~Within(x) => by(x) = K + K + K
  BY <1>4
<1>11. \A i \in DOMAIN s : /\ i = 1 => by(s[i]) = 0
                           /\ i = 2 => by(s[i]) = K
                           /\ i = 3 => by(s[i]) = K + K
  BY <1>4, <1>8
<1> HIDE DEF After
<1>12. /\ root2 \in [Object -> Object] /\ lo2 \in [Object -> Nat] /\ hi2 \in [Object -> Nat]
       /\ \A x \in Object : root2[x] = IF Within(x) THEN c ELSE root[x]
       /\ lo2[c] = 0 /\ hi2[c] = K + K + K + K
       /\ \A x \in Object : x # c => lo2[x] = lo[x] + by(x) /\ hi2[x] = hi[x] + by(x)
       /\ \A x \in Object : by(x) \in Nat /\ by(x) <= K + K + K
  <2>1. \A x \in Object : lo[x] \in Nat /\ hi[x] \in Nat
    BY <1>7
  <2>2. \A x \in Object : by(x) \in Nat /\ by(x) <= K + K + K
    BY <1>9
  <2> HIDE DEF by
  <2>3. \A x \in Object : lo[x] + by(x) \in Nat /\ hi[x] + by(x) \in Nat
    BY <2>1, <2>2
  <2> HIDE DEF Within
  <2>4. QED
    BY <1>3, <1>7, <2>2, <2>3
<1> HIDE DEF root2, lo2, hi2
<1>13. AllParts' = AllParts \cup {s[i] : i \in DOMAIN s}
  <2>1. Parts(c) = {}
    BY NewParts
  <2>2. QED
    BY <1>3, <2>1 DEF AllParts
<1>14. ASSUME NEW x \in Object
       PROVE  lo2[x] <= hi2[x] /\ (x \notin AllParts' => root2[x] = x)
  <2>1. lo2[x] <= hi2[x]
    <3>1. lo[x] <= hi[x] /\ lo[x] \in Nat /\ hi[x] \in Nat
      BY <1>7
    <3> HIDE DEF by
    <3>2. QED
      BY <1>12, <3>1
  <2>2. ASSUME x \notin AllParts' PROVE root2[x] = x
    <3>1. root[x] = x /\ ~Within(x)
      BY <1>7, <1>13, <2>2
    <3>2. QED
      BY <1>12, <3>1
  <2>3. QED
    BY <2>1, <2>2
<1>15. ASSUME NEW x \in Object, NEW p \in Parts(x)'
       PROVE  root2[p] = root2[x] /\ lo2[x] <= lo2[p] /\ hi2[p] <= hi2[x]
  <2>1. CASE x = c
    <3>1. PICK i \in DOMAIN s : p = s[i]
      BY <1>3, <2>1
    <3>2. p \in Object /\ p # c /\ Within(p) /\ lo[p] \in Nat /\ hi[p] \in Nat
      BY <1>4, <1>7, <1>8, <3>1
    <3>3. root2[p] = c /\ root2[c] = c
      BY <1>3, <1>8, <1>12, <3>2
    <3> HIDE DEF by, Within
    <3>4. lo2[c] <= lo2[p]
      BY <1>12, <3>2
    <3>5. hi2[p] <= hi2[c]
      BY <1>2, <1>12, <3>2
    <3>6. QED
      BY <2>1, <3>3, <3>4, <3>5
  <2>2. CASE x # c
    <3>1. p \in Parts(x) /\ p \in Object /\ p # c
      BY <1>3, <1>5, <2>2, PartsOf
    <3>2. root[p] = root[x] /\ lo[x] <= lo[p] /\ hi[p] <= hi[x]
      BY <1>1, <3>1 DEF Laid
    <3>3. by(p) = by(x) /\ (Within(p) <=> Within(x))
      BY <3>2
    <3>4. root2[p] = root2[x]
      BY <1>12, <3>1, <3>2, <3>3
    <3>5. lo[x] \in Nat /\ lo[p] \in Nat /\ hi[x] \in Nat /\ hi[p] \in Nat
      BY <1>7, <3>1
    <3> HIDE DEF by, Within
    <3>6. QED
      BY <1>12, <2>2, <3>1, <3>2, <3>3, <3>4, <3>5
  <2>3. QED
    BY <2>1, <2>2
<1>16. ASSUME NEW x \in Object, NEW e \in graph'[x]
       PROVE  /\ root2[e[1]] = root2[x] /\ hi2[e[1]] < lo2[e[2]]
              /\ e[2] \notin AllParts' \/ root2[e[2]] = root2[x]
  <2>1. CASE x = c
    <3>1. PICK i \in DOMAIN s : i + 1 \in DOMAIN s /\ e = <<s[i], s[i + 1]>>
      <4>1. e \in Inner(chain, s)
        BY <1>6, <1>16, <2>1
      <4>2. QED
        BY <4>1, InnerIs
    <3> DEFINE a == s[i]
               b == s[i + 1]
    <3>2. /\ a \in Object /\ b \in Object /\ a # c /\ b # c /\ Within(a) /\ Within(b)
          /\ e[1] = a /\ e[2] = b
      BY <1>4, <1>8, <3>1
    <3>3. root2[a] = c /\ root2[b] = c /\ root2[c] = c
      BY <1>3, <1>8, <1>12, <3>2
    <3>4. by(b) = by(a) + K
      <4>1. i = 1 \/ i = 2
        BY <1>4, <3>1
      <4>2. CASE i = 1
        BY <1>11, <3>1, <4>2
      <4>3. CASE i = 2
        BY <1>11, <3>1, <4>3
      <4>4. QED
        BY <4>1, <4>2, <4>3
    <3>5. hi[a] < K /\ hi[a] \in Nat /\ lo[b] \in Nat
      BY <1>2, <1>7, <3>2
    <3> HIDE DEF by, Within, a, b
    <3>6. hi2[a] < lo2[b]
      BY <1>12, <3>2, <3>4, <3>5
    <3>7. QED
      BY <2>1, <3>2, <3>3, <3>6
  <2>2. CASE x # c
    <3>1. e \in graph[x]
      BY <1>6, <1>16, <2>2
    <3>2. /\ e[1] \in Object /\ e[2] \in Object /\ e[1] # c /\ e[2] # c
          /\ root[e[1]] = root[x] /\ hi[e[1]] < lo[e[2]]
          /\ e[2] \notin AllParts \/ root[e[2]] = root[x]
      <4>1. Made(e[1]) /\ Made(e[2]) /\ e[1] \in Object /\ e[2] \in Object
        BY <1>5, <3>1 DEF ShapeInv
      <4>2. QED
        BY <1>1, <1>3, <3>1, <4>1 DEF Laid
    <3>3. e[2] \in Targets /\ \A i \in DOMAIN s : e[2] # s[i]
      BY <3>1 DEF Free, Targets
    <3>4. by(e[1]) <= by(e[2])
      <4>1. CASE root[e[2]] = root[x]
        <5>1. by(e[1]) = by(e[2])
          BY <3>2, <4>1
        <5>2. by(e[1]) \in Nat
          BY <1>12, <3>2
        <5>3. QED
          BY <5>1, <5>2
      <4>2. CASE e[2] \notin AllParts
        <5>1. root[e[2]] = e[2] /\ ~Within(e[2])
          BY <1>7, <3>2, <3>3, <4>2
        <5>2. QED
          BY <1>10, <1>12, <3>2, <5>1
      <4>3. QED
        BY <3>2, <4>1, <4>2
    <3>5. root2[e[1]] = root2[x]
      BY <1>12, <3>2
    <3>6. e[2] \notin AllParts' \/ root2[e[2]] = root2[x]
      BY <1>12, <1>13, <3>2, <3>3
    <3>7. /\ hi[e[1]] \in Nat /\ lo[e[2]] \in Nat /\ by(e[1]) \in Nat /\ by(e[2]) \in Nat
          /\ hi2[e[1]] = hi[e[1]] + by(e[1]) /\ lo2[e[2]] = lo[e[2]] + by(e[2])
      BY <1>7, <1>12, <3>2
    <3> HIDE DEF by, Within
    <3>8. hi2[e[1]] < lo2[e[2]]
      BY <3>2, <3>4, <3>7
    <3>9. QED
      BY <3>5, <3>6, <3>8
  <2>3. QED
    BY <2>1, <2>2
<1>17. Laid(root2, lo2, hi2)'
  BY <1>12, <1>14, <1>15, <1>16 DEF Laid
<1>18. QED
  BY <1>17 DEF LaidOut

\* The new jobs of a test graph come after all that is there, the edges to them included.
LEMMA TestJobsLaid ==
  ASSUME IInv, ShapeInv, LaidOut, NEW c \in Compound, NEW chain \in BOOLEAN,
         NEW s \in Triples, Len(s) <= 2, NEW tail \in Compound, CreateTestJobs(c, chain, s, tail)
  PROVE  LaidOut'
<1>1. PICK root, lo, hi : Laid(root, lo, hi)
  BY DEF LaidOut
<1>2. PICK K \in Nat : \A x \in Object : hi[x] < K /\ lo[x] < K
  BY <1>1, LaidBound
<1> DEFINE New(x) == x \in {s[i] : i \in DOMAIN s}
           At(x) == IF x = s[1] THEN K ELSE K + 1
           root2 == [x \in Object |-> IF New(x) THEN c ELSE root[x]]
           lo2 == [x \in Object |-> IF x = c THEN K ELSE IF New(x) THEN At(x) ELSE lo[x]]
           hi2 == [x \in Object |-> IF x = c THEN K + 2 ELSE IF New(x) THEN At(x) ELSE hi[x]]
<1>3. /\ parts[c] = Unmade /\ parts[tail] # Unmade /\ tail \notin AllParts
      /\ \A i \in DOMAIN s : Fresh(s[i])
      /\ parts' = [parts EXCEPT ![c] = Compounded(chain, s, {})]
      /\ graph' = [graph EXCEPT ![c] = Inner(chain, s),
                                ![tail] = @ \cup {<<p, c>> : p \in OnDoneFrom(tail)}]
  BY DEF CreateTestJobs
<1>4. /\ c \in Object /\ c \notin Delayable /\ tail \in Object /\ tail \notin Delayable /\ tail # c
      /\ \A i \in DOMAIN s : s[i] \in Delayable /\ s[i] # c /\ s[i] # tail
  BY <1>3, DelayAssumption DEF Object, Fresh
<1>5. /\ Len(s) \in 1..2 /\ DOMAIN s = 1..Len(s) /\ \A i \in DOMAIN s : s[i] \in Object
      /\ \A i, k \in DOMAIN s : s[i] = s[k] => i = k
  BY TriplesAreLists DEF Triples
<1>6. Making(c, chain, s, {})
  BY <1>3, <1>4 DEF Making
<1>7. /\ Parts(c)' = {s[i] : i \in DOMAIN s}
      /\ \A x \in Object : x # c => Parts(x)' = Parts(x)
      /\ \A x \in Object : Made(x) => x # c
      /\ \A x \in Object : c \notin Parts(x)
      /\ Parts(c) = {}
  <2>1. Parts(c)' = {s[i] : i \in DOMAIN s}
    <3>1. /\ parts'[c].kind = (IF chain THEN "chain" ELSE "group")
          /\ parts'[c].of = (IF chain THEN s ELSE {s[i] : i \in DOMAIN s})
      <4>1. parts \in [Compound -> {Unmade} \cup Compounds]
        BY DEF IInv, TypeOK
      <4>2. parts'[c] = Compounded(chain, s, {})
        BY <1>3, <4>1
      <4>3. QED
        BY <4>2 DEF Compounded
    <3>2. CASE chain
      BY <1>4, <3>1, <3>2 DEF Parts
    <3>3. CASE ~chain
      BY <1>4, <3>1, <3>3 DEF Parts
    <3>4. QED
      BY <3>2, <3>3
  <2>2. \A x \in Object : x # c => Parts(x)' = Parts(x)
    BY <1>6, NewParts
  <2>3. \A x \in Object : Made(x) => x # c
    BY <1>6, NewParts
  <2>4. \A x \in Object : c \notin Parts(x)
    BY <1>6, NewParts
  <2>5. Parts(c) = {}
    BY <1>6, NewParts
  <2>6. QED
    BY <2>1, <2>2, <2>3, <2>4, <2>5
<1>8. graph \in [Object -> SUBSET (Object \X Object)] /\ TypeOK /\ Acyclic
  BY DEF IInv, TypeOK, PartsInv
<1>9. /\ graph'[c] = Inner(chain, s)
      /\ \A e \in graph'[tail] : e \in graph[tail] \/ \E p \in OnDoneFrom(tail) : e = <<p, c>>
      /\ \A x \in Object : x # c /\ x # tail => graph'[x] = graph[x]
  BY <1>3, <1>4, <1>8
<1>10. /\ root \in [Object -> Object] /\ lo \in [Object -> Nat] /\ hi \in [Object -> Nat]
       /\ \A x \in Object : lo[x] <= hi[x] /\ (x \notin AllParts => root[x] = x)
  BY <1>1 DEF Laid
<1>11. /\ \A x : New(x) => /\ x \in Object /\ x # c /\ x # tail /\ x \notin AllParts
                           /\ x \notin Targets /\ Parts(x) = {} /\ graph[x] = {} /\ root[x] = x
       /\ c \notin AllParts /\ root[c] = c /\ ~New(c) /\ root[tail] = tail /\ ~New(tail)
  BY <1>3, <1>4, <1>5, <1>7, <1>10, PartsCases DEF Fresh, AllParts
<1>12. \A x \in Object : New(root[x]) => New(x)
  <2> DEFINE V == {s[i] : i \in DOMAIN s}
  <2>1. \A x \in V \cap Object : Parts(x) \subseteq V
    BY <1>11
  <2>2. \A x \in Object : root[x] \in V => x \in V
    <3> HIDE DEF V
    <3>1. QED
      BY <1>1, <1>8, <2>1, Descend
  <2>3. QED
    BY <2>2
<1>13. \A x : At(x) \in {K, K + 1}
  OBVIOUS
<1>14. At(s[1]) = K /\ (2 \in DOMAIN s => At(s[2]) = K + 1)
  BY <1>5
<1> HIDE DEF At, New
<1>15. /\ root2 \in [Object -> Object] /\ lo2 \in [Object -> Nat] /\ hi2 \in [Object -> Nat]
       /\ \A x \in Object : root2[x] = IF New(x) THEN c ELSE root[x]
       /\ lo2[c] = K /\ hi2[c] = K + 2
       /\ \A x \in Object : New(x) => lo2[x] = At(x) /\ hi2[x] = At(x)
       /\ \A x \in Object : x # c /\ ~New(x) => lo2[x] = lo[x] /\ hi2[x] = hi[x]
  <2>1. \A x : At(x) \in Nat
    BY <1>13
  <2>2. QED
    BY <1>4, <1>10, <1>11, <2>1
<1> HIDE DEF root2, lo2, hi2
<1>16. AllParts' = AllParts \cup {s[i] : i \in DOMAIN s}
  BY <1>4, <1>7 DEF AllParts
<1>17. ASSUME NEW x \in Object
       PROVE  lo2[x] <= hi2[x] /\ (x \notin AllParts' => root2[x] = x)
  <2>1. lo2[x] <= hi2[x]
    <3>1. At(x) \in Nat
      BY <1>13
    <3>2. CASE x = c
      BY <1>15, <3>2
    <3>3. CASE x # c /\ New(x)
      BY <1>15, <3>1, <3>3
    <3>4. CASE x # c /\ ~New(x)
      <4>1. lo2[x] = lo[x] /\ hi2[x] = hi[x] /\ lo[x] <= hi[x]
        BY <1>10, <1>15, <3>4
      <4>2. QED
        BY <4>1
    <3>5. QED
      BY <3>2, <3>3, <3>4
  <2>2. ASSUME x \notin AllParts' PROVE root2[x] = x
    <3>1. x \notin AllParts /\ ~New(x)
      BY <1>16, <2>2 DEF New
    <3>2. QED
      BY <1>10, <1>15, <3>1
  <2>3. QED
    BY <2>1, <2>2
<1>18. ASSUME NEW x \in Object, NEW p \in Parts(x)'
       PROVE  root2[p] = root2[x] /\ lo2[x] <= lo2[p] /\ hi2[p] <= hi2[x]
  <2>1. CASE x = c
    <3>1. New(p) /\ p \in Object
      BY <1>5, <1>7, <2>1 DEF New
    <3>2. root2[p] = c /\ root2[c] = c /\ lo2[p] = At(p) /\ hi2[p] = At(p)
      BY <1>4, <1>11, <1>15, <3>1
    <3>3. QED
      BY <1>13, <1>15, <2>1, <3>2
  <2>2. CASE x # c
    <3>1. p \in Parts(x) /\ p \in Object /\ p # c
      BY <1>7, <1>8, <2>2, PartsOf
    <3>2. root[p] = root[x] /\ lo[x] <= lo[p] /\ hi[p] <= hi[x]
      BY <1>1, <3>1 DEF Laid
    <3>3. ~New(p) /\ ~New(x)
      BY <1>11, <3>1 DEF AllParts
    <3>4. QED
      BY <1>15, <2>2, <3>1, <3>2, <3>3
  <2>3. QED
    BY <2>1, <2>2
<1>19. ASSUME NEW x \in Object, NEW e \in graph[x], x # c
       PROVE  /\ root2[e[1]] = root2[x] /\ hi2[e[1]] < lo2[e[2]]
              /\ e[2] \notin AllParts' \/ root2[e[2]] = root2[x]
  <2>1. /\ e[1] \in Object /\ e[2] \in Object /\ e[1] # c /\ e[2] # c
        /\ root[e[1]] = root[x] /\ hi[e[1]] < lo[e[2]]
        /\ e[2] \notin AllParts \/ root[e[2]] = root[x]
    <3>1. Made(e[1]) /\ Made(e[2]) /\ e[1] \in Object /\ e[2] \in Object
      BY <1>8, <1>19 DEF ShapeInv
    <3>2. QED
      BY <1>1, <1>7, <1>19, <3>1 DEF Laid
  <2>2. ~New(x) /\ ~New(e[2])
    BY <1>11, <1>19 DEF Targets
  <2>3. ~New(e[1])
    <3>1. New(e[1]) => root[e[1]] = e[1]
      BY <1>11
    <3>2. QED
      BY <1>12, <2>1, <2>2, <3>1
  <2>4. e[2] \notin AllParts => e[2] \notin AllParts'
    BY <1>16, <2>2 DEF New
  <2>5. QED
    BY <1>15, <1>19, <2>1, <2>2, <2>3, <2>4
<1>20. ASSUME NEW p \in OnDoneFrom(tail)
       PROVE  root2[p] = root2[tail] /\ hi2[p] < lo2[c] /\ c \notin AllParts'
  <2>1. p \in Object /\ Made(p) /\ root[p] = tail
    <3>1. Made(tail)
      BY <1>3 DEF Made
    <3>2. p \in Object /\ Made(p) /\ (p = tail \/ p \in Parts(tail))
      BY <1>4, <3>1, OnDoneFromMade
    <3>3. QED
      BY <1>1, <1>4, <1>11, <3>2 DEF Laid
  <2>2. ~New(p) /\ p # c
    BY <1>7, <1>11, <2>1
  <2>3. c \notin AllParts'
    BY <1>11, <1>16 DEF New
  <2>4. QED
    BY <1>2, <1>4, <1>11, <1>15, <2>1, <2>2, <2>3
<1>21. ASSUME NEW x \in Object, NEW e \in graph'[x]
       PROVE  /\ root2[e[1]] = root2[x] /\ hi2[e[1]] < lo2[e[2]]
              /\ e[2] \notin AllParts' \/ root2[e[2]] = root2[x]
  <2>1. CASE x = c
    <3>1. PICK i \in DOMAIN s : i + 1 \in DOMAIN s /\ e = <<s[i], s[i + 1]>>
      <4>1. e \in Inner(chain, s)
        BY <1>9, <1>21, <2>1
      <4>2. QED
        BY <4>1, InnerIs
    <3>2. i = 1 /\ 2 \in DOMAIN s
      BY <1>5, <3>1
    <3>3. /\ e[1] = s[1] /\ e[2] = s[2] /\ New(s[1]) /\ New(s[2])
          /\ s[1] \in Object /\ s[2] \in Object
      BY <1>5, <3>1, <3>2 DEF New
    <3>4. root2[s[1]] = c /\ root2[s[2]] = c /\ root2[c] = c
      BY <1>4, <1>11, <1>15, <3>3
    <3>5. hi2[s[1]] < lo2[s[2]]
      BY <1>14, <1>15, <3>2, <3>3
    <3>6. QED
      BY <2>1, <3>3, <3>4, <3>5
  <2>2. CASE x # c /\ e \in graph[x]
    BY <1>19, <2>2
  <2>3. CASE x # c /\ e \notin graph[x]
    <3>1. x = tail /\ \E p \in OnDoneFrom(tail) : e = <<p, c>>
      BY <1>9, <1>21, <2>3
    <3>2. QED
      BY <1>20, <3>1
  <2>4. QED
    BY <2>1, <2>2, <2>3
<1>22. Laid(root2, lo2, hi2)'
  BY <1>15, <1>17, <1>18, <1>21 DEF Laid
<1>23. QED
  BY <1>22 DEF LaidOut

LEMMA LaidKept ==
  ASSUME IInv, ShapeInv, LaidOut, [Next]_vars
  PROVE  LaidOut'
<1>0. \A s \in Pairs : s \in Triples /\ Len(s) <= 2
  BY DEF Pairs
<1>1. ASSUME NEW c \in Compound, NEW chain \in BOOLEAN, NEW s \in Triples,
             MakeCompound(c, chain, s)
      PROVE  LaidOut'
  <2>1. Making(c, chain, s, {}) /\ Free(s) /\ graph' = [graph EXCEPT ![c] = Inner(chain, s)]
    BY <1>1 DEF MakeCompound, Making, Free, Made
  <2>2. QED
    BY <2>1, CompoundLaid
<1>2. ASSUME NEW c \in Compound, NEW chain \in BOOLEAN, NEW s \in Pairs,
             NEW d \in Delayable, Split(c, d, chain, s)
      PROVE  LaidOut'
  <2>1. Making(c, chain, s, {d}) /\ Free(s) /\ graph' = [graph EXCEPT ![c] = Inner(chain, s)]
    BY <1>2, DelayAssumption DEF Split, Making, Free, Fresh
  <2>2. QED
    BY <1>0, <2>1, CompoundLaid
<1>3. ASSUME NEW c \in Compound, NEW chain \in BOOLEAN, NEW s \in Pairs,
             NEW tail \in Compound, CreateTestJobs(c, chain, s, tail)
      PROVE  LaidOut'
  BY <1>0, <1>3, TestJobsLaid
<1>4. CASE BuildStep
  BY <1>1, <1>2, <1>3, <1>4, OnDoneLaid DEF BuildStep
<1>5. CASE Forget
  BY <1>5, LaidForget
<1>6. CASE UNCHANGED <<parts, graph>>
  BY <1>6, LaidUnmoved
<1>7. QED
  BY <1>4, <1>5, <1>6, BuildingSteps

\* The edges between jobs go to later numbers, from jobs of the same graph.
LEMMA EdgesAscend ==
  ASSUME IInv, NEW root, NEW lo, NEW hi, Laid(root, lo, hi), NEW o \in Object
  PROVE  \A e \in Edges(o) : e[1] \in Vertices(o) /\ lo[e[1]] < lo[e[2]]
<1>0. TypeOK /\ Acyclic
  BY DEF IInv, PartsInv
<1>1. /\ Visited(o) \subseteq Object
      /\ \A x \in Visited(o) : Near(x) \subseteq Visited(o)
  BY <1>0, VisitedClosed
<1>2. \A x \in Object : Leaves[x] \subseteq Delayable /\ (x \in Delayable => Leaves[x] = {x})
  BY <1>0, LeavesAre
<1>2a. ASSUME NEW x \in Object, x \notin Delayable, NEW j \in Leaves[x]
       PROVE  \E p \in Parts(x) : j \in Leaves[p]
  <2>1. Leaves[x] = UNION {Leaves[p] : p \in Parts(x)}
    BY <1>0, <1>2a, LeavesAre
  <2>2. QED
    BY <2>1
<1> DEFINE C == {x \in Object : \A j \in Leaves[x] :
                   /\ lo[x] <= lo[j] /\ hi[j] <= hi[x]
                   /\ x \in Visited(o) => j \in Visited(o)}
<1>3. /\ lo \in [Object -> Nat] /\ hi \in [Object -> Nat]
      /\ \A x \in Object : \A j \in Leaves[x] : j \in Object /\ j \in Delayable
  BY <1>2 DEF Laid, Object
<1>4. ASSUME NEW x \in Object, \A p \in Parts(x) : p \in C
      PROVE  x \in C
  <2>1. CASE x \in Delayable
    <3>1. lo[x] <= lo[x] /\ hi[x] <= hi[x] /\ Leaves[x] = {x}
      BY <1>2, <1>3, <2>1
    <3>2. QED
      BY <3>1
  <2>2. CASE x \notin Delayable
    <3>1. ASSUME NEW j \in Leaves[x]
          PROVE  /\ lo[x] <= lo[j] /\ hi[j] <= hi[x]
                 /\ x \in Visited(o) => j \in Visited(o)
      <4>1. PICK p \in Parts(x) : j \in Leaves[p]
        BY <1>2a, <2>2
      <4>2. /\ p \in Object /\ lo[p] <= lo[j] /\ hi[j] <= hi[p]
            /\ p \in Visited(o) => j \in Visited(o)
        BY <1>4, <4>1
      <4>3. lo[x] <= lo[p] /\ hi[p] <= hi[x]
        BY <4>1 DEF Laid
      <4>4. x \in Visited(o) => p \in Visited(o)
        BY <1>1, <4>1 DEF Near
      <4>5. j \in Object
        BY <1>3
      <4>6. /\ lo[x] \in Nat /\ lo[p] \in Nat /\ lo[j] \in Nat
            /\ hi[x] \in Nat /\ hi[p] \in Nat /\ hi[j] \in Nat
        BY <1>3, <4>2, <4>5
      <4>7. QED
        BY <4>2, <4>3, <4>4, <4>6
    <3>2. QED
      BY <3>1
  <2>3. QED
    BY <2>1, <2>2
<1>5. Object \subseteq C
  <2> HIDE DEF C
  <2>1. QED
    BY <1>0, <1>4, InductionAlongParts
<1>6. ASSUME NEW x \in Visited(o), NEW e \in graph[x],
             NEW a \in Ends[e[1]].tail, NEW b \in Ends[e[2]].head
      PROVE  a \in Vertices(o) /\ lo[a] < lo[b]
  <2>1. e[1] \in Visited(o) /\ e[2] \in Visited(o) /\ e[1] \in Object /\ e[2] \in Object
    BY <1>1 DEF Near
  <2>a. a \in Leaves[e[1]] /\ b \in Leaves[e[2]]
    BY <1>0, <2>1, EndsAreLeaves
  <2>2. /\ a \in Delayable /\ a \in Object /\ b \in Object /\ a \in Visited(o)
        /\ hi[a] <= hi[e[1]] /\ lo[e[2]] <= lo[b]
    BY <1>3, <1>5, <2>1, <2>a
  <2>3. hi[e[1]] < lo[e[2]] /\ lo[a] <= hi[a]
    BY <1>1, <2>2 DEF Laid
  <2>4. /\ lo[a] \in Nat /\ hi[a] \in Nat /\ hi[e[1]] \in Nat /\ lo[e[2]] \in Nat
        /\ lo[b] \in Nat
    BY <1>3, <2>1, <2>2
  <2>5. lo[a] < lo[b]
    BY <2>2, <2>3, <2>4
  <2>6. QED
    BY <2>2, <2>5 DEF Vertices
<1>7. QED
  BY <1>6 DEF Edges, Merged

LEMMA LaidAlways == Spec => [](ShapeInv /\ LaidOut)
<1>1. Init => ShapeInv /\ LaidOut
  BY ShapeInit, LaidInit
<1>2. QED
  BY <1>1, ShapeKept, LaidKept, Invariance, PTL DEF Spec

LEMMA SortableKept ==
  ASSUME IInv, ShapeInv, LaidOut, Sortable, [Next]_vars
  PROVE  Sortable'
<1>1. CASE UNCHANGED direct
  BY <1>1 DEF Sortable
<1>2. ASSUME NEW o \in Object, DelayDirect(o)
      PROVE  Sortable'
  <2>1. direct'.all = Vertices(o) /\ direct'.edges = Edges(o)
    BY <1>2 DEF DelayDirect
  <2>2. PICK root, lo, hi : Laid(root, lo, hi)
    BY DEF LaidOut
  <2> DEFINE r == [v \in Delayable |-> lo[v]]
  <2>3. lo \in [Object -> Nat] /\ \A v \in Delayable : v \in Object
    BY <2>2 DEF Laid, Object
  <2>4. r \in [Delayable -> Nat] /\ \A v \in Delayable : r[v] = lo[v]
    BY <2>3
  <2> HIDE DEF r
  <2>5. Edges(o) \subseteq Delayable \X Delayable
    BY EdgesType DEF IInv, PartsInv
  <2>6. \A e \in Edges(o) : e[1] \in Vertices(o) /\ r[e[1]] < r[e[2]]
    BY <2>2, <2>4, <2>5, EdgesAscend
  <2>7. \A e \in direct'.edges : e[1] \in direct'.all /\ r[e[1]] < r[e[2]]
    BY <2>1, <2>6
  <2>8. QED
    BY <2>4, <2>7 DEF Sortable
<1>3. CASE ExecuteRaises
  BY <1>3 DEF ExecuteRaises, Idle, Sortable
<1>4. ASSUME NEW v \in Delayable, ExecuteNext(v)
      PROVE  Sortable'
  BY <1>4 DEF ExecuteNext, Sortable, IInv, TypeOK
<1>5. QED
  BY <1>1, <1>2, <1>3, <1>4, DirectSteps

\* topological_sort runs a job after its parents, and all of the jobs: a program that
\* only joins what is not joined yet makes no cycle (delay.py:125).
THEOREM GraphsRunInOrder == Spec => []DirectRunsAll
<1>1. Init => DequeInv /\ Sortable
  <2>1. Init => DequeInv
    BY DEF Init, Idle, DequeInv
  <2>2. ASSUME Init PROVE Sortable
    <3>1. [v \in Delayable |-> 0] \in [Delayable -> Nat] /\ direct.edges = {}
      BY <2>2 DEF Init, Idle
    <3>2. QED
      BY <3>1 DEF Sortable
  <2>3. QED
    BY <2>1, <2>2
<1>2. Spec => [](IInv /\ ShapeInv /\ LaidOut)
  BY LaidAlways, Invariance, PTL
<1>3. Spec => []DequeInv
  BY <1>1, DequeKept, Invariance, PTL DEF Spec
<1>4. Spec => []Sortable
  BY <1>1, <1>2, SortableKept, PTL DEF Spec
<1>5. IInv /\ DequeInv /\ Sortable => DirectRunsAll
  BY DequeRunsAll
<1>6. QED
  BY <1>2, <1>3, <1>4, <1>5, PTL

\* No stored job waits for itself, through other jobs or not.
NoWaitingCircle == \E r \in [Job -> Nat] : \A j \in Job : \A p \in dep[j] : r[p] < r[j]

LEMMA NoCircleKept ==
  ASSUME IInv, ShapeInv, LaidOut, NoWaitingCircle, [Next]_vars
  PROVE  NoWaitingCircle'
<1>1. CASE UNCHANGED dep
  BY <1>1 DEF NoWaitingCircle
<1>2. ASSUME NEW o \in Object, Delay(o)
      PROVE  NoWaitingCircle'
  <2>1. txn[Program].at = "open"
    BY <1>2 DEF Delay
  <2>2. \A j \in Job : dep[j] = {}
    BY <2>1 DEF IInv, RowsInv, SnapshotInv, Job
  <2>3. \A j \in Job : dep'[j] \subseteq ParentsIn(Edges(o), j)
    <3>1. PICK keys \in [Vertices(o) -> Key \cup {NoKey}] :
            dep' = [j \in Job |->
                      IF j \in (IF AllExist(Program, Vertices(o), keys) THEN {} ELSE Vertices(o))
                      THEN ParentsIn(Edges(o), j) ELSE dep[j]]
      BY <1>2, Zenon DEF Delay
    <3>2. \A j \in Job : dep'[j] = ParentsIn(Edges(o), j) \/ dep'[j] = dep[j]
      BY <3>1
    <3>3. QED
      BY <2>2, <3>2
  <2>4. PICK root, lo, hi : Laid(root, lo, hi)
    BY DEF LaidOut
  <2> DEFINE r == [j \in Job |-> IF j \in Delayable THEN lo[j] ELSE 0]
  <2>5. lo \in [Object -> Nat] /\ \A v \in Delayable : v \in Object /\ v \in Job
    BY <2>4 DEF Laid, Object, Job
  <2>6. r \in [Job -> Nat] /\ \A v \in Delayable : r[v] = lo[v]
    BY <2>5
  <2> HIDE DEF r
  <2>7. Edges(o) \subseteq Delayable \X Delayable
    BY EdgesType DEF IInv, PartsInv
  <2>8. \A e \in Edges(o) : r[e[1]] < r[e[2]]
    BY <2>4, <2>6, <2>7, EdgesAscend
  <2>9. \A j \in Job : \A p \in dep'[j] : r[p] < r[j]
    BY <2>3, <2>8 DEF ParentsIn
  <2>10. QED
    BY <2>6, <2>9 DEF NoWaitingCircle
<1>3. [Next]_vars => UNCHANGED dep \/ \E o \in Object : Delay(o)
  BY DEF vars, Next, BuildStep, MakeCompound, Split, CreateTestJobs, OnDone, DelayStep, Built,
     Begin, DelayDirect, AutoDelay, WithDelay, RunWithoutDelay, DelaySingle, ExecuteRaises,
     ExecuteNext, database, RowStep, Start, Finish, Fail, Requeue, Autovacuum, CommitCancel,
     AbortCancel, OpenCancel, Change
<1>4. QED
  BY <1>1, <1>2, <1>3

\* However the program joins its jobs, none of them waits for itself, through others or
\* not: _connect_graphs hands over a graph without a cycle (delay.py:250).
THEOREM JobsWaitInNoCircle == Spec => []NoWaitingCircle
<1>1. Init => NoWaitingCircle
  <2> SUFFICES ASSUME Init PROVE NoWaitingCircle
    OBVIOUS
  <2>1. [j \in Job |-> 0] \in [Job -> Nat] /\ \A j \in Job : dep[j] = {}
    BY DEF Init
  <2>2. QED
    BY <2>1 DEF NoWaitingCircle
<1>2. Spec => [](IInv /\ ShapeInv /\ LaidOut)
  BY LaidAlways, Invariance, PTL
<1>3. QED
  BY <1>1, <1>2, NoCircleKept, PTL DEF Spec
==============================================================================
