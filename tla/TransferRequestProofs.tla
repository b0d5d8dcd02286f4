------------------------- MODULE TransferRequestProofs -------------------------
(***************************************************************************)
(* Transfer requests, for any number of requests, users, products,         *)
(* destinations and pickings.  The invariant says that each picking out    *)
(* that is done has a picking in of its own, which expects what it took:   *)
(* PairedInv is a bijection, along which the sums of ExportIsReceivable    *)
(* are equal.                                                              *)
(***************************************************************************)
EXTENDS TransferRequest, Induction, SequenceTheorems, TLAPS

------------------------------------------------------------------------------
(* Sets in some order, sequences one after the other                         *)

\* SetToSeq lists every element of a finite set once.
LEMMA InSomeOrder ==
  ASSUME NEW S, IsFiniteSet(S), NEW s, s = SetToSeq(S)
  PROVE  /\ s \in Seq(S) /\ Len(s) \in Nat /\ DOMAIN s = 1..Len(s)
         /\ \A k, l \in DOMAIN s : s[k] = s[l] => k = l
         /\ \A x \in S : \E k \in DOMAIN s : s[k] = x
         /\ \A k \in DOMAIN s : s[k] \in S
<1> DEFINE n == Cardinality(S)
<1>1. n \in Nat /\ ExistsBijection(1..n, S)
  BY FS_CardinalityType
<1>2. PICK f \in Bijection(1..n, S) : TRUE
  BY <1>1 DEF ExistsBijection
<1>3. f \in [1..n -> S] /\ IsInjective(f)
  BY <1>2 DEF Bijection, Injection
<1>4. s \in [1..n -> S] /\ IsInjective(s)
  <2>1. s = CHOOSE g \in [1..n -> S] : IsInjective(g)
    BY DEF SetToSeq
  <2> HIDE DEF n
  <2>2. QED
    BY <1>3, <2>1
<1>5. s \in Injection(1..n, S) /\ IsFiniteSet(1..n) /\ Cardinality(1..n) = n
  <2>1. IsFiniteSet(1..n) /\ Cardinality(1..n) = n
    BY <1>1, FS_Interval
  <2>2. QED
    BY <1>4, <2>1 DEF Injection
<1>6. s \in Surjection(1..n, S)
  BY <1>5, FS_Injection
<1>7. s \in Seq(S) /\ Len(s) = n /\ DOMAIN s = 1..n
  <2> HIDE DEF n
  <2>1. QED
    BY <1>1, <1>4
<1>8. \A x \in S : \E k \in 1..n : s[k] = x
  BY <1>6 DEF Surjection
<1> HIDE DEF n
<1>9. QED
  BY <1>1, <1>4, <1>7, <1>8 DEF IsInjective

\* The elements of s, of length m, and of t, of length n, are those of u in this order.
Follows(u, s, t, m, n) ==
  /\ m \in Nat /\ n \in Nat /\ Len(u) = m + n
  /\ DOMAIN u = 1..(m + n) /\ DOMAIN s = 1..m /\ DOMAIN t = 1..n
  /\ \A i \in 1..m : i \in DOMAIN u /\ u[i] = s[i]
  /\ \A k \in 1..n : m + k \in DOMAIN u /\ m + k \notin 1..m /\ u[m + k] = t[k]
  /\ \A i \in DOMAIN u : i \in 1..m \/ \E k \in 1..n : i = m + k

\* The elements of two sequences, one after the other.
LEMMA OneAfterTheOther ==
  ASSUME NEW S, NEW s \in Seq(S), NEW t \in Seq(S), NEW m, m = Len(s),
         NEW n, n = Len(t), NEW u, u = s \o t
  PROVE  u \in Seq(S) /\ Follows(u, s, t, m, n)
<1>1. /\ m \in Nat /\ n \in Nat /\ DOMAIN s = 1..m /\ DOMAIN t = 1..n
  BY LenProperties
<1>2. /\ u \in Seq(S) /\ Len(u) = m + n
      /\ \A i \in 1..(m + n) : u[i] = IF i <= m THEN s[i] ELSE t[i - m]
  BY ConcatProperties
<1>3. DOMAIN u = 1..(m + n)
  BY <1>2, LenProperties
<1>5. ASSUME NEW i \in 1..m
      PROVE  i \in 1..(m + n) /\ i <= m
  BY <1>1
<1>6. ASSUME NEW k \in 1..n
      PROVE  m + k \in 1..(m + n) /\ m + k \notin 1..m /\ ~(m + k <= m) /\ m + k - m = k
  BY <1>1
<1>7. ASSUME NEW i \in 1..(m + n), i \notin 1..m
      PROVE  \E k \in 1..n : i = m + k
  <2>1. i - m \in 1..n /\ i = m + (i - m)
    BY <1>1, <1>7
  <2>2. QED
    BY <2>1
<1>8. \A i \in 1..m : i \in DOMAIN u /\ u[i] = s[i]
  BY <1>2, <1>3, <1>5
<1>9. \A k \in 1..n : m + k \in DOMAIN u /\ m + k \notin 1..m /\ u[m + k] = t[k]
  <2> SUFFICES ASSUME NEW k \in 1..n
               PROVE  m + k \in DOMAIN u /\ m + k \notin 1..m /\ u[m + k] = t[k]
    OBVIOUS
  <2>1. u[m + k] = IF m + k <= m THEN s[m + k] ELSE t[m + k - m]
    BY <1>2, <1>6
  <2>2. QED
    BY <1>3, <1>6, <2>1
<1>10. QED
  BY <1>1, <1>2, <1>3, <1>7, <1>8, <1>9 DEF Follows

------------------------------------------------------------------------------
(* Moves                                                                     *)

Requantified(m, q) == [m EXCEPT !.qty = q]
Rest(m) == [m EXCEPT !.demand = m.demand - m.qty, !.qty = m.demand - m.qty]

\* A move, in its parts.
MoveParts(m, n, x, d, q) ==
  m = [line |-> n, product |-> x, demand |-> d, qty |-> q]

LEMMA QtyTyped ==
  /\ MaxQty \in Nat /\ 1..MaxQty \in SUBSET Nat /\ 1..MaxQty \in SUBSET Int
  /\ \A q \in 1..MaxQty : q \in Int /\ q > 0 /\ q <= MaxQty
BY TransferAssumption

LEMMA PartsOfMove ==
  ASSUME NEW m \in Move
  PROVE  \E n \in Nat \ {0}, x \in Product, d \in 1..MaxQty, q \in 1..MaxQty :
           MoveParts(m, n, x, d, q)
<1>1. m = [line |-> m.line, product |-> m.product, demand |-> m.demand, qty |-> m.qty]
  BY DEF Move
<1>2. /\ m.line \in Nat \ {0} /\ m.product \in Product
      /\ m.demand \in 1..MaxQty /\ m.qty \in 1..MaxQty
  BY DEF Move
<1>3. QED
  BY <1>1, <1>2, Zenon DEF MoveParts

LEMMA FieldsOfMove ==
  ASSUME NEW n, NEW x, NEW d, NEW q, NEW m, MoveParts(m, n, x, d, q)
  PROVE  m.line = n /\ m.product = x /\ m.demand = d /\ m.qty = q
BY DEF MoveParts

LEMMA MoveOfParts ==
  ASSUME NEW n \in Nat \ {0}, NEW x \in Product, NEW d \in 1..MaxQty, NEW q \in 1..MaxQty,
         NEW m, MoveParts(m, n, x, d, q)
  PROVE  m \in Move
BY DEF MoveParts, Move

\* What the operations make of a move.
LEMMA NewMoves ==
  ASSUME NEW m \in Move
  PROVE  /\ \A q \in 1..MaxQty :
              /\ Requantified(m, q) \in Move /\ Requantified(m, q).line = m.line
              /\ Requantified(m, q).demand = m.demand /\ Requantified(m, q).qty = q
         /\ MoveIn(m) \in Move /\ MoveIn(m).line = m.line /\ MoveIn(m).demand = m.qty
         /\ MoveIn(m).qty = m.qty
         /\ m.qty < m.demand => Rest(m) \in Move /\ Rest(m).line = m.line
<1>1. PICK n \in Nat \ {0}, x \in Product, d \in 1..MaxQty, e \in 1..MaxQty :
        MoveParts(m, n, x, d, e)
  BY PartsOfMove
<1>2. m.line = n /\ m.product = x /\ m.demand = d /\ m.qty = e
  BY <1>1, FieldsOfMove
<1>3. ASSUME NEW q \in 1..MaxQty
      PROVE  /\ Requantified(m, q) \in Move /\ Requantified(m, q).line = m.line
             /\ Requantified(m, q).demand = m.demand /\ Requantified(m, q).qty = q
  <2>1. PICK k : k = Requantified(m, q)
    OBVIOUS
  <2>2. MoveParts(k, n, x, d, q)
    BY <1>1, <2>1 DEF MoveParts, Requantified
  <2>3. k \in Move
    BY <2>2, MoveOfParts
  <2>4. k.line = n /\ k.demand = d /\ k.qty = q
    BY <2>2, FieldsOfMove
  <2>5. QED
    BY <1>2, <2>1, <2>3, <2>4, Zenon
<1>4. /\ MoveIn(m) \in Move /\ MoveIn(m).line = m.line /\ MoveIn(m).demand = m.qty
      /\ MoveIn(m).qty = m.qty
  <2>1. PICK k : k = MoveIn(m)
    OBVIOUS
  <2>2. MoveParts(k, n, x, e, e)
    BY <1>1, <1>2, <2>1 DEF MoveParts, MoveIn
  <2>3. k \in Move
    BY <2>2, MoveOfParts
  <2>4. k.line = n /\ k.demand = e /\ k.qty = e
    BY <2>2, FieldsOfMove
  <2>5. QED
    BY <1>2, <2>1, <2>3, <2>4, Zenon
<1>5. ASSUME m.qty < m.demand
      PROVE  Rest(m) \in Move /\ Rest(m).line = m.line
  <2>1. PICK k : k = Rest(m)
    OBVIOUS
  <2>2. PICK l : l = d - e
    OBVIOUS
  <2>3. l \in 1..MaxQty
    BY <1>2, <1>5, <2>2, QtyTyped
  <2>4. k = [m EXCEPT !.demand = l, !.qty = l]
    BY <1>2, <2>1, <2>2, Zenon DEF Rest
  <2>5. MoveParts(k, n, x, l, l)
    BY <1>1, <2>4 DEF MoveParts
  <2>6. k \in Move
    BY <2>3, <2>5, MoveOfParts
  <2>7. k.line = n
    BY <2>5, FieldsOfMove
  <2>8. QED
    BY <1>2, <2>1, <2>6, <2>7, Zenon
<1>6. QED
  BY <1>3, <1>4, <1>5

------------------------------------------------------------------------------
(* Pickings                                                                  *)

PickingParts(p, r, k, d, s, ms) ==
  p = [req |-> r, kind |-> k, dest |-> d, state |-> s, moves |-> ms]

Kinds == {"out", "in"}

LEMMA PartsOfPicking ==
  ASSUME NEW p \in Picking
  PROVE  \E r \in Request, k \in Kinds, d \in Dest, s \in PickingStates, ms \in SUBSET Move :
           PickingParts(p, r, k, d, s, ms)
<1>1. p = [req |-> p.req, kind |-> p.kind, dest |-> p.dest, state |-> p.state,
           moves |-> p.moves]
  BY DEF Picking
<1>2. /\ p.req \in Request /\ p.kind \in Kinds /\ p.dest \in Dest
      /\ p.state \in PickingStates /\ p.moves \in SUBSET Move
  BY DEF Picking, Kinds
<1>3. QED
  BY <1>1, <1>2, Zenon DEF PickingParts

LEMMA FieldsOfPicking ==
  ASSUME NEW p, NEW r, NEW k, NEW d, NEW s, NEW ms, PickingParts(p, r, k, d, s, ms)
  PROVE  p.req = r /\ p.kind = k /\ p.dest = d /\ p.state = s /\ p.moves = ms
BY DEF PickingParts

LEMMA PickingOfParts ==
  ASSUME NEW r \in Request, NEW k \in Kinds, NEW d \in Dest, NEW s \in PickingStates,
         NEW ms \in SUBSET Move, NEW p, PickingParts(p, r, k, d, s, ms)
  PROVE  p \in Picking
BY DEF PickingParts, Picking, Kinds

\* What the operations make of a picking.
InState(p, s) == [p EXCEPT !.state = s]
WithMoves(p, ms) == [p EXCEPT !.moves = ms]
Incoming(p, ms) == [p EXCEPT !.kind = "in", !.moves = ms]

LEMMA NewPickings ==
  ASSUME NEW p \in Picking
  PROVE  /\ \A s \in PickingStates :
              /\ InState(p, s) \in Picking /\ InState(p, s).req = p.req
              /\ InState(p, s).kind = p.kind /\ InState(p, s).state = s
              /\ InState(p, s).moves = p.moves
         /\ \A ms \in SUBSET Move :
              /\ WithMoves(p, ms) \in Picking /\ WithMoves(p, ms).req = p.req
              /\ WithMoves(p, ms).kind = p.kind /\ WithMoves(p, ms).state = p.state
              /\ WithMoves(p, ms).moves = ms
         /\ \A ms \in SUBSET Move :
              /\ Incoming(p, ms) \in Picking /\ Incoming(p, ms).req = p.req
              /\ Incoming(p, ms).kind = "in" /\ Incoming(p, ms).state = p.state
              /\ Incoming(p, ms).moves = ms
<1>1. PICK r \in Request, k \in Kinds, d \in Dest, s0 \in PickingStates, ms0 \in SUBSET Move :
        PickingParts(p, r, k, d, s0, ms0)
  BY PartsOfPicking
<1>2. p.req = r /\ p.kind = k /\ p.dest = d /\ p.state = s0 /\ p.moves = ms0
  BY <1>1, FieldsOfPicking
<1>3. ASSUME NEW s \in PickingStates
      PROVE  /\ InState(p, s) \in Picking /\ InState(p, s).req = p.req
             /\ InState(p, s).kind = p.kind /\ InState(p, s).state = s
             /\ InState(p, s).moves = p.moves
  <2>1. PICK q : q = InState(p, s)
    OBVIOUS
  <2>2. PickingParts(q, r, k, d, s, ms0)
    BY <1>1, <2>1 DEF PickingParts, InState
  <2>3. q \in Picking
    BY <2>2, PickingOfParts
  <2>4. q.req = r /\ q.kind = k /\ q.state = s /\ q.moves = ms0
    BY <2>2, FieldsOfPicking
  <2>5. QED
    BY <1>2, <2>1, <2>3, <2>4, Zenon
<1>4. ASSUME NEW ms \in SUBSET Move
      PROVE  /\ WithMoves(p, ms) \in Picking /\ WithMoves(p, ms).req = p.req
             /\ WithMoves(p, ms).kind = p.kind /\ WithMoves(p, ms).state = p.state
             /\ WithMoves(p, ms).moves = ms
  <2>1. PICK q : q = WithMoves(p, ms)
    OBVIOUS
  <2>2. PickingParts(q, r, k, d, s0, ms)
    BY <1>1, <2>1 DEF PickingParts, WithMoves
  <2>3. q \in Picking
    BY <2>2, PickingOfParts
  <2>4. q.req = r /\ q.kind = k /\ q.state = s0 /\ q.moves = ms
    BY <2>2, FieldsOfPicking
  <2>5. QED
    BY <1>2, <2>1, <2>3, <2>4, Zenon
<1>5. ASSUME NEW ms \in SUBSET Move
      PROVE  /\ Incoming(p, ms) \in Picking /\ Incoming(p, ms).req = p.req
             /\ Incoming(p, ms).kind = "in" /\ Incoming(p, ms).state = p.state
             /\ Incoming(p, ms).moves = ms
  <2>1. PICK q : q = Incoming(p, ms)
    OBVIOUS
  <2>2. PickingParts(q, r, "in", d, s0, ms)
    BY <1>1, <2>1 DEF PickingParts, Incoming
  <2>3. q \in Picking
    BY <2>2, PickingOfParts DEF Kinds
  <2>4. q.req = r /\ q.kind = "in" /\ q.state = s0 /\ q.moves = ms
    BY <2>2, FieldsOfPicking
  <2>5. QED
    BY <1>2, <2>1, <2>3, <2>4, Zenon
<1>6. QED
  BY <1>3, <1>4, <1>5
------------------------------------------------------------------------------
(* Each picking: one move for a line, and what is received is what is expected *)

Orderly(ms) == IsFiniteSet(ms) /\ \A m, k \in ms : m.line = k.line => m = k

Sound(p) ==
  /\ Orderly(p.moves)
  /\ p.kind = "in" /\ p.state = "done" => \A m \in p.moves : m.qty = m.demand

LEMMA SoundByIndex ==
  MovesInv <=> \A i \in DOMAIN pickings : Sound(pickings[i])
BY DEF MovesInv, Sound, Orderly

LEMMA FiniteImage ==
  ASSUME NEW S, IsFiniteSet(S), NEW f, NEW T, T = {f[x] : x \in S}
  PROVE  IsFiniteSet(T)
<1> DEFINE g == [x \in S |-> f[x]]
<1>1. g \in Surjection(S, T)
  BY DEF Surjection
<1>2. QED
  BY <1>1, FS_Surjection

LEMMA SomeMoves ==
  ASSUME NEW ms, Orderly(ms), NEW s \in SUBSET ms
  PROVE  Orderly(s)
<1>1. IsFiniteSet(s)
  BY FS_Subset DEF Orderly
<1>2. QED
  BY <1>1 DEF Orderly

LEMMA OtherMoves ==
  ASSUME NEW ms \in SUBSET Move, Orderly(ms), NEW f \in [ms -> Move],
         \A m \in ms : f[m].line = m.line, NEW s, s = {f[m] : m \in ms}
  PROVE  Orderly(s) /\ s \in SUBSET Move
<1>1. IsFiniteSet(ms)
  BY DEF Orderly
<1>2. IsFiniteSet({f[m] : m \in ms})
  BY <1>1, FiniteImage
<1>3. ASSUME NEW m \in s, NEW k \in s, m.line = k.line
      PROVE  m = k
  <2>1. PICK m0 \in ms, k0 \in ms : m = f[m0] /\ k = f[k0]
    OBVIOUS
  <2>2. m0 = k0
    BY <1>3, <2>1 DEF Orderly
  <2>3. QED
    BY <2>1, <2>2
<1>4. s \in SUBSET Move
  OBVIOUS
<1>5. QED
  BY <1>2, <1>3, <1>4 DEF Orderly

\* The picking that button_validate takes to done.
LEMMA Validated ==
  ASSUME NEW p \in Picking, Sound(p), MatchesDemand(p), NEW q, q = InState(p, "done")
  PROVE  /\ q \in Picking /\ Sound(q)
         /\ q.req = p.req /\ q.kind = p.kind /\ q.state = "done" /\ q.moves = p.moves
<1>1. "done" \in PickingStates
  BY DEF PickingStates
<1>2. /\ q \in Picking
      /\ q.req = p.req /\ q.kind = p.kind /\ q.state = "done" /\ q.moves = p.moves
  BY <1>1, NewPickings
<1>3. Sound(q)
  BY <1>2 DEF Sound, MatchesDemand
<1>4. QED
  BY <1>2, <1>3

LEMMA Cancelled ==
  ASSUME NEW p \in Picking, Sound(p), NEW q, q = InState(p, "cancel")
  PROVE  /\ q \in Picking /\ Sound(q)
         /\ q.req = p.req /\ q.kind = p.kind /\ q.state = "cancel" /\ q.moves = p.moves
<1>1. "cancel" \in PickingStates
  BY DEF PickingStates
<1>2. /\ q \in Picking
      /\ q.req = p.req /\ q.kind = p.kind /\ q.state = "cancel" /\ q.moves = p.moves
  BY <1>1, NewPickings
<1>3. Sound(q)
  BY <1>2 DEF Sound
<1>4. QED
  BY <1>2, <1>3

\* Moves go when their lines are deleted.
UpTo(p, n) == WithMoves(p, {m \in p.moves : m.line <= n})

LEMMA LinesDeleted ==
  ASSUME NEW p \in Picking, Sound(p), NEW n, NEW q, q = UpTo(p, n)
  PROVE  /\ q \in Picking /\ Sound(q)
         /\ q.req = p.req /\ q.kind = p.kind /\ q.state = p.state
         /\ q.moves = {m \in p.moves : m.line <= n}
<1>1. PICK s : s = {m \in p.moves : m.line <= n}
  OBVIOUS
<1>2. s \in SUBSET p.moves
  BY <1>1
<1>3. s \in SUBSET Move
  BY <1>2 DEF Picking
<1>4. q = WithMoves(p, s)
  BY <1>1, Zenon DEF UpTo
<1>5. /\ q \in Picking
      /\ q.req = p.req /\ q.kind = p.kind /\ q.state = p.state /\ q.moves = s
  BY <1>3, <1>4, NewPickings
<1>6. Orderly(s)
  BY <1>2, SomeMoves DEF Sound
<1>7. Sound(q)
  BY <1>2, <1>5, <1>6 DEF Sound
<1>8. QED
  BY <1>1, <1>5, <1>7

\* The quantity of a move is changed.
LEMMA QuantitySet ==
  ASSUME NEW p \in Picking, Sound(p), p.state = "open", NEW m \in p.moves,
         NEW q \in 1..MaxQty, NEW s, s = (p.moves \ {m}) \cup {Requantified(m, q)},
         NEW p2, p2 = WithMoves(p, s)
  PROVE  /\ p2 \in Picking /\ Sound(p2)
         /\ p2.req = p.req /\ p2.kind = p.kind /\ p2.state = p.state
         /\ \A k \in p.moves : \E l \in p2.moves : l.line = k.line /\ l.demand = k.demand
         /\ \A l \in p2.moves : \E k \in p.moves : l.line = k.line /\ l.demand = k.demand
<1>1. p.moves \in SUBSET Move /\ Orderly(p.moves)
  BY DEF Picking, Sound
<1> DEFINE f == [k \in p.moves |-> IF k = m THEN Requantified(m, q) ELSE k]
<1>2. /\ Requantified(m, q) \in Move /\ Requantified(m, q).line = m.line
      /\ Requantified(m, q).demand = m.demand
  BY <1>1, NewMoves
<1>3. /\ f \in [p.moves -> Move]
      /\ \A k \in p.moves : f[k].line = k.line /\ f[k].demand = k.demand
  BY <1>1, <1>2
<1>4. s = {f[k] : k \in p.moves}
  OBVIOUS
<1> HIDE DEF f
<1>5. Orderly(s) /\ s \in SUBSET Move
  BY <1>1, <1>3, <1>4, OtherMoves
<1>6. /\ p2 \in Picking
      /\ p2.req = p.req /\ p2.kind = p.kind /\ p2.state = p.state /\ p2.moves = s
  BY <1>5, NewPickings
<1>7. Sound(p2)
  BY <1>5, <1>6 DEF Sound
<1>8. /\ \A k \in p.moves : \E l \in s : l.line = k.line /\ l.demand = k.demand
      /\ \A l \in s : \E k \in p.moves : l.line = k.line /\ l.demand = k.demand
  BY <1>3, <1>4
<1>9. QED
  BY <1>6, <1>7, <1>8, Zenon

\* The picking in of a picking out.
LEMMA InForOut ==
  ASSUME NEW p \in Picking, Sound(p), p.state = "open", NEW q, q = PickingIn(p)
  PROVE  /\ q \in Picking /\ Sound(q)
         /\ q.req = p.req /\ q.kind = "in" /\ q.state = "open" /\ Twins(p, q)
<1>1. p.moves \in SUBSET Move /\ Orderly(p.moves)
  BY DEF Picking, Sound
<1> DEFINE f == [m \in p.moves |-> MoveIn(m)]
<1>2. /\ f \in [p.moves -> Move]
      /\ \A m \in p.moves : f[m].line = m.line /\ f[m].demand = m.qty
  BY <1>1, NewMoves
<1>3. PICK s : s = {MoveIn(m) : m \in p.moves}
  OBVIOUS
<1>4. s = {f[m] : m \in p.moves}
  BY <1>3
<1> HIDE DEF f
<1>5. Orderly(s) /\ s \in SUBSET Move
  BY <1>1, <1>2, <1>4, OtherMoves
<1>6. q = Incoming(p, s)
  BY <1>3, Zenon DEF PickingIn, Incoming
<1>7. /\ q \in Picking
      /\ q.req = p.req /\ q.kind = "in" /\ q.state = "open" /\ q.moves = s
  BY <1>5, <1>6, NewPickings
<1>8. Sound(q)
  BY <1>5, <1>7 DEF Sound
<1>9. Twins(p, q)
  BY <1>2, <1>4, <1>7 DEF Twins
<1>10. QED
  BY <1>7, <1>8, <1>9

\* The backorder of a picking.
LEMMA RestOfPicking ==
  ASSUME NEW p \in Picking, Sound(p), p.state = "open", NEW q, q = Backorder(p)
  PROVE  /\ q \in Picking /\ Sound(q)
         /\ q.req = p.req /\ q.kind = p.kind /\ q.state = "open"
<1>1. p.moves \in SUBSET Move /\ Orderly(p.moves)
  BY DEF Picking, Sound
<1>2. PICK left : left = Left(p)
  OBVIOUS
<1>3. left \in SUBSET p.moves /\ \A m \in left : m.qty < m.demand
  BY <1>2 DEF Left
<1>4. left \in SUBSET Move /\ Orderly(left)
  BY <1>1, <1>3, SomeMoves
<1> DEFINE f == [m \in left |-> Rest(m)]
<1>5. f \in [left -> Move] /\ \A m \in left : f[m].line = m.line
  BY <1>3, <1>4, NewMoves
<1>6. PICK s : s = {Rest(m) : m \in left}
  OBVIOUS
<1>7. s = {f[m] : m \in left}
  BY <1>6
<1> HIDE DEF f
<1>8. Orderly(s) /\ s \in SUBSET Move
  BY <1>4, <1>5, <1>7, OtherMoves
<1>9. q = WithMoves(p, s)
  BY <1>2, <1>6, Zenon DEF Backorder, WithMoves, Rest
<1>10. /\ q \in Picking
       /\ q.req = p.req /\ q.kind = p.kind /\ q.state = "open" /\ q.moves = s
  BY <1>8, <1>9, NewPickings
<1>11. Sound(q)
  BY <1>8, <1>10 DEF Sound
<1>12. QED
  BY <1>10, <1>11

\* The picking out of a request to one destination.
LEMMA NewPickingOut ==
  ASSUME NEW r \in Request, lines[r] \in Seq(Line), NEW d \in Dest,
         NEW p, p = PickingOut(r, d)
  PROVE  /\ p \in Picking /\ Sound(p)
         /\ p.req = r /\ p.kind = "out" /\ p.state = "open"
<1>1. PICK ls \in Seq(Line) : ls = lines[r]
  OBVIOUS
<1>2. /\ DOMAIN ls = 1..Len(ls) /\ Len(ls) \in Nat
      /\ \A i \in DOMAIN ls : ls[i] \in Line
  BY ElementOfSeq, LenProperties
<1> DEFINE is == {k \in DOMAIN ls : ls[k].dest = d}
           f == [i \in is |-> MoveOf(ls, i)]
           s == MovesTo(r, d)
<1>3. is \in SUBSET (1..Len(ls)) /\ IsFiniteSet(is) /\ is \in SUBSET (Nat \ {0})
  <2>1. is \in SUBSET (1..Len(ls))
    BY <1>2
  <2>2. IsFiniteSet(1..Len(ls))
    BY <1>2, FS_Interval
  <2> HIDE DEF is
  <2>3. 1..Len(ls) \in SUBSET (Nat \ {0})
    BY <1>2
  <2>4. QED
    BY <2>1, <2>2, <2>3, FS_Subset
<1>4. ASSUME NEW i \in is
      PROVE  MoveOf(ls, i) \in Move /\ MoveOf(ls, i).line = i
  <2>1. ls[i].product \in Product /\ ls[i].qty \in 1..MaxQty
    BY <1>2 DEF Line
  <2>2. i \in Nat \ {0}
    BY <1>3
  <2>3. PICK m : m = MoveOf(ls, i)
    OBVIOUS
  <2>4. MoveParts(m, i, ls[i].product, ls[i].qty, ls[i].qty)
    BY <2>3, Zenon DEF MoveParts, MoveOf
  <2>5. m \in Move
    BY <2>1, <2>2, <2>4, MoveOfParts
  <2>6. m.line = i
    BY <2>4, FieldsOfMove
  <2>7. QED
    BY <2>3, <2>5, <2>6, Zenon
<1>5. s = {f[i] : i \in is} /\ f \in [is -> Move] /\ \A i \in is : f[i].line = i
  <2>1. s = {MoveOf(ls, i) : i \in is}
    BY <1>1, Zenon DEF MovesTo
  <2> HIDE DEF s, is
  <2>2. QED
    BY <1>4, <2>1
<1> HIDE DEF f, s, is
<1>6. IsFiniteSet(s) /\ s \in SUBSET Move
  <2>1. IsFiniteSet({f[i] : i \in is})
    BY <1>3, FiniteImage
  <2>2. QED
    BY <1>5, <2>1
<1>7. Orderly(s)
  BY <1>5, <1>6 DEF Orderly
<1>8. PickingParts(p, r, "out", d, "open", s)
  BY Zenon DEF PickingParts, PickingOut, s
<1>9. "out" \in Kinds /\ "open" \in PickingStates
  BY DEF Kinds, PickingStates
<1>10. p \in Picking
  BY <1>6, <1>8, <1>9, PickingOfParts
<1>11. p.req = r /\ p.kind = "out" /\ p.state = "open" /\ p.moves = s
  BY <1>8, FieldsOfPicking
<1>12. Sound(p)
  BY <1>7, <1>11 DEF Sound
<1>13. QED
  BY <1>10, <1>11, <1>12

------------------------------------------------------------------------------
(* All pickings: those out that are done are paired with those in             *)

OutsOf(ps) == {i \in DOMAIN ps : ps[i].kind = "out" /\ ps[i].state = "done"}
InsOf(ps) == {i \in DOMAIN ps : ps[i].kind = "in"}

Pairs(f, S, T) ==
  /\ f \in [S -> T]
  /\ \A x, y \in S : f[x] = f[y] => x = y
  /\ \A y \in T : \E x \in S : f[x] = y

Paired(ps) ==
  \E f : /\ Pairs(f, OutsOf(ps), InsOf(ps))
         /\ \A i \in OutsOf(ps) : Twins(ps[i], ps[f[i]])

LEMMA BijectionsPair ==
  ASSUME NEW S, NEW T, NEW f
  PROVE  f \in Bijection(S, T) <=> Pairs(f, S, T)
BY DEF Bijection, Injection, Surjection, IsInjective, Pairs

LEMMA PairedByIndex ==
  PairedInv <=> Paired(pickings)
<1>1. DoneOuts = OutsOf(pickings) /\ Ins = InsOf(pickings)
  BY DEF DoneOuts, Ins, OutsOf, InsOf
<1>2. QED
  BY <1>1, BijectionsPair DEF PairedInv, Paired

\* The same pickings are out and done, and in, and twins stay twins.
LEMMA StillPaired ==
  ASSUME NEW ps, NEW qs, Paired(ps), OutsOf(qs) = OutsOf(ps), InsOf(qs) = InsOf(ps),
         \A i \in OutsOf(ps), j \in InsOf(ps) : Twins(ps[i], ps[j]) => Twins(qs[i], qs[j])
  PROVE  Paired(qs)
<1>1. PICK f : /\ Pairs(f, OutsOf(ps), InsOf(ps))
               /\ \A i \in OutsOf(ps) : Twins(ps[i], ps[f[i]])
  BY DEF Paired
<1>2. \A i \in OutsOf(ps) : Twins(qs[i], qs[f[i]])
  BY <1>1 DEF Pairs
<1>3. QED
  BY <1>1, <1>2 DEF Paired

\* The sequence qs has the pickings of ps but those of r, in the order s.
Selected(qs, ps, s, r) ==
  /\ DOMAIN qs = DOMAIN s /\ \A k \in DOMAIN s : qs[k] = ps[s[k]]
  /\ \A k \in DOMAIN s : s[k] \in DOMAIN ps /\ ps[s[k]].req # r
  /\ \A k, l \in DOMAIN s : s[k] = s[l] => k = l
  /\ \A i \in DOMAIN ps : ps[i].req # r => \E k \in DOMAIN s : s[k] = i

LEMMA PairedWithout ==
  ASSUME NEW ps, Paired(ps), NEW r, NEW s, NEW qs, Selected(qs, ps, s, r)
  PROVE  Paired(qs)
<1>0. /\ DOMAIN qs = DOMAIN s /\ \A k \in DOMAIN s : qs[k] = ps[s[k]]
      /\ \A k \in DOMAIN s : s[k] \in DOMAIN ps /\ ps[s[k]].req # r
      /\ \A k, l \in DOMAIN s : s[k] = s[l] => k = l
      /\ \A i \in DOMAIN ps : ps[i].req # r => \E k \in DOMAIN s : s[k] = i
  BY DEF Selected
<1>1. PICK f : /\ Pairs(f, OutsOf(ps), InsOf(ps))
               /\ \A i \in OutsOf(ps) : Twins(ps[i], ps[f[i]])
  BY DEF Paired
<1>2. \A k \in DOMAIN qs : /\ s[k] \in OutsOf(ps) <=> k \in OutsOf(qs)
                           /\ s[k] \in InsOf(ps) <=> k \in InsOf(qs)
  BY <1>0 DEF OutsOf, InsOf
<1>3. OutsOf(qs) \subseteq DOMAIN s /\ InsOf(qs) \subseteq DOMAIN s
  BY <1>0 DEF OutsOf, InsOf
<1>4. ASSUME NEW i \in OutsOf(ps)
      PROVE  /\ f[i] \in InsOf(ps) /\ ps[f[i]].req = ps[i].req
             /\ i \in DOMAIN ps /\ f[i] \in DOMAIN ps
  BY <1>1 DEF Pairs, Twins, OutsOf, InsOf
<1> DEFINE g == [k \in OutsOf(qs) |-> CHOOSE l \in DOMAIN s : s[l] = f[s[k]]]
<1>5. ASSUME NEW k \in OutsOf(qs)
      PROVE  g[k] \in InsOf(qs) /\ s[g[k]] = f[s[k]] /\ Twins(qs[k], qs[g[k]])
  <2>1. s[k] \in OutsOf(ps) /\ ps[s[k]].req # r /\ k \in DOMAIN s
    BY <1>0, <1>2, <1>3
  <2>2. f[s[k]] \in InsOf(ps) /\ ps[f[s[k]]].req # r /\ f[s[k]] \in DOMAIN ps
    BY <1>4, <2>1
  <2>3. \E l \in DOMAIN s : s[l] = f[s[k]]
    BY <1>0, <2>2
  <2>4. g[k] \in DOMAIN s /\ s[g[k]] = f[s[k]]
    BY <2>3
  <2> HIDE DEF g
  <2>5. g[k] \in InsOf(qs)
    BY <1>0, <1>2, <2>2, <2>4
  <2>6. Twins(qs[k], qs[g[k]])
    BY <1>0, <1>1, <2>1, <2>4
  <2>7. QED
    BY <2>4, <2>5, <2>6
<1>6. g \in [OutsOf(qs) -> InsOf(qs)]
  <2>1. g = [k \in OutsOf(qs) |-> g[k]]
    OBVIOUS
  <2> HIDE DEF g
  <2>2. QED
    BY <1>5, <2>1
<1> HIDE DEF g
<1>7. ASSUME NEW k \in OutsOf(qs), NEW l \in OutsOf(qs), g[k] = g[l]
      PROVE  k = l
  <2>1. f[s[k]] = f[s[l]] /\ s[k] \in OutsOf(ps) /\ s[l] \in OutsOf(ps)
    BY <1>0, <1>2, <1>3, <1>5, <1>7
  <2>2. s[k] = s[l]
    BY <1>1, <2>1 DEF Pairs
  <2>3. QED
    BY <1>0, <1>3, <2>2
<1>8. ASSUME NEW l \in InsOf(qs)
      PROVE  \E k \in OutsOf(qs) : g[k] = l
  <2>1. s[l] \in InsOf(ps) /\ ps[s[l]].req # r /\ l \in DOMAIN s
    BY <1>0, <1>2, <1>3
  <2>2. PICK i \in OutsOf(ps) : f[i] = s[l]
    BY <1>1, <2>1 DEF Pairs
  <2>3. i \in DOMAIN ps /\ ps[i].req # r
    BY <1>4, <2>1, <2>2
  <2>4. PICK k \in DOMAIN s : s[k] = i
    BY <1>0, <2>3
  <2>5. k \in OutsOf(qs)
    BY <1>0, <1>2, <2>2, <2>4
  <2>6. s[g[k]] = s[l] /\ g[k] \in DOMAIN s
    BY <1>0, <1>3, <1>5, <2>2, <2>4, <2>5
  <2>7. g[k] = l
    BY <1>0, <2>1, <2>6
  <2>8. QED
    BY <2>5, <2>7
<1>9. Pairs(g, OutsOf(qs), InsOf(qs))
  BY <1>6, <1>7, <1>8 DEF Pairs
<1>10. QED
  BY <1>5, <1>9 DEF Paired

\* More pickings out are done, and each gets a picking in of its own.
LEMMA PairedWithMore ==
  ASSUME NEW ps, Paired(ps), NEW qs, NEW S, NEW T, NEW g, Pairs(g, S, T),
         OutsOf(qs) = OutsOf(ps) \cup S, InsOf(qs) = InsOf(ps) \cup T,
         S \cap OutsOf(ps) = {}, T \cap InsOf(ps) = {},
         \A i \in OutsOf(ps), j \in InsOf(ps) : Twins(ps[i], ps[j]) => Twins(qs[i], qs[j]),
         \A i \in S : Twins(qs[i], qs[g[i]])
  PROVE  Paired(qs)
<1>1. PICK f : /\ Pairs(f, OutsOf(ps), InsOf(ps))
               /\ \A i \in OutsOf(ps) : Twins(ps[i], ps[f[i]])
  BY DEF Paired
<1> DEFINE A == OutsOf(ps)
           B == InsOf(ps)
           h == [i \in A \cup S |-> IF i \in S THEN g[i] ELSE f[i]]
<1>2. /\ f \in [A -> B] /\ g \in [S -> T]
      /\ \A x, y \in A : f[x] = f[y] => x = y
      /\ \A x, y \in S : g[x] = g[y] => x = y
      /\ \A y \in B : \E x \in A : f[x] = y
      /\ \A y \in T : \E x \in S : g[x] = y
  BY <1>1, Zenon DEF Pairs
<1>3. \A i \in A : h[i] = f[i] /\ h[i] \in B
  BY <1>2
<1>4. \A i \in S : h[i] = g[i] /\ h[i] \in T
  BY <1>2
<1>5. h \in [A \cup S -> B \cup T]
  BY <1>3, <1>4
<1>6. S \cap A = {} /\ T \cap B = {}
  OBVIOUS
<1> HIDE DEF A, B, h
<1>7. ASSUME NEW x \in A \cup S, NEW y \in A \cup S, h[x] = h[y]
      PROVE  x = y
  BY <1>2, <1>3, <1>4, <1>6, <1>7
<1>8. ASSUME NEW y \in B \cup T
      PROVE  \E x \in A \cup S : h[x] = y
  BY <1>2, <1>3, <1>4
<1>9. OutsOf(qs) = A \cup S /\ InsOf(qs) = B \cup T
  BY DEF A, B
<1>10. Pairs(h, OutsOf(qs), InsOf(qs))
  BY <1>5, <1>7, <1>8, <1>9 DEF Pairs
<1>11. ASSUME NEW i \in A \cup S
       PROVE  Twins(qs[i], qs[h[i]])
  <2>1. CASE i \in A
    <3>1. Twins(ps[i], ps[h[i]]) /\ h[i] \in B
      BY <1>1, <1>3, <2>1 DEF A
    <3>2. QED
      BY <2>1, <3>1 DEF A, B
  <2>2. CASE i \in S
    BY <1>4, <2>2
  <2>3. QED
    BY <2>1, <2>2
<1>12. QED
  BY <1>9, <1>10, <1>11 DEF Paired

------------------------------------------------------------------------------
(* What button_validate makes of the pickings                                *)

LEMMA FiniteIndices ==
  ASSUME pickings \in Seq(Picking), NEW is \in SUBSET DOMAIN pickings
  PROVE  /\ IsFiniteSet(is)
         /\ DOMAIN pickings = 1..Len(pickings) /\ Len(pickings) \in Nat
         /\ \A i \in DOMAIN pickings : pickings[i] \in Picking
<1>1. /\ DOMAIN pickings = 1..Len(pickings) /\ Len(pickings) \in Nat
      /\ \A i \in DOMAIN pickings : pickings[i] \in Picking
  BY ElementOfSeq, LenProperties
<1>2. IsFiniteSet(1..Len(pickings))
  BY <1>1, FS_Interval
<1>3. IsFiniteSet(is)
  BY <1>1, <1>2, FS_Subset
<1>4. QED
  BY <1>1, <1>3

\* At lists the pickings at some indices, each once.
InOrder(ps, is, s) ==
  /\ Len(s) \in Nat /\ DOMAIN s = 1..Len(s) /\ DOMAIN ps = 1..Len(s)
  /\ \A k \in DOMAIN s : s[k] \in is /\ ps[k] = pickings[s[k]]
  /\ \A k, l \in DOMAIN s : s[k] = s[l] => k = l
  /\ \A i \in is : \E k \in DOMAIN s : s[k] = i

LEMMA AtInOrder ==
  ASSUME pickings \in Seq(Picking), NEW is \in SUBSET DOMAIN pickings, NEW ps, ps = At(is)
  PROVE  \E s : InOrder(ps, is, s)
<1>1. PICK s : s = SetToSeq(is)
  OBVIOUS
<1>2. /\ Len(s) \in Nat /\ DOMAIN s = 1..Len(s)
      /\ \A k, l \in DOMAIN s : s[k] = s[l] => k = l
      /\ \A x \in is : \E k \in DOMAIN s : s[k] = x
      /\ \A k \in DOMAIN s : s[k] \in is
  BY <1>1, FiniteIndices, InSomeOrder
<1>3. ps = [k \in DOMAIN s |-> pickings[s[k]]]
  BY <1>1 DEF At
<1>4. QED
  BY <1>2, <1>3 DEF InOrder

\* A sequence of pickings, from a function.
LEMMA PickingSequence ==
  ASSUME NEW n \in Nat, NEW f, f = [k \in 1..n |-> f[k]], \A k \in 1..n : f[k] \in Picking
  PROVE  f \in Seq(Picking) /\ Len(f) = n /\ DOMAIN f = 1..n
<1>1. f \in [1..n -> Picking]
  OBVIOUS
<1>2. QED
  BY <1>1

\* The sequence qs has a picking in for each of the pickings out at is, which s tells.
InsFor(qs, is, s) ==
  /\ qs \in Seq(Picking) /\ DOMAIN qs = 1..Len(qs) /\ DOMAIN s = 1..Len(qs)
  /\ \A k \in DOMAIN s :
       /\ s[k] \in Chosen(is, "out") /\ Sound(qs[k])
       /\ qs[k].req = pickings[s[k]].req /\ qs[k].kind = "in"
       /\ qs[k].state = "open" /\ Twins(pickings[s[k]], qs[k])
  /\ \A k, l \in DOMAIN s : s[k] = s[l] => k = l
  /\ \A i \in Chosen(is, "out") : \E k \in DOMAIN s : s[k] = i

LEMMA NewIns ==
  ASSUME pickings \in Seq(Picking), \A i \in DOMAIN pickings : Sound(pickings[i]),
         NEW is \in SUBSET DOMAIN pickings, \A i \in is : MayValidate(pickings[i]),
         NEW qs, qs = PickingsIn(is)
  PROVE  \E s : InsFor(qs, is, s)
<1> DEFINE os == Chosen(is, "out")
<1>1. os \in SUBSET is /\ os \in SUBSET DOMAIN pickings
  BY DEF Chosen
<1> HIDE DEF os
<1>2. PICK ps : ps = At(os)
  OBVIOUS
<1>3. PICK s : InOrder(ps, os, s)
  BY <1>1, <1>2, AtInOrder
<1>4. PICK n \in Nat : n = Len(s)
  BY <1>3 DEF InOrder
<1>5. qs = [k \in DOMAIN ps |-> PickingIn(ps[k])]
  BY <1>2, Zenon DEF PickingsIn, os
<1>6. DOMAIN ps = 1..n /\ DOMAIN s = 1..n
  BY <1>3, <1>4 DEF InOrder
<1>7. ASSUME NEW k \in 1..n
      PROVE  /\ s[k] \in os /\ qs[k] \in Picking /\ Sound(qs[k])
             /\ qs[k].req = pickings[s[k]].req /\ qs[k].kind = "in"
             /\ qs[k].state = "open" /\ Twins(pickings[s[k]], qs[k])
  <2>1. s[k] \in os /\ ps[k] = pickings[s[k]]
    BY <1>3, <1>6 DEF InOrder
  <2>2. PICK p \in Picking : p = pickings[s[k]]
    BY <1>1, <2>1, FiniteIndices
  <2>3. Sound(p) /\ p.state = "open"
    BY <1>1, <2>1, <2>2 DEF MayValidate
  <2>4. PICK q : q = PickingIn(p)
    OBVIOUS
  <2>5. qs[k] = q
    BY <1>5, <1>6, <2>1, <2>2, <2>4, Zenon
  <2>6. /\ q \in Picking /\ Sound(q)
        /\ q.req = p.req /\ q.kind = "in" /\ q.state = "open" /\ Twins(p, q)
    BY <2>3, <2>4, InForOut
  <2>7. QED
    BY <2>1, <2>2, <2>5, <2>6, Zenon
<1>8. qs \in Seq(Picking) /\ Len(qs) = n /\ DOMAIN qs = 1..n
  <2>1. qs = [k \in 1..n |-> qs[k]]
    BY <1>5, <1>6, Zenon
  <2>2. QED
    BY <1>7, <2>1, PickingSequence
<1>9. /\ \A k, l \in DOMAIN s : s[k] = s[l] => k = l
      /\ \A i \in os : \E k \in DOMAIN s : s[k] = i
  BY <1>3 DEF InOrder
<1>10. InsFor(qs, is, s)
  BY <1>6, <1>7, <1>8, <1>9 DEF os, InsFor
<1>11. QED
  BY <1>10

LEMMA NewBackorders ==
  ASSUME pickings \in Seq(Picking), \A i \in DOMAIN pickings : Sound(pickings[i]),
         NEW is \in SUBSET DOMAIN pickings, \A i \in is : MayValidate(pickings[i]),
         NEW qs, qs = Backorders(is)
  PROVE  /\ qs \in Seq(Picking) /\ DOMAIN qs = 1..Len(qs)
         /\ \A k \in DOMAIN qs :
              /\ Sound(qs[k]) /\ qs[k].kind = "out" /\ qs[k].state = "open"
              /\ \E i \in Chosen(is, "out") : qs[k].req = pickings[i].req
<1> DEFINE os == {i \in is : Left(pickings[i]) # {}}
<1>1. os \in SUBSET is /\ os \in SUBSET DOMAIN pickings
  OBVIOUS
<1>2. os \in SUBSET Chosen(is, "out")
  <2> SUFFICES ASSUME NEW i \in is, Left(pickings[i]) # {}
               PROVE  pickings[i].kind = "out"
    BY DEF Chosen
  <2>1. PICK p \in Picking : p = pickings[i]
    BY FiniteIndices
  <2>2. PICK m \in p.moves : m.qty < m.demand
    BY <2>1 DEF Left
  <2>3. m.qty \in 1..MaxQty
    BY DEF Picking, Move
  <2>4. m.qty # m.demand
    BY <2>2, <2>3, QtyTyped
  <2>5. p.kind # "in"
    BY <2>1, <2>4 DEF MayValidate, MatchesDemand
  <2>6. QED
    BY <2>1, <2>5 DEF Picking
<1> HIDE DEF os
<1>3. PICK ps : ps = At(os)
  OBVIOUS
<1>4. PICK s : InOrder(ps, os, s)
  BY <1>1, <1>3, AtInOrder
<1>5. PICK n \in Nat : n = Len(s)
  BY <1>4 DEF InOrder
<1>6. qs = [k \in DOMAIN ps |-> Backorder(ps[k])]
  BY <1>3, Zenon DEF Backorders, os
<1>7. DOMAIN ps = 1..n /\ DOMAIN s = 1..n
  BY <1>4, <1>5 DEF InOrder
<1>8. ASSUME NEW k \in 1..n
      PROVE  /\ qs[k] \in Picking /\ Sound(qs[k]) /\ qs[k].kind = "out" /\ qs[k].state = "open"
             /\ \E i \in Chosen(is, "out") : qs[k].req = pickings[i].req
  <2>1. s[k] \in os /\ ps[k] = pickings[s[k]]
    BY <1>4, <1>7 DEF InOrder
  <2>2. PICK p \in Picking : p = pickings[s[k]]
    BY <1>1, <2>1, FiniteIndices
  <2>3. Sound(p) /\ p.state = "open" /\ p.kind = "out"
    BY <1>1, <1>2, <2>1, <2>2 DEF MayValidate, Chosen
  <2>4. PICK q : q = Backorder(p)
    OBVIOUS
  <2>5. qs[k] = q
    BY <1>6, <1>7, <2>1, <2>2, <2>4, Zenon
  <2>6. q \in Picking /\ Sound(q) /\ q.req = p.req /\ q.kind = p.kind /\ q.state = "open"
    BY <2>3, <2>4, RestOfPicking
  <2>7. s[k] \in Chosen(is, "out")
    BY <1>2, <2>1
  <2>8. QED
    BY <2>2, <2>3, <2>5, <2>6, <2>7, Zenon
<1>9. qs \in Seq(Picking) /\ Len(qs) = n /\ DOMAIN qs = 1..n
  <2>1. qs = [k \in 1..n |-> qs[k]]
    BY <1>6, <1>7, Zenon
  <2>2. QED
    BY <1>8, <2>1, PickingSequence
<1>10. QED
  BY <1>8, <1>9

LEMMA NewDone ==
  ASSUME pickings \in Seq(Picking), \A i \in DOMAIN pickings : Sound(pickings[i]),
         NEW is \in SUBSET DOMAIN pickings, \A i \in is : MayValidate(pickings[i]),
         NEW qs, qs = Done(is)
  PROVE  /\ qs \in Seq(Picking) /\ Len(qs) = Len(pickings)
         /\ \A i \in DOMAIN pickings : i \notin is => qs[i] = pickings[i]
         /\ \A i \in is : /\ qs[i].req = pickings[i].req /\ qs[i].kind = pickings[i].kind
                          /\ qs[i].state = "done" /\ qs[i].moves = pickings[i].moves
                          /\ Sound(qs[i])
<1>1. PICK n \in Nat : n = Len(pickings) /\ DOMAIN pickings = 1..n
  BY FiniteIndices
<1>2. qs = [i \in 1..n |-> IF i \in is THEN InState(pickings[i], "done") ELSE pickings[i]]
  BY <1>1, Zenon DEF Done, InState
<1>3. ASSUME NEW i \in is
      PROVE  /\ qs[i] \in Picking
             /\ qs[i].req = pickings[i].req /\ qs[i].kind = pickings[i].kind
             /\ qs[i].state = "done" /\ qs[i].moves = pickings[i].moves
             /\ Sound(qs[i])
  <2>1. PICK p \in Picking : p = pickings[i]
    BY FiniteIndices
  <2>2. Sound(p) /\ MatchesDemand(p)
    BY <2>1 DEF MayValidate
  <2>3. PICK q : q = InState(p, "done")
    OBVIOUS
  <2>4. /\ q \in Picking /\ Sound(q)
        /\ q.req = p.req /\ q.kind = p.kind /\ q.state = "done" /\ q.moves = p.moves
    BY <2>2, <2>3, Validated
  <2>5. qs[i] = InState(pickings[i], "done")
    BY <1>1, <1>2, Zenon
  <2>6. qs[i] = q
    BY <2>1, <2>3, <2>5, Zenon
  <2>7. QED
    BY <2>1, <2>4, <2>6, Zenon
<1>4. ASSUME NEW i \in DOMAIN pickings, i \notin is
      PROVE  qs[i] = pickings[i] /\ qs[i] \in Picking
  <2>1. qs[i] = pickings[i]
    BY <1>1, <1>2, <1>4, Zenon
  <2>2. QED
    BY <2>1, FiniteIndices
<1>5. qs = [i \in 1..n |-> qs[i]]
  BY <1>2, Zenon
<1>6. \A i \in 1..n : qs[i] \in Picking
  BY <1>1, <1>3, <1>4
<1>7. qs \in Seq(Picking) /\ Len(qs) = n
  BY <1>5, <1>6, PickingSequence
<1>8. QED
  BY <1>1, <1>3, <1>4, <1>7

\* The pickings after button_validate of those at is: the ones there were, pickings in
\* at T, given by g, and backorders at R.
Outcome(qs, is, T, R, g) ==
  /\ qs \in Seq(Picking)
  /\ DOMAIN qs = (DOMAIN pickings \cup T) \cup R
  /\ T \cap DOMAIN pickings = {} /\ R \cap DOMAIN pickings = {}
  /\ \A i \in DOMAIN pickings : i \notin is => qs[i] = pickings[i]
  /\ \A i \in is : /\ qs[i].req = pickings[i].req /\ qs[i].kind = pickings[i].kind
                   /\ qs[i].state = "done" /\ qs[i].moves = pickings[i].moves
                   /\ Sound(qs[i])
  /\ Pairs(g, Chosen(is, "out"), T)
  /\ \A i \in Chosen(is, "out") :
       /\ Sound(qs[g[i]]) /\ qs[g[i]].req = pickings[i].req /\ qs[g[i]].kind = "in"
       /\ qs[g[i]].state = "open" /\ Twins(pickings[i], qs[g[i]])
  /\ \A j \in R : /\ Sound(qs[j]) /\ qs[j].kind = "out" /\ qs[j].state = "open"
                  /\ \E i \in Chosen(is, "out") : qs[j].req = pickings[i].req

LEMMA ValidateOutcome ==
  ASSUME pickings \in Seq(Picking), \A i \in DOMAIN pickings : Sound(pickings[i]),
         NEW is \in SUBSET DOMAIN pickings, \A i \in is : MayValidate(pickings[i]),
         NEW backorder \in BOOLEAN, NEW qs,
         qs = (Done(is) \o PickingsIn(is)) \o (IF backorder THEN Backorders(is) ELSE <<>>)
  PROVE  \E T, R, g : Outcome(qs, is, T, R, g)
<1>1. PICK ds : ds = Done(is)
  OBVIOUS
<1>2. PICK ts : ts = PickingsIn(is)
  OBVIOUS
<1>3. PICK rs : rs = IF backorder THEN Backorders(is) ELSE <<>>
  OBVIOUS
<1>4. PICK n \in Nat : n = Len(pickings) /\ DOMAIN pickings = 1..n
  BY FiniteIndices
<1>5. /\ ds \in Seq(Picking) /\ Len(ds) = n
      /\ \A i \in DOMAIN pickings : i \notin is => ds[i] = pickings[i]
      /\ \A i \in is : /\ ds[i].req = pickings[i].req /\ ds[i].kind = pickings[i].kind
                       /\ ds[i].state = "done" /\ ds[i].moves = pickings[i].moves
                       /\ Sound(ds[i])
  BY <1>1, <1>4, NewDone
<1> DEFINE os == Chosen(is, "out")
<1>6. PICK s : InsFor(ts, is, s)
  BY <1>2, NewIns
<1>6a. /\ ts \in Seq(Picking) /\ DOMAIN ts = 1..Len(ts) /\ DOMAIN s = 1..Len(ts)
       /\ \A k \in DOMAIN s :
            /\ s[k] \in os /\ Sound(ts[k])
            /\ ts[k].req = pickings[s[k]].req /\ ts[k].kind = "in"
            /\ ts[k].state = "open" /\ Twins(pickings[s[k]], ts[k])
       /\ \A k, l \in DOMAIN s : s[k] = s[l] => k = l
       /\ \A i \in os : \E k \in DOMAIN s : s[k] = i
  BY <1>6 DEF InsFor
<1>7. /\ rs \in Seq(Picking) /\ DOMAIN rs = 1..Len(rs)
      /\ \A k \in DOMAIN rs :
           /\ Sound(rs[k]) /\ rs[k].kind = "out" /\ rs[k].state = "open"
           /\ \E i \in os : rs[k].req = pickings[i].req
  <2>1. CASE backorder
    <3>1. rs = Backorders(is)
      BY <1>3, <2>1
    <3>2. QED
      BY <3>1, NewBackorders
  <2>2. CASE ~backorder
    <3>1. rs = <<>>
      BY <1>3, <2>2
    <3>2. rs \in Seq(Picking) /\ Len(rs) = 0 /\ DOMAIN rs = {} /\ 1..0 = {}
      BY <3>1
    <3>3. QED
      BY <3>2
  <2>3. QED
    BY <2>1, <2>2
<1> HIDE DEF os
<1>8. PICK us : us = ds \o ts
  OBVIOUS
<1>9. PICK m : m = Len(us)
  OBVIOUS
<1>10. PICK a \in Nat : a = Len(ts)
  BY <1>6a, LenProperties
<1>11. PICK c \in Nat : c = Len(rs)
  BY <1>7, LenProperties
<1>12. qs = us \o rs
  BY <1>1, <1>2, <1>3, <1>8, Zenon
<1>13. /\ us \in Seq(Picking) /\ DOMAIN us = 1..(n + a) /\ m = n + a
       /\ \A i \in 1..n : i \in DOMAIN us /\ us[i] = ds[i]
       /\ \A k \in 1..a : n + k \in DOMAIN us /\ n + k \notin 1..n /\ us[n + k] = ts[k]
       /\ \A i \in DOMAIN us : i \in 1..n \/ \E k \in 1..a : i = n + k
  <2>1. ds \in Seq(Picking) /\ ts \in Seq(Picking) /\ n = Len(ds)
    BY <1>5, <1>6a
  <2>2. us \in Seq(Picking) /\ Follows(us, ds, ts, n, a)
    BY <1>8, <1>10, <2>1, OneAfterTheOther
  <2>3. QED
    BY <1>9, <2>2 DEF Follows
<1>14. /\ qs \in Seq(Picking) /\ DOMAIN us = 1..m
       /\ \A i \in 1..m : i \in DOMAIN qs /\ qs[i] = us[i]
       /\ \A k \in 1..c : m + k \in DOMAIN qs /\ m + k \notin 1..m /\ qs[m + k] = rs[k]
       /\ \A i \in DOMAIN qs : i \in 1..m \/ \E k \in 1..c : i = m + k
  <2>1. us \in Seq(Picking) /\ rs \in Seq(Picking)
    BY <1>7, <1>13
  <2>2. qs \in Seq(Picking) /\ Follows(qs, us, rs, m, c)
    BY <1>9, <1>11, <1>12, <2>1, OneAfterTheOther
  <2>3. QED
    BY <2>2 DEF Follows
<1> DEFINE T == {n + k : k \in 1..a}
           R == {m + k : k \in 1..c}
           g == [i \in os |-> n + CHOOSE k \in 1..a : s[k] = i]
<1>15. DOMAIN us = 1..n \cup T
  <2>1. 1..n \subseteq DOMAIN us
    BY <1>13, Zenon
  <2>2. T \subseteq DOMAIN us
    BY <1>13, Zenon
  <2>3. DOMAIN us \subseteq 1..n \cup T
    BY <1>13, Zenon
  <2>4. QED
    BY <2>1, <2>2, <2>3, Zenon
<1>16. DOMAIN qs = DOMAIN us \cup R
  <2>1. DOMAIN us \subseteq DOMAIN qs
    BY <1>14, Zenon
  <2>2. R \subseteq DOMAIN qs
    BY <1>14, Zenon
  <2>3. DOMAIN qs \subseteq DOMAIN us \cup R
    BY <1>14, Zenon
  <2>4. QED
    BY <2>1, <2>2, <2>3, Zenon
<1>17. T \cap 1..n = {} /\ R \cap 1..n = {}
  BY <1>13, <1>14
<1>18. ASSUME NEW i \in os
       PROVE  \E k \in 1..a : k \in DOMAIN s /\ s[k] = i /\ g[i] = n + k
  <2>1. \E k \in 1..a : s[k] = i
    BY <1>6a, <1>10
  <2>2. PICK k \in 1..a : k = CHOOSE l \in 1..a : s[l] = i
    BY <2>1
  <2>3. s[k] = i
    BY <2>1, <2>2
  <2>4. g[i] = n + k
    BY <2>2
  <2>5. QED
    BY <1>6a, <1>10, <2>3, <2>4
<1>19. Pairs(g, os, T)
  <2>1. g = [i \in os |-> g[i]]
    OBVIOUS
  <2> HIDE DEF g
  <2>2. g \in [os -> T]
    BY <1>18, <2>1
  <2>3. ASSUME NEW i \in os, NEW j \in os, g[i] = g[j]
        PROVE  i = j
    <3>1. PICK k \in 1..a : s[k] = i /\ g[i] = n + k
      BY <1>18
    <3>2. PICK l \in 1..a : s[l] = j /\ g[j] = n + l
      BY <1>18
    <3>3. n + k = n + l
      BY <2>3, <3>1, <3>2
    <3>4. k = l
      BY <3>3
    <3>5. QED
      BY <3>1, <3>2, <3>4
  <2>4. ASSUME NEW t \in T
        PROVE  \E i \in os : g[i] = t
    <3>1. PICK k \in 1..a : t = n + k
      OBVIOUS
    <3>2. k \in DOMAIN s /\ s[k] \in os
      BY <1>6a, <1>10
    <3>3. PICK l \in 1..a : l \in DOMAIN s /\ s[l] = s[k] /\ g[s[k]] = n + l
      BY <1>18, <3>2
    <3>4. l = k
      BY <1>6a, <3>2, <3>3
    <3>5. QED
      BY <3>1, <3>2, <3>3, <3>4
  <2> HIDE DEF T
  <2>5. QED
    BY <2>2, <2>3, <2>4 DEF Pairs
<1> HIDE DEF g
<1>20. ASSUME NEW i \in os
       PROVE  /\ Sound(qs[g[i]]) /\ qs[g[i]].req = pickings[i].req /\ qs[g[i]].kind = "in"
              /\ qs[g[i]].state = "open" /\ Twins(pickings[i], qs[g[i]])
  <2>1. PICK k \in 1..a : k \in DOMAIN s /\ s[k] = i /\ g[i] = n + k
    BY <1>18
  <2>2. qs[n + k] = us[n + k] /\ us[n + k] = ts[k]
    BY <1>13, <1>14
  <2>3. qs[g[i]] = ts[k]
    BY <2>1, <2>2, Zenon
  <2>4. /\ Sound(ts[k]) /\ ts[k].req = pickings[i].req /\ ts[k].kind = "in"
        /\ ts[k].state = "open" /\ Twins(pickings[i], ts[k])
    BY <1>6a, <2>1
  <2>5. QED
    BY <2>3, <2>4, Zenon
<1>21. ASSUME NEW i \in 1..n
       PROVE  qs[i] = ds[i]
  BY <1>13, <1>14
<1>22. ASSUME NEW j \in R
       PROVE  /\ Sound(qs[j]) /\ qs[j].kind = "out" /\ qs[j].state = "open"
              /\ \E i \in os : qs[j].req = pickings[i].req
  <2>1. PICK k \in 1..c : j = m + k
    OBVIOUS
  <2>2. qs[j] = rs[k] /\ k \in DOMAIN rs
    BY <1>7, <1>11, <1>14, <2>1
  <2>3. QED
    BY <1>7, <2>2
<1> HIDE DEF T, R
<1>23. /\ \A i \in DOMAIN pickings : i \notin is => qs[i] = pickings[i]
       /\ \A i \in is : /\ qs[i].req = pickings[i].req /\ qs[i].kind = pickings[i].kind
                        /\ qs[i].state = "done" /\ qs[i].moves = pickings[i].moves
                        /\ Sound(qs[i])
  BY <1>4, <1>5, <1>21
<1>24. /\ DOMAIN qs = (DOMAIN pickings \cup T) \cup R
       /\ T \cap DOMAIN pickings = {} /\ R \cap DOMAIN pickings = {}
  BY <1>4, <1>15, <1>16, <1>17
<1>25. Outcome(qs, is, T, R, g)
  BY <1>14, <1>19, <1>20, <1>22, <1>23, <1>24 DEF Outcome, os
<1>26. QED
  BY <1>25

------------------------------------------------------------------------------
(* What the other operations make of the pickings                            *)

\* The same pickings, changed in what they carry or cancelled.
Touched(qs) ==
  /\ qs \in Seq(Picking) /\ DOMAIN qs = DOMAIN pickings
  /\ \A i \in DOMAIN pickings :
       /\ Sound(qs[i]) /\ qs[i].req = pickings[i].req /\ qs[i].kind = pickings[i].kind
       /\ qs[i].state = "done" <=> pickings[i].state = "done"
  /\ \A i \in OutsOf(pickings), j \in InsOf(pickings) :
       Twins(pickings[i], pickings[j]) => Twins(qs[i], qs[j])

LEMMA TouchedStayPaired ==
  ASSUME Paired(pickings), NEW qs, Touched(qs)
  PROVE  Paired(qs)
<1>1. OutsOf(qs) = OutsOf(pickings) /\ InsOf(qs) = InsOf(pickings)
  BY DEF Touched, OutsOf, InsOf
<1>2. \A i \in OutsOf(pickings), j \in InsOf(pickings) :
        Twins(pickings[i], pickings[j]) => Twins(qs[i], qs[j])
  BY DEF Touched
<1>3. QED
  BY <1>1, <1>2, StillPaired

LEMMA EditOutcome ==
  ASSUME pickings \in Seq(Picking), \A i \in DOMAIN pickings : Sound(pickings[i]),
         NEW r, NEW n, NEW qs, qs = WithoutLines(pickings, r, n)
  PROVE  Touched(qs)
<1>1. PICK l \in Nat : l = Len(pickings) /\ DOMAIN pickings = 1..l
  BY FiniteIndices
<1>2. qs = [i \in 1..l |-> IF pickings[i].req = r THEN UpTo(pickings[i], n) ELSE pickings[i]]
  BY <1>1, Zenon DEF WithoutLines, UpTo, WithMoves
<1>3. ASSUME NEW i \in 1..l
      PROVE  /\ qs[i] \in Picking /\ Sound(qs[i])
             /\ qs[i].req = pickings[i].req /\ qs[i].kind = pickings[i].kind
             /\ qs[i].state = pickings[i].state
             /\ qs[i].moves = IF pickings[i].req = r THEN {m \in pickings[i].moves : m.line <= n}
                              ELSE pickings[i].moves
  <2>1. PICK p \in Picking : p = pickings[i]
    BY <1>1, FiniteIndices
  <2>2. Sound(p)
    BY <1>1, <2>1
  <2>3. PICK q : q = UpTo(p, n)
    OBVIOUS
  <2>4. /\ q \in Picking /\ Sound(q)
        /\ q.req = p.req /\ q.kind = p.kind /\ q.state = p.state
        /\ q.moves = {m \in p.moves : m.line <= n}
    BY <2>2, <2>3, LinesDeleted
  <2>5. CASE p.req = r
    <3>1. qs[i] = UpTo(pickings[i], n)
      BY <1>2, <2>1, <2>5, Zenon
    <3>2. qs[i] = q
      BY <2>1, <2>3, <3>1, Zenon
    <3>3. pickings[i].req = r
      BY <2>1, <2>5
    <3>4. QED
      BY <2>1, <2>4, <3>2, <3>3
  <2>6. CASE p.req # r
    <3>1. qs[i] = p
      BY <1>2, <2>1, <2>6, Zenon
    <3>2. QED
      BY <2>1, <2>2, <2>6, <3>1
  <2>7. QED
    BY <2>5, <2>6
<1>4. qs \in Seq(Picking) /\ DOMAIN qs = DOMAIN pickings
  <2>1. qs = [i \in 1..l |-> qs[i]]
    BY <1>2, Zenon
  <2>2. QED
    BY <1>1, <1>3, <2>1, PickingSequence
<1>5. ASSUME NEW i \in OutsOf(pickings), NEW j \in InsOf(pickings),
             Twins(pickings[i], pickings[j])
      PROVE  Twins(qs[i], qs[j])
  <2>1. i \in 1..l /\ j \in 1..l /\ pickings[i].req = pickings[j].req
    BY <1>1, <1>5 DEF OutsOf, InsOf, Twins
  <2>1a. qs[i].req = qs[j].req
    BY <1>3, <2>1
  <2>2. CASE pickings[i].req = r
    <3>1. /\ qs[i].moves = {m \in pickings[i].moves : m.line <= n}
          /\ qs[j].moves = {m \in pickings[j].moves : m.line <= n}
      BY <1>3, <2>1, <2>2
    <3>2. QED
      BY <1>3, <1>5, <2>1, <3>1 DEF Twins
  <2>3. CASE pickings[i].req # r
    <3>1. qs[i].moves = pickings[i].moves /\ qs[j].moves = pickings[j].moves
      BY <1>3, <2>1, <2>3
    <3>2. QED
      BY <1>5, <2>1a, <3>1 DEF Twins
  <2>4. QED
    BY <2>2, <2>3
<1>6. QED
  BY <1>1, <1>3, <1>4, <1>5 DEF Touched

Replaced(qs, i, p) ==
  /\ qs \in Seq(Picking) /\ DOMAIN qs = DOMAIN pickings
  /\ qs[i] = p /\ \A j \in DOMAIN pickings : j # i => qs[j] = pickings[j]

LEMMA OneReplaced ==
  ASSUME pickings \in Seq(Picking), NEW i \in DOMAIN pickings, NEW p \in Picking,
         NEW qs, qs = [pickings EXCEPT ![i] = p]
  PROVE  Replaced(qs, i, p)
<1>1. DOMAIN pickings = 1..Len(pickings)
  BY LenProperties
<1>2. qs \in Seq(Picking) /\ DOMAIN qs = DOMAIN pickings
  BY <1>1, ExceptSeq
<1>3. QED
  BY <1>2 DEF Replaced

LEMMA SetQuantityOutcome ==
  ASSUME pickings \in Seq(Picking), \A i \in DOMAIN pickings : Sound(pickings[i]),
         NEW i \in DOMAIN pickings, pickings[i].state = "open", NEW m \in pickings[i].moves,
         NEW q \in 1..MaxQty, NEW qs,
         qs = [pickings EXCEPT ![i] =
                [@ EXCEPT !.moves = (pickings[i].moves \ {m}) \cup {[m EXCEPT !.qty = q]}]]
  PROVE  Touched(qs)
<1> DEFINE s == (pickings[i].moves \ {m}) \cup {Requantified(m, q)}
<1>1. qs = [pickings EXCEPT ![i] = WithMoves(pickings[i], s)]
  BY Zenon DEF WithMoves, Requantified
<1>2. PICK p \in Picking : p = pickings[i]
  BY FiniteIndices
<1>3. PICK p2 : p2 = WithMoves(p, s)
  OBVIOUS
<1>4. /\ p2 \in Picking /\ Sound(p2)
      /\ p2.req = p.req /\ p2.kind = p.kind /\ p2.state = p.state
      /\ \A k \in p.moves : \E l \in p2.moves : l.line = k.line /\ l.demand = k.demand
      /\ \A l \in p2.moves : \E k \in p.moves : l.line = k.line /\ l.demand = k.demand
  <2>1. /\ Sound(p) /\ p.state = "open" /\ m \in p.moves
        /\ s = (p.moves \ {m}) \cup {Requantified(m, q)}
    BY <1>2
  <2> HIDE DEF s
  <2>2. QED
    BY <1>3, <2>1, QuantitySet
<1> HIDE DEF s
<1>5. qs = [pickings EXCEPT ![i] = p2]
  BY <1>1, <1>2, <1>3, Zenon
<1>6. Replaced(qs, i, p2)
  BY <1>4, <1>5, OneReplaced
<1>7. /\ qs \in Seq(Picking) /\ DOMAIN qs = DOMAIN pickings
      /\ qs[i] = p2 /\ \A j \in DOMAIN pickings : j # i => qs[j] = pickings[j]
  BY <1>6 DEF Replaced
<1>8. ASSUME NEW j \in DOMAIN pickings
      PROVE  /\ Sound(qs[j]) /\ qs[j].req = pickings[j].req
             /\ qs[j].kind = pickings[j].kind
             /\ qs[j].state = "done" <=> pickings[j].state = "done"
  BY <1>2, <1>4, <1>7
<1>9. ASSUME NEW k \in OutsOf(pickings), NEW j \in InsOf(pickings),
             Twins(pickings[k], pickings[j])
      PROVE  Twins(qs[k], qs[j])
  <2>1. k \in DOMAIN pickings /\ j \in DOMAIN pickings /\ pickings[k].state = "done"
    BY DEF OutsOf, InsOf
  <2>2. k # i
    BY <2>1
  <2>3. qs[k] = pickings[k]
    BY <1>7, <2>1, <2>2
  <2>4. CASE j = i
    <3>1. Twins(pickings[k], p)
      BY <1>2, <1>9, <2>4
    <3>2. Twins(pickings[k], p2)
      BY <1>4, <3>1 DEF Twins
    <3>3. QED
      BY <1>7, <2>3, <2>4, <3>2
  <2>5. CASE j # i
    BY <1>7, <1>9, <2>1, <2>3, <2>5
  <2>6. QED
    BY <2>4, <2>5
<1>10. QED
  BY <1>7, <1>8, <1>9 DEF Touched

LEMMA CancelOutcome ==
  ASSUME pickings \in Seq(Picking), \A i \in DOMAIN pickings : Sound(pickings[i]),
         NEW i \in DOMAIN pickings, pickings[i].state = "open", NEW qs,
         qs = [pickings EXCEPT ![i] = [@ EXCEPT !.state = "cancel"]]
  PROVE  Touched(qs)
<1>1. PICK p \in Picking : p = pickings[i]
  BY FiniteIndices
<1>2. PICK p2 : p2 = InState(p, "cancel")
  OBVIOUS
<1>3. Sound(p) /\ p.state = "open"
  BY <1>1
<1>4. /\ p2 \in Picking /\ Sound(p2)
      /\ p2.req = p.req /\ p2.kind = p.kind /\ p2.state = "cancel" /\ p2.moves = p.moves
  BY <1>2, <1>3, Cancelled
<1>5. qs = [pickings EXCEPT ![i] = p2]
  BY <1>1, <1>2, Zenon DEF InState
<1>6. Replaced(qs, i, p2)
  BY <1>4, <1>5, OneReplaced
<1>7. /\ qs \in Seq(Picking) /\ DOMAIN qs = DOMAIN pickings
      /\ qs[i] = p2 /\ \A j \in DOMAIN pickings : j # i => qs[j] = pickings[j]
  BY <1>6 DEF Replaced
<1>8. ASSUME NEW j \in DOMAIN pickings
      PROVE  /\ Sound(qs[j]) /\ qs[j].req = pickings[j].req
             /\ qs[j].kind = pickings[j].kind
             /\ qs[j].state = "done" <=> pickings[j].state = "done"
             /\ qs[j].moves = pickings[j].moves
  BY <1>1, <1>3, <1>4, <1>7
<1>9. \A k \in OutsOf(pickings), j \in InsOf(pickings) :
        Twins(pickings[k], pickings[j]) => Twins(qs[k], qs[j])
  BY <1>8 DEF OutsOf, InsOf, Twins
<1>10. QED
  BY <1>7, <1>8, <1>9 DEF Touched

\* The pickings of one request are gone.
Spared(qs, r) ==
  /\ qs \in Seq(Picking)
  /\ \A k \in DOMAIN qs : \E i \in DOMAIN pickings :
       qs[k] = pickings[i] /\ pickings[i].req # r
  /\ \A i \in DOMAIN pickings : pickings[i].req # r => \E k \in DOMAIN qs : qs[k] = pickings[i]

LEMMA UnlinkOutcome ==
  ASSUME pickings \in Seq(Picking), Paired(pickings), NEW r, NEW qs,
         qs = At({i \in DOMAIN pickings : pickings[i].req # r})
  PROVE  Spared(qs, r) /\ Paired(qs)
<1> DEFINE is == {i \in DOMAIN pickings : pickings[i].req # r}
<1>1. is \in SUBSET DOMAIN pickings
  OBVIOUS
<1>2. PICK s : InOrder(qs, is, s)
  <2> HIDE DEF is
  <2>1. qs = At(is)
    BY DEF is
  <2>2. QED
    BY <1>1, <2>1, AtInOrder
<1>3. /\ Len(s) \in Nat /\ DOMAIN s = 1..Len(s) /\ DOMAIN qs = 1..Len(s)
      /\ \A k \in DOMAIN s : s[k] \in is /\ qs[k] = pickings[s[k]]
      /\ \A k, l \in DOMAIN s : s[k] = s[l] => k = l
      /\ \A i \in is : \E k \in DOMAIN s : s[k] = i
  BY <1>2 DEF InOrder
<1>4. \A k \in DOMAIN s : s[k] \in DOMAIN pickings /\ pickings[s[k]].req # r
  BY <1>3
<1>5. \A i \in DOMAIN pickings : pickings[i].req # r => \E k \in DOMAIN s : s[k] = i
  BY <1>3
<1> HIDE DEF is
<1>6. Paired(qs)
  <2>1. Selected(qs, pickings, s, r)
    BY <1>3, <1>4, <1>5 DEF Selected
  <2>2. QED
    BY <2>1, PairedWithout
<1>7. qs \in Seq(Picking)
  <2>1. PICK n \in Nat : n = Len(s) /\ DOMAIN s = 1..n /\ DOMAIN qs = 1..n
    BY <1>3
  <2>2. \A k \in 1..n : qs[k] \in Picking
    BY <1>3, <1>4, <2>1, FiniteIndices
  <2>3. qs = [k \in 1..n |-> qs[k]]
    <3>1. qs = [k \in DOMAIN SetToSeq(is) |-> pickings[SetToSeq(is)[k]]]
      BY Zenon DEF At, is
    <3>2. QED
      BY <2>1, <3>1
  <2>4. QED
    BY <2>2, <2>3, PickingSequence
<1>8. ASSUME NEW k \in DOMAIN qs
      PROVE  \E i \in DOMAIN pickings : qs[k] = pickings[i] /\ pickings[i].req # r
  <2>1. s[k] \in DOMAIN pickings /\ pickings[s[k]].req # r /\ qs[k] = pickings[s[k]]
    BY <1>3, <1>4
  <2>2. QED
    BY <2>1
<1>9. ASSUME NEW i \in DOMAIN pickings, pickings[i].req # r
      PROVE  \E k \in DOMAIN qs : qs[k] = pickings[i]
  <2>1. PICK k \in DOMAIN s : s[k] = i
    BY <1>5, <1>9
  <2>2. k \in DOMAIN qs /\ qs[k] = pickings[i]
    BY <1>3, <2>1
  <2>3. QED
    BY <2>2
<1>10. QED
  BY <1>6, <1>7, <1>8, <1>9 DEF Spared

\* There are more pickings out, of one request.
Sent(qs, r) ==
  /\ qs \in Seq(Picking) /\ DOMAIN pickings \subseteq DOMAIN qs
  /\ \A i \in DOMAIN pickings : qs[i] = pickings[i]
  /\ \A i \in DOMAIN qs \ DOMAIN pickings :
       Sound(qs[i]) /\ qs[i].req = r /\ qs[i].kind = "out" /\ qs[i].state = "open"

LEMMA ApproveOutcome ==
  ASSUME pickings \in Seq(Picking), NEW r \in Request, lines[r] \in Seq(Line),
         NEW qs, qs = pickings \o PickingsOut(r)
  PROVE  Sent(qs, r)
<1>1. PICK ls \in Seq(Line) : ls = lines[r]
  OBVIOUS
<1>2. /\ DOMAIN ls = 1..Len(ls) /\ Len(ls) \in Nat
      /\ \A i \in DOMAIN ls : ls[i] \in Line
  BY ElementOfSeq, LenProperties
<1> DEFINE ds == {ls[i].dest : i \in DOMAIN ls}
<1>3. IsFiniteSet(ds) /\ ds \in SUBSET Dest
  <2>1. IsFiniteSet(DOMAIN ls)
    BY <1>2, FS_Interval
  <2>2. PICK f : f = [i \in DOMAIN ls |-> ls[i].dest]
    OBVIOUS
  <2>3. ds = {f[i] : i \in DOMAIN ls}
    BY <2>2
  <2>4. \A i \in DOMAIN ls : ls[i].dest \in Dest
    BY <1>2 DEF Line
  <2> HIDE DEF ds
  <2>5. IsFiniteSet(ds)
    BY <2>1, <2>3, FiniteImage
  <2>6. QED
    BY <2>4, <2>5 DEF ds
<1>4. PICK order : order = SetToSeq(ds)
  OBVIOUS
<1>5. /\ DOMAIN order = 1..Len(order) /\ Len(order) \in Nat
      /\ \A k \in DOMAIN order : order[k] \in ds
  <2> HIDE DEF ds
  <2>1. QED
    BY <1>3, <1>4, InSomeOrder
<1>6. PICK c \in Nat : c = Len(order) /\ DOMAIN order = 1..c
  BY <1>5
<1>7. PICK os : os = PickingsOut(r)
  OBVIOUS
<1>8. os = [k \in 1..c |-> PickingOut(r, order[k])]
  <2>1. os = [k \in DOMAIN order |-> PickingOut(r, order[k])]
    BY <1>1, <1>4, <1>7, Zenon DEF PickingsOut, ds
  <2>2. QED
    BY <1>6, <2>1, Zenon
<1>9. ASSUME NEW k \in 1..c
      PROVE  /\ os[k] \in Picking /\ Sound(os[k])
             /\ os[k].req = r /\ os[k].kind = "out" /\ os[k].state = "open"
  <2>1. PICK d \in Dest : d = order[k]
    BY <1>3, <1>5, <1>6
  <2>2. PICK p : p = PickingOut(r, d)
    OBVIOUS
  <2>3. /\ p \in Picking /\ Sound(p)
        /\ p.req = r /\ p.kind = "out" /\ p.state = "open"
    BY <2>2, NewPickingOut
  <2>4. os[k] = PickingOut(r, order[k])
    BY <1>8, Zenon
  <2>5. os[k] = p
    BY <2>1, <2>2, <2>4, Zenon
  <2>6. QED
    BY <2>3, <2>5, Zenon
<1>10. os \in Seq(Picking) /\ Len(os) = c
  <2>1. os = [k \in 1..c |-> os[k]]
    BY <1>8, Zenon
  <2>2. QED
    BY <1>9, <2>1, PickingSequence
<1>11. PICK n : n = Len(pickings)
  OBVIOUS
<1>12. qs \in Seq(Picking) /\ Follows(qs, pickings, os, n, c)
  BY <1>7, <1>10, <1>11, OneAfterTheOther
<1>13. /\ DOMAIN pickings = 1..n
       /\ \A i \in 1..n : i \in DOMAIN qs /\ qs[i] = pickings[i]
       /\ \A k \in 1..c : n + k \in DOMAIN qs /\ n + k \notin 1..n /\ qs[n + k] = os[k]
       /\ \A i \in DOMAIN qs : i \in 1..n \/ \E k \in 1..c : i = n + k
  BY <1>12 DEF Follows
<1>14. ASSUME NEW i \in DOMAIN qs, i \notin DOMAIN pickings
       PROVE  Sound(qs[i]) /\ qs[i].req = r /\ qs[i].kind = "out" /\ qs[i].state = "open"
  <2>1. PICK k \in 1..c : i = n + k
    BY <1>13, <1>14
  <2>2. qs[i] = os[k]
    BY <1>13, <2>1
  <2>3. QED
    BY <1>9, <2>2
<1>15. DOMAIN pickings \subseteq DOMAIN qs /\ \A i \in DOMAIN pickings : qs[i] = pickings[i]
  BY <1>13
<1>16. QED
  BY <1>12, <1>14, <1>15 DEF Sent

------------------------------------------------------------------------------
(* Requests in transit                                                       *)

Accurate(st, ps) ==
  \A r \in Request :
    st[r] = "in_transit" =>
      /\ \A i \in DOMAIN ps : ps[i].req = r /\ ps[i].kind = "out" => ps[i].state = "done"
      /\ \E i \in DOMAIN ps : ps[i].req = r /\ ps[i].kind = "in" /\ ps[i].state # "done"

LEMMA AccurateByIndex ==
  /\ InTransitIsAccurate <=> Accurate(state, pickings)
  /\ InTransitIsAccurate' <=> Accurate(state', pickings')
<1>1. InTransitIsAccurate <=> Accurate(state, pickings)
  BY DEF InTransitIsAccurate, Accurate, Of, Range
<1>2. InTransitIsAccurate' <=> Accurate(state', pickings')
  BY DEF InTransitIsAccurate, Accurate, Of, Range
<1>3. QED
  BY <1>1, <1>2

LEMMA AccurateInStates ==
  ASSUME NEW st, NEW ps, Accurate(st, ps), NEW st2,
         \A r \in Request : st2[r] = "in_transit" => st[r] = "in_transit"
  PROVE  Accurate(st2, ps)
BY DEF Accurate

LEMMA AccurateAsTouched ==
  ASSUME NEW st, Accurate(st, pickings), NEW qs, Touched(qs)
  PROVE  Accurate(st, qs)
BY DEF Accurate, Touched

LEMMA AccurateAsSpared ==
  ASSUME NEW st, Accurate(st, pickings), NEW r, NEW qs, Spared(qs, r), NEW st2,
         \A r2 \in Request : st2[r2] = "in_transit" => r2 # r /\ st[r2] = "in_transit"
  PROVE  Accurate(st2, qs)
<1> SUFFICES ASSUME NEW r2 \in Request, st2[r2] = "in_transit"
             PROVE  /\ \A k \in DOMAIN qs :
                         qs[k].req = r2 /\ qs[k].kind = "out" => qs[k].state = "done"
                    /\ \E k \in DOMAIN qs :
                         qs[k].req = r2 /\ qs[k].kind = "in" /\ qs[k].state # "done"
  BY DEF Accurate
<1>1. r2 # r /\ st[r2] = "in_transit"
  OBVIOUS
<1>2. \A k \in DOMAIN qs : qs[k].req = r2 /\ qs[k].kind = "out" => qs[k].state = "done"
  BY <1>1 DEF Accurate, Spared
<1>3. PICK i \in DOMAIN pickings :
        pickings[i].req = r2 /\ pickings[i].kind = "in" /\ pickings[i].state # "done"
  BY <1>1 DEF Accurate
<1>4. PICK k \in DOMAIN qs : qs[k] = pickings[i]
  BY <1>1, <1>3 DEF Spared
<1>5. QED
  BY <1>2, <1>3, <1>4

LEMMA AccurateAsSent ==
  ASSUME NEW st, Accurate(st, pickings), NEW r, NEW qs, Sent(qs, r), NEW st2,
         \A r2 \in Request : st2[r2] = "in_transit" => r2 # r /\ st[r2] = "in_transit"
  PROVE  Accurate(st2, qs)
BY DEF Accurate, Sent

AllDone(ps) == ps # {} /\ \A p \in ps : p.state = "done"

LEMMA CheckStateValue ==
  ASSUME NEW s, NEW outs, NEW ins
  PROVE  CheckState(s, outs, ins) = IF AllDone(ins) THEN "done"
                                    ELSE IF AllDone(outs) THEN "in_transit" ELSE s
BY DEF CheckState, AllDone

LEMMA AllDoneByIndex ==
  ASSUME NEW ps, NEW r, NEW kind
  PROVE  AllDone(Of(r, ps, kind)) <=>
           /\ \E i \in DOMAIN ps : ps[i].req = r /\ ps[i].kind = kind
           /\ \A i \in DOMAIN ps :
                ps[i].req = r /\ ps[i].kind = kind => ps[i].state = "done"
BY DEF AllDone, Of, Range

LEMMA AccurateAsValidated ==
  ASSUME Accurate(state, pickings), Paired(pickings),
         NEW is \in SUBSET DOMAIN pickings, \A i \in is : pickings[i].state = "open",
         NEW T, NEW R, NEW g, Outcome(pickings', is, T, R, g), Paired(pickings'),
         state' = Updated({pickings[i].req : i \in is})
  PROVE  Accurate(state', pickings')
<1> DEFINE qs == pickings'
           reqs == {pickings[i].req : i \in is}
<1> SUFFICES ASSUME NEW r \in Request, state'[r] = "in_transit"
             PROVE  /\ \A i \in DOMAIN qs :
                         qs[i].req = r /\ qs[i].kind = "out" => qs[i].state = "done"
                    /\ \E i \in DOMAIN qs :
                         qs[i].req = r /\ qs[i].kind = "in" /\ qs[i].state # "done"
  BY DEF Accurate
<1>1. state'[r] = IF r \in reqs /\ state[r] # "done"
                  THEN CheckState(state[r], Of(r, qs, "out"), Of(r, qs, "in"))
                  ELSE state[r]
  BY DEF Updated
<1> HIDE DEF reqs
<1>2. /\ DOMAIN qs = (DOMAIN pickings \cup T) \cup R
      /\ \A i \in DOMAIN pickings : i \notin is => qs[i] = pickings[i]
      /\ \A i \in is : /\ qs[i].req = pickings[i].req /\ qs[i].kind = pickings[i].kind
                       /\ qs[i].state = "done"
      /\ \A i \in R : qs[i].kind = "out" /\
                      \E k \in Chosen(is, "out") : qs[i].req = pickings[k].req
  BY DEF Outcome
<1>3. \A i \in T : qs[i].kind = "in"
  BY DEF Outcome, Pairs
<1> HIDE DEF qs
<1>4. \A k \in Chosen(is, "out") : k \in is /\ k \in DOMAIN pickings /\ pickings[k].kind = "out"
  BY DEF Chosen
\* Once all pickings out are done, they stay done, and there are no more of them.
<1>5. ASSUME state[r] = "in_transit"
      PROVE  \A i \in DOMAIN qs : qs[i].req = r /\ qs[i].kind = "out" =>
                                  qs[i].state = "done" /\ i \in DOMAIN pickings
  <2> SUFFICES ASSUME NEW i \in DOMAIN qs, qs[i].req = r, qs[i].kind = "out"
               PROVE  qs[i].state = "done" /\ i \in DOMAIN pickings
    OBVIOUS
  <2>1. \A k \in DOMAIN pickings :
          pickings[k].req = r /\ pickings[k].kind = "out" => pickings[k].state = "done"
    BY <1>5 DEF Accurate
  <2>2. i \notin R
    BY <1>2, <1>4, <2>1
  <2>3. i \in DOMAIN pickings
    BY <1>2, <1>3, <2>2
  <2>4. QED
    BY <1>2, <2>1, <2>3
<1>6. CASE r \notin reqs \/ state[r] = "done"
  <2>1. state[r] = "in_transit" /\ r \notin reqs
    BY <1>1, <1>6
  <2>2. PICK j \in DOMAIN pickings :
          pickings[j].req = r /\ pickings[j].kind = "in" /\ pickings[j].state # "done"
    BY <2>1 DEF Accurate
  <2>3. j \notin is
    BY <2>1, <2>2 DEF reqs
  <2>4. qs[j] = pickings[j] /\ j \in DOMAIN qs
    BY <1>2, <2>3
  <2>5. QED
    BY <1>5, <2>1, <2>2, <2>4
<1>7. CASE r \in reqs /\ state[r] # "done"
  <2> DEFINE outs == Of(r, qs, "out")
             ins == Of(r, qs, "in")
  <2> HIDE DEF outs, ins
  <2>1. ~AllDone(ins) /\ (AllDone(outs) \/ state[r] = "in_transit")
    <3>1. CheckState(state[r], outs, ins) = "in_transit"
      BY <1>1, <1>7 DEF outs, ins
    <3>2. CheckState(state[r], outs, ins) = IF AllDone(ins) THEN "done"
                                    ELSE IF AllDone(outs) THEN "in_transit" ELSE state[r]
      BY CheckStateValue
    <3>3. QED
      BY <3>1, <3>2
  <2>2. AllDone(outs)
    <3>1. CASE state[r] = "in_transit"
      <4>1. PICK j \in DOMAIN pickings : pickings[j].req = r /\ pickings[j].kind = "in"
        BY <3>1 DEF Accurate
      <4>2. PICK f : /\ Pairs(f, OutsOf(pickings), InsOf(pickings))
                     /\ \A i \in OutsOf(pickings) : Twins(pickings[i], pickings[f[i]])
        BY DEF Paired
      <4>3. PICK i \in OutsOf(pickings) : f[i] = j
        BY <4>1, <4>2 DEF Pairs, InsOf
      <4>4. i \in DOMAIN pickings /\ pickings[i].kind = "out" /\ pickings[i].req = r
        BY <4>1, <4>2, <4>3 DEF OutsOf, Twins
      <4>5. i \in DOMAIN qs /\ qs[i].kind = "out" /\ qs[i].req = r
        BY <1>2, <4>4
      <4>6. \A k \in DOMAIN qs : qs[k].req = r /\ qs[k].kind = "out" => qs[k].state = "done"
        BY <1>5, <3>1
      <4>7. QED
        BY <4>5, <4>6, AllDoneByIndex DEF outs
    <3>2. QED
      BY <2>1, <3>1
  <2>3. /\ \E i \in DOMAIN qs : qs[i].req = r /\ qs[i].kind = "out"
        /\ \A i \in DOMAIN qs :
             qs[i].req = r /\ qs[i].kind = "out" => qs[i].state = "done"
    BY <2>2, AllDoneByIndex DEF outs
  <2>4. \E i \in DOMAIN qs : qs[i].req = r /\ qs[i].kind = "in"
    <3>1. PICK i \in OutsOf(qs) : qs[i].req = r
      BY <2>3 DEF OutsOf
    <3>2. PICK f : /\ Pairs(f, OutsOf(qs), InsOf(qs))
                   /\ \A k \in OutsOf(qs) : Twins(qs[k], qs[f[k]])
      BY DEF Paired, qs
    <3>3. f[i] \in InsOf(qs) /\ qs[f[i]].req = r
      BY <3>1, <3>2 DEF Pairs, Twins
    <3>4. QED
      BY <3>3 DEF InsOf
  <2>5. \E i \in DOMAIN qs : qs[i].req = r /\ qs[i].kind = "in" /\ qs[i].state # "done"
    BY <2>1, <2>4, AllDoneByIndex DEF ins
  <2>6. QED
    BY <2>3, <2>5
<1>8. QED
  BY <1>6, <1>7

------------------------------------------------------------------------------
(* The pairs and the moves, after each operation                             *)

LEMMA PairedAsSent ==
  ASSUME Paired(pickings), NEW r, NEW qs, Sent(qs, r)
  PROVE  Paired(qs)
<1>1. OutsOf(qs) = OutsOf(pickings) /\ InsOf(qs) = InsOf(pickings)
  BY DEF Sent, OutsOf, InsOf
<1>2. \A i \in OutsOf(pickings), j \in InsOf(pickings) :
        Twins(pickings[i], pickings[j]) => Twins(qs[i], qs[j])
  BY DEF Sent, OutsOf, InsOf
<1>3. QED
  BY <1>1, <1>2, StillPaired

LEMMA PairedAsValidated ==
  ASSUME Paired(pickings), NEW is \in SUBSET DOMAIN pickings,
         \A i \in is : pickings[i].state = "open",
         NEW T, NEW R, NEW g, NEW qs, Outcome(qs, is, T, R, g)
  PROVE  Paired(qs)
<1> DEFINE os == Chosen(is, "out")
<1>1. /\ DOMAIN qs = (DOMAIN pickings \cup T) \cup R
      /\ T \cap DOMAIN pickings = {} /\ R \cap DOMAIN pickings = {}
      /\ \A i \in DOMAIN pickings : i \notin is => qs[i] = pickings[i]
      /\ \A i \in is : /\ qs[i].req = pickings[i].req /\ qs[i].kind = pickings[i].kind
                       /\ qs[i].state = "done" /\ qs[i].moves = pickings[i].moves
      /\ \A i \in R : qs[i].kind = "out" /\ qs[i].state = "open"
  BY DEF Outcome
<1>2. /\ Pairs(g, os, T)
      /\ \A i \in os : qs[g[i]].kind = "in" /\ Twins(pickings[i], qs[g[i]])
  BY DEF Outcome
<1>3. \A i : i \in os <=> i \in is /\ pickings[i].kind = "out"
  BY DEF Chosen
<1> HIDE DEF os
<1>4. \A i \in T : qs[i].kind = "in"
  BY <1>2 DEF Pairs
<1>5. \A i \in is : i \in DOMAIN pickings /\ pickings[i].state # "done"
  OBVIOUS
<1>6. OutsOf(qs) = OutsOf(pickings) \cup os
  <2>1. ASSUME NEW i \in OutsOf(qs)
        PROVE  i \in OutsOf(pickings) \cup os
    <3>1. i \in DOMAIN pickings
      BY <1>1, <1>4 DEF OutsOf
    <3>2. QED
      BY <1>1, <1>3, <3>1 DEF OutsOf
  <2>2. ASSUME NEW i \in OutsOf(pickings)
        PROVE  i \in OutsOf(qs)
    <3>1. i \notin is
      BY <1>5 DEF OutsOf
    <3>2. QED
      BY <1>1, <3>1 DEF OutsOf
  <2>3. ASSUME NEW i \in os
        PROVE  i \in OutsOf(qs)
    BY <1>1, <1>3, <1>5 DEF OutsOf
  <2>4. QED
    BY <2>1, <2>2, <2>3
<1>7. InsOf(qs) = InsOf(pickings) \cup T
  <2>1. ASSUME NEW i \in InsOf(qs)
        PROVE  i \in InsOf(pickings) \cup T
    BY <1>1 DEF InsOf
  <2>2. ASSUME NEW i \in InsOf(pickings)
        PROVE  i \in InsOf(qs)
    BY <1>1 DEF InsOf
  <2>3. ASSUME NEW i \in T
        PROVE  i \in InsOf(qs)
    BY <1>1, <1>4 DEF InsOf
  <2>4. QED
    BY <2>1, <2>2, <2>3
<1>8. os \cap OutsOf(pickings) = {}
  BY <1>3, <1>5 DEF OutsOf
<1>9. T \cap InsOf(pickings) = {}
  BY <1>1 DEF InsOf
<1>10. \A i \in DOMAIN pickings : qs[i].req = pickings[i].req /\ qs[i].moves = pickings[i].moves
  BY <1>1
<1>11. \A i \in OutsOf(pickings), j \in InsOf(pickings) :
         Twins(pickings[i], pickings[j]) => Twins(qs[i], qs[j])
  BY <1>10 DEF Twins, OutsOf, InsOf
<1>12. \A i \in os : Twins(qs[i], qs[g[i]])
  BY <1>2, <1>3, <1>5, <1>10 DEF Twins
<1>13. QED
  BY <1>2, <1>6, <1>7, <1>8, <1>9, <1>11, <1>12, PairedWithMore

LEMMA SoundAsValidated ==
  ASSUME \A i \in DOMAIN pickings : Sound(pickings[i]), NEW is,
         NEW T, NEW R, NEW g, NEW qs, Outcome(qs, is, T, R, g)
  PROVE  \A i \in DOMAIN qs : Sound(qs[i])
<1> SUFFICES ASSUME NEW i \in DOMAIN qs PROVE Sound(qs[i])
  OBVIOUS
<1>1. /\ DOMAIN qs = (DOMAIN pickings \cup T) \cup R
      /\ \A k \in DOMAIN pickings : k \notin is => qs[k] = pickings[k]
      /\ \A k \in is : Sound(qs[k])
      /\ \A k \in R : Sound(qs[k])
      /\ \A k \in T : \E l \in Chosen(is, "out") : k = g[l] /\ Sound(qs[g[l]])
  BY DEF Outcome, Pairs
<1>2. QED
  BY <1>1

LEMMA SoundAsSpared ==
  ASSUME \A i \in DOMAIN pickings : Sound(pickings[i]), NEW r, NEW qs, Spared(qs, r)
  PROVE  \A k \in DOMAIN qs : Sound(qs[k])
BY DEF Spared

LEMMA SoundAsSent ==
  ASSUME \A i \in DOMAIN pickings : Sound(pickings[i]), NEW r, NEW qs, Sent(qs, r)
  PROVE  \A k \in DOMAIN qs : Sound(qs[k])
BY DEF Sent

\* Every picking is of a request that already had one, or of the one just approved.
LEMMA RequestsOfPickings ==
  ASSUME NEW qs, NEW k \in DOMAIN qs
  PROVE  /\ Touched(qs) => \E i \in DOMAIN pickings : qs[k].req = pickings[i].req
         /\ \A r : Spared(qs, r) =>
              \E i \in DOMAIN pickings : qs[k].req = pickings[i].req /\ pickings[i].req # r
         /\ \A r : Sent(qs, r) =>
              qs[k].req = r \/ \E i \in DOMAIN pickings : qs[k].req = pickings[i].req
         /\ \A is \in SUBSET DOMAIN pickings : \A T, R, g : Outcome(qs, is, T, R, g) =>
              \E i \in DOMAIN pickings : qs[k].req = pickings[i].req
<1>1. Touched(qs) => \E i \in DOMAIN pickings : qs[k].req = pickings[i].req
  BY DEF Touched
<1>2. ASSUME NEW r, Spared(qs, r)
      PROVE  \E i \in DOMAIN pickings : qs[k].req = pickings[i].req /\ pickings[i].req # r
  BY <1>2 DEF Spared
<1>3. ASSUME NEW r, Sent(qs, r)
      PROVE  qs[k].req = r \/ \E i \in DOMAIN pickings : qs[k].req = pickings[i].req
  BY <1>3 DEF Sent
<1>4. ASSUME NEW is \in SUBSET DOMAIN pickings, NEW T, NEW R, NEW g, Outcome(qs, is, T, R, g)
      PROVE  \E i \in DOMAIN pickings : qs[k].req = pickings[i].req
  <2>1. /\ DOMAIN qs = (DOMAIN pickings \cup T) \cup R
        /\ \A i \in DOMAIN pickings : i \notin is => qs[i] = pickings[i]
        /\ \A i \in is : qs[i].req = pickings[i].req
        /\ \A i \in R : \E l \in Chosen(is, "out") : qs[i].req = pickings[l].req
        /\ \A i \in T : \E l \in Chosen(is, "out") : qs[i].req = pickings[l].req
    BY <1>4 DEF Outcome, Pairs
  <2>2. \A l \in Chosen(is, "out") : l \in DOMAIN pickings
    BY DEF Chosen
  <2>3. QED
    BY <2>1, <2>2
<1>5. QED
  BY <1>1, <1>2, <1>3, <1>4

------------------------------------------------------------------------------
(* Quantities                                                                *)

LEMMA ExportQtyTyped ==
  ASSUME NEW p \in Picking, Sound(p), NEW x
  PROVE  ExportQty(p, x) \in Int
<1> DEFINE ms == {m \in p.moves : m.product = x}
           f == [m \in ms |-> m.qty]
<1>1. IsFiniteSet(ms)
  BY FS_Subset DEF Sound, Orderly
<1>2. \A m \in ms : m.qty \in Int
  <2>1. \A m \in ms : m.qty \in 1..MaxQty
    BY DEF Picking, Move
  <2> HIDE DEF ms
  <2>2. QED
    BY <2>1, QtyTyped
<1>3. f \in [ms -> Int]
  <2> HIDE DEF ms
  <2>1. QED
    BY <1>2
<1>4. SumFunction(f) \in Int
  <2> HIDE DEF f, ms
  <2>1. QED
    BY <1>1, <1>3, SumIsAnInteger
<1>5. QED
  BY <1>4, Zenon DEF ExportQty

LEMMA MovedQtyTyped ==
  ASSUME pickings \in Seq(Picking), \A i \in DOMAIN pickings : Sound(pickings[i]),
         NEW is \in SUBSET DOMAIN pickings, NEW kind, NEW x
  PROVE  MovedQty(is, kind, x) \in Int
<1> DEFINE os == Chosen(is, kind)
           f == [i \in os |-> ExportQty(pickings[i], x)]
<1>1. os \in SUBSET DOMAIN pickings
  BY DEF Chosen
<1> HIDE DEF os
<1>2. IsFiniteSet(os)
  BY <1>1, FiniteIndices
<1>3. \A i \in os : ExportQty(pickings[i], x) \in Int
  BY <1>1, FiniteIndices, ExportQtyTyped
<1>4. f \in [os -> Int]
  BY <1>3
<1> HIDE DEF f
<1>5. SumFunction(f) \in Int
  BY <1>2, <1>4, SumIsAnInteger
<1>6. QED
  BY <1>5, Zenon DEF MovedQty, f, os

------------------------------------------------------------------------------
(* The invariant                                                             *)

IInv ==
  /\ TypeOK /\ DistinctLines /\ InTransitIsAccurate
  /\ RowsInv /\ MovesInv /\ PairedInv

Pages == {NoPage} \cup [req : Request, state : RequestStates]
Past == {"posted", "manager_approved", "am_wh_approved", "in_transit", "done"}

\* The part about the requests and the pages, and the part about their pickings.
DocumentsOK ==
  /\ state \in [Request -> RequestStates \cup {NoRow}]
  /\ lines \in [Request -> Seq(Line)]
  /\ page \in [User -> Pages]
  /\ \A r \in Request : state[r] \in Past => Distinct(lines[r])
  /\ \A r \in Request :
       state[r] = NoRow => /\ \A u \in User : page[u].req = r => page[u] = NoPage
                           /\ \A i \in DOMAIN pickings : pickings[i].req # r
  /\ \A u \in User : page[u].state \in Past => Distinct(lines[page[u].req])
  /\ \A i \in DOMAIN pickings : Distinct(lines[pickings[i].req])

GoodsOK ==
  /\ pickings \in Seq(Picking)
  /\ stock \in [Product -> Int]
  /\ \A i \in DOMAIN pickings : Sound(pickings[i])
  /\ Paired(pickings)
  /\ Accurate(state, pickings)

LEMMA InTwoParts ==
  /\ IInv <=> DocumentsOK /\ GoodsOK
  /\ IInv' <=> DocumentsOK' /\ GoodsOK'
<1>1. TypeOK /\ DistinctLines /\ RowsInv <=>
        DocumentsOK /\ pickings \in Seq(Picking) /\ stock \in [Product -> Int]
  BY Zenon DEF TypeOK, DistinctLines, RowsInv, DocumentsOK, Pages, Past
<1>2. (TypeOK /\ DistinctLines /\ RowsInv)' <=>
        DocumentsOK' /\ (pickings \in Seq(Picking))' /\ (stock \in [Product -> Int])'
  BY Zenon DEF TypeOK, DistinctLines, RowsInv, DocumentsOK, Pages, Past
<1>3. MovesInv <=> \A i \in DOMAIN pickings : Sound(pickings[i])
  BY SoundByIndex
<1>4. MovesInv' <=> \A i \in DOMAIN pickings' : Sound(pickings'[i])
  BY DEF MovesInv, Sound, Orderly
<1>5. PairedInv <=> Paired(pickings)
  BY PairedByIndex
<1>6. PairedInv' <=> Paired(pickings')
  <2>1. DoneOuts' = OutsOf(pickings') /\ Ins' = InsOf(pickings')
    BY DEF DoneOuts, Ins, OutsOf, InsOf
  <2>2. QED
    BY <2>1, BijectionsPair DEF PairedInv, Paired
<1>7. /\ InTransitIsAccurate <=> Accurate(state, pickings)
      /\ InTransitIsAccurate' <=> Accurate(state', pickings')
  BY AccurateByIndex
<1>8. QED
  BY <1>1, <1>2, <1>3, <1>4, <1>5, <1>6, <1>7, Zenon DEF IInv, GoodsOK

\* What a page shows: a request that has a row, and a state of it.
LEMMA PageTyped ==
  ASSUME DocumentsOK, NEW u \in User, page[u].state \in RequestStates
  PROVE  page[u].req \in Request /\ state[page[u].req] # NoRow
<1>1. page[u] # NoPage
  BY DEF NoPage, NoRow, RequestStates
<1>2. page[u].req \in Request
  BY <1>1 DEF DocumentsOK, Pages
<1>3. PICK r \in Request : r = page[u].req
  BY <1>2
<1>4. state[r] = NoRow => page[u] = NoPage
  BY <1>3 DEF DocumentsOK
<1>5. QED
  BY <1>1, <1>3, <1>4

LEMMA NewPage ==
  ASSUME NEW r \in Request, NEW s \in RequestStates, NEW pg, pg = [req |-> r, state |-> s]
  PROVE  pg \in Pages /\ pg.req = r /\ pg.state = s
BY DEF Pages

LEMMA OldRowsStay ==
  /\ NoRow \notin RequestStates /\ NoRow \notin Past /\ Past \subseteq RequestStates
  /\ NoPage.state = NoRow /\ NoPage.req = NoRow /\ NoPage \in Pages
BY DEF NoRow, RequestStates, Past, NoPage, Pages

LEMMA PressKeeps ==
  ASSUME IInv, NEW u \in User, NEW shown \in SUBSET RequestStates,
         NEW target \in {"draft", "posted", "manager_approved", "reject", "cancel"},
         Press(u, shown, target),
         target = "posted" => Distinct(lines[page[u].req]),
         target = "manager_approved" => page[u].state = "posted"
  PROVE  IInv'
<1>1. DocumentsOK /\ GoodsOK
  BY InTwoParts
<1>2. PICK r : r = page[u].req
  OBVIOUS
<1>3. PICK pg : pg = [req |-> r, state |-> target]
  OBVIOUS
<1>4. /\ page[u].state \in shown /\ state[r] # NoRow
      /\ state' = [state EXCEPT ![r] = target]
      /\ page' = [page EXCEPT ![u] = pg]
      /\ lines' = lines /\ pickings' = pickings /\ stock' = stock
  BY <1>2, <1>3 DEF Press
<1>5. page[u].state \in RequestStates
  BY <1>4
<1>6. r \in Request
  BY <1>1, <1>2, <1>5, PageTyped
<1>7. target \in RequestStates /\ target # NoRow /\ target # "in_transit"
  BY DEF RequestStates, NoRow
<1>8. pg \in Pages /\ pg.req = r /\ pg.state = target
  BY <1>3, <1>6, <1>7, NewPage
<1>9. /\ state' \in [Request -> RequestStates \cup {NoRow}] /\ state'[r] = target
      /\ \A r2 \in Request : r2 # r => state'[r2] = state[r2]
      /\ page' \in [User -> Pages] /\ page'[u] = pg
      /\ \A u2 \in User : u2 # u => page'[u2] = page[u2]
  BY <1>1, <1>4, <1>6, <1>7, <1>8 DEF DocumentsOK
<1>10. target \in Past => Distinct(lines[r])
  <2>1. CASE target = "posted"
    BY <1>2, <2>1
  <2>2. CASE target = "manager_approved"
    <3>1. page[u].state \in Past
      BY <2>2 DEF Past
    <3>2. QED
      BY <1>1, <1>2, <3>1 DEF DocumentsOK
  <2>3. QED
    BY <2>1, <2>2 DEF Past
<1>11. ASSUME NEW r2 \in Request
       PROVE  /\ state'[r2] \in Past => Distinct(lines'[r2])
              /\ state'[r2] = NoRow => /\ \A u2 \in User : page'[u2].req = r2 => page'[u2] = NoPage
                                       /\ \A i \in DOMAIN pickings' : pickings'[i].req # r2
  <2>1. CASE r2 = r
    BY <1>4, <1>7, <1>9, <1>10, <2>1
  <2>2. CASE r2 # r
    BY <1>1, <1>4, <1>8, <1>9, <2>2 DEF DocumentsOK
  <2>3. QED
    BY <2>1, <2>2
<1>12. ASSUME NEW u2 \in User, page'[u2].state \in Past
       PROVE  Distinct(lines'[page'[u2].req])
  <2>1. CASE u2 = u
    BY <1>4, <1>8, <1>9, <1>10, <1>12, <2>1
  <2>2. CASE u2 # u
    BY <1>1, <1>4, <1>9, <1>12, <2>2 DEF DocumentsOK
  <2>3. QED
    BY <2>1, <2>2
<1>13. DocumentsOK'
  BY <1>1, <1>4, <1>9, <1>11, <1>12 DEF DocumentsOK
<1>14. Accurate(state', pickings')
  BY <1>1, <1>4, <1>7, <1>9 DEF GoodsOK, Accurate
<1>15. GoodsOK'
  BY <1>1, <1>4, <1>14 DEF GoodsOK
<1>16. QED
  BY <1>13, <1>15, InTwoParts

LEMMA ButtonsKeep ==
  ASSUME IInv, NEW u \in User,
         \/ ActionDraft(u) \/ ActionPost(u) \/ ActionManagerApprove(u)
         \/ ActionReject(u) \/ ActionCancel(u)
  PROVE  IInv'
<1>1. /\ {"reject", "cancel"} \in SUBSET RequestStates
      /\ {"draft"} \in SUBSET RequestStates /\ {"posted"} \in SUBSET RequestStates
      /\ {"posted", "manager_approved"} \in SUBSET RequestStates
      /\ RequestStates \ {"am_wh_approved", "done", "cancel"} \in SUBSET RequestStates
  BY DEF RequestStates
<1>2. CASE ActionDraft(u)
  BY <1>1, <1>2, PressKeeps DEF ActionDraft
<1>3. CASE ActionPost(u)
  BY <1>1, <1>3, PressKeeps DEF ActionPost
<1>4. CASE ActionManagerApprove(u)
  <2>1. page[u].state = "posted"
    BY <1>4 DEF ActionManagerApprove, Press
  <2>2. QED
    BY <1>1, <1>4, <2>1, PressKeeps DEF ActionManagerApprove
<1>5. CASE ActionReject(u)
  BY <1>1, <1>5, PressKeeps DEF ActionReject
<1>6. CASE ActionCancel(u)
  BY <1>1, <1>6, PressKeeps DEF ActionCancel
<1>7. QED
  BY <1>2, <1>3, <1>4, <1>5, <1>6

LEMMA OpenKeeps ==
  ASSUME IInv, NEW u \in User, NEW r \in Request, Open(u, r)
  PROVE  IInv'
<1>1. DocumentsOK /\ GoodsOK
  BY InTwoParts
<1>2. PICK s : s = state[r]
  OBVIOUS
<1>3. PICK pg : pg = [req |-> r, state |-> s]
  OBVIOUS
<1>4. /\ s # NoRow /\ page' = [page EXCEPT ![u] = pg]
      /\ state' = state /\ lines' = lines /\ pickings' = pickings /\ stock' = stock
  BY <1>2, <1>3 DEF Open
<1>5. s \in RequestStates
  BY <1>1, <1>2, <1>4 DEF DocumentsOK
<1>6. pg \in Pages /\ pg.req = r /\ pg.state = s
  BY <1>3, <1>5, NewPage
<1>7. /\ page' \in [User -> Pages] /\ page'[u] = pg
      /\ \A u2 \in User : u2 # u => page'[u2] = page[u2]
  BY <1>1, <1>4, <1>6 DEF DocumentsOK
<1>8. ASSUME NEW u2 \in User
      PROVE  /\ page'[u2].state \in Past => Distinct(lines'[page'[u2].req])
             /\ \A r2 \in Request :
                  state'[r2] = NoRow => (page'[u2].req = r2 => page'[u2] = NoPage)
  <2>1. CASE u2 = u
    BY <1>1, <1>2, <1>4, <1>6, <1>7, <2>1 DEF DocumentsOK
  <2>2. CASE u2 # u
    BY <1>1, <1>4, <1>7, <2>2 DEF DocumentsOK
  <2>3. QED
    BY <2>1, <2>2
<1>9. DocumentsOK'
  BY <1>1, <1>4, <1>7, <1>8 DEF DocumentsOK
<1>10. GoodsOK'
  BY <1>1, <1>4 DEF GoodsOK
<1>11. QED
  BY <1>9, <1>10, InTwoParts

LEMMA CreateKeeps ==
  ASSUME IInv, NEW r \in Request, NEW ls \in Contents, Create(r, ls)
  PROVE  IInv'
<1>1. DocumentsOK /\ GoodsOK
  BY InTwoParts
<1>2. /\ state[r] = NoRow /\ state' = [state EXCEPT ![r] = "draft"]
      /\ lines' = [lines EXCEPT ![r] = ls]
      /\ pickings' = pickings /\ stock' = stock /\ page' = page
  BY DEF Create
<1>3. ls \in Seq(Line)
  BY TransferAssumption
<1>4. "draft" \in RequestStates /\ "draft" \notin Past /\ "draft" # NoRow /\ "draft" # "in_transit"
  BY DEF RequestStates, Past, NoRow
<1>5. /\ state' \in [Request -> RequestStates \cup {NoRow}] /\ state'[r] = "draft"
      /\ lines' \in [Request -> Seq(Line)]
      /\ \A r2 : r2 # r => lines'[r2] = lines[r2]
      /\ \A r2 \in Request : r2 # r => state'[r2] = state[r2]
  BY <1>1, <1>2, <1>3, <1>4 DEF DocumentsOK
<1>6. /\ \A u \in User : page[u].req = r => page[u] = NoPage
      /\ \A i \in DOMAIN pickings : pickings[i].req # r
  BY <1>1, <1>2 DEF DocumentsOK
<1>7. \A r2 \in Request :
        /\ state'[r2] \in Past => Distinct(lines'[r2])
        /\ state'[r2] = NoRow => state[r2] = NoRow
  BY <1>1, <1>4, <1>5 DEF DocumentsOK
<1>8. \A u \in User : page[u].state \in Past => page[u].req # r
  BY <1>6, OldRowsStay
<1>9. DocumentsOK'
  <2>1. \A u \in User : page'[u].state \in Past => Distinct(lines'[page'[u].req])
    BY <1>1, <1>2, <1>5, <1>8 DEF DocumentsOK
  <2>2. \A i \in DOMAIN pickings' : Distinct(lines'[pickings'[i].req])
    BY <1>1, <1>2, <1>5, <1>6 DEF DocumentsOK
  <2>3. \A r2 \in Request :
          state'[r2] = NoRow => /\ \A u \in User : page'[u].req = r2 => page'[u] = NoPage
                                /\ \A i \in DOMAIN pickings' : pickings'[i].req # r2
    BY <1>1, <1>2, <1>7 DEF DocumentsOK
  <2>4. page' \in [User -> Pages]
    BY <1>1, <1>2 DEF DocumentsOK
  <2>5. QED
    BY <1>5, <1>7, <2>1, <2>2, <2>3, <2>4 DEF DocumentsOK
<1>10. Accurate(state', pickings')
  <2>1. \A r2 \in Request : state'[r2] = "in_transit" => state[r2] = "in_transit"
    BY <1>4, <1>5
  <2>2. Accurate(state, pickings')
    BY <1>1, <1>2 DEF GoodsOK
  <2>3. QED
    BY <2>1, <2>2, AccurateInStates
<1>11. GoodsOK'
  BY <1>1, <1>2, <1>10 DEF GoodsOK
<1>12. QED
  BY <1>9, <1>11, InTwoParts

LEMMA EditKeeps ==
  ASSUME IInv, NEW u \in User, NEW ls \in Contents, Edit(u, ls)
  PROVE  IInv'
<1>1. DocumentsOK /\ GoodsOK
  BY InTwoParts
<1>2. PICK r : r = page[u].req
  OBVIOUS
<1>3. PICK s : s = state[r]
  OBVIOUS
<1>4. PICK pg : pg = [req |-> r, state |-> s]
  OBVIOUS
<1>5. /\ page[u].state \in {"draft", "posted", "manager_approved"}
      /\ s # NoRow /\ Distinct(ls)
      /\ lines' = [lines EXCEPT ![r] = ls]
      /\ pickings' = WithoutLines(pickings, r, Len(ls))
      /\ page' = [page EXCEPT ![u] = pg]
      /\ state' = state /\ stock' = stock
  BY <1>2, <1>3, <1>4 DEF Edit
<1>6. r \in Request
  <2>1. page[u].state \in RequestStates
    BY <1>5 DEF RequestStates
  <2>2. QED
    BY <1>1, <1>2, <2>1, PageTyped
<1>7. ls \in Seq(Line)
  BY TransferAssumption
<1>8. s \in RequestStates
  BY <1>1, <1>3, <1>5, <1>6 DEF DocumentsOK
<1>9. pg \in Pages /\ pg.req = r /\ pg.state = s
  BY <1>4, <1>6, <1>8, NewPage
<1>10. /\ page' \in [User -> Pages] /\ page'[u] = pg
       /\ \A u2 \in User : u2 # u => page'[u2] = page[u2]
       /\ lines' \in [Request -> Seq(Line)] /\ lines'[r] = ls
       /\ \A r2 : r2 # r => lines'[r2] = lines[r2]
  BY <1>1, <1>5, <1>6, <1>7, <1>9 DEF DocumentsOK
\* Lines that were distinct are; and those that are new are.
<1>11. \A r2 : Distinct(lines[r2]) => Distinct(lines'[r2])
  BY <1>5, <1>10
<1>12. Touched(pickings')
  <2>1. PICK n : n = Len(ls)
    OBVIOUS
  <2>2. pickings' = WithoutLines(pickings, r, n)
    BY <1>5, <2>1
  <2>3. QED
    BY <1>1, <2>2, EditOutcome DEF GoodsOK
<1>13. \A k \in DOMAIN pickings' : \E i \in DOMAIN pickings : pickings'[k].req = pickings[i].req
  BY <1>12, RequestsOfPickings
<1>14. DocumentsOK'
  <2>1. \A r2 \in Request : state'[r2] \in Past => Distinct(lines'[r2])
    BY <1>1, <1>5, <1>11 DEF DocumentsOK
  <2>2. ASSUME NEW u2 \in User
        PROVE  /\ page'[u2].state \in Past => Distinct(lines'[page'[u2].req])
               /\ \A r2 \in Request :
                    state'[r2] = NoRow => (page'[u2].req = r2 => page'[u2] = NoPage)
    <3>1. CASE u2 = u
      BY <1>3, <1>5, <1>9, <1>10, <3>1
    <3>2. CASE u2 # u
      BY <1>1, <1>5, <1>10, <1>11, <3>2 DEF DocumentsOK
    <3>3. QED
      BY <3>1, <3>2
  <2>3. \A k \in DOMAIN pickings' : Distinct(lines'[pickings'[k].req])
    BY <1>1, <1>11, <1>13 DEF DocumentsOK
  <2>4. \A r2 \in Request : state'[r2] = NoRow =>
          \A k \in DOMAIN pickings' : pickings'[k].req # r2
    BY <1>1, <1>5, <1>13 DEF DocumentsOK
  <2>5. state' \in [Request -> RequestStates \cup {NoRow}]
    BY <1>1, <1>5 DEF DocumentsOK
  <2>6. QED
    BY <1>10, <2>1, <2>2, <2>3, <2>4, <2>5 DEF DocumentsOK
<1>15. Paired(pickings') /\ Accurate(state', pickings')
  BY <1>1, <1>5, <1>12, TouchedStayPaired, AccurateAsTouched DEF GoodsOK
<1>16. GoodsOK'
  BY <1>1, <1>5, <1>12, <1>15 DEF GoodsOK, Touched
<1>17. QED
  BY <1>14, <1>16, InTwoParts

LEMMA TouchedKeeps ==
  ASSUME IInv, Touched(pickings'), UNCHANGED <<state, lines, stock, page>>
  PROVE  IInv'
<1>1. DocumentsOK /\ GoodsOK
  BY InTwoParts
<1>2. \A k \in DOMAIN pickings' : \E i \in DOMAIN pickings : pickings'[k].req = pickings[i].req
  BY RequestsOfPickings
<1>3. DocumentsOK'
  <2>1. \A k \in DOMAIN pickings' : Distinct(lines'[pickings'[k].req])
    BY <1>1, <1>2 DEF DocumentsOK
  <2>2. \A r2 \in Request : state'[r2] = NoRow =>
          \A k \in DOMAIN pickings' : pickings'[k].req # r2
    BY <1>1, <1>2 DEF DocumentsOK
  <2>3. QED
    BY <1>1, <2>1, <2>2 DEF DocumentsOK
<1>4. Paired(pickings') /\ Accurate(state', pickings')
  BY <1>1, TouchedStayPaired, AccurateAsTouched DEF GoodsOK
<1>5. GoodsOK'
  BY <1>1, <1>4 DEF GoodsOK, Touched
<1>6. QED
  BY <1>3, <1>5, InTwoParts

LEMMA SetQuantityKeeps ==
  ASSUME IInv, NEW i \in DOMAIN pickings, NEW q \in 1..MaxQty, SetQuantity(i, q)
  PROVE  IInv'
<1>1. GoodsOK
  BY InTwoParts
<1>2. PICK m \in pickings[i].moves :
        pickings' = [pickings EXCEPT ![i] =
          [@ EXCEPT !.moves = (pickings[i].moves \ {m}) \cup {[m EXCEPT !.qty = q]}]]
  BY Zenon DEF SetQuantity
<1>3. pickings[i].state = "open" /\ UNCHANGED <<state, lines, stock, page>>
  BY Zenon DEF SetQuantity
<1>4. Touched(pickings')
  <2>1. pickings \in Seq(Picking) /\ \A k \in DOMAIN pickings : Sound(pickings[k])
    BY <1>1, Zenon DEF GoodsOK
  <2>2. QED
    BY <1>2, <1>3, <2>1, SetQuantityOutcome, Zenon
<1>5. QED
  BY <1>3, <1>4, TouchedKeeps

LEMMA CancelKeeps ==
  ASSUME IInv, NEW i \in DOMAIN pickings, CancelPicking(i)
  PROVE  IInv'
<1>1. GoodsOK
  BY InTwoParts
<1>2. /\ pickings[i].state = "open" /\ UNCHANGED <<state, lines, stock, page>>
      /\ pickings' = [pickings EXCEPT ![i] = [@ EXCEPT !.state = "cancel"]]
  BY Zenon DEF CancelPicking
<1>3. Touched(pickings')
  <2>1. pickings \in Seq(Picking) /\ \A k \in DOMAIN pickings : Sound(pickings[k])
    BY <1>1, Zenon DEF GoodsOK
  <2>2. QED
    BY <1>2, <2>1, CancelOutcome, Zenon
<1>4. QED
  BY <1>2, <1>3, TouchedKeeps

LEMMA UnlinkKeeps ==
  ASSUME IInv, NEW r \in Request, Unlink(r)
  PROVE  IInv'
<1>1. DocumentsOK /\ GoodsOK
  BY InTwoParts
<1>2. /\ state' = [state EXCEPT ![r] = NoRow]
      /\ lines' = [lines EXCEPT ![r] = <<>>]
      /\ pickings' = At({i \in DOMAIN pickings : pickings[i].req # r})
      /\ page' = [u \in User |-> IF page[u].req = r THEN NoPage ELSE page[u]]
      /\ stock' = stock
  BY DEF Unlink
<1>3. Spared(pickings', r) /\ Paired(pickings')
  BY <1>1, <1>2, UnlinkOutcome DEF GoodsOK
<1>4. \A k \in DOMAIN pickings' :
        \E i \in DOMAIN pickings : pickings'[k].req = pickings[i].req /\ pickings[i].req # r
  BY <1>3, RequestsOfPickings
<1>5. /\ state' \in [Request -> RequestStates \cup {NoRow}] /\ state'[r] = NoRow
      /\ \A r2 \in Request : r2 # r => state'[r2] = state[r2]
      /\ lines' \in [Request -> Seq(Line)] /\ lines'[r] = <<>>
      /\ \A r2 : r2 # r => lines'[r2] = lines[r2]
  BY <1>1, <1>2 DEF DocumentsOK
<1>6. Distinct(<<>>)
  BY DEF Distinct
<1>7. \A u \in User : /\ page[u].req = r => page'[u] = NoPage
                      /\ page[u].req # r => page'[u] = page[u]
  BY <1>2
<1>8. DocumentsOK'
  <2>1. \A r2 \in Request : state'[r2] \in Past => Distinct(lines'[r2])
    BY <1>1, <1>5, <1>6 DEF DocumentsOK
  <2>2. ASSUME NEW u \in User
        PROVE  /\ page'[u].state \in Past => Distinct(lines'[page'[u].req])
               /\ \A r2 \in Request :
                    state'[r2] = NoRow => (page'[u].req = r2 => page'[u] = NoPage)
    <3>1. CASE page[u].req = r
      BY <1>7, <3>1, OldRowsStay
    <3>2. CASE page[u].req # r
      <4>1. page'[u] = page[u]
        BY <1>7, <3>2
      <4>2. page[u].state \in Past => Distinct(lines'[page[u].req])
        BY <1>1, <1>5, <3>2 DEF DocumentsOK
      <4>3. ASSUME NEW r2 \in Request, state'[r2] = NoRow, page[u].req = r2
            PROVE  page[u] = NoPage
        <5>1. state[r2] = NoRow
          BY <1>5, <3>2, <4>3
        <5>2. QED
          BY <1>1, <4>3, <5>1 DEF DocumentsOK
      <4>4. QED
        BY <4>1, <4>2, <4>3
    <3>3. QED
      BY <3>1, <3>2
  <2>3. ASSUME NEW k \in DOMAIN pickings'
        PROVE  Distinct(lines'[pickings'[k].req])
    <3>1. PICK i \in DOMAIN pickings : pickings'[k].req = pickings[i].req /\ pickings[i].req # r
      BY <1>4
    <3>2. lines'[pickings[i].req] = lines[pickings[i].req]
      BY <1>5, <3>1
    <3>3. Distinct(lines[pickings[i].req])
      BY <1>1 DEF DocumentsOK
    <3>4. QED
      BY <3>1, <3>2, <3>3
  <2>4. ASSUME NEW r2 \in Request, state'[r2] = NoRow, NEW k \in DOMAIN pickings'
        PROVE  pickings'[k].req # r2
    <3>1. PICK i \in DOMAIN pickings : pickings'[k].req = pickings[i].req /\ pickings[i].req # r
      BY <1>4
    <3>2. CASE r2 = r
      BY <3>1, <3>2
    <3>3. CASE r2 # r
      BY <1>1, <1>5, <2>4, <3>1, <3>3 DEF DocumentsOK
    <3>4. QED
      BY <3>2, <3>3
  <2>5. page' \in [User -> Pages]
    BY <1>1, <1>2, OldRowsStay DEF DocumentsOK
  <2>6. QED
    BY <1>5, <2>1, <2>2, <2>3, <2>4, <2>5 DEF DocumentsOK
<1>9. Accurate(state', pickings')
  <2>1. \A r2 \in Request : state'[r2] = "in_transit" => r2 # r /\ state[r2] = "in_transit"
    BY <1>5 DEF NoRow
  <2>2. QED
    BY <1>1, <1>3, <2>1, AccurateAsSpared DEF GoodsOK
<1>10. \A k \in DOMAIN pickings' : Sound(pickings'[k])
  BY <1>1, <1>3, SoundAsSpared DEF GoodsOK
<1>11. GoodsOK'
  <2>1. pickings' \in Seq(Picking)
    BY <1>3 DEF Spared
  <2>2. QED
    BY <1>1, <1>2, <1>3, <1>9, <1>10, <2>1 DEF GoodsOK
<1>12. QED
  BY <1>8, <1>11, InTwoParts

LEMMA ApproveKeeps ==
  ASSUME IInv, NEW r \in Request, ActionAmApprove(r)
  PROVE  IInv'
<1>1. DocumentsOK /\ GoodsOK
  BY InTwoParts
<1>2. /\ state[r] = "manager_approved"
      /\ pickings' = pickings \o PickingsOut(r)
      /\ state' = [state EXCEPT ![r] = "am_wh_approved"]
      /\ lines' = lines /\ stock' = stock /\ page' = page
  BY DEF ActionAmApprove, CheckApproveState
<1>3. Sent(pickings', r)
  <2>1. pickings \in Seq(Picking) /\ lines[r] \in Seq(Line)
    BY <1>1 DEF DocumentsOK, GoodsOK
  <2>2. QED
    BY <1>2, <2>1, ApproveOutcome
<1>4. \A k \in DOMAIN pickings' :
        pickings'[k].req = r \/ \E i \in DOMAIN pickings : pickings'[k].req = pickings[i].req
  BY <1>3, RequestsOfPickings
<1>5. /\ "am_wh_approved" \in RequestStates /\ "am_wh_approved" # NoRow
      /\ "manager_approved" \in Past /\ "am_wh_approved" # "in_transit"
      /\ "manager_approved" # NoRow
  BY DEF RequestStates, Past, NoRow
<1>6. /\ state' \in [Request -> RequestStates \cup {NoRow}] /\ state'[r] = "am_wh_approved"
      /\ \A r2 \in Request : r2 # r => state'[r2] = state[r2]
  BY <1>1, <1>2, <1>5 DEF DocumentsOK
<1>7. Distinct(lines[r])
  BY <1>1, <1>2, <1>5 DEF DocumentsOK
<1>8. DocumentsOK'
  <2>1. \A r2 \in Request : state'[r2] \in Past => Distinct(lines'[r2])
    BY <1>1, <1>2, <1>6, <1>7 DEF DocumentsOK
  <2>2. \A r2 \in Request : state'[r2] = NoRow => r2 # r /\ state[r2] = NoRow
    BY <1>5, <1>6
  <2>3. \A k \in DOMAIN pickings' : Distinct(lines'[pickings'[k].req])
    BY <1>1, <1>2, <1>4, <1>7 DEF DocumentsOK
  <2>4. ASSUME NEW r2 \in Request, state'[r2] = NoRow, NEW k \in DOMAIN pickings'
        PROVE  pickings'[k].req # r2
    <3>1. r2 # r /\ state[r2] = NoRow
      BY <2>2, <2>4
    <3>2. \A i \in DOMAIN pickings : pickings[i].req # r2
      BY <1>1, <3>1 DEF DocumentsOK
    <3>3. QED
      BY <1>4, <3>1, <3>2
  <2>5. /\ page' \in [User -> Pages] /\ lines' \in [Request -> Seq(Line)]
        /\ \A u \in User : page'[u].state \in Past => Distinct(lines'[page'[u].req])
        /\ \A r2 \in Request : state'[r2] = NoRow =>
             \A u \in User : page'[u].req = r2 => page'[u] = NoPage
    BY <1>1, <1>2, <2>2 DEF DocumentsOK
  <2>6. QED
    BY <1>6, <2>1, <2>3, <2>4, <2>5 DEF DocumentsOK
<1>9. Accurate(state', pickings')
  <2>1. \A r2 \in Request : state'[r2] = "in_transit" => r2 # r /\ state[r2] = "in_transit"
    BY <1>5, <1>6
  <2>2. QED
    BY <1>1, <1>3, <2>1, AccurateAsSent DEF GoodsOK
<1>10. (\A k \in DOMAIN pickings' : Sound(pickings'[k])) /\ Paired(pickings')
  BY <1>1, <1>3, SoundAsSent, PairedAsSent DEF GoodsOK
<1>11. GoodsOK'
  <2>1. pickings' \in Seq(Picking)
    BY <1>3 DEF Sent
  <2>2. QED
    BY <1>1, <1>2, <1>9, <1>10, <2>1 DEF GoodsOK
<1>12. QED
  BY <1>8, <1>11, InTwoParts

LEMMA ValidateKeeps ==
  ASSUME IInv, NEW is \in SUBSET DOMAIN pickings, NEW b \in BOOLEAN, ButtonValidate(is, b)
  PROVE  IInv'
<1>1. DocumentsOK /\ GoodsOK
  BY InTwoParts
<1>2. /\ \A i \in is : MayValidate(pickings[i])
      /\ pickings' = (Done(is) \o PickingsIn(is)) \o (IF b THEN Backorders(is) ELSE <<>>)
      /\ stock' = [x \in Product |-> stock[x] - MovedQty(is, "out", x) + MovedQty(is, "in", x)]
      /\ state' = Updated({pickings[i].req : i \in is})
      /\ lines' = lines /\ page' = page
  BY Zenon DEF ButtonValidate
<1>3. pickings \in Seq(Picking) /\ \A i \in DOMAIN pickings : Sound(pickings[i])
  BY <1>1 DEF GoodsOK
<1>4. PICK T, R, g : Outcome(pickings', is, T, R, g)
  BY <1>2, <1>3, ValidateOutcome, Zenon
<1>5. \A i \in is : pickings[i].state = "open"
  BY <1>2 DEF MayValidate
<1>6. \A k \in DOMAIN pickings' : \E i \in DOMAIN pickings : pickings'[k].req = pickings[i].req
  BY <1>4, RequestsOfPickings
<1>7. Paired(pickings')
  BY <1>1, <1>4, <1>5, PairedAsValidated DEF GoodsOK
<1>8. Accurate(state', pickings')
  BY <1>1, <1>2, <1>4, <1>5, <1>7, AccurateAsValidated DEF GoodsOK
<1>9. \A k \in DOMAIN pickings' : Sound(pickings'[k])
  BY <1>3, <1>4, SoundAsValidated
<1>10. stock' \in [Product -> Int]
  <2>1. \A x \in Product : MovedQty(is, "out", x) \in Int /\ MovedQty(is, "in", x) \in Int
    BY <1>3, MovedQtyTyped
  <2>2. \A x \in Product : stock[x] \in Int
    BY <1>1 DEF GoodsOK
  <2>3. QED
    BY <1>2, <2>1, <2>2
<1>11. GoodsOK'
  <2>1. pickings' \in Seq(Picking)
    BY <1>4 DEF Outcome
  <2>2. QED
    BY <1>7, <1>8, <1>9, <1>10, <2>1 DEF GoodsOK
<1>12. ASSUME NEW r \in Request
       PROVE  /\ state'[r] \in RequestStates \cup {NoRow}
              /\ \/ state'[r] = state[r]
                 \/ /\ state'[r] # NoRow
                    /\ \E i \in is : pickings[i].req = r
  <2> DEFINE outs == Of(r, pickings', "out")
             ins == Of(r, pickings', "in")
  <2>1. state'[r] = IF r \in {pickings[i].req : i \in is} /\ state[r] # "done"
                    THEN CheckState(state[r], outs, ins) ELSE state[r]
    BY <1>2, Zenon DEF Updated
  <2> HIDE DEF outs, ins
  <2>2. CheckState(state[r], outs, ins) \in {"done", "in_transit", state[r]}
    <3>1. CheckState(state[r], outs, ins) = IF AllDone(ins) THEN "done"
                                    ELSE IF AllDone(outs) THEN "in_transit" ELSE state[r]
      BY CheckStateValue
    <3>2. QED
      BY <3>1
  <2>3. "done" \in RequestStates /\ "in_transit" \in RequestStates
    BY DEF RequestStates
  <2>4. "done" # NoRow /\ "in_transit" # NoRow
    BY DEF NoRow
  <2>5. state[r] \in RequestStates \cup {NoRow}
    BY <1>1 DEF DocumentsOK
  <2>6. QED
    BY <2>1, <2>2, <2>3, <2>4, <2>5
<1>13. DocumentsOK'
  <2>1. state' \in [Request -> RequestStates \cup {NoRow}]
    <3>1. state' = [r \in Request |-> state'[r]]
      BY <1>2, Zenon DEF Updated
    <3>2. QED
      BY <1>12, <3>1
  <2>2. ASSUME NEW r \in Request, state'[r] \in Past
        PROVE  Distinct(lines'[r])
    <3>1. CASE state'[r] = state[r]
      BY <1>1, <1>2, <2>2, <3>1 DEF DocumentsOK
    <3>2. CASE \E i \in is : pickings[i].req = r
      BY <1>1, <1>2, <3>2 DEF DocumentsOK
    <3>3. QED
      BY <1>12, <3>1, <3>2
  <2>3. \A r \in Request : state'[r] = NoRow => state[r] = NoRow
    BY <1>12
  <2>4. \A k \in DOMAIN pickings' : Distinct(lines'[pickings'[k].req])
    BY <1>1, <1>2, <1>6 DEF DocumentsOK
  <2>5. \A r \in Request : state'[r] = NoRow =>
          \A k \in DOMAIN pickings' : pickings'[k].req # r
    BY <1>1, <1>6, <2>3 DEF DocumentsOK
  <2>6. /\ page' \in [User -> Pages] /\ lines' \in [Request -> Seq(Line)]
        /\ \A u \in User : page'[u].state \in Past => Distinct(lines'[page'[u].req])
        /\ \A r \in Request : state'[r] = NoRow =>
             \A u \in User : page'[u].req = r => page'[u] = NoPage
    BY <1>1, <1>2, <2>3 DEF DocumentsOK
  <2>7. QED
    BY <2>1, <2>2, <2>4, <2>5, <2>6 DEF DocumentsOK
<1>14. QED
  BY <1>11, <1>13, InTwoParts

LEMMA InitOK ==
  ASSUME Init
  PROVE  IInv
<1>1. /\ state = [r \in Request |-> NoRow] /\ lines = [r \in Request |-> <<>>]
      /\ pickings = <<>> /\ stock = OnHand /\ page = [u \in User |-> NoPage]
  BY DEF Init
<1>2. pickings \in Seq(Picking) /\ DOMAIN pickings = {}
  BY <1>1
<1>3. <<>> \in Seq(Line)
  OBVIOUS
<1>4. DocumentsOK
  BY <1>1, <1>2, <1>3, OldRowsStay DEF DocumentsOK
<1>5. Paired(pickings)
  <2>1. OutsOf(pickings) = {} /\ InsOf(pickings) = {}
    BY <1>2 DEF OutsOf, InsOf
  <2>2. Pairs([x \in {} |-> x], {}, {})
    BY DEF Pairs
  <2>3. QED
    BY <2>1, <2>2 DEF Paired
<1>6. Accurate(state, pickings)
  BY <1>1 DEF Accurate, NoRow
<1>7. stock \in [Product -> Int]
  <2>1. OnHand \in [Product -> Nat]
    BY TransferAssumption
  <2>2. QED
    BY <1>1, <2>1
<1>8. GoodsOK
  BY <1>2, <1>5, <1>6, <1>7 DEF GoodsOK
<1>9. QED
  BY <1>4, <1>8, InTwoParts

LEMMA StepOK ==
  ASSUME IInv, [Next]_vars
  PROVE  IInv'
<1>1. ASSUME NEW u \in User, UserStep(u)
      PROVE  IInv'
  <2>1. CASE \E r \in Request : Open(u, r)
    BY <2>1, OpenKeeps
  <2>2. CASE \E ls \in Contents : Edit(u, ls)
    BY <2>2, EditKeeps
  <2>3. CASE \/ ActionDraft(u) \/ ActionPost(u) \/ ActionManagerApprove(u)
             \/ ActionReject(u) \/ ActionCancel(u)
    BY <2>3, ButtonsKeep
  <2>4. QED
    BY <1>1, <2>1, <2>2, <2>3, Zenon DEF UserStep
<1>2. ASSUME NEW r \in Request, RequestStep(r)
      PROVE  IInv'
  <2>1. CASE \E ls \in Contents : Create(r, ls)
    BY <2>1, CreateKeeps
  <2>2. CASE ActionAmApprove(r)
    BY <2>2, ApproveKeeps
  <2>3. CASE Unlink(r)
    BY <2>3, UnlinkKeeps
  <2>4. QED
    BY <1>2, <2>1, <2>2, <2>3, Zenon DEF RequestStep
<1>3. ASSUME PickingStep
      PROVE  IInv'
  <2>1. ASSUME NEW i \in DOMAIN pickings, CancelPicking(i)
        PROVE  IInv'
    BY <2>1, CancelKeeps
  <2>2. ASSUME NEW i \in DOMAIN pickings, NEW q \in 1..MaxQty, SetQuantity(i, q)
        PROVE  IInv'
    BY <2>2, SetQuantityKeeps
  <2>3. ASSUME NEW is \in SUBSET DOMAIN pickings, NEW b \in BOOLEAN, ButtonValidate(is, b)
        PROVE  IInv'
    BY <2>3, ValidateKeeps
  <2>4. QED
    BY <1>3, <2>1, <2>2, <2>3, Zenon DEF PickingStep
<1>4. ASSUME UNCHANGED vars
      PROVE  IInv'
  <2>1. /\ state' = state /\ lines' = lines /\ pickings' = pickings
        /\ stock' = stock /\ page' = page
    BY <1>4 DEF vars
  <2>2. DocumentsOK /\ GoodsOK
    BY InTwoParts
  <2>3. DocumentsOK'
    BY <2>1, <2>2, Zenon DEF DocumentsOK
  <2>4. GoodsOK'
    BY <2>1, <2>2, Zenon DEF GoodsOK
  <2>5. QED
    BY <2>3, <2>4, InTwoParts
<1>5. QED
  BY <1>1, <1>2, <1>3, <1>4, Zenon DEF Next

\* The invariant of the transfers holds in every state: the types, distinct
\* lines, what "in transit" says of the pickings, and that each picking that went
\* out has the picking that receives it.
THEOREM Invariance ==
  Spec => []IInv
<1>1. Init => IInv
  BY InitOK
<1>2. IInv /\ [Next]_vars => IInv'
  BY StepOK
<1>3. QED
  BY <1>1, <1>2, PTL DEF Spec

------------------------------------------------------------------------------
(* What left for a line and what is expected for it: sums along the pairs     *)

Fields == {"demand", "qty"}

LEMMA FieldTyped ==
  ASSUME NEW m \in Move, NEW field \in Fields
  PROVE  m[field] \in Nat
<1>1. m.demand \in 1..MaxQty /\ m.qty \in 1..MaxQty
  BY DEF Move
<1>2. m.demand \in Nat /\ m.qty \in Nat
  BY <1>1, QtyTyped
<1>3. QED
  BY <1>2 DEF Fields

\* A picking has at most one move for a line, and what it moves is the move's.
LEMMA LineTotalValue ==
  ASSUME NEW p \in Picking, Sound(p), NEW n, NEW field \in Fields
  PROVE  /\ LineTotal(p, n, field) \in Nat
         /\ \A m \in p.moves : m.line = n => LineTotal(p, n, field) = m[field]
         /\ (\A m \in p.moves : m.line # n) => LineTotal(p, n, field) = 0
<1> DEFINE ms == OfLine(p, n)
           f == [m \in ms |-> m[field]]
<1>1. /\ ms \in SUBSET p.moves /\ ms \in SUBSET Move
      /\ \A m : m \in ms <=> m \in p.moves /\ m.line = n
  BY DEF OfLine, Picking
<1>2. IsFiniteSet(ms)
  BY <1>1, FS_Subset DEF Sound, Orderly
<1>3. \A m \in ms : m[field] \in Nat
  BY <1>1, FieldTyped
<1>4. LineTotal(p, n, field) = SumFunction(f)
  BY Zenon DEF LineTotal
<1> HIDE DEF ms
<1>5. f \in [ms -> Int] /\ \A m \in ms : f[m] = m[field]
  BY <1>3
<1> HIDE DEF f
<1>6. CASE ms = {}
  <2>1. DOMAIN f = {} /\ f = [x \in {} |-> f[x]]
    BY <1>5, <1>6
  <2>2. SumFunction(f) = 0
    BY <2>1, SumOfNone
  <2>3. QED
    BY <1>1, <1>4, <1>6, <2>2
<1>7. CASE ms # {}
  <2>1. PICK m \in ms : TRUE
    BY <1>7
  <2>2. \A k \in ms : k = m
    BY <1>1, <2>1 DEF Sound, Orderly
  <2>3. ms \ {m} = {}
    BY <2>2
  <2>4. SumFunction(f) = f[m] + SumFunction([y \in ms \ {m} |-> f[y]])
    BY <1>2, <1>5, SumOfOneMore
  <2>5. PICK e : e = [y \in {} |-> f[y]]
    OBVIOUS
  <2>6. SumFunction(e) = 0
    <3>1. DOMAIN e = {} /\ e = [x \in {} |-> e[x]]
      BY <2>5
    <3>2. QED
      BY <3>1, SumOfNone
  <2>7. SumFunction([y \in ms \ {m} |-> f[y]]) = 0
    BY <2>3, <2>5, <2>6, Zenon
  <2>8. SumFunction(f) = m[field] /\ m[field] \in Nat
    BY <1>3, <1>5, <2>4, <2>7
  <2>9. \A k \in p.moves : k.line = n => k = m
    BY <1>1, <2>2
  <2>10. m \in p.moves /\ m.line = n
    BY <1>1, <2>1
  <2>11. QED
    BY <1>4, <2>8, <2>9, <2>10
<1>8. QED
  BY <1>6, <1>7

LEMMA TwinsMoveTheSame ==
  ASSUME NEW p \in Picking, Sound(p), NEW q \in Picking, Sound(q), Twins(p, q), NEW n
  PROVE  LineTotal(p, n, "qty") = LineTotal(q, n, "demand")
<1>1. "qty" \in Fields /\ "demand" \in Fields
  BY DEF Fields
<1>2. CASE \E m \in p.moves : m.line = n
  <2>1. PICK m \in p.moves : m.line = n
    BY <1>2
  <2>2. PICK k \in q.moves : k.line = m.line /\ k.demand = m.qty
    BY DEF Twins
  <2>3. LineTotal(p, n, "qty") = m.qty
    BY <1>1, <2>1, LineTotalValue
  <2>4. LineTotal(q, n, "demand") = k.demand
    BY <1>1, <2>1, <2>2, LineTotalValue
  <2>5. QED
    BY <2>2, <2>3, <2>4
<1>3. CASE \A m \in p.moves : m.line # n
  <2>1. \A k \in q.moves : k.line # n
    BY <1>3 DEF Twins
  <2>2. LineTotal(p, n, "qty") = 0 /\ LineTotal(q, n, "demand") = 0
    BY <1>1, <1>3, <2>1, LineTotalValue
  <2>3. QED
    BY <2>2
<1>4. QED
  BY <1>2, <1>3

LEMMA ReceivedAsExpected ==
  ASSUME NEW p \in Picking, Sound(p), p.kind = "in", p.state = "done", NEW n
  PROVE  LineTotal(p, n, "qty") = LineTotal(p, n, "demand")
<1>1. "qty" \in Fields /\ "demand" \in Fields
  BY DEF Fields
<1>2. CASE \E m \in p.moves : m.line = n
  <2>1. PICK m \in p.moves : m.line = n
    BY <1>2
  <2>2. m.qty = m.demand
    BY DEF Sound
  <2>3. LineTotal(p, n, "qty") = m.qty /\ LineTotal(p, n, "demand") = m.demand
    BY <1>1, <2>1, LineTotalValue
  <2>4. QED
    BY <2>2, <2>3
<1>3. CASE \A m \in p.moves : m.line # n
  BY <1>1, <1>3, LineTotalValue
<1>4. QED
  BY <1>2, <1>3

LEMMA ReceivableByPairs ==
  ASSUME GoodsOK, NEW r, NEW n
  PROVE  /\ Total(r, n, "in", PickingStates, "demand") = LineQty(r, n, "out")
         /\ LineQty(r, n, "in") <= LineQty(r, n, "out")
<1> DEFINE A == {i \in DOMAIN pickings : /\ pickings[i].req = r
                                         /\ pickings[i].kind = "out"
                                         /\ pickings[i].state \in {"done"}}
           B == {i \in DOMAIN pickings : /\ pickings[i].req = r
                                         /\ pickings[i].kind = "in"
                                         /\ pickings[i].state \in PickingStates}
           C == {i \in DOMAIN pickings : /\ pickings[i].req = r
                                         /\ pickings[i].kind = "in"
                                         /\ pickings[i].state \in {"done"}}
           a == [i \in A |-> LineTotal(pickings[i], n, "qty")]
           b == [i \in B |-> LineTotal(pickings[i], n, "demand")]
           c == [i \in C |-> LineTotal(pickings[i], n, "qty")]
<1>1. /\ pickings \in Seq(Picking) /\ \A i \in DOMAIN pickings : Sound(pickings[i])
      /\ Paired(pickings)
  BY DEF GoodsOK
<1>2. \A i \in DOMAIN pickings : pickings[i] \in Picking
  BY <1>1, FiniteIndices
<1>3. /\ LineQty(r, n, "out") = SumFunction(a) /\ LineQty(r, n, "in") = SumFunction(c)
      /\ Total(r, n, "in", PickingStates, "demand") = SumFunction(b)
  BY Zenon DEF LineQty, Total
<1>4. /\ \A i : i \in A <=> i \in OutsOf(pickings) /\ pickings[i].req = r
      /\ \A i : i \in B <=> i \in InsOf(pickings) /\ pickings[i].req = r
      /\ \A i : i \in C <=> i \in B /\ pickings[i].state = "done"
  <2>1. \A i \in DOMAIN pickings : pickings[i].state \in PickingStates
    BY <1>2 DEF Picking
  <2>2. \A i : i \in A <=> i \in OutsOf(pickings) /\ pickings[i].req = r
    BY DEF OutsOf
  <2>3. \A i : i \in B <=> i \in InsOf(pickings) /\ pickings[i].req = r
    BY <2>1 DEF InsOf
  <2>4. \A i : i \in C <=> i \in B /\ pickings[i].state = "done"
    BY <2>1
  <2>5. QED
    BY <2>2, <2>3, <2>4
<1>5. /\ A \in SUBSET DOMAIN pickings /\ B \in SUBSET DOMAIN pickings
      /\ C \in SUBSET B
  <2>1. A \in SUBSET DOMAIN pickings /\ B \in SUBSET DOMAIN pickings
    OBVIOUS
  <2> HIDE DEF A, B, C
  <2>2. QED
    BY <1>4, <2>1
<1>6. /\ \A i \in A : a[i] = LineTotal(pickings[i], n, "qty")
      /\ \A i \in B : b[i] = LineTotal(pickings[i], n, "demand")
      /\ c = [i \in C |-> LineTotal(pickings[i], n, "qty")]
      /\ a = [i \in A |-> a[i]] /\ b = [i \in B |-> b[i]]
  <2> HIDE DEF A, B, C
  <2>1. QED
    OBVIOUS
<1> HIDE DEF A, B, C, a, b, c
<1>7. IsFiniteSet(A) /\ IsFiniteSet(B)
  BY <1>1, <1>5, FiniteIndices
<1>8. "qty" \in Fields /\ "demand" \in Fields
  BY DEF Fields
<1>9. \A i \in A : a[i] \in Int
  <2> SUFFICES ASSUME NEW i \in A PROVE a[i] \in Int
    OBVIOUS
  <2>1. LineTotal(pickings[i], n, "qty") \in Nat
    BY <1>1, <1>2, <1>5, <1>8, LineTotalValue
  <2>2. QED
    BY <1>6, <2>1
<1>10. \A i \in B : b[i] \in Nat
  <2> SUFFICES ASSUME NEW i \in B PROVE b[i] \in Nat
    OBVIOUS
  <2>1. LineTotal(pickings[i], n, "demand") \in Nat
    BY <1>1, <1>2, <1>5, <1>8, LineTotalValue
  <2>2. QED
    BY <1>6, <2>1
<1>11. a \in [A -> Int] /\ b \in [B -> Int]
  BY <1>6, <1>9, <1>10
<1>12. PICK f : /\ Pairs(f, OutsOf(pickings), InsOf(pickings))
                /\ \A i \in OutsOf(pickings) : Twins(pickings[i], pickings[f[i]])
  BY <1>1 DEF Paired
<1> DEFINE g == [i \in A |-> f[i]]
<1>13. \A i \in A : f[i] \in B
  BY <1>4, <1>12 DEF Pairs, Twins
<1>14. g \in [A -> B] /\ \A i \in A : g[i] = f[i]
  BY <1>13
<1> HIDE DEF g
<1>15. \A i \in A, j \in A : g[i] = g[j] => i = j
  BY <1>4, <1>12, <1>14 DEF Pairs
<1>16. \A j \in B : \E i \in A : g[i] = j
  <2> SUFFICES ASSUME NEW j \in B PROVE \E i \in A : g[i] = j
    OBVIOUS
  <2>1. j \in InsOf(pickings) /\ pickings[j].req = r
    BY <1>4
  <2>2. PICK i \in OutsOf(pickings) : f[i] = j
    BY <1>12, <2>1 DEF Pairs
  <2>3. pickings[i].req = r
    BY <1>12, <2>1, <2>2 DEF Twins
  <2>4. QED
    BY <1>4, <1>14, <2>2, <2>3
<1>17. g \in Bijection(A, B)
  BY <1>14, <1>15, <1>16, BijectionsPair DEF Pairs
<1>18. \A i \in A : a[i] = b[g[i]]
  <2> SUFFICES ASSUME NEW i \in A PROVE a[i] = b[g[i]]
    OBVIOUS
  <2>1. PICK j \in B : j = g[i]
    BY <1>14
  <2>2. i \in DOMAIN pickings /\ j \in DOMAIN pickings
    BY <1>5
  <2>3. Twins(pickings[i], pickings[j])
    BY <1>4, <1>12, <1>14, <2>1
  <2>4. LineTotal(pickings[i], n, "qty") = LineTotal(pickings[j], n, "demand")
    BY <1>1, <1>2, <2>2, <2>3, TwinsMoveTheSame
  <2>5. QED
    BY <1>6, <2>1, <2>4
<1>19. SumFunction(a) = SumFunction(b)
  BY <1>7, <1>11, <1>17, <1>18, SumAlongBijection
<1>20. c = [i \in C |-> b[i]]
  <2>1. ASSUME NEW i \in C
        PROVE  LineTotal(pickings[i], n, "qty") = b[i]
    <3>1. i \in B /\ i \in DOMAIN pickings /\ pickings[i].state = "done" /\ pickings[i].kind = "in"
      BY <1>4, <1>5 DEF InsOf
    <3>2. LineTotal(pickings[i], n, "qty") = LineTotal(pickings[i], n, "demand")
      BY <1>1, <1>2, <3>1, ReceivedAsExpected
    <3>3. QED
      BY <1>6, <3>1, <3>2
  <2>2. QED
    BY <1>6, <2>1
<1>21. SumFunction(c) <= SumFunction(b)
  <2>1. SumFunction([i \in C |-> b[i]]) <= SumFunction(b)
    BY <1>5, <1>7, <1>10, <1>11, SumOfSomeIsLess
  <2>2. QED
    BY <1>20, <2>1
<1>22. QED
  BY <1>3, <1>19, <1>21

LEMMA ReceivableInIInv ==
  ASSUME IInv
  PROVE  ExportIsReceivable
<1>1. GoodsOK
  BY InTwoParts
<1>2. QED
  BY <1>1, ReceivableByPairs DEF ExportIsReceivable

------------------------------------------------------------------------------
(* The theorems                                                              *)

\* Every value has its type, whatever users, requests and pickings there are: no
\* picking, page or line is ever left half made.
THEOREM TypeCorrect ==
  Spec => []TypeOK
<1>1. IInv => TypeOK
  BY DEF IInv
<1>2. QED
  BY <1>1, Invariance, PTL

\* A request that has left draft has one line per product and destination, though
\* create checks nothing and pages are old when their buttons are pressed.
THEOREM LinesStayDistinct ==
  Spec => []DistinctLines
<1>1. IInv => DistinctLines
  BY DEF IInv
<1>2. QED
  BY <1>1, Invariance, PTL

\* The pickings in expect, line by line, what the pickings out took, and bring no
\* more: whatever is backordered, cancelled, edited or approved again.
THEOREM NothingIsLostInTransit ==
  Spec => []ExportIsReceivable
<1>1. IInv => ExportIsReceivable
  BY ReceivableInIInv
<1>2. QED
  BY <1>1, Invariance, PTL

\* A request in transit has sent all it had to send and still has something to
\* receive, though its state is only computed when pickings are validated.
THEOREM TransitIsAccurate ==
  Spec => []InTransitIsAccurate
<1>1. IInv => InTransitIsAccurate
  BY DEF IInv
<1>2. QED
  BY <1>1, Invariance, PTL


================================================================================
