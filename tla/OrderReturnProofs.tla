--------------------------- MODULE OrderReturnProofs ---------------------------
(***************************************************************************)
(* The returns of an order line, for any number of users, returns and      *)
(* goods.  What is left to return is the difference of two sums, over the  *)
(* pickings and over the returns: module Induction says how a sum changes. *)
(* The conjunction of TypeOK, ReturnsInv and WizardInv is inductive.       *)
(***************************************************************************)
EXTENDS OrderReturn, Induction, SequenceTheorems, TLAPS

IInv == TypeOK /\ ReturnsInv /\ WizardInv

States == {"draft", "to approve", "confirmed", "cancel"}

------------------------------------------------------------------------------
(* Return orders                                                             *)

LEMMA OrderedTyped == Ordered \in Nat /\ Ordered > 0 /\ 0 \in 0..Ordered /\ Ordered \in 0..Ordered
BY ReturnAssumption

\* The goods that were ordered.
Most == Ordered * packing.line

LEMMA UnitsTyped ==
  ASSUME packing \in Packings
  PROVE  /\ packing.line \in Nat \ {0} /\ packing.purchase \in Nat \ {0}
         /\ Units \subseteq Nat \ {0}
         /\ 1 \in Units /\ packing.line \in Units /\ packing.purchase \in Units
<1>1. packing \in [line : Nat \ {0}, purchase : Nat \ {0}]
  BY ReturnAssumption
<1>2. packing.line \in Nat \ {0} /\ packing.purchase \in Nat \ {0}
  BY <1>1
<1>3. 1 \in Nat \ {0}
  OBVIOUS
<1>4. QED
  BY <1>2, <1>3 DEF Units

LEMMA Product ==
  ASSUME NEW m \in Nat, NEW n \in Nat
  PROVE  m * n \in Nat
OBVIOUS

\* A unit holds one piece at least.
LEMMA ProductIsMore ==
  ASSUME NEW m \in Nat, NEW n \in Nat \ {0}
  PROVE  m * n \in Nat /\ m <= m * n
<1>1. n - 1 \in Nat /\ m * n = m * (n - 1) + m
  OBVIOUS
<1>2. m * (n - 1) \in Nat
  BY <1>1, Product
<1>3. QED
  BY <1>1, <1>2

LEMMA MostTyped ==
  ASSUME packing \in Packings
  PROVE  Most \in Nat /\ Ordered <= Most /\ 0 \in 0..Most
<1>1. packing.line \in Nat \ {0}
  BY UnitsTyped
<1>2. Most \in Nat /\ Ordered <= Most
  BY <1>1, OrderedTyped, ProductIsMore DEF Most
<1>3. QED
  BY <1>2

\* A conversion gives no larger a number than there are goods.
LEMMA UpIsANumber ==
  ASSUME NEW goods \in Nat, NEW per \in Nat \ {0}
  PROVE  Up(goods, per) \in 0..goods
<1> DEFINE Enough == {n \in 0..goods : n * per >= goods}
<1>1. goods \in Enough
  BY ProductIsMore
<1>2. Enough \in SUBSET Nat
  OBVIOUS
<1>3. PICK n \in Enough : \A m \in Enough : n <= m
  <2> HIDE DEF Enough
  <2>1. QED
    BY <1>1, <1>2, LeastNumber
<1>4. n \in 0..goods /\ n * per >= goods
  BY <1>3
<1>5. ASSUME NEW m \in 0..(n - 1)
      PROVE  m * per < goods
  <2>1. m \in 0..goods /\ ~(n <= m) /\ m \in Nat /\ per \in Nat
    BY <1>4
  <2>2. m \notin Enough
    BY <1>3, <2>1
  <2>3. m * per \in Nat /\ ~(m * per >= goods)
    BY <2>1, <2>2, Product
  <2>4. QED
    BY <2>3
<1>6. \E k \in 0..goods : k * per >= goods /\ \A m \in 0..(k - 1) : m * per < goods
  BY <1>4, <1>5
<1>7. QED
  BY <1>6 DEF Up

LEMMA ReturnSet ==
  Return = [linked : BOOLEAN, qty : 0..Most, unit : Units, state : States,
            demand : Nat, back : Nat]
BY Zenon DEF Return, States, Most

\* The goods of a return order.
GoodsIn(x) == x.qty * x.unit

LEMMA ReturnIsTyped ==
  ASSUME packing \in Packings, NEW x \in Return
  PROVE  /\ x.linked \in BOOLEAN /\ x.state \in States
         /\ x.qty \in 0..Most /\ x.qty \in Nat
         /\ x.unit \in Units /\ x.unit \in Nat
         /\ x.demand \in Nat /\ x.back \in Nat
         /\ GoodsIn(x) \in Nat
<1>1. /\ x.linked \in BOOLEAN /\ x.state \in States
      /\ x.qty \in 0..Most /\ x.unit \in Units /\ x.demand \in Nat /\ x.back \in Nat
  BY ReturnSet
<1>2. x.qty \in Nat /\ x.unit \in Nat
  BY <1>1, MostTyped, UnitsTyped
<1>3. GoodsIn(x) \in Nat
  BY <1>2, Product DEF GoodsIn
<1>4. QED
  BY <1>1, <1>2, <1>3

LEMMA ReturnsAreTyped ==
  ASSUME packing \in Packings, returns \in Seq(Return)
  PROVE  /\ Len(returns) \in Nat /\ DOMAIN returns = 1..Len(returns)
         /\ \A r \in DOMAIN returns :
              /\ returns[r] \in Return
              /\ returns[r].linked \in BOOLEAN /\ returns[r].state \in States
              /\ returns[r].qty \in Nat
              /\ returns[r].demand \in Nat /\ returns[r].back \in Nat
              /\ Goods(r) \in Nat /\ Goods(r) = GoodsIn(returns[r])
<1>1. Len(returns) \in Nat /\ DOMAIN returns = 1..Len(returns)
  BY LenProperties
<1>2. \A r \in 1..Len(returns) : returns[r] \in Return
  BY ElementOfSeq
<1>3. \A r \in 1..Len(returns) : Goods(r) = GoodsIn(returns[r])
  BY DEF Goods, GoodsIn
<1>4. QED
  BY <1>1, <1>2, <1>3, ReturnIsTyped

\* The records that the actions make of a return order.
InState(x, s, d) == [x EXCEPT !.state = s, !.demand = d]
WithBack(x, b, d) == [x EXCEPT !.back = b, !.demand = d]
Moves(x, s) == [x EXCEPT !.state = s]
Times(x, q, n) == [x EXCEPT !.qty = q, !.unit = n]

LEMMA ReturnRecord ==
  ASSUME NEW l \in BOOLEAN, NEW q \in 0..Most, NEW n \in Units, NEW s \in States,
         NEW d \in Nat, NEW b \in Nat
  PROVE  [linked |-> l, qty |-> q, unit |-> n, state |-> s, demand |-> d, back |-> b]
           \in Return
BY ReturnSet

LEMMA WithStateAndDemand ==
  ASSUME NEW x \in Return, NEW s \in States, NEW d \in Nat
  PROVE  /\ InState(x, s, d) \in Return
         /\ InState(x, s, d).linked = x.linked
         /\ InState(x, s, d).qty = x.qty
         /\ InState(x, s, d).unit = x.unit
         /\ InState(x, s, d).state = s
         /\ InState(x, s, d).demand = d
         /\ InState(x, s, d).back = x.back
<1>0. PICK new : new = InState(x, s, d)
  OBVIOUS
<1>1. x \in [linked : BOOLEAN, qty : 0..Most, unit : Units, state : States,
             demand : Nat, back : Nat]
  BY ReturnSet
<1>2. new = [linked |-> x.linked, qty |-> x.qty, unit |-> x.unit,
              state |-> s, demand |-> d, back |-> x.back]
  BY <1>0, <1>1 DEF InState
<1>3. /\ x.linked \in BOOLEAN /\ x.qty \in 0..Most /\ x.unit \in Units
      /\ x.state \in States /\ x.demand \in Nat /\ x.back \in Nat
  BY <1>1
<1>4. new \in Return
  BY <1>2, <1>3, ReturnRecord
<1>5. /\ new \in Return
      /\ new.linked = x.linked
      /\ new.qty = x.qty
      /\ new.unit = x.unit
      /\ new.state = s
      /\ new.demand = d
      /\ new.back = x.back
  BY <1>2, <1>4
<1>6. QED
  BY <1>0, <1>5, Zenon

LEMMA WithBackAndDemand ==
  ASSUME NEW x \in Return, NEW b \in Nat, NEW d \in Nat
  PROVE  /\ WithBack(x, b, d) \in Return
         /\ WithBack(x, b, d).linked = x.linked
         /\ WithBack(x, b, d).qty = x.qty
         /\ WithBack(x, b, d).unit = x.unit
         /\ WithBack(x, b, d).state = x.state
         /\ WithBack(x, b, d).demand = d
         /\ WithBack(x, b, d).back = b
<1>0. PICK new : new = WithBack(x, b, d)
  OBVIOUS
<1>1. x \in [linked : BOOLEAN, qty : 0..Most, unit : Units, state : States,
             demand : Nat, back : Nat]
  BY ReturnSet
<1>2. new = [linked |-> x.linked, qty |-> x.qty, unit |-> x.unit,
              state |-> x.state, demand |-> d, back |-> b]
  BY <1>0, <1>1 DEF WithBack
<1>3. /\ x.linked \in BOOLEAN /\ x.qty \in 0..Most /\ x.unit \in Units
      /\ x.state \in States /\ x.demand \in Nat /\ x.back \in Nat
  BY <1>1
<1>4. new \in Return
  BY <1>2, <1>3, ReturnRecord
<1>5. /\ new \in Return
      /\ new.linked = x.linked
      /\ new.qty = x.qty
      /\ new.unit = x.unit
      /\ new.state = x.state
      /\ new.demand = d
      /\ new.back = b
  BY <1>2, <1>4
<1>6. QED
  BY <1>0, <1>5, Zenon

LEMMA WithState ==
  ASSUME NEW x \in Return, NEW s \in States
  PROVE  /\ Moves(x, s) \in Return
         /\ Moves(x, s).linked = x.linked
         /\ Moves(x, s).qty = x.qty
         /\ Moves(x, s).unit = x.unit
         /\ Moves(x, s).state = s
         /\ Moves(x, s).demand = x.demand
         /\ Moves(x, s).back = x.back
<1>0. PICK new : new = Moves(x, s)
  OBVIOUS
<1>1. x \in [linked : BOOLEAN, qty : 0..Most, unit : Units, state : States,
             demand : Nat, back : Nat]
  BY ReturnSet
<1>2. new = [linked |-> x.linked, qty |-> x.qty, unit |-> x.unit,
              state |-> s, demand |-> x.demand, back |-> x.back]
  BY <1>0, <1>1 DEF Moves
<1>3. /\ x.linked \in BOOLEAN /\ x.qty \in 0..Most /\ x.unit \in Units
      /\ x.state \in States /\ x.demand \in Nat /\ x.back \in Nat
  BY <1>1
<1>4. new \in Return
  BY <1>2, <1>3, ReturnRecord
<1>5. /\ new \in Return
      /\ new.linked = x.linked
      /\ new.qty = x.qty
      /\ new.unit = x.unit
      /\ new.state = s
      /\ new.demand = x.demand
      /\ new.back = x.back
  BY <1>2, <1>4
<1>6. QED
  BY <1>0, <1>5, Zenon

LEMMA WithQty ==
  ASSUME NEW x \in Return, NEW q \in 0..Most, NEW n \in Units
  PROVE  /\ Times(x, q, n) \in Return
         /\ Times(x, q, n).linked = x.linked
         /\ Times(x, q, n).qty = q
         /\ Times(x, q, n).unit = n
         /\ Times(x, q, n).state = x.state
         /\ Times(x, q, n).demand = x.demand
         /\ Times(x, q, n).back = x.back
<1>0. PICK new : new = Times(x, q, n)
  OBVIOUS
<1>1. x \in [linked : BOOLEAN, qty : 0..Most, unit : Units, state : States,
             demand : Nat, back : Nat]
  BY ReturnSet
<1>2. new = [linked |-> x.linked, qty |-> q, unit |-> n,
              state |-> x.state, demand |-> x.demand, back |-> x.back]
  BY <1>0, <1>1 DEF Times
<1>3. /\ x.linked \in BOOLEAN /\ x.qty \in 0..Most /\ x.unit \in Units
      /\ x.state \in States /\ x.demand \in Nat /\ x.back \in Nat
  BY <1>1
<1>4. new \in Return
  BY <1>2, <1>3, ReturnRecord
<1>5. /\ new \in Return
      /\ new.linked = x.linked
      /\ new.qty = q
      /\ new.unit = n
      /\ new.state = x.state
      /\ new.demand = x.demand
      /\ new.back = x.back
  BY <1>2, <1>4
<1>6. QED
  BY <1>0, <1>5, Zenon

\* One return order changes, or there is one more.
LEMMA Updated ==
  ASSUME returns \in Seq(Return), NEW r \in DOMAIN returns, NEW new \in Return,
         Update(r, new)
  PROVE  /\ returns' \in Seq(Return) /\ DOMAIN returns' = DOMAIN returns
         /\ returns'[r] = new
         /\ \A p \in DOMAIN returns : p # r => returns'[p] = returns[p]
         /\ side' = side /\ packing' = packing
         /\ shipped' = shipped /\ wizard' = wizard
<1>1. /\ returns' = [returns EXCEPT ![r] = new]
      /\ side' = side /\ packing' = packing
      /\ shipped' = shipped /\ wizard' = wizard
  BY DEF Update
<1>2. r \in 1..Len(returns) /\ DOMAIN returns = 1..Len(returns)
  BY LenProperties
<1>3. returns' \in Seq(Return) /\ DOMAIN returns' = DOMAIN returns
  BY <1>1, <1>2, ExceptSeq
<1>4. QED
  BY <1>1, <1>2, <1>3

\* A type of return orders stays one: it is of the units, which do not change.
LEMMA SameReturns == packing' = packing => Return' = Return /\ Units' = Units /\ Most' = Most
BY DEF Return, Units, Most

Fresh(q, n, linked) ==
  [linked |-> linked, qty |-> q, unit |-> n, state |-> "draft", demand |-> 0, back |-> 0]

LEMMA FreshFields ==
  ASSUME NEW q, NEW n, NEW linked
  PROVE  /\ Fresh(q, n, linked).linked = linked /\ Fresh(q, n, linked).qty = q
         /\ Fresh(q, n, linked).unit = n
         /\ Fresh(q, n, linked).state = "draft" /\ Fresh(q, n, linked).demand = 0
         /\ Fresh(q, n, linked).back = 0
BY DEF Fresh

LEMMA Added ==
  ASSUME returns \in Seq(Return), NEW q \in 0..Most, NEW n \in Units,
         NEW linked \in BOOLEAN, Add(q, n, linked), NEW i, i = Len(returns) + 1
  PROVE  /\ returns' \in Seq(Return) /\ i \notin DOMAIN returns
         /\ DOMAIN returns' = (DOMAIN returns) \cup {i}
         /\ returns'[i] = Fresh(q, n, linked)
         /\ \A p \in DOMAIN returns : returns'[p] = returns[p]
<1>0. PICK new : new = Fresh(q, n, linked)
  OBVIOUS
<1>1. returns' = Append(returns, new)
  BY <1>0 DEF Add, Fresh
<1>2. new \in Return
  <2>1. "draft" \in States /\ 0 \in Nat
    BY DEF States
  <2>2. QED
    BY <1>0, <2>1, ReturnRecord DEF Fresh
<1>3. Len(returns) \in Nat /\ DOMAIN returns = 1..Len(returns)
  BY LenProperties
<1>4. /\ returns' \in Seq(Return) /\ Len(returns') = Len(returns) + 1
      /\ \A p \in 1..Len(returns) : returns'[p] = returns[p]
      /\ returns'[Len(returns) + 1] = new
  BY <1>1, <1>2, AppendProperties
<1>5. DOMAIN returns' = 1..Len(returns')
  BY <1>4, LenProperties
<1>6. 1..i = (1..Len(returns)) \cup {i} /\ i \notin 1..Len(returns)
  BY <1>3
<1>7. QED
  BY <1>0, <1>3, <1>4, <1>5, <1>6

------------------------------------------------------------------------------
(* Sums                                                                      *)

\* The sum of one more number is larger by that number.
LEMMA SumWithNew ==
  ASSUME NEW S, IsFiniteSet(S), NEW x, x \notin S, NEW f \in [S \cup {x} -> Int],
         NEW g, g = [y \in S |-> f[y]]
  PROVE  SumFunction(f) = f[x] + SumFunction(g) /\ SumFunction(g) \in Int
<1>1. IsFiniteSet(S \cup {x}) /\ x \in S \cup {x} /\ (S \cup {x}) \ {x} = S
  BY FS_AddElement
<1> DEFINE T == S \cup {x}
<1>2. f \in [T -> Int] /\ IsFiniteSet(T) /\ x \in T /\ T \ {x} = S
  BY <1>1
<1> HIDE DEF T
<1>3. /\ SumFunction(f) = f[x] + SumFunction([y \in T \ {x} |-> f[y]])
      /\ SumFunction([y \in T \ {x} |-> f[y]]) \in Int
  BY <1>2, SumOfOneMore
<1>4. [y \in T \ {x} |-> f[y]] = g
  BY <1>2
<1>5. QED
  BY <1>3, <1>4

\* The sum of a sequence, one element longer.
LEMMA SumOfAppended ==
  ASSUME NEW s \in Seq(Int), NEW q \in Int
  PROVE  /\ SumFunction(Append(s, q)) = q + SumFunction(s)
         /\ SumFunction(s) \in Int
<1> DEFINE S == 1..Len(s)
           x == Len(s) + 1
           f == Append(s, q)
<1>1. Len(s) \in Nat /\ s \in [S -> Int]
  BY LenProperties
<1>2. IsFiniteSet(S) /\ x \notin S
  BY <1>1, FS_Interval
<1>3. S \cup {x} = 1..x
  BY <1>1
<1>4. f \in Seq(Int) /\ Len(f) = x /\ f[x] = q /\ \A i \in S : f[i] = s[i]
  BY AppendProperties
<1>5. f \in [1..x -> Int]
  <2> HIDE DEF f, x
  <2>1. QED
    BY <1>4, LenProperties
<1> HIDE DEF S, x, f
<1>6. f \in [S \cup {x} -> Int] /\ s = [y \in S |-> f[y]]
  <2>1. \A i \in S : f[i] = s[i]
    BY <1>4
  <2>2. QED
    BY <1>1, <1>3, <1>5, <2>1
<1>7. SumFunction(f) = f[x] + SumFunction(s) /\ SumFunction(s) \in Int
  <2>1. PICK g : g = [y \in S |-> f[y]]
    OBVIOUS
  <2>2. SumFunction(f) = f[x] + SumFunction(g) /\ SumFunction(g) \in Int
    BY <1>2, <1>6, <2>1, SumWithNew
  <2>3. g = s
    BY <1>6, <2>1
  <2>4. QED
    BY <2>2, <2>3
<1>8. QED
  BY <1>4, <1>7 DEF f

\* The same of a part of a function.
LEMMA SumOfPartWithNew ==
  ASSUME NEW T, IsFiniteSet(T), NEW x, x \notin T, NEW f, \A y \in T \cup {x} : f[y] \in Int
  PROVE  /\ SumFunction([y \in T \cup {x} |-> f[y]]) = f[x] + SumFunction([y \in T |-> f[y]])
         /\ SumFunction([y \in T |-> f[y]]) \in Int
<1>1. PICK u : u = [y \in T \cup {x} |-> f[y]]
  OBVIOUS
<1>2. PICK t : t = [y \in T |-> f[y]]
  OBVIOUS
<1>3. u \in [T \cup {x} -> Int]
  BY <1>1
<1>4. u[x] = f[x] /\ t = [y \in T |-> u[y]]
  BY <1>1, <1>2
<1>5. SumFunction(u) = u[x] + SumFunction(t) /\ SumFunction(t) \in Int
  BY <1>3, <1>4, SumWithNew
<1>6. QED
  BY <1>1, <1>2, <1>4, <1>5

\* A sum of numbers that are at most k times others is at most k times their sum.
LEMMA SumOfMultiples ==
  ASSUME NEW S, IsFiniteSet(S), NEW f \in [S -> Int], NEW g \in [S -> Int], NEW k \in Int,
         \A x \in S : g[x] <= f[x] * k
  PROVE  SumFunction(g) <= SumFunction(f) * k
<1> DEFINE F(T) == SumFunction([x \in T |-> f[x]])
           G(T) == SumFunction([x \in T |-> g[x]])
           C == {T \in SUBSET S : G(T) <= F(T) * k}
<1>1. {} \in C
  <2>1. F({}) = 0 /\ G({}) = 0
    BY SumOfNone
  <2>2. QED
    BY <2>1
<1>2. ASSUME NEW T \in SUBSET S, NEW x \in S, T \in C, x \notin T
      PROVE  T \cup {x} \in C
  <2>1. IsFiniteSet(T) /\ x \notin T /\ G(T) <= F(T) * k
    BY <1>2, FS_Subset
  <2>2. \A y \in T \cup {x} : f[y] \in Int /\ g[y] \in Int
    OBVIOUS
  <2>3. F(T \cup {x}) = f[x] + F(T) /\ F(T) \in Int
    BY <2>1, <2>2, SumOfPartWithNew, Zenon
  <2>4. G(T \cup {x}) = g[x] + G(T) /\ G(T) \in Int
    BY <2>1, <2>2, SumOfPartWithNew, Zenon
  <2>5. ASSUME NEW m \in Int, NEW n \in Int, NEW m1 \in Int, NEW n1 \in Int,
               m <= n * k, m1 <= n1 * k
        PROVE  m1 + m <= (n1 + n) * k
    BY <2>5
  <2>6. f[x] \in Int /\ g[x] \in Int /\ g[x] <= f[x] * k
    OBVIOUS
  <2> HIDE DEF F, G
  <2>7. G(T \cup {x}) <= F(T \cup {x}) * k
    BY <2>1, <2>3, <2>4, <2>5, <2>6
  <2>8. T \cup {x} \in SUBSET S
    OBVIOUS
  <2>9. QED
    BY <2>7, <2>8
<1>3. S \in C
  <2> HIDE DEF C
  <2>1. QED
    BY <1>1, <1>2, InductionInFiniteSet
<1>4. [x \in S |-> f[x]] = f /\ [x \in S |-> g[x]] = g
  OBVIOUS
<1>5. QED
  BY <1>3, <1>4

\* Sums over return orders are integers.
LEMMA SumsAreIntegers ==
  ASSUME packing \in Packings, shipped \in Seq(1..Ordered), returns \in Seq(Return),
         NEW rs \in SUBSET DOMAIN returns
  PROVE  /\ SumOf(rs) \in Int /\ GoodsOf(rs) \in Int /\ Moved \in Int
         /\ Moved * packing.line \in Int /\ IsFiniteSet(rs)
<1>1. IsFiniteSet(rs)
  <2>1. DOMAIN returns = 1..Len(returns) /\ Len(returns) \in Nat
    BY ReturnsAreTyped
  <2>2. IsFiniteSet(DOMAIN returns)
    BY <2>1, FS_Interval
  <2>3. QED
    BY <2>2, FS_Subset
<1> DEFINE f == [r \in rs |-> returns[r].qty]
           g == [r \in rs |-> Goods(r)]
<1>2. f \in [rs -> Int] /\ g \in [rs -> Int]
  <2>1. \A r \in DOMAIN returns : returns[r].qty \in Nat /\ Goods(r) \in Nat
    BY ReturnsAreTyped
  <2>2. QED
    BY <2>1
<1>3. SumFunction(f) \in Int /\ SumFunction(g) \in Int
  <2> HIDE DEF f, g
  <2>1. QED
    BY <1>1, <1>2, SumIsAnInteger
<1>4. IsFiniteSet(1..Len(shipped)) /\ shipped \in [1..Len(shipped) -> Int]
  <2>1. Len(shipped) \in Nat /\ shipped \in [1..Len(shipped) -> 1..Ordered]
    BY LenProperties
  <2>2. QED
    BY <2>1, FS_Interval, OrderedTyped
<1>5. SumFunction(shipped) \in Int
  <2> DEFINE S == 1..Len(shipped)
  <2> HIDE DEF S
  <2>1. IsFiniteSet(S) /\ shipped \in [S -> Int]
    BY <1>4 DEF S
  <2>2. QED
    BY <2>1, SumIsAnInteger
<1>6. Moved \in Int /\ packing.line \in Int
  BY <1>5, UnitsTyped DEF Moved
<1>7. Moved * packing.line \in Int
  BY <1>6
<1>8. QED
  BY <1>1, <1>3, <1>6, <1>7 DEF SumOf, GoodsOf

\* A further return leaves as many goods less as it is of.
LEMMA AddTakes ==
  ASSUME TypeOK, NEW q \in 0..Most, NEW n \in Units, NEW linked \in BOOLEAN,
         Add(q, n, linked), UNCHANGED <<packing, shipped>>
  PROVE  Left' = Left - q * n
<1>a. PICK i : i = Len(returns) + 1
  OBVIOUS
<1> DEFINE f == [r \in Valid \cup {i} |-> Goods(r)']
           g == [r \in Valid |-> Goods(r)]
<1>0. returns \in Seq(Return) /\ shipped \in Seq(1..Ordered) /\ packing \in Packings
  BY DEF TypeOK
<1>1. /\ returns' \in Seq(Return) /\ i \notin DOMAIN returns
      /\ DOMAIN returns' = (DOMAIN returns) \cup {i}
      /\ returns'[i] = Fresh(q, n, linked)
      /\ \A p \in DOMAIN returns : returns'[p] = returns[p]
  <2>1. returns \in Seq(Return)
    BY <1>0
  <2>2. QED
    BY <1>a, <2>1, Added, Zenon
<1>2. returns'[i].state = "draft" /\ Goods(i)' = q * n /\ q * n \in Int
  <2>1. /\ returns'[i].state = "draft" /\ returns'[i].qty = q /\ returns'[i].unit = n
    BY <1>1, FreshFields
  <2>2. q \in Nat /\ n \in Nat
    BY <1>0, MostTyped, UnitsTyped
  <2>3. q * n \in Int
    BY <2>2
  <2>4. QED
    BY <2>1, <2>3 DEF Goods
<1>3. Valid' = Valid \cup {i} /\ i \notin Valid /\ Valid \in SUBSET DOMAIN returns
  BY <1>1, <1>2 DEF Valid
<1>4. f \in [Valid \cup {i} -> Int] /\ f[i] = q * n
      /\ g = [r \in Valid |-> f[r]]
  <2>1. \A r \in DOMAIN returns : Goods(r) \in Int
    BY <1>0, ReturnsAreTyped
  <2>2. \A r \in DOMAIN returns : Goods(r)' = Goods(r)
    BY <1>1 DEF Goods
  <2>3. QED
    BY <1>2, <1>3, <2>1, <2>2
<1>5. GoodsOf(Valid)' = SumFunction(f)
  BY <1>3 DEF GoodsOf
<1>6. IsFiniteSet(Valid) /\ GoodsOf(Valid) \in Int /\ Moved * packing.line \in Int
  BY <1>0, <1>3, SumsAreIntegers
<1>7. SumFunction(f) = f[i] + GoodsOf(Valid)
  <2> HIDE DEF f, g
  <2>1. SumFunction(f) = f[i] + SumFunction(g)
    BY <1>3, <1>4, <1>6, SumWithNew
  <2>2. QED
    BY <2>1 DEF g, GoodsOf
<1> HIDE DEF f, g
<1>8. (Moved * packing.line)' = Moved * packing.line
  BY DEF Moved
<1>9. GoodsOf(Valid)' = q * n + GoodsOf(Valid)
  BY <1>4, <1>5, <1>7
<1>10. QED
  <2>1. Left' = (Moved * packing.line)' - GoodsOf(Valid)'
    BY DEF Left
  <2>2. Left = Moved * packing.line - GoodsOf(Valid)
    BY DEF Left
  <2>3. QED
    BY <1>2, <1>6, <1>8, <1>9, <2>1, <2>2

\* A cancelled return leaves no less than before.
LEMMA CancelGives ==
  ASSUME TypeOK, NEW r \in DOMAIN returns, Cancel(r)
  PROVE  Left' >= Left /\ Left' \in Int
<1>0. returns \in Seq(Return) /\ shipped \in Seq(1..Ordered) /\ packing \in Packings
  BY DEF TypeOK
<1>1. PICK new : /\ new = InState(returns[r], "cancel", 0)
                 /\ Update(r, new) /\ returns[r].state # "cancel"
  BY Zenon DEF Cancel, InState
<1>2. new \in Return /\ new.state = "cancel"
  <2>1. "cancel" \in States /\ 0 \in Nat
    BY DEF States
  <2>2. returns[r] \in Return
    BY <1>0, ReturnsAreTyped, Zenon
  <2>3. QED
    BY <1>1, <2>1, <2>2, WithStateAndDemand
<1>3. /\ returns' \in Seq(Return) /\ DOMAIN returns' = DOMAIN returns
      /\ returns'[r] = new /\ shipped' = shipped /\ packing' = packing
      /\ \A p \in DOMAIN returns : p # r => returns'[p] = returns[p]
  BY <1>0, <1>1, <1>2, Updated
<1>4. Valid' = Valid \ {r} /\ r \in Valid /\ Valid \in SUBSET DOMAIN returns
  BY <1>1, <1>2, <1>3 DEF Valid
<1> DEFINE f == [p \in Valid |-> Goods(p)]
           g == [p \in Valid \ {r} |-> f[p]]
<1>5. f \in [Valid -> Int] /\ f[r] >= 0 /\ f[r] \in Int
  <2>1. \A p \in DOMAIN returns : Goods(p) \in Nat
    BY <1>0, ReturnsAreTyped
  <2>2. QED
    BY <1>4, <2>1
<1>6. GoodsOf(Valid)' = SumFunction(g)
  <2>1. [p \in Valid' |-> Goods(p)'] = g
    BY <1>3, <1>4 DEF Goods
  <2>2. QED
    BY <2>1 DEF GoodsOf
<1>7. IsFiniteSet(Valid) /\ Moved * packing.line \in Int
  BY <1>0, <1>4, SumsAreIntegers
<1>8. GoodsOf(Valid) = SumFunction(f)
  BY DEF GoodsOf
<1> HIDE DEF f
<1>9. SumFunction(f) = f[r] + SumFunction(g) /\ SumFunction(g) \in Int
  BY <1>4, <1>5, <1>7, SumOfOneMore
<1>10. (Moved * packing.line)' = Moved * packing.line
  BY <1>3 DEF Moved
<1> HIDE DEF g
<1>11. QED
  <2>1. Left' = (Moved * packing.line)' - GoodsOf(Valid)'
    BY DEF Left
  <2>2. Left = Moved * packing.line - GoodsOf(Valid)
    BY DEF Left
  <2>3. QED
    BY <1>5, <1>6, <1>7, <1>8, <1>9, <1>10, <2>1, <2>2

\* A step that changes no goods and cancels or reopens nothing leaves as much.
LEMMA OthersLeave ==
  ASSUME TypeOK, NEW r \in DOMAIN returns, NEW new \in Return, Update(r, new),
         GoodsIn(new) = GoodsIn(returns[r]),
         (new.state = "cancel") <=> (returns[r].state = "cancel")
  PROVE  Left' = Left
<1>0. returns \in Seq(Return)
  BY DEF TypeOK
<1>1. /\ DOMAIN returns' = DOMAIN returns /\ shipped' = shipped /\ packing' = packing
      /\ returns'[r] = new
      /\ \A p \in DOMAIN returns : p # r => returns'[p] = returns[p]
  BY <1>0, Updated
<1>2. \A p \in DOMAIN returns : Goods(p)' = Goods(p)
  <2>1. \A p \in DOMAIN returns : p # r => Goods(p)' = Goods(p)
    BY <1>1 DEF Goods
  <2>2. Goods(r)' = Goods(r)
    BY <1>1 DEF Goods, GoodsIn
  <2>3. QED
    BY <2>1, <2>2
<1>3. Valid' = Valid /\ Valid \in SUBSET DOMAIN returns
  BY <1>1 DEF Valid
<1>4. [p \in Valid' |-> Goods(p)'] = [p \in Valid |-> Goods(p)]
  BY <1>2, <1>3
<1>5. GoodsOf(Valid)' = GoodsOf(Valid)
  BY <1>4 DEF GoodsOf
<1>6. (Moved * packing.line)' = Moved * packing.line
  BY <1>1 DEF Moved
<1>7. QED
  BY <1>5, <1>6 DEF Left

------------------------------------------------------------------------------
(* The steps                                                                 *)

\* What ReturnsInv says of a return order.
Sound(x) ==
  /\ x.back + x.demand <= GoodsIn(x)
  /\ x.state \in {"draft", "to approve"} => x.back = 0 /\ x.demand = 0
  /\ x.state = "cancel" => x.demand = 0

LEMMA ReturnsAreSound == ReturnsInv <=> \A r \in DOMAIN returns : Sound(returns[r])
BY DEF ReturnsInv, Sound, Goods, GoodsIn

Opened == [of : {"order", "bill"}, left : Int, truly : SUBSET Int]

\* What WizardInv says of an open wizard.
Honest(w) == \A goods \in w.truly : w.left * packing.line <= goods

\* A return order changes, and nothing else does.
LEMMA UpdateKeeps ==
  ASSUME IInv, NEW r \in DOMAIN returns, NEW new \in Return, Update(r, new),
         Sound(new)
  PROVE  IInv'
<1>0. returns \in Seq(Return)
  BY DEF IInv, TypeOK
<1>1. /\ returns' \in Seq(Return) /\ DOMAIN returns' = DOMAIN returns
      /\ returns'[r] = new
      /\ \A p \in DOMAIN returns : p # r => returns'[p] = returns[p]
      /\ side' = side /\ packing' = packing /\ shipped' = shipped /\ wizard' = wizard
  BY <1>0, Updated
<1>2. Moved' = Moved /\ Return' = Return
  BY <1>1, SameReturns DEF Moved
<1>3. TypeOK'
  BY <1>1, <1>2 DEF IInv, TypeOK
<1>4. ReturnsInv'
  <2>1. \A p \in DOMAIN returns : Sound(returns[p])
    BY ReturnsAreSound DEF IInv
  <2>2. ASSUME NEW p \in DOMAIN returns'
        PROVE  Sound(returns'[p])
    <3>1. CASE p = r
      BY <1>1, <3>1
    <3>2. CASE p # r
      <4>1. returns'[p] = returns[p] /\ p \in DOMAIN returns
        BY <1>1, <2>2, <3>2
      <4>2. QED
        BY <2>1, <4>1
    <3>3. QED
      BY <3>1, <3>2
  <2>3. QED
    BY <2>2 DEF ReturnsInv, Sound, Goods, GoodsIn
<1>5. WizardInv'
  BY <1>1 DEF IInv, WizardInv
<1>6. QED
  BY <1>3, <1>4, <1>5 DEF IInv

\* There is one more return order; a wizard may close.
LEMMA AddKeeps ==
  ASSUME IInv, NEW q \in 0..Most, NEW n \in Units, NEW linked \in BOOLEAN, Add(q, n, linked),
         side' = side, packing' = packing, shipped' = shipped,
         wizard' \in [User -> {NoWizard} \cup Opened],
         \A u \in User : wizard'[u] # NoWizard => wizard'[u] = wizard[u]
  PROVE  IInv'
<1>a. PICK i : i = Len(returns) + 1
  OBVIOUS
<1>0. returns \in Seq(Return) /\ packing \in Packings
  BY DEF IInv, TypeOK
<1>1. /\ returns' \in Seq(Return) /\ i \notin DOMAIN returns
      /\ DOMAIN returns' = (DOMAIN returns) \cup {i}
      /\ returns'[i] = Fresh(q, n, linked)
      /\ \A p \in DOMAIN returns : returns'[p] = returns[p]
  <2>1. returns \in Seq(Return)
    BY <1>0
  <2>2. QED
    BY <1>a, <2>1, Added, Zenon
<1>2. Moved' = Moved /\ Return' = Return
  BY SameReturns DEF Moved
<1>3. TypeOK'
  BY <1>1, <1>2 DEF IInv, TypeOK, Opened
<1>4. ReturnsInv'
  <2>1. \A p \in DOMAIN returns : Sound(returns[p])
    BY ReturnsAreSound DEF IInv
  <2>2. Sound(Fresh(q, n, linked))
    <3>1. PICK x : x = Fresh(q, n, linked)
      OBVIOUS
    <3>2. /\ x.qty = q /\ x.unit = n
          /\ x.state = "draft" /\ x.demand = 0 /\ x.back = 0
      BY <3>1, FreshFields
    <3>3. GoodsIn(x) \in Nat
      <4>1. q \in Nat /\ n \in Nat
        BY <1>0, MostTyped, UnitsTyped
      <4>2. QED
        BY <3>2, <4>1, Product DEF GoodsIn
    <3>4. x.back + x.demand <= GoodsIn(x)
      BY <3>2, <3>3
    <3>5. Sound(x)
      BY <3>2, <3>4 DEF Sound
    <3>6. QED
      BY <3>1, <3>5
  <2>3. \A p \in DOMAIN returns' : Sound(returns'[p])
    BY <1>1, <2>1, <2>2
  <2>4. QED
    BY <2>3 DEF ReturnsInv, Sound, Goods, GoodsIn
<1>5. WizardInv'
  BY DEF IInv, WizardInv
<1>6. QED
  BY <1>3, <1>4, <1>5 DEF IInv

\* Only wizards change: they close, or read what is left.
LEMMA WizardsKeep ==
  ASSUME IInv, side' = side, packing' = packing, shipped' = shipped, returns' = returns,
         wizard' \in [User -> {NoWizard} \cup Opened],
         \A u \in User : \/ wizard'[u] = NoWizard \/ wizard'[u] = wizard[u]
                         \/ Honest(wizard'[u])
  PROVE  IInv'
<1>1. Moved' = Moved /\ Return' = Return
  BY SameReturns DEF Moved
<1>2. TypeOK'
  BY <1>1 DEF IInv, TypeOK, Opened
<1>3. ReturnsInv'
  BY DEF IInv, ReturnsInv, Goods
<1>4. WizardInv'
  BY DEF IInv, WizardInv, Honest
<1>5. QED
  BY <1>2, <1>3, <1>4 DEF IInv

\* A wizard that sees every return, none of which counts for less than it is, offers
\* no more than is left.
LEMMA SeesWhatIsLeft ==
  ASSUME TypeOK, \A r \in Valid : ~Undercounted(r)
  PROVE  (Moved - SumOf({r \in Valid : returns[r].linked})) * packing.line <= Left
<1> DEFINE f == [r \in Valid |-> returns[r].qty]
           g == [r \in Valid |-> Goods(r)]
<1>1. /\ shipped \in Seq(1..Ordered) /\ returns \in Seq(Return) /\ packing \in Packings
      /\ Valid \in SUBSET DOMAIN returns
  BY DEF TypeOK, Valid
<1>2. {r \in Valid : returns[r].linked} = Valid
  BY DEF Undercounted
<1>3. \A r \in Valid : returns[r].qty \in Int /\ Goods(r) \in Int
  BY <1>1, ReturnsAreTyped
<1>4. packing.line \in Int
  BY <1>1, UnitsTyped
<1>5. \A r \in Valid : Goods(r) <= returns[r].qty * packing.line
  <2>1. ASSUME NEW r \in Valid
        PROVE  Goods(r) <= returns[r].qty * packing.line
    <3>1. ~(Goods(r) > returns[r].qty * packing.line)
      BY DEF Undercounted
    <3>2. returns[r].qty * packing.line \in Int
      BY <1>3, <1>4
    <3>3. QED
      BY <1>3, <3>1, <3>2
  <2>2. QED
    BY <2>1
<1>6. IsFiniteSet(Valid) /\ f \in [Valid -> Int] /\ g \in [Valid -> Int]
  BY <1>1, <1>3, SumsAreIntegers
<1>7. \A r \in Valid : g[r] <= f[r] * packing.line
  BY <1>5
<1> HIDE DEF f, g
<1>8. SumFunction(g) <= SumFunction(f) * packing.line
  BY <1>4, <1>6, <1>7, SumOfMultiples
<1>9. GoodsOf(Valid) <= SumOf(Valid) * packing.line
  BY <1>8 DEF f, g, GoodsOf, SumOf
<1>10. SumOf(Valid) \in Int /\ GoodsOf(Valid) \in Int /\ Moved \in Int
  BY <1>1, SumsAreIntegers
<1>11. ASSUME NEW m \in Int, NEW n \in Int, NEW goods \in Int, NEW k \in Int, goods <= n * k
       PROVE  (m - n) * k <= m * k - goods
  BY <1>11
<1>12. QED
  BY <1>2, <1>4, <1>9, <1>10, <1>11 DEF Left

LEMMA OpenKeeps ==
  ASSUME IInv, NEW u \in User, NEW of \in {"order", "bill"}, NEW left,
         left = Moved - SumOf({r \in Valid : returns[r].linked}), Open(u, of, left)
  PROVE  IInv'
<1> DEFINE linked == {r \in Valid : returns[r].linked}
           truly == IF \E r \in Valid : Undercounted(r) THEN {} ELSE {Left}
<1>1. /\ wizard' = [wizard EXCEPT ![u] = [of |-> of, left |-> left, truly |-> truly]]
      /\ side' = side /\ packing' = packing /\ shipped' = shipped /\ returns' = returns
  BY DEF Open
<1>2. left \in Int /\ Left \in Int
  <2>1. Valid \in SUBSET DOMAIN returns /\ linked \in SUBSET DOMAIN returns
    BY DEF Valid
  <2>2. shipped \in Seq(1..Ordered) /\ returns \in Seq(Return) /\ packing \in Packings
    BY DEF IInv, TypeOK
  <2> HIDE DEF linked
  <2>3. /\ GoodsOf(Valid) \in Int /\ SumOf(linked) \in Int
        /\ Moved \in Int /\ Moved * packing.line \in Int
    BY <2>1, <2>2, SumsAreIntegers
  <2>4. left = Moved - SumOf(linked)
    BY DEF linked
  <2>5. QED
    BY <2>3, <2>4 DEF Left
<1>3. \A goods \in truly : left * packing.line <= goods
  <2> SUFFICES ASSUME \A r \in Valid : ~Undercounted(r)
               PROVE  left * packing.line <= Left
    OBVIOUS
  <2>1. QED
    BY SeesWhatIsLeft DEF IInv
<1>4. truly \in SUBSET Int
  BY <1>2
<1> HIDE DEF truly
<1>5. PICK w : w = [of |-> of, left |-> left, truly |-> truly]
  OBVIOUS
<1>6. w \in Opened /\ w.left = left /\ w.truly = truly
  BY <1>2, <1>4, <1>5 DEF Opened
<1>7. wizard \in [User -> {NoWizard} \cup Opened]
  BY DEF IInv, TypeOK, Opened
<1>8. wizard' = [wizard EXCEPT ![u] = w]
  BY <1>1, <1>5
<1>9. /\ wizard' \in [User -> {NoWizard} \cup Opened]
      /\ wizard'[u] = w
      /\ \A v \in User : v # u => wizard'[v] = wizard[v]
  BY <1>6, <1>7, <1>8
<1>10. Honest(w)
  BY <1>3, <1>6 DEF Honest
<1>11. \A v \in User : wizard'[v] = wizard[v] \/ Honest(wizard'[v])
  BY <1>9, <1>10
<1>12. QED
  BY <1>1, <1>9, <1>11, WizardsKeep

LEMMA ShipKeeps ==
  ASSUME IInv, NEW q \in 1..Ordered, Ship(q)
  PROVE  IInv'
<1>1. /\ Moved + q <= Ordered /\ shipped' = Append(shipped, q)
      /\ side' = side /\ packing' = packing /\ returns' = returns /\ wizard' = wizard
  BY DEF Ship
<1>2. shipped \in Seq(1..Ordered) /\ shipped \in Seq(Int) /\ q \in Int
  <2>1. shipped \in Seq(1..Ordered) /\ 1..Ordered \in SUBSET Int
    BY DEF IInv, TypeOK
  <2>2. QED
    BY <2>1, OrderedTyped
<1>3. shipped' \in Seq(1..Ordered)
  BY <1>1, <1>2, AppendProperties
<1>4. Moved' = q + Moved /\ Moved \in Int
  BY <1>1, <1>2, SumOfAppended DEF Moved
<1>5. Moved' <= Ordered
  BY <1>1, <1>2, <1>4
<1>6. TypeOK'
  BY <1>1, <1>3, <1>5, SameReturns DEF IInv, TypeOK
<1>7. ReturnsInv' /\ WizardInv'
  BY <1>1 DEF IInv, ReturnsInv, WizardInv, Goods
<1>8. QED
  BY <1>6, <1>7 DEF IInv

LEMMA CloseKeepsWizards ==
  ASSUME IInv, NEW u \in User, Close(u)
  PROVE  /\ side' = side /\ packing' = packing /\ shipped' = shipped
         /\ wizard' \in [User -> {NoWizard} \cup Opened]
         /\ \A v \in User : wizard'[v] # NoWizard => wizard'[v] = wizard[v]
<1>1. wizard \in [User -> {NoWizard} \cup Opened]
  BY DEF IInv, TypeOK, Opened
<1>2. QED
  BY <1>1 DEF Close

LEMMA WizardReturnKeeps ==
  ASSUME IInv, NEW u \in User, NEW q \in 0..Ordered,
         SaleCreateReturn(u, q) \/ PurchaseCreateReturn(u, q) \/ BillCreateReturn(u, q)
  PROVE  IInv'
<1>1. Close(u) /\ (Add(q, packing.line, TRUE) \/ returns' = returns)
  BY DEF SaleCreateReturn, PurchaseCreateReturn, BillCreateReturn
<1>2. /\ side' = side /\ packing' = packing /\ shipped' = shipped
      /\ wizard' \in [User -> {NoWizard} \cup Opened]
      /\ \A v \in User : wizard'[v] # NoWizard => wizard'[v] = wizard[v]
  BY <1>1, CloseKeepsWizards
<1>3. q \in 0..Most /\ packing.line \in Units
  BY MostTyped, UnitsTyped, OrderedTyped DEF IInv, TypeOK
<1>4. CASE Add(q, packing.line, TRUE)
  BY <1>2, <1>3, <1>4, AddKeeps
<1>5. CASE returns' = returns
  BY <1>2, <1>5, WizardsKeep
<1>6. QED
  BY <1>1, <1>4, <1>5

\* A return from a picking or in the form is of some goods in some unit.
LEMMA OtherReturn ==
  ASSUME packing \in Packings, PickingReturn \/ FormReturn
  PROVE  \E q \in 0..Most, n \in Units, linked \in BOOLEAN :
           Add(q, n, linked) /\ UNCHANGED <<side, packing, shipped, wizard>>
<1>1. Most \in Nat /\ Ordered \in 0..Most /\ Most \in 0..Most
  BY MostTyped, OrderedTyped
<1>2. CASE PickingReturn
  <2>1. PICK goods \in 0..Most :
          /\ Add(Up(goods, packing.purchase), packing.purchase, TRUE)
          /\ UNCHANGED <<side, packing, shipped, wizard>>
    BY <1>2 DEF PickingReturn, SalePickingReturn, PurchasePickingReturn, Most
  <2>2. goods \in Nat /\ packing.purchase \in Nat \ {0} /\ packing.purchase \in Units
    BY <1>1, UnitsTyped
  <2>3. Up(goods, packing.purchase) \in 0..goods
    BY <2>2, UpIsANumber
  <2>4. Up(goods, packing.purchase) \in 0..Most
    BY <1>1, <2>3
  <2>5. QED
    BY <2>1, <2>2, <2>4
<1>3. CASE FormReturn
  <2>1. 1 \in Units /\ packing.line \in Units
    BY UnitsTyped
  <2>2. CASE SaleFormReturn
    BY <1>1, <2>1, <2>2 DEF SaleFormReturn, Most
  <2>3. CASE PurchaseFormReturn
    BY <1>1, <2>1, <2>3 DEF PurchaseFormReturn
  <2>4. QED
    BY <1>3, <2>2, <2>3 DEF FormReturn
<1>4. QED
  BY <1>2, <1>3

LEMMA OtherReturnKeeps ==
  ASSUME IInv, PickingReturn \/ FormReturn
  PROVE  IInv'
<1>0. packing \in Packings
  BY DEF IInv, TypeOK
<1>1. PICK q \in 0..Most, n \in Units, linked \in BOOLEAN :
        Add(q, n, linked) /\ UNCHANGED <<side, packing, shipped, wizard>>
  BY <1>0, OtherReturn
<1>2. /\ wizard' \in [User -> {NoWizard} \cup Opened]
      /\ \A v \in User : wizard'[v] # NoWizard => wizard'[v] = wizard[v]
  BY <1>1 DEF IInv, TypeOK, Opened
<1>3. QED
  BY <1>1, <1>2, AddKeeps

\* What a step of the life of a return order makes of it.
Lives(r, x, new) ==
  \/ /\ GoodsIn(new) = GoodsIn(x)
     /\ (new.state = "cancel") <=> (x.state = "cancel")
     /\ x.state = "cancel" => new.back = x.back
  \/ new.state = x.state /\ new.back = x.back /\ x.state = "draft" /\ ChangeQty(r)
  \/ /\ GoodsIn(new) = GoodsIn(x) /\ new.back = x.back
     /\ Redraft(r) /\ new.state # "cancel"
  \/ /\ GoodsIn(new) = GoodsIn(x) /\ new.state = "cancel" /\ new.back = x.back
     /\ Cancel(r) /\ (side = "purchase" => x.back = 0)

\* A return order, in its parts, with its goods for quantity and unit.
HasParts(x, q, s, d, b) ==
  /\ x \in Return
  /\ GoodsIn(x) = q /\ x.state = s /\ x.demand = d /\ x.back = b

SoundParts(q, s, d, b) ==
  /\ b + d <= q
  /\ s \in {"draft", "to approve"} => b = 0 /\ d = 0
  /\ s = "cancel" => d = 0

LivesIn(r, q, s, b, q1, s1, b1) ==
  \/ q1 = q /\ (s1 = "cancel" <=> s = "cancel") /\ (s = "cancel" => b1 = b)
  \/ s1 = s /\ b1 = b /\ s = "draft" /\ ChangeQty(r)
  \/ q1 = q /\ b1 = b /\ Redraft(r) /\ s1 # "cancel"
  \/ /\ q1 = q /\ s1 = "cancel" /\ b1 = b
     /\ Cancel(r) /\ (side = "purchase" => b = 0)

LEMMA SoundByParts ==
  ASSUME NEW x, NEW q, NEW s, NEW d, NEW b, HasParts(x, q, s, d, b)
  PROVE  Sound(x) <=> SoundParts(q, s, d, b)
BY Zenon DEF Sound, SoundParts, HasParts

LEMMA LivesByParts ==
  ASSUME NEW r, NEW x, NEW q, NEW s, NEW d, NEW b, HasParts(x, q, s, d, b),
         NEW x1, NEW q1, NEW s1, NEW d1, NEW b1, HasParts(x1, q1, s1, d1, b1)
  PROVE  LivesIn(r, q, s, b, q1, s1, b1) <=> Lives(r, x, x1)
BY Zenon DEF Lives, LivesIn, HasParts

LEMMA TimesByParts ==
  ASSUME NEW x, NEW q, NEW s, NEW d, NEW b, HasParts(x, q, s, d, b),
         NEW q1 \in 0..Most, NEW n1 \in Units
  PROVE  HasParts(Times(x, q1, n1), q1 * n1, s, d, b)
<1>1. GoodsIn(x) = q /\ x.state = s /\ x.demand = d /\ x.back = b
  BY DEF HasParts
<1>2. x \in Return
  BY DEF HasParts
<1>3. /\ Times(x, q1, n1) \in Return
      /\ Times(x, q1, n1).qty = q1
      /\ Times(x, q1, n1).unit = n1
      /\ Times(x, q1, n1).state = x.state
      /\ Times(x, q1, n1).demand = x.demand
      /\ Times(x, q1, n1).back = x.back
  BY <1>2, WithQty, Zenon
<1>4. GoodsIn(Times(x, q1, n1)) = q1 * n1
  BY <1>3, Zenon DEF GoodsIn
<1>5. QED
  BY <1>1, <1>3, <1>4, Zenon DEF HasParts

LEMMA MovesByParts ==
  ASSUME NEW x, NEW q, NEW s, NEW d, NEW b, HasParts(x, q, s, d, b),
         NEW s1 \in States
  PROVE  HasParts(Moves(x, s1), q, s1, d, b)
<1>1. GoodsIn(x) = q /\ x.state = s /\ x.demand = d /\ x.back = b
  BY DEF HasParts
<1>2. x \in Return
  BY DEF HasParts
<1>3. /\ Moves(x, s1) \in Return
      /\ Moves(x, s1).qty = x.qty
      /\ Moves(x, s1).unit = x.unit
      /\ Moves(x, s1).state = s1
      /\ Moves(x, s1).demand = x.demand
      /\ Moves(x, s1).back = x.back
  BY <1>2, WithState, Zenon
<1>4. GoodsIn(Moves(x, s1)) = GoodsIn(x)
  BY <1>3, Zenon DEF GoodsIn
<1>5. QED
  BY <1>1, <1>3, <1>4, Zenon DEF HasParts

LEMMA InStateByParts ==
  ASSUME NEW x, NEW q, NEW s, NEW d, NEW b, HasParts(x, q, s, d, b),
         NEW s1 \in States, NEW d1 \in Nat
  PROVE  HasParts(InState(x, s1, d1), q, s1, d1, b)
<1>1. GoodsIn(x) = q /\ x.state = s /\ x.demand = d /\ x.back = b
  BY DEF HasParts
<1>2. x \in Return
  BY DEF HasParts
<1>3. /\ InState(x, s1, d1) \in Return
      /\ InState(x, s1, d1).qty = x.qty
      /\ InState(x, s1, d1).unit = x.unit
      /\ InState(x, s1, d1).state = s1
      /\ InState(x, s1, d1).demand = d1
      /\ InState(x, s1, d1).back = x.back
  BY <1>2, WithStateAndDemand, Zenon
<1>4. GoodsIn(InState(x, s1, d1)) = GoodsIn(x)
  BY <1>3, Zenon DEF GoodsIn
<1>5. QED
  BY <1>1, <1>3, <1>4, Zenon DEF HasParts

LEMMA WithBackByParts ==
  ASSUME NEW x, NEW q, NEW s, NEW d, NEW b, HasParts(x, q, s, d, b),
         NEW b1 \in Nat, NEW d1 \in Nat
  PROVE  HasParts(WithBack(x, b1, d1), q, s, d1, b1)
<1>1. GoodsIn(x) = q /\ x.state = s /\ x.demand = d /\ x.back = b
  BY DEF HasParts
<1>2. x \in Return
  BY DEF HasParts
<1>3. /\ WithBack(x, b1, d1) \in Return
      /\ WithBack(x, b1, d1).qty = x.qty
      /\ WithBack(x, b1, d1).unit = x.unit
      /\ WithBack(x, b1, d1).state = x.state
      /\ WithBack(x, b1, d1).demand = d1
      /\ WithBack(x, b1, d1).back = b1
  BY <1>2, WithBackAndDemand
<1>4. GoodsIn(WithBack(x, b1, d1)) = GoodsIn(x)
  BY <1>3, Zenon DEF GoodsIn
<1>5. QED
  BY <1>1, <1>3, <1>4, Zenon DEF HasParts

LEMMA StepOfReturn ==
  ASSUME IInv, NEW r \in DOMAIN returns, ReturnStep(r)
  PROVE  \E new \in Return : Update(r, new) /\ Sound(new) /\ Lives(r, returns[r], new)
<1>0. /\ returns[r] \in Return /\ Sound(returns[r])
      /\ packing \in Packings /\ Goods(r) = GoodsIn(returns[r])
  BY ReturnsAreTyped, ReturnsAreSound DEF IInv, TypeOK
<1>1. PICK q \in Nat, d \in Nat, b \in Nat, s \in States :
        /\ q = Goods(r) /\ d = returns[r].demand
        /\ b = returns[r].back /\ s = returns[r].state
  <2>1. returns \in Seq(Return)
    BY DEF IInv, TypeOK
  <2>2. /\ Goods(r) \in Nat /\ returns[r].demand \in Nat
        /\ returns[r].back \in Nat /\ returns[r].state \in States
    BY <1>0, <2>1, ReturnsAreTyped
  <2>3. QED
    BY <2>2, Zenon
<1> DEFINE x == returns[r]
<1>2. HasParts(x, q, s, d, b)
  BY <1>0, <1>1, Zenon DEF HasParts
<1>3. SoundParts(q, s, d, b)
  BY <1>0, <1>2, SoundByParts, Zenon
<1>4. 0 \in Nat
  OBVIOUS
<1>5. ASSUME NEW new, NEW q1, NEW s1, NEW d1, NEW b1, HasParts(new, q1, s1, d1, b1),
             Update(r, new), SoundParts(q1, s1, d1, b1),
             LivesIn(r, q, s, b, q1, s1, b1)
      PROVE  \E y \in Return : Update(r, y) /\ Sound(y) /\ Lives(r, x, y)
  <2>1. new \in Return
    BY <1>5, Zenon DEF HasParts
  <2>2. Sound(new)
    BY <1>5, SoundByParts, Zenon
  <2>3. Lives(r, x, new)
    BY <1>2, <1>5, LivesByParts, Zenon
  <2>4. QED
    BY <1>5, <2>1, <2>2, <2>3, Zenon
<1>6. CASE ChangeQty(r)
  <2>1. PICK p \in 1..Ordered, n \in Units :
          s = "draft" /\ Update(r, Times(returns[r], p, n))
    BY <1>1, <1>6, Zenon DEF ChangeQty, SaleChangeQty, PurchaseChangeQty, Times
  <2>2. p \in Nat /\ n \in Nat /\ p \in 0..Most
    BY <1>0, OrderedTyped, MostTyped, UnitsTyped
  <2>3. HasParts(Times(x, p, n), p * n, s, d, b)
    BY <1>2, <2>2, TimesByParts, Zenon
  <2>4. SoundParts(p * n, s, d, b)
    <3>1. b = 0 /\ d = 0
      BY <1>3, <2>1 DEF SoundParts
    <3>2. p * n \in Nat
      BY <2>2, Product
    <3>3. b + d <= p * n
      BY <3>1, <3>2
    <3>4. QED
      BY <1>3, <3>3, Zenon DEF SoundParts
  <2>5. LivesIn(r, q, s, b, p * n, s, b)
    BY <1>6, <2>1, Zenon DEF LivesIn
  <2>6. QED
    BY <1>5, <2>1, <2>3, <2>4, <2>5, Zenon
<1>7. CASE \E p \in 1..Goods(r), o \in BOOLEAN : Validate(r, p, o)
  <2>1. PICK p \in 1..Goods(r), o \in BOOLEAN : Validate(r, p, o)
    BY <1>7
  <2>2. PICK d1 : d1 = IF o THEN d - p ELSE 0
    OBVIOUS
  <2>3. PICK b1 : b1 = b + p
    OBVIOUS
  <2>4. p <= d
    BY <1>1, <2>1, Zenon DEF Validate
  <2>5. Update(r, WithBack(returns[r], b1, d1))
    BY <1>1, <2>1, <2>2, <2>3, Zenon DEF Validate, WithBack
  <2>6. p \in Nat /\ p > 0
    BY <1>1
  <2>7. b + d <= q
    BY <1>3, Zenon DEF SoundParts
  <2>8. d1 \in Nat /\ b1 \in Nat /\ b1 + d1 <= q
    BY <2>2, <2>3, <2>4, <2>6, <2>7
  <2>9. s # "cancel" /\ s \notin {"draft", "to approve"}
    <3>1. d # 0
      BY <2>4, <2>6
    <3>2. QED
      BY <1>3, <3>1, Zenon DEF SoundParts
  <2>10. HasParts(WithBack(x, b1, d1), q, s, d1, b1)
    BY <1>2, <2>8, WithBackByParts, Zenon
  <2>11. SoundParts(q, s, d1, b1)
    BY <2>8, <2>9, Zenon DEF SoundParts
  <2>12. LivesIn(r, q, s, b, q, s, b1)
    BY <2>9, Zenon DEF LivesIn
  <2>13. QED
    BY <1>5, <2>5, <2>10, <2>11, <2>12, Zenon
<1>8. CASE Confirm(r) \/ Approve(r)
  <2>1. Update(r, InState(returns[r], "confirmed", q)) /\ s \in {"draft", "to approve"}
    BY <1>1, <1>8 DEF Confirm, Approve, InState
  <2>2. "confirmed" \in States
    BY DEF States
  <2>3. HasParts(InState(x, "confirmed", q), q, "confirmed", q, b)
    BY <1>2, <2>2, InStateByParts, Zenon
  <2>4. b = 0 /\ s # "cancel"
    BY <1>3, <2>1 DEF SoundParts
  <2>5. b + q <= q /\ "confirmed" \notin {"draft", "to approve", "cancel"}
    BY <2>4
  <2>6. SoundParts(q, "confirmed", q, b)
    BY <2>5, Zenon DEF SoundParts
  <2>7. LivesIn(r, q, s, b, q, "confirmed", b)
    BY <2>4, <2>5, Zenon DEF LivesIn
  <2>8. QED
    BY <1>5, <2>1, <2>3, <2>6, <2>7, Zenon
<1>9. CASE Send(r)
  <2>1. Update(r, Moves(returns[r], "to approve")) /\ s = "draft"
    BY <1>1, <1>9, Zenon DEF Send, Moves
  <2>2. "to approve" \in States
    BY DEF States
  <2>3. HasParts(Moves(x, "to approve"), q, "to approve", d, b)
    BY <1>2, <2>2, MovesByParts, Zenon
  <2>4. SoundParts(q, "to approve", d, b)
    BY <1>3, <2>1 DEF SoundParts
  <2>5. LivesIn(r, q, s, b, q, "to approve", b)
    BY <2>1 DEF LivesIn
  <2>6. QED
    BY <1>5, <2>1, <2>3, <2>4, <2>5, Zenon
<1>10. CASE Cancel(r)
  <2>1. Update(r, InState(returns[r], "cancel", 0)) /\ (side = "purchase" => b = 0)
    BY <1>1, <1>10, Zenon DEF Cancel, InState
  <2>2. "cancel" \in States
    BY DEF States
  <2>3. HasParts(InState(x, "cancel", 0), q, "cancel", 0, b)
    BY <1>2, <1>4, <2>2, InStateByParts, Zenon
  <2>4. b + d <= q
    BY <1>3, Zenon DEF SoundParts
  <2>5. b + 0 <= q /\ "cancel" \notin {"draft", "to approve"}
    BY <2>4
  <2>6. SoundParts(q, "cancel", 0, b)
    BY <2>5, Zenon DEF SoundParts
  <2>7. LivesIn(r, q, s, b, q, "cancel", b)
    BY <1>10, <2>1, Zenon DEF LivesIn
  <2>8. QED
    BY <1>5, <2>1, <2>3, <2>6, <2>7, Zenon
<1>11. CASE Redraft(r)
  <2>1. Update(r, Moves(returns[r], "draft")) /\ s = "cancel" /\ b = 0
    BY <1>1, <1>11, Zenon DEF Redraft, Moves
  <2>2. "draft" \in States
    BY DEF States
  <2>3. HasParts(Moves(x, "draft"), q, "draft", d, b)
    BY <1>2, <2>2, MovesByParts, Zenon
  <2>4. SoundParts(q, "draft", d, b)
    BY <1>3, <2>1 DEF SoundParts
  <2>5. LivesIn(r, q, s, b, q, "draft", b)
    BY <1>11 DEF LivesIn
  <2>6. QED
    BY <1>5, <2>1, <2>3, <2>4, <2>5, Zenon
<1>12. QED
  BY <1>6, <1>7, <1>8, <1>9, <1>10, <1>11, Zenon DEF ReturnStep

------------------------------------------------------------------------------
(* The invariant                                                             *)

LEMMA InitHolds == Init => IInv
<1> SUFFICES ASSUME Init PROVE IInv
  OBVIOUS
<1>1. shipped = <<>> /\ returns = <<>> /\ DOMAIN <<>> = {}
  BY DEF Init
<1>2. shipped \in Seq(1..Ordered) /\ returns \in Seq(Return)
  BY <1>1, EmptySeq
<1>3. Moved = 0
  <2>1. shipped = [x \in {} |-> shipped[x]]
    BY <1>1
  <2>2. QED
    BY <1>1, <2>1, SumOfNone DEF Moved
<1>4. \A u \in User : wizard[u] = NoWizard
  BY DEF Init
<1>5. TypeOK
  BY <1>2, <1>3, OrderedTyped DEF Init, TypeOK
<1>6. ReturnsInv
  BY <1>1 DEF ReturnsInv
<1>7. WizardInv
  BY <1>4 DEF WizardInv
<1>8. QED
  BY <1>5, <1>6, <1>7 DEF IInv

LEMMA StepKeeps == IInv /\ [Next]_vars => IInv'
<1> SUFFICES ASSUME IInv, [Next]_vars PROVE IInv'
  OBVIOUS
<1>1. CASE UNCHANGED vars
  <2>1. UNCHANGED <<side, packing, shipped, returns, wizard>>
    BY <1>1 DEF vars
  <2>2. TypeOK'
    BY <2>1, SameReturns DEF IInv, TypeOK, Moved
  <2>3. ReturnsInv' /\ WizardInv'
    BY <2>1 DEF IInv, ReturnsInv, WizardInv, Goods
  <2>4. QED
    BY <2>2, <2>3 DEF IInv
<1>2. ASSUME NEW u \in User, WizardStep(u)
      PROVE  IInv'
  <2>1. CASE OpenSaleWizard(u)
    <3>1. PICK left : left = Moved - SumOf({r \in Valid : returns[r].linked})
      OBVIOUS
    <3>2. Open(u, "order", left)
      BY <2>1, <3>1 DEF OpenSaleWizard, SaleReturnedQty
    <3>3. QED
      BY <3>1, <3>2, OpenKeeps
  <2>2. CASE OpenPurchaseWizard(u)
    <3>1. PICK left : left = Moved - SumOf({r \in Valid : returns[r].linked})
      OBVIOUS
    <3>2. Open(u, "order", left)
      BY <2>2, <3>1 DEF OpenPurchaseWizard, PurchaseReturnedQty
    <3>3. QED
      BY <3>1, <3>2, OpenKeeps
  <2>3. CASE OpenBillWizard(u)
    <3>1. PICK left : left = Moved - SumOf({r \in Valid : returns[r].linked})
      OBVIOUS
    <3>2. Open(u, "bill", left)
      BY <2>3, <3>1 DEF OpenBillWizard, PurchaseReturnedQty
    <3>3. QED
      BY <3>1, <3>2, OpenKeeps
  <2>4. CASE \E q \in 0..Ordered :
          SaleCreateReturn(u, q) \/ PurchaseCreateReturn(u, q) \/ BillCreateReturn(u, q)
    BY <2>4, WizardReturnKeeps
  <2>5. QED
    BY <1>2, <2>1, <2>2, <2>3, <2>4 DEF WizardStep
<1>3. ASSUME NEW r \in DOMAIN returns, ReturnStep(r)
      PROVE  IInv'
  BY <1>3, StepOfReturn, UpdateKeeps
<1>4. CASE OrderStep
  BY <1>4, ShipKeeps, OtherReturnKeeps DEF OrderStep
<1>5. QED
  BY <1>1, <1>2, <1>3, <1>4 DEF Next

\* The invariant holds in every state: the types, and what each return and each
\* open wizard still knows of the goods on the line.
THEOREM Invariance == Spec => []IInv
<1>1. QED
  BY InitHolds, StepKeeps, PTL DEF Spec

\* The state of an order's line and its returns is what Odoo's fields allow; no
\* more is shipped than was ordered (sale_order.py, purchase_order.py).
THEOREM TypeCorrect == Spec => []TypeOK
<1>1. IInv => TypeOK
  BY DEF IInv
<1>2. QED
  BY <1>1, Invariance, PTL

------------------------------------------------------------------------------
(* Goods that came back are counted                                          *)

\* A step changes a return order that is there by a step of its life only.
LEMMA StepOnReturn ==
  ASSUME IInv, [Next]_vars, NEW r \in DOMAIN returns
  PROVE  r \in DOMAIN returns' /\ (returns'[r] = returns[r] \/ ReturnStep(r))
<1>0. returns \in Seq(Return)
  BY DEF IInv, TypeOK
<1>1. ASSUME returns' = returns
      PROVE  r \in DOMAIN returns' /\ returns'[r] = returns[r]
  BY <1>1
<1>2. ASSUME NEW q \in 0..Most, NEW n \in Units, NEW linked \in BOOLEAN, Add(q, n, linked)
      PROVE  r \in DOMAIN returns' /\ returns'[r] = returns[r]
  <2>1. PICK i : i = Len(returns) + 1
    OBVIOUS
  <2>2. /\ DOMAIN returns' = (DOMAIN returns) \cup {i}
        /\ \A p \in DOMAIN returns : returns'[p] = returns[p]
    BY <1>0, <1>2, <2>1, Added, Zenon
  <2>3. QED
    BY <2>2
<1>3. ASSUME NEW p \in DOMAIN returns, ReturnStep(p)
      PROVE  r \in DOMAIN returns' /\ (returns'[r] = returns[r] \/ r = p)
  <2>1. PICK new \in Return : Update(p, new)
    BY <1>3, StepOfReturn
  <2>2. /\ DOMAIN returns' = DOMAIN returns
        /\ \A o \in DOMAIN returns : o # p => returns'[o] = returns[o]
    BY <1>0, <2>1, Updated
  <2>3. QED
    BY <2>2
<1>a. packing \in Packings
  BY DEF IInv, TypeOK
<1>4. ASSUME NEW u \in User, WizardStep(u)
      PROVE  \/ returns' = returns
             \/ \E q \in 0..Most, n \in Units : Add(q, n, TRUE)
  <2>1. \/ returns' = returns
        \/ \E q \in 0..Ordered : Add(q, packing.line, TRUE)
    BY <1>4 DEF WizardStep, OpenSaleWizard, OpenPurchaseWizard, OpenBillWizard, Open,
         SaleCreateReturn, PurchaseCreateReturn, BillCreateReturn
  <2>2. packing.line \in Units /\ \A q \in 0..Ordered : q \in 0..Most
    BY <1>a, UnitsTyped, MostTyped, OrderedTyped
  <2>3. QED
    BY <2>1, <2>2
<1>5. ASSUME OrderStep
      PROVE  \/ returns' = returns
             \/ \E q \in 0..Most, n \in Units, linked \in BOOLEAN : Add(q, n, linked)
  <2>1. CASE \E q \in 1..Ordered : Ship(q)
    BY <2>1 DEF Ship
  <2>2. CASE PickingReturn \/ FormReturn
    BY <1>a, <2>2, OtherReturn
  <2>3. QED
    BY <1>5, <2>1, <2>2 DEF OrderStep
<1>6. QED
  <2>1. CASE UNCHANGED vars
    BY <1>1, <2>1 DEF vars
  <2>2. CASE \E u \in User : WizardStep(u)
    BY <1>1, <1>2, <1>4, <2>2
  <2>3. CASE OrderStep
    BY <1>1, <1>2, <1>5, <2>3
  <2>4. CASE \E p \in DOMAIN returns : ReturnStep(p)
    BY <1>3, <2>4
  <2>5. QED
    BY <2>1, <2>2, <2>3, <2>4 DEF Next

UncountedParts(b, q, s) == b > IF s = "cancel" THEN 0 ELSE q

LEMMA StepCounts ==
  ASSUME IInv, [Next]_vars, NEW r \in DOMAIN returns, Uncounted(r)', ~Uncounted(r)
  PROVE  side = "sale" /\ returns[r].back > 0 /\ Cancel(r)
<1>0. returns \in Seq(Return) /\ side \in {"sale", "purchase"} /\ packing \in Packings
  BY DEF IInv, TypeOK
<1>1. returns'[r] # returns[r]
  BY DEF Uncounted, Goods
<1>2. ReturnStep(r)
  BY <1>1, StepOnReturn
<1>3. PICK new \in Return : /\ Update(r, new) /\ Sound(new)
                            /\ Lives(r, returns[r], new)
  BY <1>2, StepOfReturn
<1>4. returns'[r] = new
  BY <1>0, <1>3, Updated
<1>5. PICK q \in Nat, b \in Nat, s \in {returns[r].state} :
        /\ q = Goods(r) /\ q = GoodsIn(returns[r])
        /\ b = returns[r].back /\ s = returns[r].state
  <2>1. /\ Goods(r) \in Nat /\ Goods(r) = GoodsIn(returns[r]) /\ returns[r].back \in Nat
    BY <1>0, ReturnsAreTyped
  <2>2. QED
    BY <2>1, Zenon
<1>6. PICK q1 \in Nat, d1 \in Nat, b1 \in Nat, s1 \in {new.state} :
        HasParts(new, q1, s1, d1, b1)
  <2>1. new.back \in Nat /\ GoodsIn(new) \in Nat /\ new.demand \in Nat
    BY <1>0, ReturnIsTyped, Zenon
  <2>2. QED
    BY <2>1, Zenon DEF HasParts
<1>7. UncountedParts(b1, q1, s1) /\ ~UncountedParts(b, q, s)
  <2>1. ~UncountedParts(b, q, s)
    BY <1>5, Zenon DEF Uncounted, UncountedParts
  <2>2. UncountedParts(b1, q1, s1)
    BY <1>4, <1>6, Zenon DEF Uncounted, UncountedParts, HasParts, Goods, GoodsIn
  <2>3. QED
    BY <2>1, <2>2
<1>8. b1 + d1 <= q1
  BY <1>3, <1>6, SoundByParts, Zenon DEF SoundParts
<1>9. s1 = "cancel" /\ b1 > 0
  <2>1. ~(b1 > q1)
    BY <1>8
  <2>2. QED
    BY <1>7, <2>1 DEF UncountedParts
<1>10. /\ s = "cancel" => b1 # b
       /\ b1 = b => b > 0
  BY <1>7, <1>9 DEF UncountedParts
<1>11. \/ (s1 = "cancel" <=> s = "cancel") /\ (s = "cancel" => b1 = b)
       \/ s1 = s /\ s = "draft"
       \/ s1 # "cancel"
       \/ b1 = b /\ Cancel(r) /\ (side = "purchase" => b = 0)
  BY <1>3, <1>5, <1>6, Zenon DEF Lives, HasParts
<1>12. b1 = b /\ Cancel(r) /\ (side = "purchase" => b = 0)
  BY <1>9, <1>10, <1>11
<1>13. b > 0 /\ side = "sale"
  BY <1>0, <1>10, <1>12
<1>14. QED
  BY <1>5, <1>12, <1>13

\* Goods that came back stay accounted for in x_returned_qty, unless a return of a
\* sale whose goods have come back is cancelled (sale_order_line.py).
THEOREM CountedForever == Spec => GoodsAreCounted
<1>1. IInv /\ [Next]_vars =>
        [\A r \in DOMAIN returns : Uncounted(r)' /\ ~Uncounted(r) =>
           side = "sale" /\ returns[r].back > 0 /\ Cancel(r)]_vars
  BY StepCounts
<1>2. QED
  BY <1>1, Invariance, PTL DEF Spec, GoodsAreCounted

------------------------------------------------------------------------------
(* Wizards return what is left                                               *)

LEMMA StepDraws ==
  ASSUME IInv, [Next]_vars, Overdrawn', ~Overdrawn
  PROVE  \/ \E u \in User : Misled(u) /\ WizardStep(u)
         \/ PickingReturn \/ FormReturn
         \/ \E r \in DOMAIN returns : Redraft(r) \/ ChangeQty(r)
<1> SUFFICES ASSUME \A u \in User : WizardStep(u) => ~Misled(u),
                    ~PickingReturn, ~FormReturn,
                    \A r \in DOMAIN returns : ~Redraft(r) /\ ~ChangeQty(r)
             PROVE  FALSE
  OBVIOUS
<1>0. /\ returns \in Seq(Return) /\ shipped \in Seq(1..Ordered) /\ TypeOK
      /\ packing \in Packings /\ Valid \in SUBSET DOMAIN returns
  BY DEF IInv, TypeOK, Valid
<1>1. /\ GoodsOf(Valid) \in Int /\ Moved \in Int /\ Moved * packing.line \in Int
  BY <1>0, SumsAreIntegers
<1>2. Left \in Int /\ Left >= 0
  BY <1>1 DEF Left, Overdrawn
<1>3. packing.line \in Nat /\ packing.line \in Units
  BY <1>0, UnitsTyped
<1>4. ASSUME packing' = packing, shipped' = shipped, returns' = returns
      PROVE  FALSE
  BY <1>4 DEF Overdrawn, Left, Moved, GoodsOf, Goods, Valid
<1>5. ASSUME NEW u \in User, WizardStep(u)
      PROVE  FALSE
  <2>1. ASSUME NEW q \in 0..Ordered, wizard[u] # NoWizard, q <= wizard[u].left,
               Add(q, packing.line, TRUE), Close(u)
        PROVE  FALSE
    <3>1. wizard[u].truly = {Left}
      BY <1>5, <2>1 DEF Misled
    <3>2. wizard[u].left * packing.line <= Left
      BY <2>1, <3>1 DEF IInv, WizardInv
    <3>3. q * packing.line <= Left
      <4>1. wizard[u].left \in Int
        <5>1. wizard[u] \in Opened
          BY <2>1 DEF IInv, TypeOK, Opened
        <5>2. QED
          BY <5>1 DEF Opened
      <4>2. q \in Int
        BY OrderedTyped
      <4>3. \A m \in Int : q <= m => q * packing.line <= m * packing.line
        <5>1. ASSUME NEW m \in Int, NEW n \in Int, NEW k \in Nat, n <= m
              PROVE  n * k <= m * k
          <6>1. m - n \in Nat
            BY <5>1
          <6>2. (m - n) * k \in Nat
            BY <6>1, Product
          <6>3. (m - n) * k = m * k - n * k
            OBVIOUS
          <6>4. QED
            BY <6>2, <6>3
        <5>2. QED
          BY <1>3, <4>2, <5>1
      <4>4. q * packing.line <= wizard[u].left * packing.line
        BY <2>1, <4>1, <4>3
      <4>5. /\ q * packing.line \in Int /\ wizard[u].left * packing.line \in Int
        BY <1>3, <4>1, <4>2
      <4>6. QED
        BY <1>2, <3>2, <4>4, <4>5
    <3>4. shipped' = shipped /\ packing' = packing
      BY <2>1 DEF Close
    <3>5. q \in 0..Most /\ q * packing.line \in Int
      BY <1>0, <1>3, OrderedTyped, MostTyped
    <3>6. Left' = Left - q * packing.line
      BY <1>0, <1>3, <2>1, <3>4, <3>5, AddTakes
    <3>7. QED
      BY <1>2, <3>3, <3>5, <3>6 DEF Overdrawn
  <2>2. CASE OpenSaleWizard(u) \/ OpenPurchaseWizard(u) \/ OpenBillWizard(u)
    BY <1>4, <2>2 DEF OpenSaleWizard, OpenPurchaseWizard, OpenBillWizard, Open
  <2>3. CASE \E q \in 0..Ordered :
          SaleCreateReturn(u, q) \/ PurchaseCreateReturn(u, q) \/ BillCreateReturn(u, q)
    <3>1. PICK q \in 0..Ordered :
            SaleCreateReturn(u, q) \/ PurchaseCreateReturn(u, q) \/ BillCreateReturn(u, q)
      BY <2>3
    <3>2. CASE returns' = returns
      BY <1>4, <3>1, <3>2 DEF SaleCreateReturn, PurchaseCreateReturn, BillCreateReturn, Close
    <3>3. CASE returns' # returns
      <4>1. /\ wizard[u] # NoWizard /\ q <= wizard[u].left
            /\ Add(q, packing.line, TRUE) /\ Close(u)
        BY <3>1, <3>3 DEF SaleCreateReturn, PurchaseCreateReturn, BillCreateReturn, IsOpen
      <4>2. QED
        BY <2>1, <4>1
    <3>4. QED
      BY <3>2, <3>3
  <2>4. QED
    BY <1>5, <2>2, <2>3 DEF WizardStep
<1>6. ASSUME NEW r \in DOMAIN returns, ReturnStep(r)
      PROVE  FALSE
  <2>1. CASE Cancel(r)
    <3>1. Left' >= Left /\ Left' \in Int
      BY <1>0, <2>1, CancelGives
    <3>2. QED
      BY <1>2, <3>1 DEF Overdrawn
  <2>2. CASE ~Cancel(r)
    <3>1. PICK new \in Return : Update(r, new) /\ Lives(r, returns[r], new)
      BY <1>6, StepOfReturn
    <3>2. /\ GoodsIn(new) = GoodsIn(returns[r])
          /\ (new.state = "cancel") <=> (returns[r].state = "cancel")
      BY <2>2, <3>1, Zenon DEF Lives
    <3>3. Left' = Left
      BY <1>0, <3>1, <3>2, OthersLeave, Zenon
    <3>4. QED
      BY <3>3 DEF Overdrawn
  <2>3. QED
    BY <2>1, <2>2
<1>7. ASSUME NEW q \in 1..Ordered, Ship(q)
      PROVE  FALSE
  <2>1. shipped' = Append(shipped, q) /\ returns' = returns /\ packing' = packing
    BY <1>7 DEF Ship
  <2>2. shipped \in Seq(Int) /\ q \in Nat
    <3>1. 1..Ordered \in SUBSET Int
      BY OrderedTyped
    <3>2. QED
      BY <1>0, <3>1, OrderedTyped
  <2>3. Moved' = q + Moved
    BY <2>1, <2>2, SumOfAppended DEF Moved
  <2>4. (Moved * packing.line)' = q * packing.line + Moved * packing.line
    <3>1. (Moved * packing.line)' = Moved' * packing.line
      BY <2>1
    <3>2. \A m, n, k \in Int : (m + n) * k = m * k + n * k
      OBVIOUS
    <3>3. QED
      BY <1>1, <1>3, <2>2, <2>3, <3>1, <3>2
  <2>5. q * packing.line \in Nat
    BY <1>3, <2>2, Product
  <2>6. GoodsOf(Valid)' = GoodsOf(Valid)
    BY <2>1 DEF GoodsOf, Goods, Valid
  <2>7. Left' = (Moved * packing.line)' - GoodsOf(Valid)'
    BY DEF Left
  <2>8. Left = Moved * packing.line - GoodsOf(Valid)
    BY DEF Left
  <2>9. Left' >= 0
    BY <1>1, <1>2, <2>4, <2>5, <2>6, <2>7, <2>8
  <2>10. QED
    BY <2>9, <1>1, <2>4, <2>5, <2>6, <2>7 DEF Overdrawn
<1>8. CASE UNCHANGED vars
  BY <1>4, <1>8 DEF vars
<1>9. QED
  BY <1>5, <1>6, <1>7, <1>8 DEF Next, OrderStep

\* More goods are put on return orders than were moved only past what the wizards
\* guard: a wizard that was open before another return was made or that does not see
\* one for what it is, a picking, the form, an edit or a return set to draft again
\* (sale_return_wizard.py:95, purchase_return_wizard.py:103, :109).
THEOREM WizardsGuard == Spec => WizardsReturnWhatIsLeft
<1>1. IInv /\ [Next]_vars =>
        [Overdrawn' /\ ~Overdrawn =>
           \/ \E u \in User : Misled(u) /\ WizardStep(u)
           \/ PickingReturn \/ FormReturn
           \/ \E r \in DOMAIN returns : Redraft(r) \/ ChangeQty(r)]_vars
  BY StepDraws
<1>2. QED
  BY <1>1, Invariance, PTL DEF Spec, WizardsReturnWhatIsLeft

================================================================================
