-------------------------- MODULE WarehouseCostProofs --------------------------
(***************************************************************************)
(* Proofs about WarehouseCost, for every set of warehouses, orders and     *)
(* quantities and any number of operations: the types, that the layers     *)
(* follow the stock, and that the cost of a warehouse follows its layers.  *)
(*                                                                         *)
(* An amount is in lowest terms, so two that are worth the same are equal: *)
(* equations between them are proved over a common denominator.            *)
(***************************************************************************)
EXTENDS WarehouseCost, Induction, SequenceTheorems

------------------------------------------------------------------------------
(* Division                                                                  *)

LEMMA DivMod ==
  ASSUME NEW a \in Nat, NEW b \in Nat \ {0}
  PROVE  \E q \in Int, r \in Nat : r = a % b /\ r < b /\ a = b * q + r
<1> DEFINE q == a \div b
           r == a % b
<1>1. r \in Nat /\ r < b /\ q \in Int /\ a - r = b * q
  OBVIOUS
<1>2. r = a % b
  OBVIOUS
<1> HIDE DEF q, r
<1>3. a = b * q + r
  BY <1>1
<1>4. QED
  BY <1>1, <1>2, <1>3

LEMMA Cancel ==
  ASSUME NEW u \in Int, NEW v \in Int, NEW k \in Int \ {0}, u * k = v * k
  PROVE  u = v
OBVIOUS

LEMMA DivUnique ==
  ASSUME NEW b \in Nat \ {0}, NEW q \in Int, NEW r \in Nat, r < b
  PROVE  /\ (b * q + r) % b = r
         /\ (b * q + r) \div b = q
OBVIOUS

LEMMA Whole1 ==
  ASSUME NEW b \in Nat \ {0}, NEW q \in Int
  PROVE  (b * q) \div b = q
OBVIOUS

LEMMA ScaleMod ==
  ASSUME NEW a \in Nat, NEW b \in Nat \ {0}, NEW k \in Nat \ {0}
  PROVE  (k * a) % (k * b) = k * (a % b)
<1>1. PICK q \in Int, r \in Nat : r = a % b /\ r < b /\ a = b * q + r
  BY DivMod
<1>2. r = a % b /\ r < b /\ a = b * q + r
  BY <1>1
<1>3. k * a = (k * b) * q + k * r
  BY <1>2
<1>4. k * r \in Nat /\ k * r < k * b /\ k * b \in Nat \ {0}
  BY <1>2
<1>5. (k * a) % (k * b) = k * r
  <2> DEFINE m == k * b
             t == k * r
  <2>1. m \in Nat \ {0} /\ t \in Nat /\ t < m /\ k * a = m * q + t
    BY <1>3, <1>4
  <2> HIDE DEF m, t
  <2>2. (m * q + t) % m = t
    BY <1>2, <2>1, DivUnique
  <2>3. (k * a) % m = t
    BY <2>1, <2>2
  <2>4. QED
    BY <2>3 DEF m, t
<1>6. QED
  BY <1>2, <1>5

------------------------------------------------------------------------------
(* Amounts over a common denominator                                         *)

\* a is what n divided by d is.
Is(a, n, d) == a[1] * d = n * a[2]


LEMMA IsPlus ==
  ASSUME NEW a \in Amounts, NEW b \in Amounts, NEW p \in Amounts,
         Is(p, a[1] * b[2] + b[1] * a[2], a[2] * b[2]),
         NEW x \in Int, NEW y \in Int, NEW D \in Int \ {0}, Is(a, x, D), Is(b, y, D)
  PROVE  Is(p, x + y, D)
<1> DEFINE a1 == a[1]
           a2 == a[2]
           b1 == b[1]
           b2 == b[2]
           p1 == p[1]
           p2 == p[2]
<1>1. a1 \in Int /\ a2 \in Int \ {0} /\ b1 \in Int /\ b2 \in Int \ {0} /\ p1 \in Int /\ p2 \in Int \ {0}
  BY DEF Amounts
<1>2. p1 * (a2 * b2) = (a1 * b2 + b1 * a2) * p2 /\ a1 * D = x * a2 /\ b1 * D = y * b2
  BY DEF Is
<1> HIDE DEF a1, a2, b1, b2, p1, p2
<1>3. (p1 * D) * (a2 * b2) = (p1 * (a2 * b2)) * D
  BY <1>1
<1>4. ((a1 * b2 + b1 * a2) * p2) * D = ((a1 * D) * b2 + (b1 * D) * a2) * p2
  BY <1>1
<1>5. ((x * a2) * b2 + (y * b2) * a2) * p2 = ((x + y) * p2) * (a2 * b2)
  BY <1>1
<1>6. (p1 * D) * (a2 * b2) = ((x + y) * p2) * (a2 * b2)
  BY <1>2, <1>3, <1>4, <1>5
<1>7. a2 * b2 \in Int \ {0} /\ p1 * D \in Int /\ (x + y) * p2 \in Int
  BY <1>1
<1>8. p1 * D = (x + y) * p2
  BY <1>6, <1>7, Cancel
<1>9. QED
  BY <1>8 DEF Is, p1, p2

LEMMA IsTimes ==
  ASSUME NEW a \in Amounts, NEW p \in Amounts, NEW n \in Int, Is(p, a[1] * n, a[2]),
         NEW x \in Int, NEW D \in Int \ {0}, Is(a, x, D)
  PROVE  Is(p, x * n, D)
<1> DEFINE a1 == a[1]
           a2 == a[2]
           p1 == p[1]
           p2 == p[2]
<1>1. a1 \in Int /\ a2 \in Int \ {0} /\ p1 \in Int /\ p2 \in Int \ {0}
  BY DEF Amounts
<1>2. p1 * a2 = (a1 * n) * p2 /\ a1 * D = x * a2
  BY DEF Is
<1> HIDE DEF a1, a2, p1, p2
<1>3. (p1 * D) * a2 = (p1 * a2) * D /\ ((a1 * n) * p2) * D = (a1 * D) * (n * p2)
  BY <1>1
<1>4. (x * a2) * (n * p2) = ((x * n) * p2) * a2
  BY <1>1
<1>5. (p1 * D) * a2 = ((x * n) * p2) * a2
  BY <1>2, <1>3, <1>4
<1>6. p1 * D \in Int /\ (x * n) * p2 \in Int
  BY <1>1
<1>7. p1 * D = (x * n) * p2
  BY <1>1, <1>5, <1>6, Cancel
<1>8. QED
  BY <1>7 DEF Is, p1, p2

LEMMA IsOver ==
  ASSUME NEW a \in Amounts, NEW p \in Amounts, NEW n \in Int \ {0}, Is(p, a[1], a[2] * n),
         NEW x \in Int, NEW D \in Int \ {0}, Is(a, x, D)
  PROVE  Is(p, x, D * n)
<1> DEFINE a1 == a[1]
           a2 == a[2]
           p1 == p[1]
           p2 == p[2]
<1>1. a1 \in Int /\ a2 \in Int \ {0} /\ p1 \in Int /\ p2 \in Int \ {0}
  BY DEF Amounts
<1>2. p1 * (a2 * n) = a1 * p2 /\ a1 * D = x * a2
  BY DEF Is
<1> HIDE DEF a1, a2, p1, p2
<1>3. (p1 * (D * n)) * a2 = (p1 * (a2 * n)) * D /\ (a1 * p2) * D = (a1 * D) * p2
  BY <1>1
<1>4. (x * a2) * p2 = (x * p2) * a2
  BY <1>1
<1>5. (p1 * (D * n)) * a2 = (x * p2) * a2
  BY <1>2, <1>3, <1>4
<1>6. p1 * (D * n) \in Int /\ x * p2 \in Int
  BY <1>1
<1>7. p1 * (D * n) = x * p2
  BY <1>1, <1>5, <1>6, Cancel
<1>8. QED
  BY <1>7 DEF Is, p1, p2

LEMMA IsScaled ==
  ASSUME NEW a \in Amounts, NEW x \in Int, NEW D \in Int \ {0}, NEW k \in Int \ {0}
  PROVE  Is(a, x, D) <=> Is(a, x * k, D * k)
<1> DEFINE a1 == a[1]
           a2 == a[2]
<1>1. a1 \in Int /\ a2 \in Int \ {0}
  BY DEF Amounts
<1> HIDE DEF a1, a2
<1>2. (a1 * D) * k = a1 * (D * k) /\ (x * a2) * k = (x * k) * a2
  BY <1>1
<1>3. a1 * D \in Int /\ x * a2 \in Int
  BY <1>1
<1>4. a1 * D = x * a2 <=> a1 * (D * k) = (x * k) * a2
  BY <1>2, <1>3, Cancel
<1>5. QED
  BY <1>4 DEF Is, a1, a2

------------------------------------------------------------------------------
(* The greatest common divisor                                               *)

Pairs == Nat \X Nat
GcdStep == [z \in Pairs \X [Pairs -> Nat] |->
              IF z[1][2] = 0 THEN z[1][1] ELSE z[2][<<z[1][2], z[1][1] % z[1][2]>>]]
Second == [p \in Pairs |-> p[2]]

LEMMA GcdSteps ==
  /\ Second \in [Pairs -> Nat]
  /\ FromLower(GcdStep, Pairs, Second, Nat)
<1>1. Second \in [Pairs -> Nat] /\ \A p \in Pairs : Second[p] = p[2]
  BY DEF Second, Pairs
<1>2. ASSUME NEW p \in Pairs, p[2] # 0
      PROVE  <<p[2], p[1] % p[2]>> \in Pairs /\ Second[<<p[2], p[1] % p[2]>>] < Second[p]
  <2>1. p[1] \in Nat /\ p[2] \in Nat \ {0}
    BY <1>2 DEF Pairs
  <2>2. p[1] % p[2] \in Nat /\ p[1] % p[2] < p[2]
    BY <2>1
  <2>3. <<p[2], p[1] % p[2]>> \in Pairs
    BY <2>1, <2>2 DEF Pairs
  <2>4. QED
    BY <1>1, <2>2, <2>3
<1>3. ASSUME NEW p \in Pairs, NEW f \in [Pairs -> Nat]
      PROVE  GcdStep[<<p, f>>] = IF p[2] = 0 THEN p[1] ELSE f[<<p[2], p[1] % p[2]>>]
  BY DEF GcdStep
<1>4. \A p \in Pairs : p[1] \in Nat /\ p[2] \in Nat
  BY DEF Pairs
<1>5. GcdStep \in [Pairs \X [Pairs -> Nat] -> Nat]
  <2>1. ASSUME NEW z \in Pairs \X [Pairs -> Nat]
        PROVE  (IF z[1][2] = 0 THEN z[1][1] ELSE z[2][<<z[1][2], z[1][1] % z[1][2]>>]) \in Nat
    <3>1. z[1] \in Pairs /\ z[2] \in [Pairs -> Nat]
      OBVIOUS
    <3>2. QED
      BY <1>2, <1>4, <3>1
  <2>2. QED
    BY <2>1 DEF GcdStep
<1>6. ASSUME NEW p \in Pairs, NEW f \in [Pairs -> Nat], NEW g \in [Pairs -> Nat],
             \A q \in Pairs : Second[q] < Second[p] => f[q] = g[q]
      PROVE  GcdStep[<<p, f>>] = GcdStep[<<p, g>>]
  <2>1. CASE p[2] = 0
    BY <1>3, <2>1
  <2>2. CASE p[2] # 0
    <3>1. f[<<p[2], p[1] % p[2]>>] = g[<<p[2], p[1] % p[2]>>]
      BY <1>2, <1>6, <2>2
    <3>2. QED
      BY <1>3, <2>2, <3>1
  <2>3. QED
    BY <2>1, <2>2
<1>7. QED
  BY <1>1, <1>5, <1>6 DEF FromLower

LEMMA GcdIs ==
  \A p \in Pairs : /\ gcd[p] \in Nat
                   /\ gcd[p] = IF p[2] = 0 THEN p[1] ELSE gcd[<<p[2], p[1] % p[2]>>]
<1>1. PICK F \in [Pairs -> Nat] : Solves(F, GcdStep, Pairs)
  <2>1. Nat # {}
    OBVIOUS
  <2>2. QED
    BY <2>1, GcdSteps, RecursionByRank
<1>2. \A p \in Pairs : F[p] = GcdStep[<<p, F>>]
  BY <1>1 DEF Solves
<1>3. \A p \in Pairs : GcdStep[<<p, F>>] = IF p[2] = 0 THEN p[1] ELSE F[<<p[2], p[1] % p[2]>>]
  BY DEF GcdStep
<1>4. F = [p \in Nat \X Nat |-> IF p[2] = 0 THEN p[1] ELSE F[<<p[2], p[1] % p[2]>>]]
  BY <1>2, <1>3 DEF Pairs
<1>5. gcd = [p \in Nat \X Nat |-> IF p[2] = 0 THEN p[1] ELSE gcd[<<p[2], p[1] % p[2]>>]]
  BY <1>4, Zenon DEF gcd
<1> DEFINE Good == {p \in Pairs : gcd[p] \in Nat}
<1>6. \A p \in Pairs : gcd[p] = IF p[2] = 0 THEN p[1] ELSE gcd[<<p[2], p[1] % p[2]>>]
  BY <1>5 DEF Pairs
<1>7. \A p \in Pairs : p[2] # 0 => <<p[2], p[1] % p[2]>> \in Pairs
                                  /\ Second[<<p[2], p[1] % p[2]>>] < Second[p]
  BY DEF Second, Pairs
<1>8. ASSUME NEW p \in Pairs, \A q \in Pairs : Second[q] < Second[p] => q \in Good
      PROVE  p \in Good
  <2>1. CASE p[2] = 0
    BY <1>6, <2>1 DEF Pairs
  <2>2. CASE p[2] # 0
    BY <1>6, <1>7, <1>8, <2>2
  <2>3. QED
    BY <2>1, <2>2
<1> HIDE DEF Good
<1>9. Pairs \subseteq Good
  BY <1>8, GcdSteps, InductionByRank
<1>10. QED
  BY <1>6, <1>9 DEF Good

LEMMA GcdScales ==
  ASSUME NEW k \in Nat \ {0}
  PROVE  \A p \in Pairs : gcd[<<k * p[1], k * p[2]>>] = k * gcd[p]
<1> DEFINE Good == {p \in Pairs : gcd[<<k * p[1], k * p[2]>>] = k * gcd[p]}
<1>1. ASSUME NEW p \in Pairs, \A q \in Pairs : Second[q] < Second[p] => q \in Good
      PROVE  p \in Good
  <2> DEFINE a == p[1]
             b == p[2]
  <2>1. p = <<a, b>> /\ a \in Nat /\ b \in Nat
    BY DEF Pairs
  <2> HIDE DEF a, b
  <2>2. <<k * a, k * b>> \in Pairs
    BY <2>1 DEF Pairs
  <2>3. gcd[<<k * a, k * b>>] = IF k * b = 0 THEN k * a ELSE gcd[<<k * b, (k * a) % (k * b)>>]
    BY <2>2, GcdIs
  <2>4. gcd[p] = IF b = 0 THEN a ELSE gcd[<<b, a % b>>]
    BY <2>1, GcdIs
  <2>5. gcd[<<k * a, k * b>>] = k * gcd[p]
    <3>1. CASE b = 0
      BY <2>1, <2>3, <2>4, <3>1
    <3>2. CASE b # 0
      <4>1. b \in Nat \ {0} /\ a % b \in Nat /\ a % b < b
        BY <2>1, <3>2
      <4>2. <<b, a % b>> \in Pairs /\ Second[<<b, a % b>>] < Second[p]
        BY <2>1, <4>1 DEF Pairs, Second
      <4>3. gcd[<<k * b, k * (a % b)>>] = k * gcd[<<b, a % b>>]
        BY <1>1, <4>2
      <4>4. (k * a) % (k * b) = k * (a % b)
        BY <2>1, <4>1, ScaleMod
      <4>5. k * b # 0
        BY <4>1
      <4>6. QED
        BY <2>3, <2>4, <3>2, <4>3, <4>4, <4>5
    <3>3. QED
      BY <3>1, <3>2
  <2>6. QED
    BY <2>1, <2>5
<1> HIDE DEF Good
<1>2. Pairs \subseteq Good
  BY <1>1, GcdSteps, InductionByRank
<1>3. QED
  BY <1>2 DEF Good

LEMMA GcdDivides ==
  \A p \in Pairs : \E x \in Nat, y \in Nat : p[1] = gcd[p] * x /\ p[2] = gcd[p] * y
<1> DEFINE Good == {p \in Pairs : \E x \in Nat, y \in Nat : p[1] = gcd[p] * x /\ p[2] = gcd[p] * y}
<1>1. ASSUME NEW p \in Pairs, \A q \in Pairs : Second[q] < Second[p] => q \in Good
      PROVE  p \in Good
  <2> DEFINE a == p[1]
             b == p[2]
             g == gcd[p]
  <2>1. p = <<a, b>> /\ a \in Nat /\ b \in Nat
    BY DEF Pairs
  <2>2. g = IF b = 0 THEN a ELSE gcd[<<b, a % b>>]
    BY <2>1, GcdIs
  <2>3. g \in Nat
    BY GcdIs
  <2>4. SUFFICES \E x \in Nat, y \in Nat : a = g * x /\ b = g * y
    OBVIOUS
  <2> HIDE DEF a, b, g
  <2>5. CASE b = 0
    <3>1. a = g * 1 /\ b = g * 0
      BY <2>1, <2>2, <2>3, <2>5
    <3>2. QED
      BY <3>1
  <2>6. CASE b # 0
    <3>1. b \in Nat \ {0} /\ a % b \in Nat /\ a % b < b
      BY <2>1, <2>6
    <3>2. <<b, a % b>> \in Pairs /\ Second[<<b, a % b>>] < Second[p]
      BY <2>1, <3>1 DEF Pairs, Second
    <3>3. PICK x \in Nat, y \in Nat : b = g * x /\ a % b = g * y
      BY <1>1, <2>2, <2>6, <3>2
    <3>4. PICK q \in Int, r \in Nat : r = a % b /\ r < b /\ a = b * q + r
      BY <2>1, <3>1, DivMod
    <3>5. a = (g * x) * q + g * y
      BY <3>3, <3>4
    <3>6. (g * x) * q + g * y = g * (x * q + y)
      BY <2>3
    <3>7. x * q + y \in Nat
      <4>1. q \in Nat
        <5>1. q >= 0 \/ b * q <= -b
          BY <3>1, <3>4
        <5>2. QED
          BY <2>1, <3>1, <3>4, <5>1
      <4>2. x * q \in Nat
        BY <4>1
      <4>3. QED
        BY <4>2
    <3>8. QED
      BY <3>3, <3>5, <3>6, <3>7
  <2>7. QED
    BY <2>5, <2>6
<1> HIDE DEF Good
<1>2. Pairs \subseteq Good
  BY <1>1, GcdSteps, InductionByRank
<1>3. QED
  BY <1>2 DEF Good

------------------------------------------------------------------------------
(* Amounts in lowest terms                                                   *)

LEMMA AmountOfParts ==
  ASSUME NEW n \in Int, NEW d \in Int \ {0}, NEW g \in Nat \ {0}, g = gcd[<<Abs(n), Abs(d)>>],
         NEW x \in Int, NEW y \in Int \ {0}, n = g * x, d = g * y
  PROVE  Amount(n, d) = IF y < 0 THEN <<-x, -y>> ELSE <<x, y>>
<1>1. n \div g = x
  BY Whole1
<1>2. d < 0 <=> y < 0
  OBVIOUS
<1>3. Abs(d) = g * (IF y < 0 THEN -y ELSE y)
  BY <1>2 DEF Abs
<1>4. Abs(d) \div g = IF y < 0 THEN -y ELSE y
  BY <1>3, Whole1
<1>5. y >= 0 => d \div g = y
  BY Whole1
<1>6. Amount(n, d) = IF d < 0 THEN <<-(n \div g), Abs(d) \div g>> ELSE <<n \div g, d \div g>>
  BY DEF Amount
<1> HIDE DEF Abs
<1>7. QED
  BY <1>1, <1>2, <1>4, <1>5, <1>6

LEMMA PartsOfAmount ==
  ASSUME NEW n \in Int, NEW d \in Int \ {0}
  PROVE  \E g \in Nat \ {0}, x \in Int, y \in Int \ {0} :
           g = gcd[<<Abs(n), Abs(d)>>] /\ n = g * x /\ d = g * y
<1> DEFINE a == Abs(n)
           b == Abs(d)
           g == gcd[<<a, b>>]
<1>1. a \in Nat /\ b \in Nat \ {0} /\ (a = n \/ a = -n) /\ (b = d \/ b = -d)
  BY DEF Abs
<1> HIDE DEF a, b
<1>2. <<a, b>> \in Pairs
  BY <1>1 DEF Pairs
<1>3. g \in Nat /\ \E x \in Nat, y \in Nat : a = g * x /\ b = g * y
  BY <1>2, GcdIs, GcdDivides
<1>4. PICK x \in Nat, y \in Nat : a = g * x /\ b = g * y
  BY <1>3
<1>5. g = gcd[<<Abs(n), Abs(d)>>]
  BY DEF a, b
<1> HIDE DEF g
<1>6. g \in Nat \ {0} /\ y \in Nat \ {0}
  BY <1>1, <1>3, <1>4
<1>7. -a = g * (-x) /\ -b = g * (-y)
  BY <1>1, <1>4, <1>6
<1>8. n \in {g * x, g * (-x)} /\ d \in {g * y, g * (-y)}
  BY <1>1, <1>4, <1>7
<1>9. x \in Int /\ -x \in Int /\ y \in Int \ {0} /\ -y \in Int \ {0}
  BY <1>6
<1>10. QED
  BY <1>5, <1>6, <1>8, <1>9

LEMMA AmountIs ==
  ASSUME NEW n \in Int, NEW d \in Int \ {0}
  PROVE  Amount(n, d) \in Amounts /\ Is(Amount(n, d), n, d)
<1>1. PICK g \in Nat \ {0}, x \in Int, y \in Int \ {0} :
        g = gcd[<<Abs(n), Abs(d)>>] /\ n = g * x /\ d = g * y
  BY PartsOfAmount
<1>2. Amount(n, d) = IF y < 0 THEN <<-x, -y>> ELSE <<x, y>>
  BY <1>1, AmountOfParts
<1>3. x * d = n * y /\ (-x) * d = n * (-y)
  <2>1. x * (g * y) = (g * x) * y /\ (-x) * (g * y) = (g * x) * (-y)
    OBVIOUS
  <2>2. QED
    BY <1>1, <2>1
<1>4. CASE y < 0
  <2>1. -x \in Int /\ -y \in Nat \ {0}
    BY <1>4
  <2>2. QED
    BY <1>2, <1>3, <1>4, <2>1 DEF Is, Amounts
<1>5. CASE ~(y < 0)
  <2>1. x \in Int /\ y \in Nat \ {0}
    BY <1>5
  <2>2. QED
    BY <1>2, <1>3, <1>5, <2>1 DEF Is, Amounts
<1>6. QED
  BY <1>4, <1>5

\* A common factor of n and d changes nothing.
LEMMA AmountScales ==
  ASSUME NEW n \in Int, NEW d \in Int \ {0}, NEW k \in Int \ {0}
  PROVE  Amount(n * k, d * k) = Amount(n, d)
<1>1. PICK g \in Nat \ {0}, x \in Int, y \in Int \ {0} :
        g = gcd[<<Abs(n), Abs(d)>>] /\ n = g * x /\ d = g * y
  BY PartsOfAmount
<1>2. Amount(n, d) = IF y < 0 THEN <<-x, -y>> ELSE <<x, y>>
  BY <1>1, AmountOfParts
<1> DEFINE a == Abs(n)
           b == Abs(d)
           j == Abs(k)
           s == IF k < 0 THEN -1 ELSE 1
<1>3. a \in Nat /\ b \in Nat /\ j \in Nat \ {0} /\ s \in {1, -1} /\ k = j * s /\ (s = -1 <=> k < 0)
  BY DEF Abs
<1>4. Abs(n * k) = j * a /\ Abs(d * k) = j * b
  <2>1. \A u \in Int : Abs(u * k) = Abs(k) * Abs(u)
    <3> SUFFICES ASSUME NEW u \in Int PROVE Abs(u * k) = Abs(k) * Abs(u)
      OBVIOUS
    <3>1. CASE k < 0 /\ u < 0
      <4>1. u * k >= 0 /\ u * k = (-k) * (-u)
        BY <3>1
      <4>2. QED
        BY <3>1, <4>1 DEF Abs
    <3>2. CASE k < 0 /\ ~(u < 0)
      <4>1. u * k <= 0 /\ -(u * k) = (-k) * u
        BY <3>2
      <4>2. QED
        BY <3>2, <4>1 DEF Abs
    <3>3. CASE ~(k < 0) /\ u < 0
      <4>1. u * k <= 0 /\ -(u * k) = k * (-u)
        BY <3>3
      <4>2. QED
        BY <3>3, <4>1 DEF Abs
    <3>4. CASE ~(k < 0) /\ ~(u < 0)
      <4>1. u * k >= 0 /\ u * k = k * u
        BY <3>4
      <4>2. QED
        BY <3>4, <4>1 DEF Abs
    <3>5. QED
      BY <3>1, <3>2, <3>3, <3>4
  <2>2. QED
    BY <2>1
<1>5. g = gcd[<<a, b>>]
  BY <1>1
<1> HIDE DEF a, b, j, s
<1>6. gcd[<<j * a, j * b>>] = j * g
  <2>1. <<a, b>> \in Pairs
    BY <1>3 DEF Pairs
  <2>2. QED
    BY <1>3, <1>5, <2>1, GcdScales
<1>7. n * k = (j * g) * (s * x) /\ d * k = (j * g) * (s * y)
  <2>1. (g * x) * (j * s) = (j * g) * (s * x) /\ (g * y) * (j * s) = (j * g) * (s * y)
    BY <1>3
  <2>2. QED
    BY <1>1, <1>3, <2>1
<1>8. j * g \in Nat \ {0} /\ s * x \in Int /\ s * y \in Int \ {0} /\ n * k \in Int /\ d * k \in Int \ {0}
  BY <1>3
<1>9. Amount(n * k, d * k) = IF s * y < 0 THEN <<-(s * x), -(s * y)>> ELSE <<s * x, s * y>>
  <2> DEFINE nn == n * k
             dd == d * k
             gg == j * g
             xx == s * x
             yy == s * y
  <2>1. gg = gcd[<<Abs(nn), Abs(dd)>>]
    BY <1>4, <1>6
  <2>2. nn \in Int /\ dd \in Int \ {0} /\ gg \in Nat \ {0} /\ xx \in Int /\ yy \in Int \ {0} /\ nn = gg * xx /\ dd = gg * yy
    BY <1>7, <1>8
  <2> HIDE DEF nn, dd, gg, xx, yy
  <2>3. Amount(nn, dd) = IF yy < 0 THEN <<-xx, -yy>> ELSE <<xx, yy>>
    BY <2>1, <2>2, AmountOfParts
  <2>4. QED
    BY <2>3 DEF nn, dd, xx, yy
<1>10. CASE s = 1
  <2>1. s * x = x /\ s * y = y
    BY <1>10
  <2>2. QED
    BY <1>2, <1>9, <2>1
<1>11. CASE s = -1
  <2>1. s * x = -x /\ s * y = -y /\ -(-x) = x /\ -(-y) = y /\ (-y < 0 <=> ~(y < 0))
    BY <1>11
  <2>2. QED
    BY <1>2, <1>9, <2>1
<1>12. QED
  BY <1>3, <1>10, <1>11

\* Equal quotients are one amount.
LEMMA AmountIsOne ==
  ASSUME NEW n \in Int, NEW d \in Int \ {0}, NEW m \in Int, NEW e \in Int \ {0}, n * e = m * d
  PROVE  Amount(n, d) = Amount(m, e)
<1>1. Amount(n * e, d * e) = Amount(n, d) /\ Amount(m * d, e * d) = Amount(m, e)
  BY AmountScales
<1>2. d * e = e * d
  OBVIOUS
<1>3. QED
  BY <1>1, <1>2

------------------------------------------------------------------------------
(* Computing with amounts                                                    *)

LEMMA PlusIs ==
  ASSUME NEW a \in Amounts, NEW b \in Amounts
  PROVE  /\ Plus(a, b) \in Amounts
         /\ Plus(a, b) = Amount(a[1] * b[2] + b[1] * a[2], a[2] * b[2])
         /\ Is(Plus(a, b), a[1] * b[2] + b[1] * a[2], a[2] * b[2])
         /\ a[1] * b[2] + b[1] * a[2] \in Int /\ a[2] * b[2] \in Int \ {0}
<1>1. a[1] \in Int /\ a[2] \in Nat \ {0} /\ b[1] \in Int /\ b[2] \in Nat \ {0}
  BY DEF Amounts
<1>2. a[1] * b[2] + b[1] * a[2] \in Int /\ a[2] * b[2] \in Int \ {0}
  BY <1>1
<1>3. QED
  BY <1>2, AmountIs DEF Plus

LEMMA TimesIs ==
  ASSUME NEW a \in Amounts, NEW n \in Int
  PROVE  Times(a, n) \in Amounts /\ Is(Times(a, n), a[1] * n, a[2])
<1>1. a[1] \in Int /\ a[2] \in Nat \ {0}
  BY DEF Amounts
<1>2. a[1] * n \in Int /\ a[2] \in Int \ {0}
  BY <1>1
<1>3. QED
  BY <1>2, AmountIs DEF Times

LEMMA OverIs ==
  ASSUME NEW a \in Amounts, NEW n \in Int \ {0}
  PROVE  Over(a, n) \in Amounts /\ Is(Over(a, n), a[1], a[2] * n)
<1>1. a[1] \in Int /\ a[2] \in Nat \ {0}
  BY DEF Amounts
<1>2. a[1] \in Int /\ a[2] * n \in Int \ {0}
  BY <1>1
<1>3. QED
  BY <1>2, AmountIs DEF Over

\* The operations on amounts over a common denominator.
LEMMA PlusOver ==
  ASSUME NEW D \in Int \ {0}, NEW a \in Amounts, NEW b \in Amounts, NEW x \in Int, NEW y \in Int,
         Is(a, x, D), Is(b, y, D)
  PROVE  Plus(a, b) \in Amounts /\ Is(Plus(a, b), x + y, D)
BY PlusIs, IsPlus

LEMMA TimesOver ==
  ASSUME NEW D \in Int \ {0}, NEW a \in Amounts, NEW x \in Int, Is(a, x, D), NEW n \in Int
  PROVE  Times(a, n) \in Amounts /\ Is(Times(a, n), x * n, D)
BY TimesIs, IsTimes

LEMMA OverOver ==
  ASSUME NEW D \in Int \ {0}, NEW a \in Amounts, NEW x \in Int, Is(a, x, D), NEW n \in Int \ {0}
  PROVE  Over(a, n) \in Amounts /\ Is(Over(a, n), x, D * n)
BY OverIs, IsOver

LEMMA CommonDenominator ==
  ASSUME NEW a \in Amounts, NEW b \in Amounts, NEW c \in Amounts
  PROVE  \E D \in Int \ {0}, x \in Int, y \in Int, z \in Int : Is(a, x, D) /\ Is(b, y, D) /\ Is(c, z, D)
<1> DEFINE a1 == a[1]
           a2 == a[2]
           b1 == b[1]
           b2 == b[2]
           c1 == c[1]
           c2 == c[2]
<1>1. /\ a1 \in Int /\ a2 \in Int \ {0} /\ b1 \in Int /\ b2 \in Int \ {0}
      /\ c1 \in Int /\ c2 \in Int \ {0}
  BY DEF Amounts
<1>2. (\A x, D : Is(a, x, D) <=> a1 * D = x * a2) /\ (\A x, D : Is(b, x, D) <=> b1 * D = x * b2)
      /\ (\A x, D : Is(c, x, D) <=> c1 * D = x * c2)
  BY DEF Is
<1> HIDE DEF a1, a2, b1, b2, c1, c2
<1>3. a2 * b2 \in Int \ {0} /\ b2 * c2 \in Int \ {0} /\ a2 * c2 \in Int \ {0}
  BY <1>1
<1>4. a2 * b2 * c2 \in Int \ {0} /\ a1 * (b2 * c2) \in Int /\ b1 * (a2 * c2) \in Int /\ c1 * (a2 * b2) \in Int
  BY <1>1, <1>3
<1>5. /\ a1 * (a2 * b2 * c2) = (a1 * (b2 * c2)) * a2
      /\ b1 * (a2 * b2 * c2) = (b1 * (a2 * c2)) * b2
      /\ c1 * (a2 * b2 * c2) = (c1 * (a2 * b2)) * c2
  BY <1>1
<1>6. QED
  BY <1>2, <1>4, <1>5

\* An amount that the operators return is the only one of its worth.
LEMMA OneAmount ==
  ASSUME NEW n \in Int, NEW d \in Int \ {0}, NEW a, a = Amount(n, d),
         NEW x \in Int, NEW D \in Int \ {0}, Is(a, x, D)
  PROVE  a = Amount(x, D)
<1> DEFINE a1 == a[1]
           a2 == a[2]
<1>1. a \in Amounts /\ Is(a, n, d)
  BY AmountIs
<1>2. a1 \in Int /\ a2 \in Int \ {0} /\ a1 * d = n * a2 /\ a1 * D = x * a2
  BY <1>1 DEF Amounts, Is
<1> HIDE DEF a1, a2
<1>3. (n * D) * a2 = (a1 * d) * D /\ (a1 * D) * d = (x * d) * a2
  <2>1. (n * D) * a2 = (n * a2) * D /\ (x * a2) * d = (x * d) * a2
    BY <1>2
  <2>2. QED
    BY <1>2, <2>1
<1>4. (a1 * d) * D = (a1 * D) * d
  BY <1>2
<1>5. (n * D) * a2 = (x * d) * a2
  BY <1>3, <1>4
<1>6. n * D \in Int /\ x * d \in Int
  OBVIOUS
<1>7. n * D = x * d
  BY <1>2, <1>5, <1>6, Cancel
<1>8. QED
  BY <1>7, AmountIsOne

------------------------------------------------------------------------------
(* Sums and averages of moves                                                *)

LEMMA StepsReach ==
  ASSUME NEW N \in Nat, NEW T, 0 \in T, \A i \in 1..N : i - 1 \in T => i \in T
  PROVE  \A i \in 0..N : i \in T
<1> DEFINE R == {i \in Nat : i <= N => i \in T}
<1>1. 0 \in R
  OBVIOUS
<1>2. ASSUME NEW i \in Nat, i \in R PROVE i + 1 \in R
  <2> SUFFICES ASSUME i + 1 <= N PROVE i + 1 \in T
    OBVIOUS
  <2>1. i \in T /\ i + 1 \in 1..N /\ i + 1 - 1 = i
    BY <1>2
  <2>2. QED
    BY <2>1
<1> HIDE DEF R
<1>3. \A i \in Nat : i \in R
  BY <1>1, <1>2, InductionInSet
<1>4. QED
  BY <1>3 DEF R

\* W starts with a and goes on as G says.
Follows(W, D, a, G, N) ==
  W \in [0..N -> D] /\ W[0] = a /\ \A i \in 1..N : W[i] = G[<<i - 1, W[i - 1]>>]

LEMMA FollowsExists ==
  ASSUME NEW D, NEW a \in D, NEW G \in [Nat \X D -> D], NEW N \in Nat
  PROVE  \E W : Follows(W, D, a, G, N)
<1>1. PICK W \in [0..N -> D] : RecursiveOn(W, a, G, N)
  BY BoundedRecursion
<1>2. \A i \in 0..N : W[i] = IF i = 0 THEN a ELSE G[<<i - 1, W[i - 1]>>]
  BY <1>1 DEF RecursiveOn
<1>3. W[0] = a /\ \A i \in 1..N : W[i] = G[<<i - 1, W[i - 1]>>]
  <2>1. 0 \in 0..N /\ \A i \in 1..N : i \in 0..N /\ i # 0
    OBVIOUS
  <2>2. QED
    BY <1>2, <2>1
<1>4. QED
  BY <1>1, <1>3 DEF Follows

LEMMA RunningIs ==
  ASSUME NEW n \in Int, NEW q \in Seq(Int)
  PROVE  /\ Running(n, q) \in [0..Len(q) -> Int]
         /\ Running(n, q)[0] = n
         /\ \A i \in 1..Len(q) : Running(n, q)[i] = Running(n, q)[i - 1] + q[i]
<1> DEFINE N == Len(q)
           G == [z \in Nat \X Int |-> z[2] + (IF z[1] + 1 \in 1..N THEN q[z[1] + 1] ELSE 0)]
           R == Running(n, q)
<1>1. N \in Nat /\ \A i \in 1..N : q[i] \in Int
  OBVIOUS
<1>2. G \in [Nat \X Int -> Int] /\ \A i \in 1..N, x \in Int : G[<<i - 1, x>>] = x + q[i]
  BY <1>1
<1>3. PICK F : Follows(F, Int, n, G, N)
  <2> HIDE DEF N, G
  <2>1. QED
    BY <1>1, <1>2, FollowsExists
<1>4. F \in [0..N -> Int] /\ F[0] = n /\ \A i \in 1..N : F[i] = F[i - 1] + q[i]
  <2> HIDE DEF G, N
  <2>1. F \in [0..N -> Int] /\ F[0] = n /\ \A i \in 1..N : F[i] = G[<<i - 1, F[i - 1]>>]
    BY <1>3 DEF Follows
  <2>2. \A i \in 1..N : i - 1 \in 0..N
    BY <1>1
  <2>3. QED
    BY <1>2, <2>1, <2>2
<1> HIDE DEF G
<1>5. F = [i \in 0..N |-> IF i = 0 THEN n ELSE F[i - 1] + q[i]]
  <2> HIDE DEF N
  <2>1. \A i \in 0..N : i = 0 \/ i \in 1..N
    BY <1>1
  <2>2. QED
    BY <1>4, <2>1
<1>6. R = [i \in 0..N |-> IF i = 0 THEN n ELSE R[i - 1] + q[i]]
  BY <1>5, Zenon DEF Running
<1> HIDE DEF R, N
<1>7. R[0] = n /\ \A i \in 1..N : R[i] = R[i - 1] + q[i]
  <2>1. 0 \in 0..N /\ \A i \in 1..N : i \in 0..N /\ i # 0
    BY <1>1
  <2>2. QED
    BY <1>6, <2>1
<1>8. \A i \in 0..N : R[i] \in Int
  <2> DEFINE T == {i \in 0..N : R[i] \in Int}
  <2>1. 0 \in T /\ \A i \in 1..N : i - 1 \in T => i \in T
    BY <1>1, <1>7
  <2> HIDE DEF T
  <2>2. \A i \in 0..N : i \in T
    BY <1>1, <2>1, StepsReach
  <2>3. QED
    BY <2>2 DEF T
<1>9. R \in [0..N -> Int]
  BY <1>6, <1>8
<1>10. QED
  BY <1>7, <1>9 DEF R, N

LEMMA TotalsIs ==
  ASSUME NEW v \in Amounts, NEW a \in Seq(Amounts)
  PROVE  /\ Totals(v, a) \in [0..Len(a) -> Amounts]
         /\ Totals(v, a)[0] = v
         /\ \A i \in 1..Len(a) : Totals(v, a)[i] = Plus(Totals(v, a)[i - 1], a[i])
<1> DEFINE N == Len(a)
           G == [z \in Nat \X Amounts |-> IF z[1] + 1 \in 1..N THEN Plus(z[2], a[z[1] + 1]) ELSE z[2]]
           R == Totals(v, a)
<1>1. N \in Nat /\ \A i \in 1..N : a[i] \in Amounts
  OBVIOUS
<1>2. \A x, y \in Amounts : Plus(x, y) \in Amounts
  BY PlusIs
<1>3. G \in [Nat \X Amounts -> Amounts] /\ \A i \in 1..N, x \in Amounts : G[<<i - 1, x>>] = Plus(x, a[i])
  <2>1. ASSUME NEW z \in Nat \X Amounts
        PROVE  (IF z[1] + 1 \in 1..N THEN Plus(z[2], a[z[1] + 1]) ELSE z[2]) \in Amounts
    BY <1>1, <1>2
  <2>2. \A i \in 1..N : i - 1 \in Nat /\ i - 1 + 1 = i
    BY <1>1
  <2>3. QED
    BY <2>1, <2>2
<1>4. PICK F : Follows(F, Amounts, v, G, N)
  <2> HIDE DEF N, G
  <2>1. QED
    BY <1>1, <1>3, FollowsExists
<1>5. F \in [0..N -> Amounts] /\ F[0] = v /\ \A i \in 1..N : F[i] = Plus(F[i - 1], a[i])
  <2> HIDE DEF G, N
  <2>1. F \in [0..N -> Amounts] /\ F[0] = v /\ \A i \in 1..N : F[i] = G[<<i - 1, F[i - 1]>>]
    BY <1>4 DEF Follows
  <2>2. \A i \in 1..N : i - 1 \in 0..N
    BY <1>1
  <2>3. QED
    BY <1>3, <2>1, <2>2
<1> HIDE DEF G
<1>6. F = [i \in 0..N |-> IF i = 0 THEN v ELSE Plus(F[i - 1], a[i])]
  <2> HIDE DEF N
  <2>1. \A i \in 0..N : i = 0 \/ i \in 1..N
    BY <1>1
  <2>2. QED
    BY <1>5, <2>1
<1>7. R = [i \in 0..N |-> IF i = 0 THEN v ELSE Plus(R[i - 1], a[i])]
  BY <1>6, Zenon DEF Totals
<1> HIDE DEF R, N
<1>8. R[0] = v /\ \A i \in 1..N : R[i] = Plus(R[i - 1], a[i])
  <2>1. 0 \in 0..N /\ \A i \in 1..N : i \in 0..N /\ i # 0
    BY <1>1
  <2>2. QED
    BY <1>7, <2>1
<1>9. \A i \in 0..N : R[i] \in Amounts
  <2> DEFINE T == {i \in 0..N : R[i] \in Amounts}
  <2>1. 0 \in T /\ \A i \in 1..N : i - 1 \in T => i \in T
    BY <1>1, <1>2, <1>8
  <2> HIDE DEF T
  <2>2. \A i \in 0..N : i \in T
    BY <1>1, <2>1, StepsReach
  <2>3. QED
    BY <2>2 DEF T
<1>10. R \in [0..N -> Amounts]
  BY <1>7, <1>9
<1>11. QED
  BY <1>8, <1>10 DEF R, N

\* What arrives: quantities with a price and the unit cost of the layer.
Moves == Seq([qty : Nat \ {0}, price : Amounts, unit : Amounts])

LEMMA QuantitiesAre ==
  ASSUME NEW moves \in Moves
  PROVE  /\ Len(moves) \in Nat
         /\ \A i \in 1..Len(moves) : /\ moves[i].qty \in Nat \ {0}
                                     /\ moves[i].price \in Amounts /\ moves[i].unit \in Amounts
                                     /\ Quantities(moves)[i] = moves[i].qty
         /\ Quantities(moves) \in Seq(Int) /\ Len(Quantities(moves)) = Len(moves)
<1> DEFINE N == Len(moves)
           Move == [qty : Nat \ {0}, price : Amounts, unit : Amounts]
<1>1. N \in Nat /\ moves \in [1..N -> Move]
  <2>1. moves \in Seq(Move)
    BY DEF Moves
  <2> HIDE DEF Move
  <2>2. QED
    BY <2>1
<1> HIDE DEF N
<1>2. N \in Nat /\ \A i \in 1..N : moves[i].qty \in Nat \ {0} /\ moves[i].price \in Amounts /\ moves[i].unit \in Amounts
  BY <1>1 DEF N
<1>3. Quantities(moves) = [i \in 1..N |-> moves[i].qty]
  BY DEF Quantities, N
<1>4. Quantities(moves) \in [1..N -> Int]
  BY <1>2, <1>3
<1>5. Quantities(moves) \in Seq(Int) /\ Len(Quantities(moves)) = N
  BY <1>2, <1>4
<1>6. QED
  BY <1>2, <1>3, <1>5 DEF N

LEMMA RunningOfMoves ==
  ASSUME NEW n \in Int, NEW moves \in Moves
  PROVE  /\ Running(n, Quantities(moves)) \in [0..Len(moves) -> Int]
         /\ Running(n, Quantities(moves))[0] = n
         /\ \A i \in 1..Len(moves) :
              Running(n, Quantities(moves))[i] = Running(n, Quantities(moves))[i - 1] + moves[i].qty
<1> DEFINE q == Quantities(moves)
<1>1. q \in Seq(Int) /\ Len(q) = Len(moves) /\ \A i \in 1..Len(moves) : q[i] = moves[i].qty
  BY QuantitiesAre
<1> HIDE DEF q
<1>2. /\ Running(n, q) \in [0..Len(q) -> Int]
      /\ Running(n, q)[0] = n
      /\ \A i \in 1..Len(q) : Running(n, q)[i] = Running(n, q)[i - 1] + q[i]
  BY <1>1, RunningIs
<1>3. QED
  BY <1>1, <1>2 DEF q

LEMMA AveragesAre ==
  ASSUME NEW c \in Amounts, NEW n \in Int, NEW moves \in Moves, Computable(n, moves)
  PROVE  /\ Averages(c, n, moves) \in [0..Len(moves) -> Amounts]
         /\ Averages(c, n, moves)[0] = c
         /\ \A i \in 1..Len(moves) :
              /\ Running(n, Quantities(moves))[i] # 0
              /\ Averages(c, n, moves)[i] =
                   Over(Plus(Times(Averages(c, n, moves)[i - 1], Running(n, Quantities(moves))[i - 1]),
                             Times(moves[i].price, moves[i].qty)),
                        Running(n, Quantities(moves))[i])
<1> DEFINE L == Len(moves)
           N == Running(n, Quantities(moves))
           R == Averages(c, n, moves)
           Next1(x, i) == Over(Plus(Times(x, N[i - 1]), Times(moves[i].price, moves[i].qty)), N[i])
           G == [z \in Nat \X Amounts |-> IF z[1] + 1 \in 1..L THEN Next1(z[2], z[1] + 1) ELSE z[2]]
<1>1. /\ L \in Nat
      /\ \A i \in 1..L : moves[i].qty \in Nat \ {0} /\ moves[i].price \in Amounts
  BY QuantitiesAre
<1>2. N \in [0..L -> Int]
  BY RunningOfMoves
<1>3. \A i \in 1..L : N[i] # 0
  BY DEF Computable
<1> HIDE DEF L, N
<1>4. ASSUME NEW i \in 1..L, NEW x \in Amounts
      PROVE  Next1(x, i) \in Amounts
  <2>1. i \in 0..L /\ i - 1 \in 0..L
    BY <1>1
  <2>2. N[i] \in Int \ {0} /\ N[i - 1] \in Int /\ moves[i].qty \in Int /\ moves[i].price \in Amounts
    BY <1>1, <1>2, <1>3, <2>1
  <2>3. Times(x, N[i - 1]) \in Amounts /\ Times(moves[i].price, moves[i].qty) \in Amounts
    BY <2>2, TimesIs
  <2>4. Plus(Times(x, N[i - 1]), Times(moves[i].price, moves[i].qty)) \in Amounts
    BY <2>3, PlusIs
  <2>5. QED
    BY <2>2, <2>4, OverIs
<1>5. G \in [Nat \X Amounts -> Amounts]
  <2>1. ASSUME NEW z \in Nat \X Amounts
        PROVE  (IF z[1] + 1 \in 1..L THEN Next1(z[2], z[1] + 1) ELSE z[2]) \in Amounts
    BY <1>4
  <2> HIDE DEF Next1
  <2>2. QED
    BY <2>1
<1>6. \A i \in 1..L, x \in Amounts : G[<<i - 1, x>>] = Next1(x, i)
  <2> HIDE DEF Next1
  <2>1. \A i \in 1..L : i - 1 \in Nat /\ i - 1 + 1 = i
    BY <1>1
  <2>2. QED
    BY <2>1
<1>7. PICK F : Follows(F, Amounts, c, G, L)
  <2> HIDE DEF G
  <2>1. QED
    BY <1>1, <1>5, FollowsExists
<1> HIDE DEF G
<1>8. F \in [0..L -> Amounts] /\ F[0] = c /\ \A i \in 1..L : F[i] = Next1(F[i - 1], i)
  <2> HIDE DEF Next1
  <2>1. F \in [0..L -> Amounts] /\ F[0] = c /\ \A i \in 1..L : F[i] = G[<<i - 1, F[i - 1]>>]
    BY <1>7 DEF Follows
  <2>2. \A i \in 1..L : i - 1 \in 0..L
    BY <1>1
  <2>3. QED
    BY <1>6, <2>1, <2>2
<1>9. F = [i \in 0..L |-> IF i = 0 THEN c ELSE Next1(F[i - 1], i)]
  <2> HIDE DEF Next1
  <2>1. \A i \in 0..L : i = 0 \/ i \in 1..L
    BY <1>1
  <2>2. QED
    BY <1>8, <2>1
<1>10. R = [i \in 0..L |-> IF i = 0 THEN c ELSE Next1(R[i - 1], i)]
  BY <1>9, Zenon DEF Averages, L, N
<1> HIDE DEF R
<1>11. R[0] = c /\ \A i \in 1..L : R[i] = Next1(R[i - 1], i)
  <2> HIDE DEF Next1
  <2>1. 0 \in 0..L /\ \A i \in 1..L : i \in 0..L /\ i # 0
    BY <1>1
  <2>2. QED
    BY <1>10, <2>1
<1>12. \A i \in 0..L : R[i] \in Amounts
  <2> DEFINE T == {i \in 0..L : R[i] \in Amounts}
  <2>1. 0 \in T /\ \A i \in 1..L : i - 1 \in T => i \in T
    <3> HIDE DEF Next1
    <3>1. 0 \in 0..L /\ \A i \in 1..L : i \in 0..L
      BY <1>1
    <3>2. QED
      BY <1>4, <1>11, <3>1
  <2> HIDE DEF T
  <2>2. \A i \in 0..L : i \in T
    BY <1>1, <2>1, StepsReach
  <2>3. QED
    BY <2>2 DEF T
<1>13. R \in [0..L -> Amounts]
  <2> HIDE DEF Next1
  <2>1. QED
    BY <1>10, <1>12
<1>14. QED
  BY <1>3, <1>11, <1>13 DEF R, L, N

\* The same moves add the same to any two numbers.
LEMMA RunningShifts ==
  ASSUME NEW n \in Int, NEW m \in Int, NEW moves \in Moves
  PROVE  Running(n, Quantities(moves))[Len(moves)] - Running(m, Quantities(moves))[Len(moves)] = n - m
<1> DEFINE L == Len(moves)
           A == Running(n, Quantities(moves))
           B == Running(m, Quantities(moves))
           T == {i \in 0..L : A[i] - B[i] = n - m}
<1>1. L \in Nat /\ \A i \in 1..L : moves[i].qty \in Nat
  BY QuantitiesAre
<1>2. /\ A \in [0..L -> Int] /\ A[0] = n /\ \A i \in 1..L : A[i] = A[i - 1] + moves[i].qty
      /\ B \in [0..L -> Int] /\ B[0] = m /\ \A i \in 1..L : B[i] = B[i - 1] + moves[i].qty
  BY RunningOfMoves
<1> HIDE DEF L, A, B
<1>3. 0 \in T
  BY <1>1, <1>2
<1>4. ASSUME NEW i \in 1..L, i - 1 \in T
      PROVE  i \in T
  <2>1. i - 1 \in 0..L /\ i \in 0..L
    BY <1>1
  <2>2. A[i - 1] \in Int /\ B[i - 1] \in Int /\ moves[i].qty \in Int
    BY <1>1, <1>2, <2>1
  <2>3. A[i] - B[i] = A[i - 1] - B[i - 1]
    BY <1>2, <2>2
  <2>4. QED
    BY <1>4, <2>1, <2>3
<1> HIDE DEF T
<1>5. \A i \in 0..L : i \in T
  BY <1>1, <1>3, <1>4, StepsReach
<1>6. A[L] - B[L] = n - m
  BY <1>1, <1>5 DEF T
<1>7. QED
  BY <1>6 DEF A, B, L

------------------------------------------------------------------------------
(* What layers are worth beyond the cost                                     *)

\* What layers worth v are worth beyond n units at the cost c.
Worth(v, c, n) == Plus(v, Times(c, -n))

LEMMA WorthIs ==
  ASSUME NEW v \in Amounts, NEW c \in Amounts, NEW n \in Int,
         NEW D \in Int \ {0}, NEW x \in Int, NEW y \in Int, Is(v, x, D), Is(c, y, D)
  PROVE  Worth(v, c, n) = Amount(x - y * n, D)
<1> DEFINE t == Times(c, -n)
<1>1. t \in Amounts /\ Is(t, y * (-n), D)
  <2>1. -n \in Int
    OBVIOUS
  <2>2. QED
    BY <2>1, TimesOver
<1> HIDE DEF t
<1>2. y * (-n) \in Int /\ x + y * (-n) = x - y * n
  OBVIOUS
<1>3. Is(Plus(v, t), x + y * (-n), D)
  BY <1>1, <1>2, PlusOver
<1>4. x - y * n \in Int /\ Is(Plus(v, t), x - y * n, D)
  BY <1>2, <1>3
<1>5. /\ Plus(v, t) = Amount(v[1] * t[2] + t[1] * v[2], v[2] * t[2])
      /\ v[1] * t[2] + t[1] * v[2] \in Int /\ v[2] * t[2] \in Int \ {0}
  BY <1>1, PlusIs
<1>6. Plus(v, t) = Amount(x - y * n, D)
  BY <1>4, <1>5, OneAmount
<1>7. QED
  BY <1>6 DEF Worth, t

LEMMA WorthWhenMovesArrive ==
  ASSUME NEW v \in Amounts, NEW c \in Amounts, NEW n \in Int, NEW p \in Amounts, NEW q \in Int, n + q # 0
  PROVE  Worth(Plus(v, Times(p, q)), Over(Plus(Times(c, n), Times(p, q)), n + q), n + q) = Worth(v, c, n)
<1>1. PICK D \in Int \ {0}, x \in Int, y \in Int, z \in Int : Is(v, x, D) /\ Is(c, y, D) /\ Is(p, z, D)
  BY CommonDenominator
<1> DEFINE N == n + q
           t == Times(p, q)
           s == Times(c, n)
           vv == Plus(v, t)
           m == Plus(s, t)
           cc == Over(m, N)
<1>2. N \in Int \ {0} /\ N = n + q
  OBVIOUS
<1> HIDE DEF N
<1>3. t \in Amounts /\ Is(t, z * q, D) /\ s \in Amounts /\ Is(s, y * n, D)
  BY <1>1, TimesOver
<1> HIDE DEF t, s
<1>4. z * q \in Int /\ y * n \in Int
  OBVIOUS
<1>5. vv \in Amounts /\ Is(vv, x + z * q, D) /\ m \in Amounts /\ Is(m, y * n + z * q, D)
  BY <1>1, <1>3, <1>4, PlusOver
<1> HIDE DEF vv, m
<1>6. x + z * q \in Int /\ y * n + z * q \in Int
  OBVIOUS
<1>7. cc \in Amounts /\ Is(cc, y * n + z * q, D * N)
  BY <1>2, <1>5, <1>6, OverOver
<1> HIDE DEF cc
<1>8. Is(vv, (x + z * q) * N, D * N)
  BY <1>2, <1>5, <1>6, IsScaled
<1>9. D * N \in Int \ {0} /\ (x + z * q) * N \in Int
  BY <1>2
<1>10. Worth(vv, cc, N) = Amount((x + z * q) * N - (y * n + z * q) * N, D * N)
  BY <1>2, <1>5, <1>6, <1>7, <1>8, <1>9, WorthIs
<1>11. (x + z * q) * N - (y * n + z * q) * N = (x - y * n) * N
  BY <1>2
<1>12. Amount((x - y * n) * N, D * N) = Amount(x - y * n, D)
  BY <1>2, AmountScales
<1>13. Worth(v, c, n) = Amount(x - y * n, D)
  BY <1>1, WorthIs
<1>14. Worth(vv, cc, N) = Worth(v, c, n)
  BY <1>10, <1>11, <1>12, <1>13
<1>15. QED
  BY <1>14 DEF vv, cc, m, s, t, N

LEMMA WorthWhenMovesLeave ==
  ASSUME NEW v \in Amounts, NEW c \in Amounts, NEW n \in Int, NEW k \in Int
  PROVE  Worth(Plus(v, Times(c, -k)), c, n - k) = Worth(v, c, n)
<1>1. PICK D \in Int \ {0}, x \in Int, y \in Int, z \in Int : Is(v, x, D) /\ Is(c, y, D) /\ Is(c, z, D)
  BY CommonDenominator
<1> DEFINE t == Times(c, -k)
           vv == Plus(v, t)
<1>2. t \in Amounts /\ Is(t, y * (-k), D)
  <2>1. -k \in Int
    OBVIOUS
  <2>2. QED
    BY <1>1, <2>1, TimesOver
<1> HIDE DEF t
<1>3. y * (-k) \in Int
  OBVIOUS
<1>4. vv \in Amounts /\ Is(vv, x + y * (-k), D)
  BY <1>1, <1>2, <1>3, PlusOver
<1> HIDE DEF vv
<1>5. x + y * (-k) \in Int /\ n - k \in Int
  OBVIOUS
<1>6. Worth(vv, c, n - k) = Amount(x + y * (-k) - y * (n - k), D)
  BY <1>1, <1>4, <1>5, WorthIs
<1>7. x + y * (-k) - y * (n - k) = x - y * n
  OBVIOUS
<1>8. Worth(v, c, n) = Amount(x - y * n, D)
  BY <1>1, WorthIs
<1>9. Worth(vv, c, n - k) = Worth(v, c, n)
  BY <1>6, <1>7, <1>8
<1>10. QED
  BY <1>9 DEF vv, t

LEMMA WorthWhenValueIsAdded ==
  ASSUME NEW v \in Amounts, NEW c \in Amounts, NEW n \in Int \ {0}, NEW e \in Amounts
  PROVE  Worth(Plus(v, e), Plus(c, Over(e, n)), n) = Worth(v, c, n)
<1>1. PICK D \in Int \ {0}, x \in Int, y \in Int, z \in Int : Is(v, x, D) /\ Is(c, y, D) /\ Is(e, z, D)
  BY CommonDenominator
<1> DEFINE vv == Plus(v, e)
           t == Over(e, n)
           cc == Plus(c, t)
<1>2. vv \in Amounts /\ Is(vv, x + z, D)
  BY <1>1, PlusOver
<1> HIDE DEF vv
<1>3. t \in Amounts /\ Is(t, z, D * n)
  BY <1>1, OverOver
<1> HIDE DEF t
<1>4. x + z \in Int /\ (x + z) * n \in Int /\ y * n \in Int /\ y * n + z \in Int /\ D * n \in Int \ {0}
  OBVIOUS
<1>5. Is(vv, (x + z) * n, D * n) /\ Is(c, y * n, D * n)
  BY <1>1, <1>2, <1>4, IsScaled
<1>6. cc \in Amounts /\ Is(cc, y * n + z, D * n)
  BY <1>3, <1>4, <1>5, PlusOver
<1> HIDE DEF cc
<1>7. Worth(vv, cc, n) = Amount((x + z) * n - (y * n + z) * n, D * n)
  BY <1>2, <1>4, <1>5, <1>6, WorthIs
<1>8. (x + z) * n - (y * n + z) * n = (x - y * n) * n
  OBVIOUS
<1>9. Amount((x - y * n) * n, D * n) = Amount(x - y * n, D)
  BY AmountScales
<1>10. Worth(v, c, n) = Amount(x - y * n, D)
  BY <1>1, WorthIs
<1>11. Worth(vv, cc, n) = Worth(v, c, n)
  BY <1>7, <1>8, <1>9, <1>10
<1>12. QED
  BY <1>11 DEF vv, cc, t

LEMMA WorthWhenNothingIsAdded ==
  ASSUME NEW v \in Amounts, NEW c \in Amounts, NEW n \in Int, NEW z \in Amounts, Is(z, 0, 1)
  PROVE  Worth(Plus(v, z), c, n) = Worth(v, c, n)
<1>1. PICK D \in Int \ {0}, x \in Int, y \in Int, u \in Int : Is(v, x, D) /\ Is(c, y, D) /\ Is(c, u, D)
  BY CommonDenominator
<1>2. Is(z, 0, D)
  <2> DEFINE z1 == z[1]
             z2 == z[2]
  <2>1. z1 \in Int /\ z2 \in Int \ {0} /\ z1 * 1 = 0 * z2
    BY DEF Is, Amounts
  <2> HIDE DEF z1, z2
  <2>2. z1 * D = 0 * z2
    BY <2>1
  <2>3. QED
    BY <2>2 DEF Is, z1, z2
<1>3. Plus(v, z) \in Amounts /\ Is(Plus(v, z), x, D)
  <2>1. Plus(v, z) \in Amounts /\ Is(Plus(v, z), x + 0, D)
    BY <1>1, <1>2, PlusOver
  <2>2. x + 0 = x
    OBVIOUS
  <2>3. QED
    BY <2>1, <2>2
<1>4. Worth(v, c, n) = Amount(x - y * n, D) /\ Worth(Plus(v, z), c, n) = Amount(x - y * n, D)
  <2>1. Worth(v, c, n) = Amount(x - y * n, D)
    BY <1>1, WorthIs
  <2> DEFINE s == Plus(v, z)
  <2> HIDE DEF s
  <2>2. Worth(s, c, n) = Amount(x - y * n, D)
    <3>1. s \in Amounts /\ Is(s, x, D)
      BY <1>3 DEF s
    <3>2. QED
      BY <1>1, <3>1, WorthIs
  <2>3. QED
    BY <2>1, <2>2 DEF s
<1>5. QED
  BY <1>4

LEMMA TotalOfNothing ==
  ASSUME NEW v \in Amounts, Is(v, 0, 1), NEW a \in Seq(Amounts), \A i \in 1..Len(a) : Is(a[i], 0, 1)
  PROVE  Totals(v, a)[Len(a)] \in Amounts /\ Is(Totals(v, a)[Len(a)], 0, 1)
<1> DEFINE N == Len(a)
           R == Totals(v, a)
           T == {i \in 0..N : Is(R[i], 0, 1)}
<1>1. N \in Nat /\ \A i \in 1..N : a[i] \in Amounts /\ Is(a[i], 0, 1)
  OBVIOUS
<1>2. R \in [0..N -> Amounts] /\ R[0] = v /\ \A i \in 1..N : R[i] = Plus(R[i - 1], a[i])
  BY TotalsIs
<1> HIDE DEF N, R
<1>3. 0 \in T
  BY <1>1, <1>2
<1>4. ASSUME NEW i \in 1..N, i - 1 \in T
      PROVE  i \in T
  <2>1. i - 1 \in 0..N /\ i \in 0..N
    BY <1>1
  <2>2. R[i - 1] \in Amounts /\ Is(R[i - 1], 0, 1)
    BY <1>2, <1>4, <2>1
  <2>3. Is(Plus(R[i - 1], a[i]), 0 + 0, 1)
    BY <1>1, <2>2, PlusOver
  <2>4. 0 + 0 = 0
    OBVIOUS
  <2>5. QED
    BY <1>2, <2>1, <2>3, <2>4
<1> HIDE DEF T
<1>5. \A i \in 0..N : i \in T
  BY <1>1, <1>3, <1>4, StepsReach
<1>6. N \in 0..N
  BY <1>1
<1>7. R[N] \in Amounts /\ Is(R[N], 0, 1)
  BY <1>2, <1>5, <1>6 DEF T
<1>8. QED
  BY <1>7 DEF R, N

Units(moves) == [i \in 1..Len(moves) |-> Times(moves[i].unit, moves[i].qty)]

LEMMA UnitsAre ==
  ASSUME NEW moves \in Moves
  PROVE  /\ Units(moves) \in Seq(Amounts) /\ Len(Units(moves)) = Len(moves)
         /\ \A i \in 1..Len(moves) : Units(moves)[i] = Times(moves[i].unit, moves[i].qty)
<1> DEFINE N == Len(moves)
<1>1. N \in Nat /\ \A i \in 1..N : moves[i].qty \in Int /\ moves[i].unit \in Amounts
  BY QuantitiesAre
<1>2. Units(moves) = [i \in 1..N |-> Times(moves[i].unit, moves[i].qty)]
  BY DEF Units
<1> HIDE DEF N
<1>3. \A i \in 1..N : Times(moves[i].unit, moves[i].qty) \in Amounts
  BY <1>1, TimesIs
<1>4. Units(moves) \in [1..N -> Amounts] /\ \A i \in 1..N : Units(moves)[i] = Times(moves[i].unit, moves[i].qty)
  BY <1>2, <1>3
<1>5. Units(moves) \in Seq(Amounts) /\ Len(Units(moves)) = N
  BY <1>1, <1>4
<1>6. QED
  BY <1>4, <1>5 DEF N

\* Moves that are valued as they are averaged keep the difference.
LEMMA WorthWhenAllArrive ==
  ASSUME NEW v \in Amounts, NEW c \in Amounts, NEW n \in Int, NEW moves \in Moves,
         Computable(n, moves), \A i \in 1..Len(moves) : moves[i].unit = moves[i].price
  PROVE  Worth(Totals(v, Units(moves))[Len(moves)], Averages(c, n, moves)[Len(moves)],
               Running(n, Quantities(moves))[Len(moves)]) = Worth(v, c, n)
<1> DEFINE L == Len(moves)
           V == Totals(v, Units(moves))
           C == Averages(c, n, moves)
           N == Running(n, Quantities(moves))
           T == {i \in 0..L : Worth(V[i], C[i], N[i]) = Worth(v, c, n)}
<1>1. L \in Nat /\ \A i \in 1..L : moves[i].qty \in Int /\ moves[i].price \in Amounts
  BY QuantitiesAre
<1>2. /\ V \in [0..L -> Amounts] /\ V[0] = v
      /\ \A i \in 1..L : V[i] = Plus(V[i - 1], Times(moves[i].price, moves[i].qty))
  BY UnitsAre, TotalsIs
<1>3. /\ C \in [0..L -> Amounts] /\ C[0] = c
      /\ \A i \in 1..L : /\ N[i] # 0
                         /\ C[i] = Over(Plus(Times(C[i - 1], N[i - 1]),
                                             Times(moves[i].price, moves[i].qty)), N[i])
  BY AveragesAre
<1>4. N \in [0..L -> Int] /\ N[0] = n /\ \A i \in 1..L : N[i] = N[i - 1] + moves[i].qty
  BY RunningOfMoves
<1> HIDE DEF L, V, C, N
<1>5. 0 \in T
  BY <1>1, <1>2, <1>3, <1>4
<1>6. ASSUME NEW i \in 1..L, i - 1 \in T
      PROVE  i \in T
  <2> DEFINE q == moves[i].qty
             p == moves[i].price
             v0 == V[i - 1]
             c0 == C[i - 1]
             n0 == N[i - 1]
  <2>1. i - 1 \in 0..L /\ i \in 0..L
    BY <1>1
  <2>2. q \in Int /\ p \in Amounts /\ v0 \in Amounts /\ c0 \in Amounts /\ n0 \in Int
    BY <1>1, <1>2, <1>3, <1>4, <2>1
  <2>3. Worth(v0, c0, n0) = Worth(v, c, n)
    BY <1>6
  <2>4. n0 + q # 0 /\ N[i] = n0 + q
    BY <1>3, <1>4
  <2>5. V[i] = Plus(v0, Times(p, q)) /\ C[i] = Over(Plus(Times(c0, n0), Times(p, q)), n0 + q)
    BY <1>2, <1>3, <2>4
  <2> HIDE DEF q, p, v0, c0, n0
  <2>6. Worth(V[i], C[i], N[i]) = Worth(v0, c0, n0)
    BY <2>2, <2>4, <2>5, WorthWhenMovesArrive
  <2>7. QED
    BY <2>1, <2>3, <2>6
<1> HIDE DEF T
<1>7. \A i \in 0..L : i \in T
  BY <1>1, <1>5, <1>6, StepsReach
<1>8. L \in 0..L
  BY <1>1
<1>9. Worth(V[L], C[L], N[L]) = Worth(v, c, n)
  BY <1>7, <1>8 DEF T
<1>10. QED
  BY <1>9 DEF V, C, N, L

------------------------------------------------------------------------------
(* The books                                                                 *)

Layer == [move : Nat, left : Nat]
Source == Warehouse \cup Amounts \cup {NoCost}
DoneMove == [wh : Warehouse, qty : Nat, price : Source]
Sale == [wh : Warehouse, qty : Nat, worth : Amounts, first : Amounts]

\* The three parts of CostInv: what is summed of each warehouse, the moves in and their
\* layers, and the rest.
Ledger ==
  /\ cost \in [Warehouse -> {NoCost} \cup Amounts]
  /\ value \in [Warehouse -> Amounts]
  /\ quantity \in [Warehouse -> Int]
  /\ onhand \in [Warehouse -> Int]
  /\ reads \in [Warehouse -> SUBSET Int]

Stores ==
  /\ done \in Seq(DoneMove)
  /\ \A i \in DOMAIN done : cost[done[i].wh] # NoCost
  /\ layers \in Seq(Layer)

Rest ==
  /\ transit \in [Warehouse \X Warehouse -> Int]
  /\ sold \in Seq(Sale)
  /\ ops \in 0..MaxOps

LEMMA PartsOfCostInv == CostInv <=> Ledger /\ Stores /\ Rest
BY DEF CostInv, Ledger, Stores, Rest, Layer, DoneMove, Source, Sale

\* Where there is a cost line there still is one.
LinesStay == \A v \in Warehouse : cost[v] # NoCost => cost'[v] # NoCost

LEMMA WholeIs == \A n \in Int : Whole(n) \in Amounts /\ Is(Whole(n), n, 1)
BY DEF Whole, Amounts, Is

LEMMA NoCostIsNone == NoCost \notin Amounts
<1>1. SUFFICES ASSUME <<>> \in Amounts PROVE FALSE
  BY DEF NoCost
<1>2. PICK n \in Int, d \in Nat \ {0} : <<>> = <<n, d>>
  BY <1>1 DEF Amounts
<1>3. Len(<<>>) = 0 /\ Len(<<n, d>>) = 2
  OBVIOUS
<1>4. QED
  BY <1>2, <1>3

LEMMA CostsAreAmounts ==
  ASSUME Ledger, NEW w \in Warehouse
  PROVE  /\ CostOf(w) \in Amounts
         /\ cost[w] # NoCost => cost[w] \in Amounts /\ CostOf(w) = cost[w]
BY WholeIs DEF CostOf, Ledger

LEMMA PositiveIs ==
  ASSUME NEW c \in Amounts
  PROVE  /\ Positive(c) \in Amounts /\ (c[1] >= 0 => Positive(c) = c)
         /\ c[1] \in Int
BY DEF Positive, Abs, Amounts

LEMMA DoneIs ==
  ASSUME Stores, NEW i \in DOMAIN done
  PROVE  /\ done[i] \in DoneMove /\ done[i].wh \in Warehouse /\ done[i].qty \in Nat
         /\ done[i].price \in Source /\ cost[done[i].wh] # NoCost
         /\ i \in 1..Len(done) /\ Len(done) \in Nat
<1>1. done[i] \in DoneMove /\ i \in 1..Len(done) /\ Len(done) \in Nat
  BY DEF Stores
<1>2. QED
  BY <1>1 DEF DoneMove, Stores

LEMMA SoldIs ==
  ASSUME Rest, NEW i \in DOMAIN sold
  PROVE  /\ sold[i] \in Sale /\ sold[i].wh \in Warehouse /\ sold[i].qty \in Nat
         /\ sold[i].worth \in Amounts /\ sold[i].first \in Amounts
         /\ i \in 1..Len(sold) /\ Len(sold) \in Nat
<1>1. sold[i] \in Sale /\ i \in 1..Len(sold) /\ Len(sold) \in Nat
  BY DEF Rest
<1>2. QED
  BY <1>1 DEF Sale

\* What Enter writes.
LEMMA EnterIs ==
  ASSUME Ledger, NEW w \in Warehouse, NEW q \in Int, NEW moves \in Moves, Enter(w, q, moves)
  PROVE  /\ Computable(q, moves)
         /\ Averages(CostOf(w), q, moves)[Len(moves)] \in Amounts
         /\ cost' = [cost EXCEPT ![w] = Averages(CostOf(w), q, moves)[Len(moves)]]
         /\ Running(quantity[w], Quantities(moves))[Len(moves)] \in Int
         /\ quantity' = [quantity EXCEPT ![w] = Running(quantity[w], Quantities(moves))[Len(moves)]]
         /\ Totals(value[w], Units(moves))[Len(moves)] \in Amounts
         /\ value' = [value EXCEPT ![w] = Totals(value[w], Units(moves))[Len(moves)]]
         /\ Running(onhand[w], Quantities(moves))[Len(moves)] \in Int
         /\ onhand' = [onhand EXCEPT ![w] = Running(onhand[w], Quantities(moves))[Len(moves)]]
         /\ reads' = [reads EXCEPT ![w] = {}]
<1>1. Computable(q, moves)
  BY DEF Enter
<1>2. /\ cost' = [cost EXCEPT ![w] = Averages(CostOf(w), q, moves)[Len(moves)]]
      /\ quantity' = [quantity EXCEPT ![w] = Running(quantity[w], Quantities(moves))[Len(moves)]]
      /\ value' = [value EXCEPT ![w] = Totals(value[w], Units(moves))[Len(moves)]]
      /\ onhand' = [onhand EXCEPT ![w] = Running(onhand[w], Quantities(moves))[Len(moves)]]
      /\ reads' = [reads EXCEPT ![w] = {}]
  BY DEF Enter, Ledger, Units
<1>3. quantity[w] \in Int /\ onhand[w] \in Int /\ value[w] \in Amounts /\ CostOf(w) \in Amounts
  BY CostsAreAmounts DEF Ledger
<1>4. Len(moves) \in Nat /\ Len(moves) \in 0..Len(moves)
  BY QuantitiesAre
<1>5. Averages(CostOf(w), q, moves) \in [0..Len(moves) -> Amounts]
  BY <1>1, <1>3, AveragesAre
<1>6. /\ Running(quantity[w], Quantities(moves)) \in [0..Len(moves) -> Int]
      /\ Running(onhand[w], Quantities(moves)) \in [0..Len(moves) -> Int]
  BY <1>3, RunningOfMoves
<1>7. Totals(value[w], Units(moves)) \in [0..Len(moves) -> Amounts]
  BY <1>3, UnitsAre, TotalsIs
<1>8. QED
  BY <1>1, <1>2, <1>4, <1>5, <1>6, <1>7

LEMMA EnterKeeps ==
  ASSUME Ledger, NEW w \in Warehouse, NEW q \in Int, NEW moves \in Moves, Enter(w, q, moves)
  PROVE  Ledger' /\ cost'[w] # NoCost /\ LinesStay
<1>1. cost' \in [Warehouse -> {NoCost} \cup Amounts] /\ cost'[w] # NoCost
      /\ \A v \in Warehouse : cost[v] # NoCost => cost'[v] # NoCost
  <2>1. PICK c \in Amounts : cost' = [cost EXCEPT ![w] = c]
    BY EnterIs
  <2>2. cost \in [Warehouse -> {NoCost} \cup Amounts] /\ c # NoCost
    BY NoCostIsNone DEF Ledger
  <2>3. QED
    BY <2>1, <2>2
<1>2. quantity' \in [Warehouse -> Int] /\ onhand' \in [Warehouse -> Int] /\ value' \in [Warehouse -> Amounts]
  <2>1. /\ \E n \in Int : quantity' = [quantity EXCEPT ![w] = n]
        /\ \E n \in Int : onhand' = [onhand EXCEPT ![w] = n]
        /\ \E v \in Amounts : value' = [value EXCEPT ![w] = v]
    BY EnterIs
  <2>2. QED
    BY <2>1 DEF Ledger
<1>3. reads' \in [Warehouse -> SUBSET Int]
  BY EnterIs DEF Ledger
<1>4. QED
  BY <1>1, <1>2, <1>3 DEF Ledger, LinesStay

LEMMA EnterElsewhere ==
  ASSUME Ledger, NEW w \in Warehouse, NEW q \in Int, NEW moves \in Moves, Enter(w, q, moves)
  PROVE  \A v \in Warehouse \ {w} : /\ cost'[v] = cost[v] /\ quantity'[v] = quantity[v]
                                    /\ value'[v] = value[v] /\ onhand'[v] = onhand[v]
<1>1. /\ \E c \in Amounts : cost' = [cost EXCEPT ![w] = c]
      /\ \E n \in Int : quantity' = [quantity EXCEPT ![w] = n]
      /\ \E n \in Int : onhand' = [onhand EXCEPT ![w] = n]
      /\ \E v \in Amounts : value' = [value EXCEPT ![w] = v]
  BY EnterIs
<1>2. QED
  BY <1>1 DEF Ledger

------------------------------------------------------------------------------
(* The stores                                                                *)

LEMMA AppendKeeps ==
  ASSUME NEW S, NEW s \in Seq(S), NEW e \in S
  PROVE  Append(s, e) \in Seq(S)
BY AppendProperties

\* Moves that are done have a cost line and layers.
LEMMA DoneKeeps ==
  ASSUME Stores, NEW w \in Warehouse, NEW qtys \in Seq(Nat), NEW prices,
         \A i \in 1..Len(qtys) : prices[i] \in Source,
         Done(w, qtys, prices), LinesStay, cost'[w] # NoCost
  PROVE  Stores'
<1> DEFINE L == Len(qtys)
           M == Len(done)
           a == [i \in 1..L |-> [wh |-> w, qty |-> qtys[i], price |-> prices[i]]]
           b == [i \in 1..L |-> [move |-> M + i, left |-> qtys[i]]]
<1>1. L \in Nat /\ M \in Nat /\ done \in Seq(DoneMove) /\ layers \in Seq(Layer)
      /\ \A i \in 1..L : qtys[i] \in Nat
  BY DEF Stores
<1>2. done' = done \o a /\ layers' = layers \o b
  BY DEF Done
<1>3. \A i \in 1..L : prices[i] \in Source
  OBVIOUS
<1> HIDE DEF L, M
<1>4. a \in Seq(DoneMove) /\ Len(a) = L /\ \A i \in 1..L : a[i].wh = w
  <2>1. \A i \in 1..L : [wh |-> w, qty |-> qtys[i], price |-> prices[i]] \in DoneMove
    BY <1>1, <1>3 DEF DoneMove
  <2>2. a \in [1..L -> DoneMove]
    BY <2>1
  <2>3. QED
    BY <1>1, <2>2
<1>5. b \in Seq(Layer)
  <2>1. \A i \in 1..L : [move |-> M + i, left |-> qtys[i]] \in Layer
    BY <1>1 DEF Layer
  <2>2. b \in [1..L -> Layer]
    BY <2>1
  <2>3. QED
    BY <1>1, <2>2
<1> HIDE DEF a, b
<1>6. /\ done \o a \in Seq(DoneMove)
      /\ Len(done \o a) = M + L
      /\ \A i \in 1..M + L : (done \o a)[i] = IF i <= M THEN done[i] ELSE a[i - M]
  BY <1>1, <1>4, ConcatProperties DEF M
<1>7. layers' \in Seq(Layer)
  BY <1>1, <1>2, <1>5, ConcatProperties
<1>8. done' \in Seq(DoneMove) /\ DOMAIN done' = 1..M + L
      /\ \A i \in 1..M + L : done'[i] = IF i <= M THEN done[i] ELSE a[i - M]
  BY <1>2, <1>6
<1>9. ASSUME NEW i \in DOMAIN done'
      PROVE  cost'[done'[i].wh] # NoCost
  <2>1. i \in 1..M + L
    BY <1>8
  <2>2. CASE i <= M
    <3>1. i \in DOMAIN done
      BY <1>1, <2>1, <2>2 DEF M
    <3>2. done[i].wh \in Warehouse /\ cost[done[i].wh] # NoCost
      BY <3>1, DoneIs
    <3>3. QED
      BY <1>8, <2>1, <2>2, <3>2 DEF LinesStay
  <2>3. CASE ~(i <= M)
    <3>1. i - M \in 1..L
      BY <1>1, <2>1, <2>3
    <3>2. QED
      BY <1>4, <1>8, <2>1, <2>3, <3>1
  <2>4. QED
    BY <2>2, <2>3
<1>10. QED
  BY <1>7, <1>8, <1>9 DEF Stores

\* The quantity of one move is another one.
LEMMA CorrectKeeps ==
  ASSUME Stores, NEW i \in DOMAIN done, NEW k \in Int, done[i].qty + k \in Nat,
         Correct(i, k), LinesStay, layers' \in Seq(Layer)
  PROVE  Stores'
<1> DEFINE m == [done[i] EXCEPT !.qty = done[i].qty + k]
<1>1. /\ done[i] \in DoneMove /\ i \in 1..Len(done)
      /\ done \in Seq(DoneMove) /\ Len(done) \in Nat
  BY DoneIs DEF Stores
<1>2. m \in DoneMove /\ m.wh = done[i].wh
  BY <1>1 DEF DoneMove
<1>3. done' = [done EXCEPT ![i] = m]
  BY DEF Correct
<1> HIDE DEF m
<1>4. done' \in Seq(DoneMove) /\ Len(done') = Len(done)
      /\ \A j \in 1..Len(done) : done'[j] = IF j = i THEN m ELSE done[j]
  BY <1>1, <1>2, <1>3, ExceptSeq
<1>5. ASSUME NEW j \in DOMAIN done'
      PROVE  cost'[done'[j].wh] # NoCost
  <2>1. j \in 1..Len(done) /\ j \in DOMAIN done
    BY <1>1, <1>4
  <2>2. done'[j].wh = done[j].wh
    BY <1>2, <1>4, <2>1
  <2>3. done[j].wh \in Warehouse /\ cost[done[j].wh] # NoCost
    BY <2>1, DoneIs
  <2>4. QED
    BY <2>2, <2>3 DEF LinesStay
<1>6. QED
  BY <1>4, <1>5 DEF Stores

LEMMA StoresStay ==
  ASSUME Stores, LinesStay, done' = done, layers' \in Seq(Layer)
  PROVE  Stores'
<1>1. ASSUME NEW i \in DOMAIN done
      PROVE  cost'[done[i].wh] # NoCost
  BY DoneIs DEF LinesStay
<1>2. QED
  BY <1>1 DEF Stores

LEMMA ConsumedKeeps ==
  ASSUME Stores, NEW n \in Int
  PROVE  Consumed(n) \in Seq(Layer)
<1> DEFINE L == Len(layers)
           q == [i \in 1..L |-> layers[i].left]
           Left == Running(0, q)
           Taken(i) == IF n <= Left[i - 1] THEN 0
                       ELSE IF n - Left[i - 1] < layers[i].left THEN n - Left[i - 1]
                       ELSE layers[i].left
           K == [i \in DOMAIN layers |-> [layers[i] EXCEPT !.left = @ - Taken(i)]]
<1>1. L \in Nat /\ DOMAIN layers = 1..L /\ layers \in [1..L -> Layer]
  BY DEF Stores
<1>2. Consumed(n) = K
  BY DEF Consumed
<1> HIDE DEF L
<1>3. \A i \in 1..L : layers[i] \in Layer
  BY <1>1
<1>4. Left \in [0..L -> Int]
  <2>1. q \in [1..L -> Int]
    BY <1>3 DEF Layer
  <2> HIDE DEF q
  <2>2. q \in Seq(Int) /\ Len(q) = L
    BY <1>1, <2>1
  <2>3. QED
    BY <2>2, RunningIs
<1> HIDE DEF Left
<1>5. ASSUME NEW i \in 1..L
      PROVE  Taken(i) \in 0..layers[i].left /\ layers[i].left \in Nat
  <2>1. Left[i - 1] \in Int /\ layers[i].left \in Nat
    <3>1. i - 1 \in 0..L
      BY <1>1
    <3>2. QED
      BY <1>3, <1>4, <3>1 DEF Layer
  <2>2. QED
    BY <2>1
<1> HIDE DEF Taken
<1>6. ASSUME NEW i \in 1..L
      PROVE  K[i] \in Layer
  <2>1. K[i] = [layers[i] EXCEPT !.left = layers[i].left - Taken(i)]
    BY <1>1
  <2>2. layers[i].left - Taken(i) \in Nat
    BY <1>5
  <2>3. layers[i] \in Layer
    BY <1>3
  <2>4. QED
    BY <2>1, <2>2, <2>3 DEF Layer
<1>7. K = [i \in 1..L |-> K[i]]
  BY <1>1
<1> HIDE DEF K
<1>8. K \in Seq(Layer)
  BY <1>1, <1>6, <1>7
<1>9. QED
  BY <1>2, <1>8

------------------------------------------------------------------------------
(* Moves in and out                                                          *)

LEMMA LeaveKeeps ==
  ASSUME Ledger, Stores, NEW w \in Warehouse, NEW n \in Int, Leave(w, n)
  PROVE  Ledger' /\ Stores'
<1>1. /\ onhand' = [onhand EXCEPT ![w] = @ - n] /\ layers' = Consumed(n)
      /\ cost' = cost /\ done' = done /\ reads' = reads
  BY DEF Leave
<1>2. value' \in [Warehouse -> Amounts] /\ quantity' \in [Warehouse -> Int]
  <2>1. CASE CostOf(w) # Whole(0)
    <3>1. quantity' = [quantity EXCEPT ![w] = @ - n] /\ value' = [value EXCEPT ![w] = Plus(@, Times(CostOf(w), -n))]
      BY <2>1 DEF Leave
    <3>2. CostOf(w) \in Amounts /\ -n \in Int /\ value[w] \in Amounts
      BY CostsAreAmounts DEF Ledger
    <3>3. Plus(value[w], Times(CostOf(w), -n)) \in Amounts
      <4>1. Times(CostOf(w), -n) \in Amounts
        BY <3>2, TimesIs
      <4>2. QED
        BY <3>2, <4>1, PlusIs
    <3>4. QED
      BY <3>1, <3>3 DEF Ledger
  <2>2. CASE CostOf(w) = Whole(0)
    BY <2>2 DEF Leave, Ledger
  <2>3. QED
    BY <2>1, <2>2
<1>3. Stores'
  BY <1>1, ConsumedKeeps, StoresStay DEF LinesStay
<1>4. onhand' \in [Warehouse -> Int] /\ cost' \in [Warehouse -> {NoCost} \cup Amounts]
  BY <1>1 DEF Ledger
<1>5. QED
  BY <1>1, <1>2, <1>3, <1>4 DEF Ledger

LEMMA RegainKeeps ==
  ASSUME Ledger, Stores, NEW w \in Warehouse, NEW n \in Nat, Regain(w, n)
  PROVE  Ledger' /\ Stores'
<1>1. /\ onhand' = [onhand EXCEPT ![w] = @ + n]
      /\ layers' = Append(layers, [move |-> NoMove, left |-> n])
      /\ cost' = cost /\ quantity' = quantity /\ value' = value /\ done' = done
      /\ reads' = reads
  BY DEF Regain
<1>2. layers' \in Seq(Layer)
  <2>1. [move |-> NoMove, left |-> n] \in Layer
    BY DEF Layer, NoMove
  <2>2. QED
    BY <1>1, <2>1, AppendKeeps DEF Stores
<1>3. Stores'
  BY <1>1, <1>2, StoresStay DEF LinesStay
<1>4. QED
  BY <1>1, <1>3 DEF Ledger

\* The moves of each kind of receipt.
PricesOf(lines) == [i \in 1..Len(lines) |-> Whole(lines[i].price)]
Receipt(lines) == [i \in 1..Len(lines) |-> [qty   |-> lines[i].qty,
                                            price |-> PricesOf(lines)[i],
                                            unit  |-> PricesOf(lines)[i]]]

LEMMA ReceiptIs ==
  ASSUME NEW lines \in Orders
  PROVE  /\ Receipt(lines) \in Moves
         /\ Len(Receipt(lines)) = Len(lines)
         /\ \A i \in 1..Len(lines) : Receipt(lines)[i].unit = Receipt(lines)[i].price
         /\ Quantities(lines) \in Seq(Nat) /\ Len(Quantities(lines)) = Len(lines)
         /\ \A i \in 1..Len(lines) : PricesOf(lines)[i] \in Source
<1> DEFINE L == Len(lines)
           Line == [qty : Nat \ {0}, price : Nat]
           Move == [qty : Nat \ {0}, price : Amounts, unit : Amounts]
<1>1. lines \in Seq(Line)
  BY CostAssumption
<1> HIDE DEF Line
<1>2. L \in Nat /\ \A i \in 1..L : lines[i] \in Line
  BY <1>1
<1> HIDE DEF L
<1>3. \A i \in 1..L : lines[i].qty \in Nat \ {0} /\ PricesOf(lines)[i] \in Amounts
  BY <1>2, WholeIs DEF Line, PricesOf, L
<1>4. \A i \in 1..L : /\ Receipt(lines)[i] \in Move
                      /\ Receipt(lines)[i].unit = Receipt(lines)[i].price
  BY <1>3 DEF Receipt, L
<1>5. Receipt(lines) = [i \in 1..L |-> Receipt(lines)[i]]
  BY DEF Receipt, L
<1> HIDE DEF Move
<1>6. Receipt(lines) \in Seq(Move) /\ Len(Receipt(lines)) = L
  BY <1>2, <1>4, <1>5
<1>7. Quantities(lines) \in Seq(Nat) /\ Len(Quantities(lines)) = L
  <2>1. Quantities(lines) = [i \in 1..L |-> lines[i].qty]
    BY DEF Quantities, L
  <2>2. Quantities(lines) \in [1..L -> Nat]
    BY <1>3, <2>1
  <2>3. QED
    BY <1>2, <2>2
<1>8. QED
  BY <1>3, <1>4, <1>6, <1>7 DEF Moves, Move, L, Source

LEMMA OneMove ==
  ASSUME NEW n \in Qty, NEW p \in Amounts, NEW u \in Amounts
  PROVE  /\ <<[qty |-> n, price |-> p, unit |-> u]>> \in Moves
         /\ Len(<<[qty |-> n, price |-> p, unit |-> u]>>) = 1
<1> DEFINE m == [qty |-> n, price |-> p, unit |-> u]
           M == [qty : Nat \ {0}, price : Amounts, unit : Amounts]
<1>1. m \in M
  BY CostAssumption
<1> HIDE DEF m, M
<1>2. <<m>> \in Seq(M) /\ Len(<<m>>) = 1
  BY <1>1
<1>3. QED
  BY <1>2 DEF Moves, m, M

LEMMA SingleIs ==
  ASSUME NEW n \in Qty, NEW c \in Amounts
  PROVE  /\ Single(n, c) \in Moves
         /\ Len(Single(n, c)) = 1
         /\ ~(c[1] < 0) => \A i \in 1..Len(Single(n, c)) : Single(n, c)[i].unit = Single(n, c)[i].price
<1>1. Positive(c) \in Amounts /\ (c[1] >= 0 => Positive(c) = c) /\ c[1] \in Int
  BY PositiveIs
<1>2. Single(n, c) = <<[qty |-> n, price |-> c, unit |-> Positive(c)]>>
  BY DEF Single
<1> HIDE DEF Single
<1>3. Single(n, c) \in Moves /\ Len(Single(n, c)) = 1
  BY <1>1, <1>2, OneMove, Zenon
<1>4. Single(n, c)[1].unit = Positive(c) /\ Single(n, c)[1].price = c
  BY <1>2
<1>5. QED
  BY <1>1, <1>3, <1>4

\* One move that is done.
LEMMA SingleDone ==
  ASSUME NEW n \in Qty, NEW p \in Source
  PROVE  /\ <<n>> \in Seq(Nat)
         /\ \A i \in 1..Len(<<n>>) : <<p>>[i] \in Source
<1>1. n \in Nat
  BY CostAssumption
<1>2. QED
  BY <1>1

LEMMA MeanIs ==
  ASSUME Rest, NEW i \in DOMAIN sold
  PROVE  MeanOf(i) \in Amounts
<1>1. sold[i].qty \in Nat /\ sold[i].worth \in Amounts
  BY SoldIs
<1>2. CASE sold[i].qty = 0
  BY <1>2, WholeIs DEF MeanOf
<1>3. CASE sold[i].qty # 0
  <2>1. sold[i].qty \in Int \ {0}
    BY <1>1, <1>3
  <2>2. Over(sold[i].worth, sold[i].qty) \in Amounts
    BY <1>1, <2>1, OverIs
  <2>3. QED
    BY <1>3, <2>2 DEF MeanOf
<1>4. QED
  BY <1>2, <1>3

LEMMA PriceIs ==
  ASSUME Ledger, Stores, NEW i \in DOMAIN done, done[i].price # NoCost
  PROVE  PriceOf(i) \in Amounts
BY DoneIs, CostsAreAmounts DEF PriceOf, Source

\* A move of a return order is an Enter, too.
LEMMA BringIs ==
  ASSUME Ledger, Rest, NEW w \in Warehouse, NEW q \in Int, NEW n \in Qty, NEW m \in Nat, Bring(w, q, n, m)
  PROVE  \E moves \in Moves : Enter(w, q, moves)
<1>1. PICK s \in Price :
        LET price == IF CostOf(w) = Whole(0) THEN Whole(s) ELSE CostOf(w)
            after == Averages(CostOf(w), q, <<[qty |-> n, price |-> price]>>)[1]
            first == {Over(Positive(sold[i].first), sold[i].qty) :
                        i \in {j \in DOMAIN sold : sold[j].qty # 0}}
        IN  /\ Computable(q, <<[qty |-> n]>>)
            /\ \E c \in first \cup {after} :
                 Enter(w, q, <<[qty |-> n, price |-> price, unit |-> Over(Times(c, m), n)]>>)
  BY DEF Bring
<1> DEFINE price == IF CostOf(w) = Whole(0) THEN Whole(s) ELSE CostOf(w)
           after == Averages(CostOf(w), q, <<[qty |-> n, price |-> price]>>)[1]
           first == {Over(Positive(sold[i].first), sold[i].qty) :
                       i \in {j \in DOMAIN sold : sold[j].qty # 0}}
<1>2. price \in Amounts
  BY WholeIs, CostsAreAmounts, CostAssumption
<1>3. Computable(q, <<[qty |-> n]>>)
  BY <1>1
<1>4. PICK c \in first \cup {after} :
        Enter(w, q, <<[qty |-> n, price |-> price, unit |-> Over(Times(c, m), n)]>>)
  BY <1>1
<1> HIDE DEF price, first
<1>5. c \in Amounts
  <2>1. CASE c \in first
    <3>1. PICK i \in DOMAIN sold : sold[i].qty # 0 /\ c = Over(Positive(sold[i].first), sold[i].qty)
      BY <2>1 DEF first
    <3>2. sold[i].qty \in Int \ {0} /\ Positive(sold[i].first) \in Amounts
      BY <3>1, SoldIs, PositiveIs
    <3>3. QED
      BY <3>1, <3>2, OverIs
  <2>2. CASE c = after
    <3> DEFINE k == Single(n, price)
               h == <<[qty |-> n, price |-> price]>>
               o == <<[qty |-> n]>>
    <3>1. k \in Moves /\ Len(k) = 1
      BY <1>2, SingleIs
    <3>2. Averages(CostOf(w), q, h) = Averages(CostOf(w), q, k)
      <4>1. Len(h) = 1 /\ Len(k) = 1 /\ \A i \in 1..1 : h[i].qty = k[i].qty /\ h[i].price = k[i].price
        BY DEF Single
      <4> HIDE DEF k, h
      <4>2. Quantities(h) = Quantities(k)
        BY <4>1 DEF Quantities
      <4>3. QED
        BY <4>1, <4>2 DEF Averages
    <3>3. Computable(q, k)
      <4>1. Len(o) = 1 /\ Len(k) = 1 /\ \A i \in 1..1 : o[i].qty = k[i].qty
        BY DEF Single
      <4>2. Computable(q, o)
        BY <1>3
      <4> HIDE DEF k, o
      <4>3. Quantities(o) = Quantities(k)
        BY <4>1 DEF Quantities
      <4>4. QED
        BY <4>1, <4>2, <4>3 DEF Computable
    <3>4. CostOf(w) \in Amounts
      BY CostsAreAmounts
    <3>5. after = Averages(CostOf(w), q, h)[1]
      OBVIOUS
    <3> HIDE DEF k, h, after
    <3>6. Averages(CostOf(w), q, k) \in [0..1 -> Amounts]
      BY <3>1, <3>3, <3>4, AveragesAre
    <3>7. QED
      BY <2>2, <3>2, <3>5, <3>6
  <2>3. QED
    BY <1>4, <2>1, <2>2
<1>6. Over(Times(c, m), n) \in Amounts
  <2>1. n \in Int \ {0} /\ m \in Int
    BY CostAssumption
  <2>2. Times(c, m) \in Amounts
    BY <1>5, <2>1, TimesIs
  <2>3. QED
    BY <2>1, <2>2, OverIs
<1>7. <<[qty |-> n, price |-> price, unit |-> Over(Times(c, m), n)]>> \in Moves
  BY <1>2, <1>6, OneMove
<1>8. QED
  BY <1>4, <1>7

\* Internal transfers, of which some move the cost.
LEMMA ReplenishKeeps ==
  ASSUME CostInv, NEW w \in Warehouse, NEW v \in Warehouse, NEW n \in Qty, Replenish(w, v, n)
  PROVE  Ledger' /\ LinesStay
<1> DEFINE own == IF cost[v] = NoCost THEN 0 ELSE onhand[v]
           new == IF cost[v] # NoCost
                  THEN Plus(Times(cost[v], own), Times(CostOf(w), n))
                  ELSE CostOf(w)
<1>1. Ledger
  BY PartsOfCostInv
<1>2. CostOf(w) \in Amounts /\ own \in Int /\ n \in Int /\ (cost[v] # NoCost => cost[v] \in Amounts)
  BY <1>1, CostsAreAmounts, CostAssumption DEF Ledger
<1> HIDE DEF own
<1>3. new \in Amounts
  <2>1. CASE cost[v] = NoCost
    BY <1>2, <2>1
  <2>2. CASE cost[v] # NoCost
    <3>1. Times(cost[v], own) \in Amounts /\ Times(CostOf(w), n) \in Amounts
      BY <1>2, <2>2, TimesIs
    <3>2. QED
      BY <2>2, <3>1, PlusIs
  <2>3. QED
    BY <2>1, <2>2
<1>4. /\ (cost' = cost \/ (own + n # 0 /\ cost' = [cost EXCEPT ![v] = Over(new, own + n)]))
      /\ (reads' = reads \/ reads' = [reads EXCEPT ![v] = {}])
      /\ onhand' = [onhand EXCEPT ![w] = @ - n, ![v] = @ + n]
      /\ quantity' = quantity /\ value' = value
  <2>1. IF cost[v] = NoCost /\ cost[w] = NoCost THEN UNCHANGED <<cost, reads>>
        ELSE /\ own + n # 0
             /\ cost' = [cost EXCEPT ![v] = Over(new, own + n)]
             /\ reads' = [reads EXCEPT ![v] = {}]
    BY Zenon DEF Replenish, own
  <2>2. /\ onhand' = [onhand EXCEPT ![w] = @ - n, ![v] = @ + n]
        /\ quantity' = quantity /\ value' = value
    BY DEF Replenish
  <2> HIDE DEF new
  <2>3. /\ cost' = cost \/ (own + n # 0 /\ cost' = [cost EXCEPT ![v] = Over(new, own + n)])
        /\ reads' = reads \/ reads' = [reads EXCEPT ![v] = {}]
    BY <2>1
  <2> HIDE DEF own
  <2>4. QED
    BY <2>2, <2>3, Zenon
<1> HIDE DEF new
<1>5. /\ cost' \in [Warehouse -> {NoCost} \cup Amounts]
      /\ \A u \in Warehouse : cost[u] # NoCost => cost'[u] # NoCost
  <2>1. CASE cost' = cost
    BY <1>1, <2>1 DEF Ledger
  <2>2. CASE own + n # 0 /\ cost' = [cost EXCEPT ![v] = Over(new, own + n)]
    <3>1. own + n \in Int \ {0}
      BY <1>2, <2>2
    <3>2. Over(new, own + n) \in Amounts /\ Over(new, own + n) # NoCost
      BY <1>3, <3>1, OverIs, NoCostIsNone
    <3>3. QED
      BY <1>1, <2>2, <3>2 DEF Ledger
  <2>3. QED
    BY <1>4, <2>1, <2>2
<1>6. onhand' \in [Warehouse -> Int] /\ reads' \in [Warehouse -> SUBSET Int]
  BY <1>1, <1>2, <1>4 DEF Ledger
<1>7. QED
  BY <1>1, <1>4, <1>5, <1>6 DEF Ledger, LinesStay

LEMMA RelocateKeeps ==
  ASSUME Ledger, NEW w \in Warehouse, NEW v \in Warehouse, NEW n \in Qty, Relocate(w, v, n)
  PROVE  Ledger' /\ LinesStay
<1>1. onhand' \in [Warehouse -> Int]
  BY CostAssumption DEF Relocate, Ledger
<1>2. QED
  BY <1>1 DEF Relocate, Ledger, LinesStay

\* A receipt that is corrected downwards.
LEMMA LowerInKeeps ==
  ASSUME Ledger, Stores, NEW i \in DOMAIN done, NEW n \in Qty, LowerIn(i, n)
  PROVE  Ledger' /\ Stores' /\ LinesStay
<1> DEFINE w == done[i].wh
<1>1. w \in Warehouse /\ done[i].qty \in Nat /\ n \in Nat /\ n <= done[i].qty
  BY DoneIs, CostAssumption DEF LowerIn
<1>2. PICK s \in Price : value' = [value EXCEPT ![w] = Plus(@, Whole(-n * s))]
  BY DEF LowerIn
<1>3. /\ onhand' = [onhand EXCEPT ![w] = @ - n] /\ quantity' = [quantity EXCEPT ![w] = @ - n]
      /\ cost' = cost /\ layers' = Consumed(n) /\ Correct(i, -n) /\ reads' = reads
  BY DEF LowerIn
<1> HIDE DEF w
<1>4. Plus(value[w], Whole(-n * s)) \in Amounts
  <2>1. -n * s \in Int
    BY <1>1, CostAssumption
  <2>2. Whole(-n * s) \in Amounts /\ value[w] \in Amounts
    BY <1>1, <2>1, WholeIs DEF Ledger
  <2>3. QED
    BY <2>2, PlusIs
<1>5. Ledger' /\ LinesStay
  BY <1>1, <1>2, <1>3, <1>4 DEF Ledger, LinesStay
<1>6. layers' \in Seq(Layer)
  BY <1>1, <1>3, ConsumedKeeps
<1>7. -n \in Int /\ done[i].qty + (-n) \in Nat
  BY <1>1
<1>8. Stores'
  BY <1>3, <1>5, <1>6, <1>7, CorrectKeeps
<1>9. QED
  BY <1>5, <1>8

\* What is in transit, however a move of a transfer changes.
LEMMA TransitStays ==
  ASSUME Rest, NEW i \in DOMAIN done, NEW k \in Int, Stores, Correct(i, k)
  PROVE  transit' \in [Warehouse \X Warehouse -> Int]
<1>1. done[i].wh \in Warehouse
  BY DoneIs
<1>2. CASE done[i].price \in Warehouse
  <2> DEFINE p == <<done[i].price, done[i].wh>>
  <2>1. p \in Warehouse \X Warehouse
    BY <1>1, <1>2
  <2>2. transit' = [transit EXCEPT ![p] = @ - k]
    BY <1>2 DEF Correct
  <2> HIDE DEF p
  <2>3. QED
    BY <2>1, <2>2 DEF Rest
<1>3. CASE done[i].price \notin Warehouse
  BY <1>3 DEF Correct, Rest
<1>4. QED
  BY <1>2, <1>3

LEMMA WorthOutIs ==
  ASSUME Ledger, NEW w \in Warehouse, NEW n \in Int, NEW s \in Price
  PROVE  WorthOut(w, n, s) \in Amounts
<1>1. CostOf(w) \in Amounts /\ Whole(s) \in Amounts
  BY CostsAreAmounts, WholeIs, CostAssumption
<1>2. QED
  BY <1>1, TimesIs DEF WorthOut

\* One delivery is corrected by k, and its worth by a.
LEMMA SoldKeeps ==
  ASSUME Rest, NEW i \in DOMAIN sold, NEW k \in Int, sold[i].qty + k \in Nat, NEW a \in Amounts,
         sold' = [sold EXCEPT ![i] = Corrected(i, k, a)]
  PROVE  sold' \in Seq(Sale)
<1> DEFINE d == [sold[i] EXCEPT !.qty = sold[i].qty + k, !.worth = Plus(sold[i].worth, a)]
<1>1. sold[i] \in Sale /\ i \in 1..Len(sold) /\ sold[i].worth \in Amounts
  BY SoldIs
<1>2. Plus(sold[i].worth, a) \in Amounts
  BY <1>1, PlusIs
<1>3. d \in Sale
  BY <1>1, <1>2 DEF Sale
<1>4. sold' = [sold EXCEPT ![i] = d]
  BY DEF Corrected
<1> HIDE DEF d
<1>5. QED
  BY <1>1, <1>3, <1>4, ExceptSeq DEF Rest

------------------------------------------------------------------------------
(* Changes of value                                                          *)

LEMMA RevalueKeeps ==
  ASSUME CostInv, NEW w \in Warehouse, Revalue(w)
  PROVE  Ledger' /\ LinesStay
<1>1. Ledger
  BY PartsOfCostInv
<1>2. cost[w] \in Amounts /\ value[w] \in Amounts /\ quantity[w] \in Int /\ Whole(Extra) \in Amounts
  BY <1>1, CostsAreAmounts, WholeIs, CostAssumption DEF Ledger, Revalue
<1> DEFINE e == IF quantity[w] > 0 THEN Over(Whole(Extra), quantity[w]) ELSE Whole(Extra)
           a == Plus(value[w], Whole(Extra))
           c == Plus(cost[w], e)
<1>3. e \in Amounts
  BY <1>2, OverIs
<1>4. a \in Amounts
  BY <1>2, PlusIs
<1> HIDE DEF e
<1>5. c \in Amounts /\ c # NoCost
  BY <1>2, <1>3, PlusIs, NoCostIsNone
<1> HIDE DEF a, c
<1>6. /\ value' = [value EXCEPT ![w] = a] /\ cost' = [cost EXCEPT ![w] = c]
      /\ reads' = [reads EXCEPT ![w] = {}]
  BY DEF Revalue, a, c, e
<1>7. quantity' = quantity /\ onhand' = onhand
  BY DEF Revalue
<1>8. /\ value' \in [Warehouse -> Amounts] /\ cost' \in [Warehouse -> {NoCost} \cup Amounts]
      /\ reads' \in [Warehouse -> SUBSET Int]
  BY <1>1, <1>4, <1>5, <1>6 DEF Ledger
<1>9. \A u \in Warehouse : cost[u] # NoCost => cost'[u] # NoCost
  BY <1>1, <1>5, <1>6 DEF Ledger
<1>10. QED
  BY <1>1, <1>7, <1>8, <1>9 DEF Ledger, LinesStay

\* What a landed cost over the done moves is adds to those among js, and where.
Share(i) == Over(Whole(Extra * Remaining(i)), done[i].qty)
Shares(js) == [i \in 1..Len(done) |-> IF i \in js THEN Share(i) ELSE Whole(0)]
Landed(js) == Totals(Whole(0), Shares(js))[Len(done)]
Into(is) == {done[i].wh : i \in is}

LEMMA LandIs ==
  ASSUME NEW is \in SUBSET DOMAIN done, Land(is)
  PROVE  /\ is # {} /\ \A i \in is : done[i].qty # 0
         /\ \A w \in Into(is) : cost[w] = NoCost \/ quantity[w] # 0
         /\ value' = [w \in Warehouse |-> Plus(value[w], Landed({i \in is : done[i].wh = w}))]
         /\ cost' = [w \in Warehouse |->
                       IF w \in Into(is) /\ cost[w] # NoCost
                       THEN Plus(cost[w], Over(Landed(is), quantity[w])) ELSE cost[w]]
         /\ reads' = [w \in Warehouse |-> IF w \in Into(is) THEN {} ELSE reads[w]]
         /\ quantity' = quantity /\ onhand' = onhand /\ layers' = layers /\ done' = done
BY Zenon DEF Land, Landed, Shares, Share, Into

LEMMA RemainingIs ==
  ASSUME Stores, NEW i
  PROVE  Remaining(i) \in Int
<1> DEFINE L == Len(layers)
           q == [k \in 1..L |-> IF layers[k].move = i THEN layers[k].left ELSE 0]
<1>1. L \in Nat /\ \A k \in 1..L : layers[k] \in Layer
  BY DEF Stores
<1>2. Remaining(i) = Running(0, q)[L]
  BY DEF Remaining
<1> HIDE DEF L
<1>3. q \in [1..L -> Int]
  BY <1>1 DEF Layer
<1> HIDE DEF q
<1>4. q \in Seq(Int) /\ Len(q) = L
  BY <1>1, <1>3
<1>5. Running(0, q) \in [0..L -> Int]
  BY <1>4, RunningIs
<1>6. QED
  BY <1>1, <1>2, <1>5

LEMMA SharesAre ==
  ASSUME Stores, NEW js, \A i \in js : done[i].qty # 0
  PROVE  /\ Shares(js) \in Seq(Amounts) /\ Len(Shares(js)) = Len(done)
         /\ \A i \in 1..Len(done) : i \notin js => Shares(js)[i] = Whole(0)
         /\ Landed(js) \in Amounts
<1> DEFINE L == Len(done)
<1>1. L \in Nat /\ \A i \in 1..L : done[i] \in DoneMove
  BY DEF Stores
<1>2. Shares(js) = [i \in 1..L |-> IF i \in js THEN Share(i) ELSE Whole(0)]
  BY DEF Shares
<1>3. Landed(js) = Totals(Whole(0), Shares(js))[L]
  BY DEF Landed
<1> HIDE DEF L
<1>4. Whole(0) \in Amounts
  BY WholeIs
<1>5. \A i \in 1..L : i \in js => Share(i) \in Amounts
  <2> TAKE i \in 1..L
  <2> HAVE i \in js
  <2>1. Remaining(i) \in Int /\ done[i].qty \in Int \ {0}
    BY <1>1, RemainingIs DEF DoneMove
  <2>2. Extra * Remaining(i) \in Int
    BY <2>1, CostAssumption
  <2>3. Whole(Extra * Remaining(i)) \in Amounts
    BY <2>2, WholeIs
  <2>4. QED
    BY <2>1, <2>3, OverIs DEF Share
<1>6. Shares(js) \in [1..L -> Amounts] /\ \A i \in 1..L : i \notin js => Shares(js)[i] = Whole(0)
  BY <1>2, <1>4, <1>5
<1>7. Shares(js) \in Seq(Amounts) /\ Len(Shares(js)) = L
  BY <1>1, <1>6
<1>8. Totals(Whole(0), Shares(js)) \in [0..L -> Amounts]
  BY <1>4, <1>7, TotalsIs
<1>9. L \in 0..L
  BY <1>1
<1>10. Landed(js) \in Amounts
  BY <1>3, <1>8, <1>9
<1>11. QED
  BY <1>6, <1>7, <1>10 DEF L

LEMMA LandKeeps ==
  ASSUME CostInv, NEW is \in SUBSET DOMAIN done, Land(is)
  PROVE  Ledger' /\ LinesStay
<1>1. Ledger
  BY PartsOfCostInv
<1>2. \A js \in SUBSET is : Landed(js) \in Amounts
  BY LandIs, SharesAre, PartsOfCostInv
<1>3. /\ \A w \in Into(is) : cost[w] = NoCost \/ quantity[w] # 0
      /\ value' = [w \in Warehouse |-> Plus(value[w], Landed({i \in is : done[i].wh = w}))]
      /\ cost' = [w \in Warehouse |->
                    IF w \in Into(is) /\ cost[w] # NoCost
                    THEN Plus(cost[w], Over(Landed(is), quantity[w])) ELSE cost[w]]
      /\ reads' = [w \in Warehouse |-> IF w \in Into(is) THEN {} ELSE reads[w]]
      /\ quantity' = quantity /\ onhand' = onhand
  BY LandIs
<1>4. value' \in [Warehouse -> Amounts]
  <2>1. \A w \in Warehouse : Plus(value[w], Landed({i \in is : done[i].wh = w})) \in Amounts
    BY <1>1, <1>2, PlusIs DEF Ledger
  <2>2. QED
    BY <1>3, <2>1
<1>5. ASSUME NEW w \in Warehouse
      PROVE  cost'[w] \in {NoCost} \cup Amounts /\ (cost[w] # NoCost => cost'[w] # NoCost)
  <2>1. CASE w \in Into(is) /\ cost[w] # NoCost
    <3>1. cost'[w] = Plus(cost[w], Over(Landed(is), quantity[w]))
      BY <1>3, <2>1
    <3>2. quantity[w] \in Int \ {0} /\ cost[w] \in Amounts
      BY <1>1, <1>3, <2>1 DEF Ledger
    <3>3. Over(Landed(is), quantity[w]) \in Amounts
      BY <1>2, <3>2, OverIs
    <3>4. QED
      BY <3>1, <3>2, <3>3, PlusIs, NoCostIsNone
  <2>2. CASE ~(w \in Into(is) /\ cost[w] # NoCost)
    BY <1>1, <1>3, <2>2 DEF Ledger
  <2>3. QED
    BY <2>1, <2>2
<1>6. cost' \in [Warehouse -> {NoCost} \cup Amounts]
  <2>1. cost' = [w \in Warehouse |-> cost'[w]]
    BY <1>3
  <2>2. QED
    BY <1>5, <2>1
<1>7. reads' \in [Warehouse -> SUBSET Int]
  BY <1>1, <1>3 DEF Ledger
<1>8. QED
  BY <1>1, <1>3, <1>4, <1>5, <1>6, <1>7 DEF Ledger, LinesStay


------------------------------------------------------------------------------
(* The invariant                                                             *)

LEMMA InitCostInv == Init => CostInv
<1> SUFFICES ASSUME Init PROVE Ledger /\ Stores /\ Rest
  BY PartsOfCostInv
<1>1. Ledger
  <2>1. Whole(0) \in Amounts
    BY WholeIs
  <2>2. QED
    BY <2>1 DEF Init, Ledger
<1>2. Stores
  <2>1. done = <<>> /\ layers = <<>>
    BY DEF Init
  <2>2. done \in Seq(DoneMove) /\ layers \in Seq(Layer) /\ DOMAIN done = {}
    BY <2>1
  <2>3. QED
    BY <2>2 DEF Stores
<1>3. Rest
  BY CostAssumption DEF Init, Rest
<1>4. QED
  BY <1>1, <1>2, <1>3

\* Moves that bring stock.
LEMMA ArrivalsKeep ==
  ASSUME Ledger, Stores, NEW w \in Warehouse, NEW q \in Int, NEW moves \in Moves, Enter(w, q, moves),
         NEW qtys \in Seq(Nat), NEW prices, \A i \in 1..Len(qtys) : prices[i] \in Source,
         Done(w, qtys, prices)
  PROVE  Ledger' /\ Stores'
BY EnterKeeps, DoneKeeps

\* More of one that is done.
LEMMA RaisedKeeps ==
  ASSUME Ledger, Stores, NEW i \in DOMAIN done, NEW n \in Qty,
         NEW q \in Int, NEW moves \in Moves, Enter(done[i].wh, q, moves),
         Correct(i, n), layers' = Append(layers, [move |-> i, left |-> n])
  PROVE  Ledger' /\ Stores'
<1>1. done[i].wh \in Warehouse /\ done[i].qty \in Nat /\ n \in Nat /\ i \in Nat
  BY DoneIs, CostAssumption
<1>2. Ledger' /\ LinesStay
  BY <1>1, EnterKeeps
<1>3. layers' \in Seq(Layer)
  <2>1. [move |-> i, left |-> n] \in Layer
    BY <1>1 DEF Layer
  <2>2. QED
    BY <2>1, AppendKeeps DEF Stores
<1>4. n \in Int /\ done[i].qty + n \in Nat
  BY <1>1
<1>5. Stores'
  BY <1>2, <1>3, <1>4, CorrectKeeps
<1>6. QED
  BY <1>2, <1>5

LEMMA SomeTransit ==
  ASSUME Rest, NEW w \in Warehouse, NEW v \in Warehouse, NEW k \in Int,
         transit' = [transit EXCEPT ![<<w, v>>] = transit[<<w, v>>] + k]
  PROVE  transit' \in [Warehouse \X Warehouse -> Int]
<1> DEFINE p == <<w, v>>
<1>1. p \in Warehouse \X Warehouse /\ transit' = [transit EXCEPT ![p] = transit[p] + k]
  OBVIOUS
<1> HIDE DEF p
<1>2. QED
  BY <1>1 DEF Rest

LEMMA ExportKeeps ==
  ASSUME Ledger, Stores, Rest, NEW w \in Warehouse, NEW v \in Warehouse, NEW n \in Qty,
         Export(w, v, n)
  PROVE  Ledger' /\ Stores' /\ transit' \in [Warehouse \X Warehouse -> Int] /\ sold' = sold
<1>1. Leave(w, n) /\ n \in Int /\ sold' = sold
  BY CostAssumption DEF Export
<1>2. transit' = [transit EXCEPT ![<<w, v>>] = transit[<<w, v>>] + n]
  BY DEF Export
<1>3. transit' \in [Warehouse \X Warehouse -> Int]
  BY <1>1, <1>2, SomeTransit
<1>4. QED
  BY <1>1, <1>3, LeaveKeeps

\* Every move in is an Enter, and keeps the invariant.
LEMMA MoveInIs ==
  ASSUME Ledger, Stores, Rest, NEW w \in Warehouse, NEW q \in Int, MoveIn(w, q)
  PROVE  (\E moves \in Moves : Enter(w, q, moves)) /\ Ledger' /\ Stores' /\ Rest'
<1>1. ASSUME Step, transit' \in [Warehouse \X Warehouse -> Int], sold' = sold
      PROVE  Rest'
  BY <1>1, CostAssumption DEF Step, Rest
<1>2. transit \in [Warehouse \X Warehouse -> Int]
  BY DEF Rest
<1>3. ASSUME NEW lines \in Orders, Receive(w, q, lines)
      PROVE  (\E moves \in Moves : Enter(w, q, moves)) /\ Ledger' /\ Stores' /\ Rest'
  <2>1. /\ Step /\ transit' = transit /\ sold' = sold
        /\ Enter(w, q, Receipt(lines))
        /\ Done(w, Quantities(lines), PricesOf(lines))
    BY <1>3 DEF Receive, Receipt, PricesOf
  <2>2. Receipt(lines) \in Moves
    BY ReceiptIs
  <2>3. Ledger' /\ Stores'
    BY <2>1, ReceiptIs, ArrivalsKeep
  <2>4. QED
    BY <1>1, <1>2, <2>1, <2>2, <2>3
<1>4. ASSUME NEW i \in DOMAIN sold, NEW n \in Qty, ReturnDelivery(w, q, i, n)
      PROVE  (\E moves \in Moves : Enter(w, q, moves)) /\ Ledger' /\ Stores' /\ Rest'
  <2>1. /\ Step /\ transit' = transit /\ sold' = sold
        /\ Enter(w, q, Single(n, MeanOf(i))) /\ Done(w, <<n>>, <<MeanOf(i)>>)
    BY <1>4 DEF ReturnDelivery
  <2>2. MeanOf(i) \in Amounts /\ MeanOf(i) \in Source
    BY MeanIs DEF Source
  <2>3. Single(n, MeanOf(i)) \in Moves
    BY <2>2, SingleIs
  <2>4. Ledger' /\ Stores'
    BY <2>1, <2>2, <2>3, SingleDone, ArrivalsKeep
  <2>5. QED
    BY <1>1, <1>2, <2>1, <2>3, <2>4
<1>5. ASSUME NEW n \in Qty, ReturnOrder(w, q, n)
      PROVE  (\E moves \in Moves : Enter(w, q, moves)) /\ Ledger' /\ Stores' /\ Rest'
  <2>1. /\ Step /\ transit' = transit /\ sold' = sold
        /\ Bring(w, q, n, n) /\ Done(w, <<n>>, <<NoCost>>)
    BY <1>5 DEF ReturnOrder
  <2>2. PICK moves \in Moves : Enter(w, q, moves)
    BY <2>1, CostAssumption, BringIs
  <2>3. NoCost \in Source
    BY DEF Source
  <2>4. Ledger' /\ Stores'
    BY <2>1, <2>2, <2>3, SingleDone, ArrivalsKeep
  <2>5. QED
    BY <1>1, <1>2, <2>1, <2>2, <2>4
<1>6. ASSUME NEW v \in Warehouse, NEW n \in Qty, TransferIn(v, w, q, n)
      PROVE  (\E moves \in Moves : Enter(w, q, moves)) /\ Ledger' /\ Stores' /\ Rest'
  <2>1. /\ Step /\ sold' = sold
        /\ Enter(w, q, Single(n, CostOf(v))) /\ Done(w, <<n>>, <<v>>)
        /\ transit' = [transit EXCEPT ![<<v, w>>] = transit[<<v, w>>] - n]
    BY <1>6 DEF TransferIn
  <2>2. CostOf(v) \in Amounts /\ v \in Source
    BY CostsAreAmounts DEF Source
  <2>3. Single(n, CostOf(v)) \in Moves
    BY <2>2, SingleIs
  <2>4. Ledger' /\ Stores'
    BY <2>1, <2>2, <2>3, SingleDone, ArrivalsKeep
  <2>5. transit' \in [Warehouse \X Warehouse -> Int]
    <3>1. transit[<<v, w>>] \in Int /\ n \in Int
      BY <1>2, CostAssumption
    <3>2. transit[<<v, w>>] - n = transit[<<v, w>>] + (-n) /\ -n \in Int
      BY <3>1
    <3>3. QED
      BY <2>1, <3>2, SomeTransit
  <2>6. QED
    BY <1>1, <2>1, <2>3, <2>4, <2>5
<1>7. ASSUME NEW i \in DOMAIN done, NEW n \in Qty, done[i].wh = w,
             RaiseIn(i, q, n) \/ RaiseReturn(i, q, n)
      PROVE  (\E moves \in Moves : Enter(w, q, moves)) /\ Ledger' /\ Stores' /\ Rest'
  <2>1. /\ Step /\ sold' = sold /\ Correct(i, n)
        /\ layers' = Append(layers, [move |-> i, left |-> n])
    BY <1>7 DEF RaiseIn, RaiseReturn
  <2>2. PICK moves \in Moves : Enter(w, q, moves)
    <3>1. CASE RaiseIn(i, q, n)
      <4>1. done[i].price # NoCost /\ Enter(w, q, Single(n, PriceOf(i)))
        BY <1>7, <3>1 DEF RaiseIn
      <4>2. QED
        BY <4>1, PriceIs, SingleIs
    <3>2. CASE RaiseReturn(i, q, n)
      <4>1. Bring(w, q, n, done[i].qty)
        BY <1>7, <3>2 DEF RaiseReturn
      <4>2. QED
        BY <4>1, DoneIs, BringIs
    <3>3. QED
      BY <1>7, <3>1, <3>2
  <2>3. Ledger' /\ Stores'
    BY <1>7, <2>1, <2>2, RaisedKeeps
  <2>4. n \in Int
    BY CostAssumption
  <2>5. transit' \in [Warehouse \X Warehouse -> Int]
    BY <2>1, <2>4, TransitStays
  <2>6. QED
    BY <1>1, <2>1, <2>2, <2>3, <2>5
<1>8. QED
  BY <1>3, <1>4, <1>5, <1>6, <1>7 DEF MoveIn

LEMMA KnownIs ==
  ASSUME Ledger, NEW w \in Warehouse
  PROVE  Known(w) \subseteq Int /\ quantity[w] \in Int
BY DEF Known, Ledger

LEMMA NextCostInv == CostInv /\ [Next]_vars => CostInv'
<1> SUFFICES ASSUME CostInv, [Next]_vars PROVE Ledger' /\ Stores' /\ Rest'
  <2>1. CostInv' <=> Ledger' /\ Stores' /\ Rest'
    BY PartsOfCostInv, PTL
  <2>2. QED
    BY <2>1
<1>0. Ledger /\ Stores /\ Rest
  BY PartsOfCostInv
<1>1. ASSUME Step PROVE ops' \in 0..MaxOps
  BY <1>0, <1>1, CostAssumption DEF Step, Rest
<1>2. ASSUME Step, transit' \in [Warehouse \X Warehouse -> Int], sold' = sold
      PROVE  Rest'
  BY <1>0, <1>1, <1>2 DEF Rest
<1>3. ASSUME Step, sold' \in Seq(Sale), transit' = transit
      PROVE  Rest'
  BY <1>0, <1>1, <1>3 DEF Rest
<1>4. transit \in [Warehouse \X Warehouse -> Int] /\ sold \in Seq(Sale)
  BY <1>0 DEF Rest
<1>5. ASSUME NEW w \in Warehouse, NEW q \in Known(w), MoveIn(w, q)
      PROVE  Ledger' /\ Stores' /\ Rest'
  BY <1>0, <1>5, KnownIs, MoveInIs
<1>6. ASSUME NEW w \in Warehouse, Read(w)
      PROVE  Ledger' /\ Stores' /\ Rest'
  <2>1. /\ Step /\ transit' = transit /\ sold' = sold /\ done' = done /\ layers' = layers
        /\ cost' = cost /\ value' = value /\ quantity' = quantity /\ onhand' = onhand
        /\ reads' = [reads EXCEPT ![w] = @ \cup {quantity[w]}]
    BY <1>6 DEF Read
  <2>2. Ledger'
    BY <1>0, <2>1 DEF Ledger
  <2>3. Stores'
    BY <1>0, <2>1, StoresStay DEF Stores, LinesStay
  <2>4. QED
    BY <1>2, <1>4, <2>1, <2>2, <2>3
<1>7. ASSUME NEW w \in Warehouse, NEW n \in Qty, Deliver(w, n)
      PROVE  Ledger' /\ Stores' /\ Rest'
  <2>1. Step /\ transit' = transit /\ Leave(w, n) /\ n \in Int /\ n \in Nat
    BY <1>7, CostAssumption DEF Deliver
  <2>2. PICK s \in Price : sold' = Append(sold, [wh |-> w, qty |-> n, worth |-> WorthOut(w, n, s),
                                                 first |-> WorthOut(w, n, s)])
    BY <1>7 DEF Deliver
  <2>3. WorthOut(w, n, s) \in Amounts
    BY <1>0, <2>1, WorthOutIs
  <2>4. sold' \in Seq(Sale)
    <3>1. [wh |-> w, qty |-> n, worth |-> WorthOut(w, n, s), first |-> WorthOut(w, n, s)] \in Sale
      BY <2>1, <2>3 DEF Sale
    <3>2. QED
      BY <1>4, <2>2, <3>1, AppendKeeps
  <2>5. QED
    BY <1>0, <1>3, <2>1, <2>4, LeaveKeeps
<1>8. ASSUME NEW w \in Warehouse, NEW v \in Warehouse, NEW n \in Qty,
              TransferOut(w, v, n) \/ RaiseTransferOut(w, v, n)
       PROVE  Ledger' /\ Stores' /\ Rest'
  <2>1. Step /\ Export(w, v, n)
    BY <1>8 DEF TransferOut, RaiseTransferOut
  <2>2. QED
    BY <1>0, <1>2, <2>1, ExportKeeps
<1>9. ASSUME NEW w \in Warehouse, NEW v \in Warehouse, NEW n \in Qty, Relocate(w, v, n)
       PROVE  Ledger' /\ Stores' /\ Rest'
  <2>1. Step /\ transit' = transit /\ sold' = sold /\ done' = done /\ layers' = layers
    BY <1>9 DEF Relocate
  <2>2. Ledger' /\ LinesStay
    BY <1>0, <1>9, RelocateKeeps
  <2>3. Stores'
    BY <1>0, <2>1, <2>2, StoresStay DEF Stores
  <2>4. QED
    BY <1>2, <1>4, <2>1, <2>2, <2>3
<1>10. ASSUME NEW w \in Warehouse, NEW v \in Warehouse, NEW n \in Qty, Replenish(w, v, n)
       PROVE  Ledger' /\ Stores' /\ Rest'
  <2>1. Step /\ transit' = transit /\ sold' = sold /\ done' = done /\ layers' = layers
    BY <1>10 DEF Replenish
  <2>2. Ledger' /\ LinesStay
    BY <1>10, ReplenishKeeps
  <2>3. Stores'
    BY <1>0, <2>1, <2>2, StoresStay DEF Stores
  <2>4. QED
    BY <1>2, <1>4, <2>1, <2>2, <2>3
<1>11. ASSUME NEW w \in Warehouse, NEW v \in Warehouse, NEW n \in Qty, LowerTransferOut(w, v, n)
       PROVE  Ledger' /\ Stores' /\ Rest'
  <2>1. /\ Step /\ sold' = sold /\ Regain(w, n) /\ n \in Nat
        /\ transit' = [transit EXCEPT ![<<w, v>>] = transit[<<w, v>>] - n]
    BY <1>11, CostAssumption DEF LowerTransferOut
  <2>2. transit[<<w, v>>] - n = transit[<<w, v>>] + (-n) /\ -n \in Int
    BY <1>4, <2>1
  <2>3. transit' \in [Warehouse \X Warehouse -> Int]
    BY <1>0, <2>1, <2>2, SomeTransit
  <2>4. QED
    BY <1>0, <1>2, <2>1, <2>3, RegainKeeps
<1>12. ASSUME NEW w \in Warehouse, Revalue(w)
       PROVE  Ledger' /\ Stores' /\ Rest'
  <2>1. Step /\ transit' = transit /\ sold' = sold /\ done' = done /\ layers' = layers
    BY <1>12 DEF Revalue
  <2>2. Ledger' /\ LinesStay
    BY <1>12, RevalueKeeps
  <2>3. Stores'
    BY <1>0, <2>1, <2>2, StoresStay DEF Stores
  <2>4. QED
    BY <1>2, <1>4, <2>1, <2>2, <2>3
<1>13. ASSUME NEW i \in DOMAIN done, NEW n \in Qty, LowerIn(i, n)
       PROVE  Ledger' /\ Stores' /\ Rest'
  <2>1. Step /\ sold' = sold /\ Correct(i, -n) /\ -n \in Int
    BY <1>13, CostAssumption DEF LowerIn
  <2>2. transit' \in [Warehouse \X Warehouse -> Int]
    BY <1>0, <2>1, TransitStays
  <2>3. QED
    BY <1>0, <1>2, <1>13, <2>1, <2>2, LowerInKeeps
<1>14. ASSUME NEW i \in DOMAIN sold, NEW n \in Qty, RaiseDelivery(i, n)
       PROVE  Ledger' /\ Stores' /\ Rest'
  <2> DEFINE w == sold[i].wh
  <2>1. Step /\ transit' = transit /\ Leave(w, n) /\ n \in Int /\ n \in Nat
    BY <1>14, CostAssumption DEF RaiseDelivery
  <2>2. PICK s \in Price :
          sold' = [sold EXCEPT ![i] = Corrected(i, n, WorthOut(w, n, s))]
    BY <1>14 DEF RaiseDelivery
  <2>3. w \in Warehouse /\ sold[i].qty + n \in Nat
    BY <1>0, <2>1, SoldIs
  <2>4. WorthOut(w, n, s) \in Amounts
    BY <1>0, <2>1, <2>3, WorthOutIs
  <2>5. sold' \in Seq(Sale)
    BY <1>0, <2>1, <2>2, <2>3, <2>4, SoldKeeps
  <2>6. QED
    BY <1>0, <1>3, <2>1, <2>3, <2>5, LeaveKeeps
<1>15. ASSUME NEW i \in DOMAIN sold, NEW n \in Qty, LowerDelivery(i, n)
       PROVE  Ledger' /\ Stores' /\ Rest'
  <2>1. Step /\ transit' = transit /\ Regain(sold[i].wh, n) /\ n \in Nat /\ n <= sold[i].qty
    BY <1>15, CostAssumption DEF LowerDelivery
  <2>2. sold[i].wh \in Warehouse /\ sold[i].qty \in Nat
    BY <1>0, SoldIs
  <2>3. PICK s \in Price :
          sold' = [sold EXCEPT ![i] = Corrected(i, -n, Whole(-n * s))]
    BY <1>15 DEF LowerDelivery
  <2>4. -n \in Int /\ sold[i].qty + (-n) \in Nat
    BY <2>1, <2>2
  <2>5. Whole(-n * s) \in Amounts
    <3>1. -n * s \in Int
      BY <2>1, CostAssumption
    <3>2. QED
      BY <3>1, WholeIs
  <2>6. sold' \in Seq(Sale)
    BY <1>0, <2>3, <2>4, <2>5, SoldKeeps
  <2>7. QED
    BY <1>0, <1>3, <2>1, <2>2, <2>6, RegainKeeps
<1>16. ASSUME NEW is \in SUBSET DOMAIN done, Land(is)
       PROVE  Ledger' /\ Stores' /\ Rest'
  <2>1. Step /\ transit' = transit /\ sold' = sold /\ done' = done /\ layers' = layers
    BY <1>16 DEF Land
  <2>2. Ledger' /\ LinesStay
    BY <1>16, LandKeeps
  <2>3. Stores'
    BY <1>0, <2>1, <2>2, StoresStay DEF Stores
  <2>4. QED
    BY <1>2, <1>4, <2>1, <2>2, <2>3
<1>17. CASE UNCHANGED vars
  BY <1>0, <1>17 DEF Ledger, Stores, Rest, vars
<1>18. QED
  BY <1>5, <1>6, <1>7, <1>8, <1>9, <1>10, <1>11, <1>12, <1>13, <1>14, <1>15, <1>16,
     <1>17 DEF Next, WarehouseStep, Correction

\* The costs and values of warehouses stay amounts, whatever averages, revaluations,
\* corrections and landed costs are computed, and no layer has less left than nothing
\* (stock_move.py:97, stock_valuation_layer.py).
THEOREM TypeCorrect == Spec => []TypeOK
<1>1. CostInv => TypeOK
  <2> SUFFICES ASSUME CostInv PROVE TypeOK
    OBVIOUS
  <2>0. Ledger /\ Stores /\ Rest
    BY PartsOfCostInv
  <2>1. \A i \in DOMAIN layers : layers[i].left \in Nat
    <3>1. \A i \in DOMAIN layers : layers[i] \in Layer
      BY <2>0 DEF Stores
    <3>2. QED
      BY <3>1 DEF Layer
  <2>2. \A i \in DOMAIN sold : sold[i].qty \in Nat /\ sold[i].worth \in Amounts
    BY <2>0, SoldIs
  <2>3. QED
    BY <2>0, <2>1, <2>2 DEF Ledger, Rest, TypeOK
<1>2. QED
  BY <1>1, InitCostInv, NextCostInv, PTL DEF Spec

------------------------------------------------------------------------------
(* The layers follow the stock                                               *)

LEMMA EnterKeepsGap ==
  ASSUME Ledger, NEW w \in Warehouse, NEW q \in Int, NEW moves \in Moves, Enter(w, q, moves), NEW v \in Warehouse
  PROVE  Gap(v)' = Gap(v)
<1>1. Gap(v)' = onhand'[v] - quantity'[v] /\ Gap(v) = onhand[v] - quantity[v]
  BY DEF Gap
<1>2. CASE v = w
  <2> DEFINE a == Running(onhand[w], Quantities(moves))[Len(moves)]
             b == Running(quantity[w], Quantities(moves))[Len(moves)]
  <2>1. onhand[w] \in Int /\ quantity[w] \in Int
    BY DEF Ledger
  <2>2. a - b = onhand[w] - quantity[w]
    BY <2>1, RunningShifts
  <2>3. onhand' = [onhand EXCEPT ![w] = a] /\ quantity' = [quantity EXCEPT ![w] = b]
    BY EnterIs
  <2> HIDE DEF a, b
  <2>4. onhand'[w] = a /\ quantity'[w] = b
    BY <2>3 DEF Ledger
  <2>5. QED
    BY <1>1, <1>2, <2>2, <2>4
<1>3. CASE v # w
  BY <1>1, <1>3, EnterElsewhere
<1>4. QED
  BY <1>2, <1>3

LEMMA LeaveKeepsGap ==
  ASSUME Ledger, NEW w \in Warehouse, NEW n \in Int, Leave(w, n), NEW v \in Warehouse
  PROVE  Gap(v)' = Gap(v) \/ (v = w /\ CostOf(v) = Whole(0))
<1>1. Gap(v)' = onhand'[v] - quantity'[v] /\ Gap(v) = onhand[v] - quantity[v]
  BY DEF Gap
<1>2. onhand' = [onhand EXCEPT ![w] = @ - n]
  BY DEF Leave
<1>3. CASE CostOf(w) # Whole(0)
  <2>1. quantity' = [quantity EXCEPT ![w] = @ - n]
    BY <1>3 DEF Leave
  <2>2. QED
    BY <1>1, <1>2, <2>1 DEF Ledger
<1>4. CASE CostOf(w) = Whole(0) /\ v # w
  <2>1. quantity' = quantity
    BY <1>4 DEF Leave
  <2>2. QED
    BY <1>1, <1>2, <1>4, <2>1 DEF Ledger
<1>5. QED
  BY <1>3, <1>4

\* The gap of a warehouse of which neither the stock nor the layers change.
LEMMA GapStays ==
  ASSUME NEW w, onhand'[w] = onhand[w], quantity'[w] = quantity[w]
  PROVE  Gap(w)' = Gap(w)
BY DEF Gap

\* The stock of a warehouse and the quantity of its layers move apart by an internal
\* transfer or a replenishment, by what leaves at no cost, and by what is corrected not
\* to have left, and by nothing else (stock_move.py:162, :226, get_quantity_from_valuation).
THEOREM LayersAreTheStock == Spec => LayersFollowStock
<1> DEFINE Moved(w) ==
             \/ \E v \in Warehouse, n \in Qty : \/ Replenish(w, v, n) \/ Replenish(v, w, n)
                                                \/ Relocate(w, v, n) \/ Relocate(v, w, n)
                                                \/ LowerTransferOut(w, v, n)
                                                \/ CostOf(w) = Whole(0)
                                                   /\ (TransferOut(w, v, n) \/ RaiseTransferOut(w, v, n))
             \/ \E n \in Qty : CostOf(w) = Whole(0) /\ Deliver(w, n)
             \/ \E i \in DOMAIN sold, n \in Qty :
                  sold[i].wh = w /\ \/ LowerDelivery(i, n)
                                    \/ CostOf(w) = Whole(0) /\ RaiseDelivery(i, n)
<1>1. ASSUME CostInv, [Next]_vars, NEW w \in Warehouse
      PROVE  Gap(w)' = Gap(w) \/ Moved(w)
  <2>0. Ledger /\ Stores /\ Rest
    BY <1>1, PartsOfCostInv
  <2>1. ASSUME NEW v \in Warehouse, NEW q \in Known(v), MoveIn(v, q)
        PROVE  Gap(w)' = Gap(w)
    <3>1. q \in Int
      BY <2>0, KnownIs
    <3>2. PICK moves \in Moves : Enter(v, q, moves)
      BY <2>0, <2>1, <3>1, MoveInIs
    <3>3. QED
      BY <2>0, <3>1, <3>2, EnterKeepsGap
  <2>2. ASSUME NEW v \in Warehouse, Read(v)
        PROVE  Gap(w)' = Gap(w)
    BY <2>2 DEF Read, Gap
  <2>3. ASSUME NEW v \in Warehouse, NEW n \in Qty, Deliver(v, n)
        PROVE  Gap(w)' = Gap(w) \/ Moved(w)
    <3>1. n \in Int /\ Leave(v, n)
      BY <2>3, CostAssumption DEF Deliver
    <3>2. CASE v = w /\ CostOf(w) = Whole(0)
      BY <2>3, <3>2
    <3> HIDE DEF Moved
    <3>3. QED
      BY <2>0, <3>1, <3>2, LeaveKeepsGap
  <2>4. ASSUME NEW v \in Warehouse, NEW u \in Warehouse, NEW n \in Qty,
               TransferOut(v, u, n) \/ RaiseTransferOut(v, u, n)
        PROVE  Gap(w)' = Gap(w) \/ Moved(w)
    <3>1. n \in Int /\ Leave(v, n)
      BY <2>4, CostAssumption DEF TransferOut, RaiseTransferOut, Export
    <3>2. CASE v = w /\ CostOf(w) = Whole(0)
      BY <2>4, <3>2
    <3> HIDE DEF Moved
    <3>3. QED
      BY <2>0, <3>1, <3>2, LeaveKeepsGap
  <2>5. ASSUME NEW v \in Warehouse, NEW u \in Warehouse, NEW n \in Qty,
               Replenish(v, u, n) \/ Relocate(v, u, n)
        PROVE  Gap(w)' = Gap(w) \/ Moved(w)
    <3>1. CASE w = v \/ w = u
      BY <2>5, <3>1
    <3>2. CASE w # v /\ w # u
      <4>1. quantity' = quantity /\ onhand' = [onhand EXCEPT ![v] = @ - n, ![u] = @ + n]
        BY <2>5 DEF Replenish, Relocate
      <4>2. Gap(w)' = Gap(w)
        BY <2>0, <3>2, <4>1 DEF Gap, Ledger
      <4>3. QED
        BY <4>2
    <3>3. QED
      BY <3>1, <3>2
  <2>6. ASSUME NEW v \in Warehouse, NEW u \in Warehouse, NEW n \in Qty, LowerTransferOut(v, u, n)
        PROVE  Gap(w)' = Gap(w) \/ Moved(w)
    <3>1. CASE w = v
      BY <2>6, <3>1
    <3>2. CASE w # v
      <4>1. quantity' = quantity /\ onhand' = [onhand EXCEPT ![v] = @ + n]
        BY <2>6 DEF LowerTransferOut, Regain
      <4>2. onhand'[w] = onhand[w] /\ quantity'[w] = quantity[w]
        BY <2>0, <3>2, <4>1 DEF Ledger
      <4>3. Gap(w)' = Gap(w)
        BY <4>2, GapStays
      <4>4. QED
        BY <4>3
    <3>3. QED
      BY <3>1, <3>2
  <2>7. ASSUME NEW v \in Warehouse, Revalue(v)
        PROVE  Gap(w)' = Gap(w)
    BY <2>7 DEF Revalue, Gap
  <2>8. ASSUME NEW i \in DOMAIN done, NEW n \in Qty, LowerIn(i, n)
         PROVE  Gap(w)' = Gap(w)
    <3>1. /\ onhand' = [onhand EXCEPT ![done[i].wh] = @ - n]
          /\ quantity' = [quantity EXCEPT ![done[i].wh] = @ - n]
      BY <2>8 DEF LowerIn
    <3>2. done[i].wh \in Warehouse /\ n \in Int
      BY <2>0, DoneIs, CostAssumption
    <3>3. QED
      BY <2>0, <3>1, <3>2 DEF Gap, Ledger
  <2>9. ASSUME NEW i \in DOMAIN sold, NEW n \in Qty, RaiseDelivery(i, n)
         PROVE  Gap(w)' = Gap(w) \/ Moved(w)
    <3>1. n \in Int /\ Leave(sold[i].wh, n) /\ sold[i].wh \in Warehouse
      BY <2>0, <2>9, SoldIs, CostAssumption DEF RaiseDelivery
    <3>2. CASE sold[i].wh = w /\ CostOf(w) = Whole(0)
      BY <2>9, <3>2
    <3> HIDE DEF Moved
    <3>3. QED
      BY <2>0, <3>1, <3>2, LeaveKeepsGap
  <2>10. ASSUME NEW i \in DOMAIN sold, NEW n \in Qty, LowerDelivery(i, n)
         PROVE  Gap(w)' = Gap(w) \/ Moved(w)
    <3>1. CASE sold[i].wh = w
      BY <2>10, <3>1
    <3>2. CASE sold[i].wh # w
      <4>1. quantity' = quantity /\ onhand' = [onhand EXCEPT ![sold[i].wh] = @ + n]
        BY <2>10 DEF LowerDelivery, Regain
      <4>2. onhand'[w] = onhand[w] /\ quantity'[w] = quantity[w]
        BY <2>0, <3>2, <4>1 DEF Ledger
      <4>3. Gap(w)' = Gap(w)
        BY <4>2, GapStays
      <4>4. QED
        BY <4>3
    <3>3. QED
      BY <3>1, <3>2
  <2>11. ASSUME NEW is \in SUBSET DOMAIN done, Land(is)
         PROVE  Gap(w)' = Gap(w)
    BY <2>11, LandIs DEF Gap
  <2>12. CASE UNCHANGED vars
    BY <2>12 DEF vars, Gap
  <2> HIDE DEF Moved
  <2>13. QED
    BY <1>1, <2>1, <2>2, <2>3, <2>4, <2>5, <2>6, <2>7, <2>8, <2>9, <2>10,
       <2>11, <2>12 DEF Next, WarehouseStep, Correction
<1>2. CostInv /\ [Next]_vars => [\A w \in Warehouse : Gap(w)' # Gap(w) => Moved(w)]_vars
  <2> HIDE DEF Moved
  <2>1. QED
    BY <1>1
<1>3. QED
  BY <1>2, InitCostInv, NextCostInv, PTL DEF Spec, LayersFollowStock

------------------------------------------------------------------------------
(* The cost follows the layers                                               *)

LEMMA DriftIs ==
  ASSUME NEW w
  PROVE  /\ Drift(w) = Worth(value[w], CostOf(w), quantity[w])
         /\ Drift(w)' = Worth(value'[w], CostOf(w)', quantity'[w])
         /\ CostOf(w)' = IF cost'[w] = NoCost THEN Whole(0) ELSE cost'[w]
         /\ CostOf(w) = IF cost[w] = NoCost THEN Whole(0) ELSE cost[w]
BY DEF Drift, Worth, CostOf

LEMMA DriftStays ==
  ASSUME NEW w, cost'[w] = cost[w], quantity'[w] = quantity[w], value'[w] = value[w]
  PROVE  Drift(w)' = Drift(w)
BY DriftIs

LEMMA EnterKeepsDrift ==
  ASSUME Ledger, NEW w \in Warehouse, NEW q \in Int, NEW moves \in Moves, Enter(w, q, moves),
         NEW v \in Warehouse,
         v = w => q = quantity[w] /\ \A i \in 1..Len(moves) : moves[i].unit = moves[i].price
  PROVE  Drift(v)' = Drift(v)
<1>1. CASE v = w
  <2> DEFINE a == Totals(value[w], Units(moves))[Len(moves)]
             b == Averages(CostOf(w), quantity[w], moves)[Len(moves)]
             c == Running(quantity[w], Quantities(moves))[Len(moves)]
  <2>1. value[w] \in Amounts /\ CostOf(w) \in Amounts /\ quantity[w] \in Int
      /\ Enter(w, quantity[w], moves)
    BY <1>1, CostsAreAmounts DEF Ledger
  <2>2. Worth(a, b, c) = Worth(value[w], CostOf(w), quantity[w])
    BY <1>1, <2>1, EnterIs, WorthWhenAllArrive
  <2>3. /\ b \in Amounts
        /\ cost' = [cost EXCEPT ![w] = b] /\ value' = [value EXCEPT ![w] = a]
        /\ quantity' = [quantity EXCEPT ![w] = c]
    BY <2>1, EnterIs
  <2> HIDE DEF a, b, c
  <2>4. cost'[w] = b /\ value'[w] = a /\ quantity'[w] = c /\ b # NoCost
    BY <2>3, NoCostIsNone DEF Ledger
  <2>5. Drift(w)' = Worth(a, b, c)
    BY <2>4, DriftIs
  <2>6. QED
    BY <1>1, <2>2, <2>5, DriftIs
<1>2. CASE v # w
  BY <1>2, EnterElsewhere, DriftStays
<1>3. QED
  BY <1>1, <1>2

LEMMA LeaveKeepsDrift ==
  ASSUME Ledger, NEW w \in Warehouse, NEW n \in Int, Leave(w, n), NEW v \in Warehouse
  PROVE  Drift(v)' = Drift(v)
<1>1. cost' = cost
  BY DEF Leave
<1>2. CASE CostOf(w) # Whole(0)
  <2>1. /\ quantity' = [quantity EXCEPT ![w] = @ - n]
        /\ value' = [value EXCEPT ![w] = Plus(@, Times(CostOf(w), -n))]
    BY <1>2 DEF Leave
  <2>2. CASE v = w
    <3>1. value[w] \in Amounts /\ CostOf(w) \in Amounts /\ quantity[w] \in Int
      BY CostsAreAmounts DEF Ledger
    <3>2. /\ quantity'[w] = quantity[w] - n
          /\ value'[w] = Plus(value[w], Times(CostOf(w), -n))
      BY <2>1 DEF Ledger
    <3>3. Worth(Plus(value[w], Times(CostOf(w), -n)), CostOf(w), quantity[w] - n)
            = Worth(value[w], CostOf(w), quantity[w])
      BY <3>1, WorthWhenMovesLeave
    <3>4. CostOf(w)' = CostOf(w)
      BY <1>1, DriftIs
    <3>5. QED
      BY <2>2, <3>2, <3>3, <3>4, DriftIs
  <2>3. CASE v # w
    <3>1. cost'[v] = cost[v] /\ quantity'[v] = quantity[v] /\ value'[v] = value[v]
      BY <1>1, <2>1, <2>3 DEF Ledger
    <3>2. QED
      BY <3>1, DriftStays
  <2>4. QED
    BY <2>2, <2>3
<1>3. CASE CostOf(w) = Whole(0)
  <2>1. cost' = cost /\ quantity' = quantity /\ value' = value
    BY <1>1, <1>3 DEF Leave
  <2>2. QED
    BY <2>1, DriftStays
<1>4. QED
  BY <1>2, <1>3

LEMMA RevalueKeepsDrift ==
  ASSUME Ledger, NEW w \in Warehouse, Revalue(w), NEW v \in Warehouse, v = w => quantity[w] > 0
  PROVE  Drift(v)' = Drift(v)
<1>1. quantity' = quantity /\ cost[w] # NoCost
  BY DEF Revalue
<1>2. CASE v = w
  <2> DEFINE e == Whole(Extra)
             a == Plus(value[w], e)
             c == Plus(cost[w], Over(e, quantity[w]))
  <2>1. /\ value[w] \in Amounts /\ cost[w] \in Amounts /\ CostOf(w) = cost[w]
        /\ quantity[w] \in Int \ {0} /\ e \in Amounts
    BY <1>1, <1>2, CostsAreAmounts, WholeIs, CostAssumption DEF Ledger
  <2>2. value' = [value EXCEPT ![w] = a] /\ cost' = [cost EXCEPT ![w] = c]
    BY <1>2 DEF Revalue
  <2>3. Over(e, quantity[w]) \in Amounts
    BY <2>1, OverIs
  <2>4. c \in Amounts
    BY <2>1, <2>3, PlusIs
  <2>5. Worth(a, c, quantity[w]) = Worth(value[w], cost[w], quantity[w])
    BY <2>1, WorthWhenValueIsAdded
  <2> HIDE DEF a, c
  <2>6. value'[w] = a /\ cost'[w] = c /\ c # NoCost
    BY <2>2, <2>4, NoCostIsNone DEF Ledger
  <2>7. Drift(w)' = Worth(a, c, quantity[w])
    BY <1>1, <2>6, DriftIs
  <2>8. QED
    BY <1>2, <2>1, <2>5, <2>7, DriftIs
<1>3. CASE v # w
  <2>1. /\ \E a : value' = [value EXCEPT ![w] = a]
        /\ \E c : cost' = [cost EXCEPT ![w] = c]
    BY DEF Revalue
  <2>2. value'[v] = value[v] /\ cost'[v] = cost[v] /\ quantity'[v] = quantity[v]
    BY <1>1, <1>3, <2>1 DEF Ledger
  <2>3. QED
    BY <2>2, DriftStays
<1>4. QED
  BY <1>2, <1>3

LEMMA ReplenishElsewhere ==
  ASSUME Ledger, NEW w \in Warehouse, NEW u \in Warehouse, NEW n \in Qty, Replenish(w, u, n),
         NEW v \in Warehouse \ {u}
  PROVE  Drift(v)' = Drift(v)
<1>1. quantity' = quantity /\ value' = value
  BY DEF Replenish
<1>2. cost' = cost \/ \E c : cost' = [cost EXCEPT ![u] = c]
  BY DEF Replenish
<1>3. cost'[v] = cost[v]
  BY <1>2 DEF Ledger
<1>4. QED
  BY <1>1, <1>3, DriftStays

\* A receipt that is corrected downwards, elsewhere.
LEMMA LowerInElsewhere ==
  ASSUME Ledger, NEW i, NEW n, LowerIn(i, n), NEW w \in Warehouse, w # done[i].wh
  PROVE  Drift(w)' = Drift(w)
<1>1. /\ quantity' = [quantity EXCEPT ![done[i].wh] = @ - n] /\ cost' = cost
      /\ \E s : value' = [value EXCEPT ![done[i].wh] = Plus(@, Whole(-n * s))]
  BY DEF LowerIn
<1>2. cost'[w] = cost[w] /\ quantity'[w] = quantity[w] /\ value'[w] = value[w]
  BY <1>1 DEF Ledger
<1>3. QED
  BY <1>2, DriftStays

\* One move into a warehouse at a price that is its unit cost, unless it is negative.
LEMMA SingleKeepsDrift ==
  ASSUME Ledger, NEW w \in Warehouse, NEW n \in Qty, NEW c \in Amounts,
         Enter(w, quantity[w], Single(n, c))
  PROVE  Drift(w)' = Drift(w) \/ c[1] < 0
<1>1. quantity[w] \in Int
  BY KnownIs
<1>2. CASE ~(c[1] < 0)
  BY <1>1, <1>2, SingleIs, EnterKeepsDrift
<1>3. QED
  BY <1>2

\* Moves that went to one warehouse.
LEMMA OneWarehouse ==
  ASSUME Stores, NEW is \in SUBSET DOMAIN done, ~(Cardinality(Into(is)) > 1),
         NEW v \in Into(is), NEW w \in Into(is)
  PROVE  v = w
<1>1. IsFiniteSet(is)
  <2>1. DOMAIN done = 1..Len(done) /\ Len(done) \in Nat
    BY DEF Stores
  <2>2. IsFiniteSet(1..Len(done))
    BY <2>1, FS_Interval
  <2>3. QED
    BY <2>1, <2>2, FS_Subset
<1> DEFINE f == [i \in is |-> done[i].wh]
<1>2. f \in Surjection(is, Into(is))
  BY DEF Surjection, Into
<1>3. IsFiniteSet(Into(is))
  BY <1>1, <1>2, FS_Surjection
<1>4. Cardinality(Into(is)) \in {0, 1}
  BY <1>3, FS_CardinalityType
<1>5. Cardinality(Into(is)) # 0
  BY <1>3, FS_EmptySet
<1>6. PICK x : Into(is) = {x}
  BY <1>3, <1>4, <1>5, FS_Singleton
<1>7. QED
  BY <1>6

LEMMA LandKeepsDrift ==
  ASSUME Ledger, Stores, NEW is \in SUBSET DOMAIN done, Land(is), ~(Cardinality(Into(is)) > 1),
         NEW w \in Warehouse
  PROVE  Drift(w)' = Drift(w)
<1> DEFINE here == {i \in is : done[i].wh = w}
<1>1. /\ value'[w] = Plus(value[w], Landed(here))
      /\ cost'[w] = IF w \in Into(is) /\ cost[w] # NoCost
                    THEN Plus(cost[w], Over(Landed(is), quantity[w])) ELSE cost[w]
      /\ w \in Into(is) => cost[w] = NoCost \/ quantity[w] # 0
      /\ quantity'[w] = quantity[w]
  BY LandIs
<1>2. Landed(is) \in Amounts /\ Landed(here) \in Amounts
      /\ \A i \in here : done[i].qty # 0
  BY LandIs, SharesAre
<1>3. CASE w \in Into(is)
  <2>1. here = is
    <3>1. \A i \in is : done[i].wh \in Into(is)
      BY DEF Into
    <3>2. \A i \in is : done[i].wh = w
      BY <1>3, <3>1, OneWarehouse
    <3>3. QED
      BY <3>2
  <2> HIDE DEF here
  <2>2. cost[w] # NoCost
    BY <1>3 DEF Into, Stores
  <2>3. /\ value[w] \in Amounts /\ cost[w] \in Amounts /\ CostOf(w) = cost[w]
        /\ quantity[w] \in Int \ {0}
    BY <1>1, <1>3, <2>2, CostsAreAmounts DEF Ledger
  <2> DEFINE e == Landed(is)
             a == Plus(value[w], e)
             c == Plus(cost[w], Over(e, quantity[w]))
  <2>4. e \in Amounts
    BY <1>2
  <2> HIDE DEF e
  <2>5. Over(e, quantity[w]) \in Amounts
    BY <2>3, <2>4, OverIs
  <2>6. c \in Amounts
    BY <2>3, <2>5, PlusIs
  <2>7. Worth(a, c, quantity[w]) = Worth(value[w], cost[w], quantity[w])
    BY <2>3, <2>4, WorthWhenValueIsAdded
  <2>8. value'[w] = a /\ cost'[w] = c
    BY <1>1, <1>3, <2>1, <2>2 DEF e
  <2> HIDE DEF a, c
  <2>9. c # NoCost
    BY <2>6, NoCostIsNone
  <2>10. Drift(w)' = Worth(a, c, quantity[w])
    BY <1>1, <2>8, <2>9, DriftIs
  <2>11. QED
    BY <2>3, <2>7, <2>10, DriftIs
<1>4. CASE w \notin Into(is)
  <2>1. here = {}
    BY <1>4 DEF Into
  <2>2. Is(Landed(here), 0, 1)
    <3>1. /\ Shares(here) \in Seq(Amounts) /\ Len(Shares(here)) = Len(done)
          /\ \A i \in 1..Len(done) : i \notin here => Shares(here)[i] = Whole(0)
      BY <1>2, SharesAre
    <3>2. Whole(0) \in Amounts /\ Is(Whole(0), 0, 1)
      BY WholeIs
    <3>3. \A i \in 1..Len(Shares(here)) : Is(Shares(here)[i], 0, 1)
      BY <2>1, <3>1, <3>2
    <3> HIDE DEF here
    <3>4. Is(Totals(Whole(0), Shares(here))[Len(Shares(here))], 0, 1)
      BY <3>1, <3>2, <3>3, TotalOfNothing
    <3>5. QED
      BY <3>1, <3>4 DEF Landed
  <2> HIDE DEF here
  <2>3. value[w] \in Amounts /\ CostOf(w) \in Amounts /\ quantity[w] \in Int
    BY CostsAreAmounts DEF Ledger
  <2>4. Worth(Plus(value[w], Landed(here)), CostOf(w), quantity[w])
          = Worth(value[w], CostOf(w), quantity[w])
    BY <1>2, <2>2, <2>3, WorthWhenNothingIsAdded
  <2>5. CostOf(w)' = CostOf(w)
    BY <1>1, <1>4, DriftIs
  <2>6. QED
    BY <1>1, <2>4, <2>5, DriftIs
<1>5. QED
  BY <1>3, <1>4

\* A move in that reads the layers as they are.
LEMMA MoveInKeepsDrift ==
  ASSUME Ledger, Stores, Rest, NEW w \in Warehouse, MoveIn(w, quantity[w])
  PROVE  \/ Drift(w)' = Drift(w)
         \/ \E n \in Qty : ReturnOrder(w, quantity[w], n)
         \/ \E i \in DOMAIN done, n \in Qty :
              done[i].wh = w /\ \/ RaiseReturn(i, quantity[w], n)
                                \/ RaiseIn(i, quantity[w], n) /\ PriceOf(i)[1] < 0
         \/ \E i \in DOMAIN sold, n \in Qty :
              ReturnDelivery(w, quantity[w], i, n) /\ MeanOf(i)[1] < 0
         \/ \E v \in Warehouse, n \in Qty :
              TransferIn(v, w, quantity[w], n) /\ CostOf(v)[1] < 0
<1>1. ASSUME NEW lines \in Orders, Receive(w, quantity[w], lines)
      PROVE  Drift(w)' = Drift(w)
  <2>1. Receipt(lines) \in Moves /\ Enter(w, quantity[w], Receipt(lines)) /\ quantity[w] \in Int
    BY <1>1, ReceiptIs, KnownIs DEF Receive, Receipt, PricesOf
  <2>2. \A i \in 1..Len(Receipt(lines)) : Receipt(lines)[i].unit = Receipt(lines)[i].price
    BY ReceiptIs
  <2>3. QED
    BY <2>1, <2>2, EnterKeepsDrift
<1>2. ASSUME NEW i \in DOMAIN sold, NEW n \in Qty, ReturnDelivery(w, quantity[w], i, n)
      PROVE  Drift(w)' = Drift(w) \/ MeanOf(i)[1] < 0
  <2>1. Enter(w, quantity[w], Single(n, MeanOf(i))) /\ MeanOf(i) \in Amounts
    BY <1>2, MeanIs DEF ReturnDelivery
  <2>2. QED
    BY <2>1, SingleKeepsDrift
<1>3. ASSUME NEW v \in Warehouse, NEW n \in Qty, TransferIn(v, w, quantity[w], n)
      PROVE  Drift(w)' = Drift(w) \/ CostOf(v)[1] < 0
  <2>1. Enter(w, quantity[w], Single(n, CostOf(v))) /\ CostOf(v) \in Amounts
    BY <1>3, CostsAreAmounts DEF TransferIn
  <2>2. QED
    BY <2>1, SingleKeepsDrift
<1>4. ASSUME NEW i \in DOMAIN done, NEW n \in Qty, done[i].wh = w, RaiseIn(i, quantity[w], n)
      PROVE  Drift(w)' = Drift(w) \/ PriceOf(i)[1] < 0
  <2>1. Enter(w, quantity[w], Single(n, PriceOf(i))) /\ PriceOf(i) \in Amounts
    BY <1>4, PriceIs DEF RaiseIn
  <2>2. QED
    BY <2>1, SingleKeepsDrift
<1>5. QED
  BY <1>1, <1>2, <1>3, <1>4 DEF MoveIn

\* The ways in which the cost line of a warehouse and its layers come apart
\* (stock_move.py:104, :145, :187) are the only ones.
THEOREM CostIsOfTheLayers == Spec => CostFollowsLayers
<1> DEFINE Apart(w) ==
             \/ \E q \in reads[w] \ {quantity[w]} : MoveIn(w, q)
             \/ \E n \in Qty : ReturnOrder(w, quantity[w], n)
             \/ \E i \in DOMAIN done, n \in Qty :
                  done[i].wh = w /\ \/ LowerIn(i, n) \/ RaiseReturn(i, quantity[w], n)
                                    \/ RaiseIn(i, quantity[w], n) /\ PriceOf(i)[1] < 0
             \/ \E i \in DOMAIN sold, n \in Qty :
                  ReturnDelivery(w, quantity[w], i, n) /\ MeanOf(i)[1] < 0
             \/ \E v \in Warehouse, n \in Qty :
                  \/ Replenish(v, w, n)
                  \/ TransferIn(v, w, quantity[w], n) /\ CostOf(v)[1] < 0
             \/ \E is \in SUBSET DOMAIN done :
                  Cardinality({done[i].wh : i \in is}) > 1 /\ Land(is)
             \/ quantity[w] <= 0 /\ Revalue(w)
<1>1. ASSUME CostInv, [Next]_vars, NEW w \in Warehouse
      PROVE  Drift(w)' = Drift(w) \/ Apart(w)
  <2>0. Ledger /\ Stores /\ Rest
    BY <1>1, PartsOfCostInv
  <2>1. ASSUME NEW v \in Warehouse, NEW q \in Known(v), MoveIn(v, q)
        PROVE  Drift(w)' = Drift(w) \/ Apart(w)
    <3>0. q \in Int /\ (q \in reads[v] \ {quantity[v]} \/ q = quantity[v])
      BY <2>0, KnownIs DEF Known
    <3>1. CASE v # w
      <4>1. PICK moves \in Moves : Enter(v, q, moves)
        BY <2>0, <2>1, <3>0, MoveInIs
      <4>2. Drift(w)' = Drift(w)
        BY <2>0, <3>0, <3>1, <4>1, EnterKeepsDrift
      <4>3. QED
        BY <4>2
    <3>2. CASE v = w /\ q \in reads[w] \ {quantity[w]}
      BY <2>1, <3>2
    <3>3. CASE v = w /\ q = quantity[w]
      <4>1. MoveIn(w, quantity[w])
        BY <2>1, <3>3
      <4>2. QED
        BY <2>0, <4>1, MoveInKeepsDrift
    <3>4. QED
      BY <3>0, <3>1, <3>2, <3>3
  <2>2. ASSUME NEW v \in Warehouse, Read(v)
        PROVE  Drift(w)' = Drift(w)
    BY <2>2, DriftStays DEF Read
  <2>3. ASSUME NEW v \in Warehouse, NEW n \in Qty, Deliver(v, n)
        PROVE  Drift(w)' = Drift(w)
    <3>1. n \in Int /\ Leave(v, n)
      BY <2>3, CostAssumption DEF Deliver
    <3>2. QED
      BY <2>0, <3>1, LeaveKeepsDrift
  <2>4. ASSUME NEW v \in Warehouse, NEW u \in Warehouse, NEW n \in Qty,
               TransferOut(v, u, n) \/ RaiseTransferOut(v, u, n)
        PROVE  Drift(w)' = Drift(w)
    <3>1. n \in Int /\ Leave(v, n)
      BY <2>4, CostAssumption DEF TransferOut, RaiseTransferOut, Export
    <3>2. QED
      BY <2>0, <3>1, LeaveKeepsDrift
  <2>5. ASSUME NEW v \in Warehouse, NEW u \in Warehouse, NEW n \in Qty, Replenish(v, u, n)
        PROVE  Drift(w)' = Drift(w) \/ Apart(w)
    <3>1. CASE w = u
      BY <2>5, <3>1
    <3>2. CASE w # u
      <4>1. Drift(w)' = Drift(w)
        BY <2>0, <2>5, <3>2, ReplenishElsewhere
      <4>2. QED
        BY <4>1
    <3>3. QED
      BY <3>1, <3>2
  <2>6. ASSUME NEW v \in Warehouse, NEW u \in Warehouse, NEW n \in Qty,
               Relocate(v, u, n) \/ LowerTransferOut(v, u, n)
        PROVE  Drift(w)' = Drift(w)
    BY <2>6, DriftStays DEF Relocate, LowerTransferOut, Regain
  <2>7. ASSUME NEW v \in Warehouse, Revalue(v)
        PROVE  Drift(w)' = Drift(w) \/ Apart(w)
    <3>1. CASE w = v /\ quantity[w] <= 0
      BY <2>7, <3>1
    <3>2. CASE w = v => quantity[v] > 0
      <4>1. Drift(w)' = Drift(w)
        BY <2>0, <2>7, <3>2, RevalueKeepsDrift
      <4>2. QED
        BY <4>1
    <3>3. (w = v /\ quantity[w] <= 0) \/ (w = v => quantity[v] > 0)
      BY <2>0 DEF Ledger
    <3>4. QED
      BY <3>1, <3>2, <3>3
  <2>8. ASSUME NEW i \in DOMAIN done, NEW n \in Qty, LowerIn(i, n)
         PROVE  Drift(w)' = Drift(w) \/ Apart(w)
    <3>1. CASE done[i].wh = w
      BY <2>8, <3>1
    <3>2. CASE done[i].wh # w
      <4>1. Drift(w)' = Drift(w)
        BY <2>0, <2>8, <3>2, LowerInElsewhere
      <4>2. QED
        BY <4>1
    <3>3. QED
      BY <3>1, <3>2
  <2>9. ASSUME NEW i \in DOMAIN sold, NEW n \in Qty, RaiseDelivery(i, n)
         PROVE  Drift(w)' = Drift(w)
    <3>1. n \in Int /\ Leave(sold[i].wh, n) /\ sold[i].wh \in Warehouse
      BY <2>0, <2>9, SoldIs, CostAssumption DEF RaiseDelivery
    <3>2. QED
      BY <2>0, <3>1, LeaveKeepsDrift
  <2>10. ASSUME NEW i \in DOMAIN sold, NEW n \in Qty, LowerDelivery(i, n)
         PROVE  Drift(w)' = Drift(w)
    BY <2>10, DriftStays DEF LowerDelivery, Regain
  <2>11. ASSUME NEW is \in SUBSET DOMAIN done, Land(is)
         PROVE  Drift(w)' = Drift(w) \/ Apart(w)
    <3>1. CASE Cardinality(Into(is)) > 1
      BY <2>11, <3>1 DEF Into
    <3>2. CASE ~(Cardinality(Into(is)) > 1)
      <4>1. Drift(w)' = Drift(w)
        BY <2>0, <2>11, <3>2, LandKeepsDrift
      <4>2. QED
        BY <4>1
    <3>3. QED
      BY <3>1, <3>2
  <2>12. CASE UNCHANGED vars
    BY <2>12, DriftStays DEF vars
  <2> HIDE DEF Apart
  <2>13. QED
    BY <1>1, <2>1, <2>2, <2>3, <2>4, <2>5, <2>6, <2>7, <2>8, <2>9,
       <2>10, <2>11, <2>12 DEF Next, WarehouseStep, Correction
<1>2. CostInv /\ [Next]_vars => [\A w \in Warehouse : Drift(w)' # Drift(w) => Apart(w)]_vars
  <2> HIDE DEF Apart
  <2>1. QED
    BY <1>1
<1>3. QED
  BY <1>2, InitCostInv, NextCostInv, PTL DEF Spec, CostFollowsLayers

================================================================================
