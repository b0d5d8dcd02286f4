-------------------------- MODULE ChannelConfigProofs --------------------------
(***************************************************************************)
(* Proofs about module ChannelConfig, for every set of companies, sessions *)
(* and jobs, every option in the file and every name of a channel.         *)
(***************************************************************************)
EXTENDS ChannelConfig, Induction, SequenceTheorems, TLAPS

------------------------------------------------------------------------------
(* Sequences                                                                 *)

\* One sequence is a prefix of another when it has its first elements.
LEMMA PrefixElements ==
  ASSUME NEW S, NEW p \in Seq(S), NEW m \in Seq(S)
  PROVE  IsPrefix(p, m) <=>
           Len(p) <= Len(m) /\ \A i \in 1..Len(p) : p[i] = m[i]
<1>1. ASSUME Len(p) <= Len(m), \A i \in 1..Len(p) : p[i] = m[i]
      PROVE  SubSeq(p, 1, Len(p)) = SubSeq(m, 1, Len(p))
  <2>1. SubSeq(p, 1, Len(p)) = p
    BY SubSeqFull
  <2>2. \A i \in 1..Len(p) : m[i] \in S
    BY <1>1, ElementOfSeq, LenProperties
  <2>3. /\ SubSeq(m, 1, Len(p)) \in Seq(S)
        /\ Len(SubSeq(m, 1, Len(p))) = Len(p)
        /\ \A i \in 1..Len(p) : SubSeq(m, 1, Len(p))[i] = m[i]
    BY <2>2, SubSeqProperties, LenProperties
  <2>4. QED
    BY <1>1, <2>1, <2>3, SeqEqual
<1>2. ASSUME Len(p) <= Len(m), SubSeq(p, 1, Len(p)) = SubSeq(m, 1, Len(p)),
             NEW i \in 1..Len(p)
      PROVE  p[i] = m[i]
  <2>1. SubSeq(p, 1, Len(p)) = p
    BY SubSeqFull
  <2>2. \A k \in 1..Len(p) : m[k] \in S
    BY <1>2, ElementOfSeq, LenProperties
  <2>3. SubSeq(m, 1, Len(p))[i] = m[i]
    BY <2>2, SubSeqProperties, LenProperties
  <2>4. QED
    BY <1>2, <2>1, <2>3
<1>3. QED
  BY <1>1, <1>2 DEF IsPrefix

\* The first elements of a sequence.
LEMMA FirstElements ==
  ASSUME NEW S, NEW m \in Seq(S), NEW k \in 0..Len(m)
  PROVE  /\ SubSeq(m, 1, k) \in Seq(S)
         /\ Len(SubSeq(m, 1, k)) = k
         /\ \A i \in 1..k : SubSeq(m, 1, k)[i] = m[i]
         /\ IsPrefix(SubSeq(m, 1, k), m)
<1>1. k \in Int /\ Len(m) \in Nat /\ \A i \in 1..k : m[i] \in S
  BY ElementOfSeq, LenProperties
<1>2. /\ SubSeq(m, 1, k) \in Seq(S)
      /\ Len(SubSeq(m, 1, k)) = k
      /\ \A i \in 1..k : SubSeq(m, 1, k)[i] = m[i]
  BY <1>1, SubSeqProperties
<1> DEFINE p == SubSeq(m, 1, k)
<1>3. p \in Seq(S) /\ Len(p) = k /\ \A i \in 1..k : p[i] = m[i]
  BY <1>2
<1> HIDE DEF p
<1>4. IsPrefix(p, m)
  BY <1>1, <1>3, PrefixElements
<1>5. QED
  BY <1>3, <1>4 DEF p

\* The last elements of a sequence.
LEMMA LastElements ==
  ASSUME NEW S, NEW m \in Seq(S), NEW k \in 0..Len(m)
  PROVE  /\ SubSeq(m, k + 1, Len(m)) \in Seq(S)
         /\ Len(SubSeq(m, k + 1, Len(m))) = Len(m) - k
         /\ \A i \in 1..(Len(m) - k) : SubSeq(m, k + 1, Len(m))[i] = m[k + i]
<1>1. /\ k \in Int /\ Len(m) \in Nat
      /\ \A i \in (k + 1)..Len(m) : m[i] \in S
  BY ElementOfSeq, LenProperties
<1> DEFINE l == SubSeq(m, k + 1, Len(m))
<1>2. /\ l \in Seq(S)
      /\ Len(l) = IF k + 1 <= Len(m) THEN Len(m) - (k + 1) + 1 ELSE 0
      /\ \A i \in 1..(Len(m) - (k + 1) + 1) : l[i] = m[k + 1 + i - 1]
  BY <1>1, SubSeqProperties
<1> HIDE DEF l
<1>3. Len(l) = Len(m) - k /\ Len(m) - (k + 1) + 1 = Len(m) - k
  BY <1>1, <1>2
<1>4. \A i \in 1..(Len(m) - k) : k + 1 + i - 1 = k + i
  BY <1>1
<1>5. \A i \in 1..(Len(m) - k) : l[i] = m[k + i]
  BY <1>2, <1>3, <1>4
<1>6. QED
  BY <1>2, <1>3, <1>5 DEF l

\* The name of a record without its last part.
LEMMA ParentElements ==
  ASSUME NEW m \in Names, m # Root
  PROVE  /\ Len(m) \in Nat \ {0}
         /\ ParentName(m) \in Names
         /\ Len(ParentName(m)) = Len(m) - 1
         /\ \A i \in 1..(Len(m) - 1) : ParentName(m)[i] = m[i]
<1>1. Len(m) \in Nat \ {0}
  BY EmptySeq DEF Names, Root
<1>2. Len(m) - 1 \in 0..Len(m)
  BY <1>1
<1>3. QED
  BY <1>1, <1>2, FirstElements DEF ParentName, Front, Names

------------------------------------------------------------------------------
(* A record gets another name or another parent                              *)

\* The name of a record that is below another one, once this one is called new.
LEMMA CompleteNameElements ==
  ASSUME NEW n \in Names, NEW new \in Names, NEW m \in Names, IsPrefix(n, m)
  PROVE  /\ Len(n) <= Len(m)
         /\ \A i \in 1..Len(n) : n[i] = m[i]
         /\ CompleteName(n, new, m) \in Names
         /\ Len(CompleteName(n, new, m)) = Len(new) + (Len(m) - Len(n))
         /\ \A i \in 1..Len(new) : CompleteName(n, new, m)[i] = new[i]
         /\ \A i \in (Len(new) + 1)..(Len(new) + (Len(m) - Len(n))) :
              CompleteName(n, new, m)[i] = m[Len(n) + (i - Len(new))]
<1> DEFINE S == Part \cup Company
           rest == SubSeq(m, Len(n) + 1, Len(m))
<1>0. /\ n \in Seq(S) /\ m \in Seq(S) /\ new \in Seq(S)
      /\ Len(n) \in Nat /\ Len(m) \in Nat /\ Len(new) \in Nat
  BY LenProperties DEF Names
<1>1. Len(n) <= Len(m) /\ \A i \in 1..Len(n) : n[i] = m[i]
  BY <1>0, PrefixElements
<1>2. /\ rest \in Seq(S)
      /\ Len(rest) = Len(m) - Len(n)
      /\ \A i \in 1..(Len(m) - Len(n)) : rest[i] = m[Len(n) + i]
  <2>1. Len(n) \in 0..Len(m)
    BY <1>0, <1>1
  <2>2. QED
    BY <1>0, <2>1, LastElements
<1>3. CompleteName(n, new, m) = new \o rest
  BY DEF CompleteName
<1> HIDE DEF rest
<1>4. /\ new \o rest \in Seq(S)
      /\ Len(new \o rest) = Len(new) + (Len(m) - Len(n))
      /\ \A i \in 1..(Len(new) + (Len(m) - Len(n))) :
           (new \o rest)[i] = IF i <= Len(new) THEN new[i] ELSE rest[i - Len(new)]
  <2>1. Len(new) + Len(rest) = Len(new) + (Len(m) - Len(n))
    BY <1>2
  <2>2. /\ new \o rest \in Seq(S)
        /\ Len(new \o rest) = Len(new) + Len(rest)
        /\ \A i \in 1..(Len(new) + Len(rest)) :
             (new \o rest)[i] = IF i <= Len(new) THEN new[i] ELSE rest[i - Len(new)]
    BY <1>0, <1>2, ConcatProperties
  <2>3. QED
    BY <2>1, <2>2
<1>5. ASSUME NEW i \in (Len(new) + 1)..(Len(new) + (Len(m) - Len(n)))
      PROVE  (new \o rest)[i] = m[Len(n) + (i - Len(new))]
  <2>1. /\ i - Len(new) \in 1..(Len(m) - Len(n))
        /\ i \in 1..(Len(new) + (Len(m) - Len(n))) /\ ~(i <= Len(new))
    BY <1>0
  <2>2. QED
    BY <1>2, <1>4, <2>1
<1>6. \A i \in 1..Len(new) : (new \o rest)[i] = new[i]
  BY <1>0, <1>1, <1>4
<1>7. QED
  BY <1>1, <1>3, <1>4, <1>5, <1>6 DEF Names

\* The parent of the record itself is the new one; that of a record below it, or
\* elsewhere, is the old one under its name of now.
LEMMA ParentOfMoved ==
  ASSUME NEW n \in Names, n # Root, NEW new \in Names, new # Root,
         NEW m \in Names, m # Root
  PROVE  /\ CompleteName(n, new, m) # Root
         /\ ParentName(CompleteName(n, new, m)) =
              IF m = n THEN ParentName(new) ELSE CompleteName(n, new, ParentName(m))
<1> DEFINE S == Part \cup Company
           f == ParentName(m)
           r == CompleteName(n, new, m)
<1>0. /\ n \in Seq(S) /\ m \in Seq(S) /\ new \in Seq(S)
      /\ Len(n) \in Nat \ {0} /\ Len(new) \in Nat \ {0}
  BY ParentElements DEF Names
<1>1. /\ Len(m) \in Nat \ {0} /\ f \in Names
      /\ Len(f) = Len(m) - 1
      /\ \A i \in 1..(Len(m) - 1) : f[i] = m[i]
  BY ParentElements
<1>2. IsPrefix(n, m) <=> Len(n) <= Len(m) /\ \A i \in 1..Len(n) : n[i] = m[i]
  BY <1>0, PrefixElements
<1>3. IsPrefix(n, f) <=> Len(n) <= Len(f) /\ \A i \in 1..Len(n) : n[i] = f[i]
  BY <1>0, <1>1, PrefixElements DEF Names
<1> HIDE DEF f
<1>4. CASE ~IsPrefix(n, m)
  <2>1. ~IsPrefix(n, f)
    <3>1. SUFFICES ASSUME IsPrefix(n, f) PROVE FALSE
      OBVIOUS
    <3>2. Len(n) <= Len(m) - 1 /\ \A i \in 1..Len(n) : n[i] = f[i]
      BY <1>1, <1>3, <3>1
    <3>3. \A i \in 1..Len(n) : n[i] = m[i]
      BY <1>0, <1>1, <3>2
    <3>4. Len(n) <= Len(m)
      BY <1>0, <1>1, <3>2
    <3>5. QED
      BY <1>2, <1>4, <3>3, <3>4
  <2>2. m # n
    BY <1>0, <1>2, <1>4
  <2>3. QED
    BY <1>4, <2>1, <2>2 DEF CompleteName, f
<1>5. ASSUME IsPrefix(n, m)
      PROVE  /\ r \in Names /\ r # Root
             /\ Len(r) = Len(new) + (Len(m) - Len(n)) /\ Len(n) <= Len(m)
             /\ \A i \in 1..Len(new) : r[i] = new[i]
             /\ \A i \in (Len(new) + 1)..(Len(new) + (Len(m) - Len(n))) :
                  r[i] = m[Len(n) + (i - Len(new))]
  <2>1. /\ r \in Names
        /\ Len(r) = Len(new) + (Len(m) - Len(n)) /\ Len(n) <= Len(m)
        /\ \A i \in 1..Len(new) : r[i] = new[i]
        /\ \A i \in (Len(new) + 1)..(Len(new) + (Len(m) - Len(n))) :
             r[i] = m[Len(n) + (i - Len(new))]
    BY <1>5, CompleteNameElements
  <2> HIDE DEF r
  <2>2. Len(r) # 0
    BY <1>0, <1>1, <2>1
  <2>3. r # Root
    BY <2>1, <2>2, EmptySeq DEF Names, Root
  <2>4. QED
    BY <2>1, <2>3
<1>6. CASE IsPrefix(n, m) /\ Len(m) = Len(n)
  <2>1. m = n
    BY <1>0, <1>2, <1>6, SeqEqual
  <2>2. /\ r \in Seq(S) /\ r # Root /\ Len(r) = Len(new)
        /\ \A i \in 1..Len(new) : r[i] = new[i]
    BY <1>0, <1>5, <1>6 DEF Names
  <2>3. r = new
    BY <1>0, <2>2, SeqEqual
  <2>4. QED
    BY <2>1, <2>2, <2>3
<1>7. CASE IsPrefix(n, m) /\ Len(m) # Len(n)
  <2> DEFINE g == CompleteName(n, new, f)
             d == Len(new) + (Len(m) - Len(n)) - 1
  <2>1. Len(n) <= Len(m) - 1 /\ m # n
    BY <1>0, <1>1, <1>2, <1>7
  <2>2. IsPrefix(n, f)
    <3>1. \A i \in 1..Len(n) : n[i] = m[i]
      BY <1>2, <1>7
    <3>2. \A i \in 1..Len(n) : m[i] = f[i]
      BY <1>0, <1>1, <2>1
    <3>3. QED
      BY <1>1, <1>3, <2>1, <3>1, <3>2
  <2>3. /\ g \in Names
        /\ Len(g) = Len(new) + (Len(f) - Len(n))
        /\ \A i \in 1..Len(new) : g[i] = new[i]
        /\ \A i \in (Len(new) + 1)..(Len(new) + (Len(f) - Len(n))) :
             g[i] = f[Len(n) + (i - Len(new))]
    <3>1. f \in Names /\ IsPrefix(n, f)
      BY <1>1, <2>2
    <3>2. QED
      BY <3>1, CompleteNameElements
  <2> HIDE DEF g, r
  <2>4. d \in Nat /\ Len(new) + (Len(f) - Len(n)) = d
        /\ Len(new) + (Len(m) - Len(n)) = d + 1
    BY <1>0, <1>1, <2>1
  <2>5. /\ ParentName(r) \in Names
        /\ Len(ParentName(r)) = Len(r) - 1
        /\ \A i \in 1..(Len(r) - 1) : ParentName(r)[i] = r[i]
    BY <1>5, <1>7, ParentElements
  <2> HIDE DEF d
  <2>6. Len(r) - 1 = d /\ Len(g) = d
    BY <1>5, <1>7, <2>3, <2>4
  <2>7. ASSUME NEW i \in 1..d
        PROVE  ParentName(r)[i] = g[i]
    <3>1. ParentName(r)[i] = r[i]
      BY <2>5, <2>6
    <3>2. CASE i \in 1..Len(new)
      BY <1>5, <1>7, <2>3, <3>1, <3>2
    <3>3. CASE i > Len(new)
      <4>1. /\ i \in (Len(new) + 1)..(d + 1) /\ i \in (Len(new) + 1)..d
            /\ Len(n) + (i - Len(new)) \in 1..(Len(m) - 1)
        BY <1>0, <1>1, <2>4, <3>3
      <4>2. r[i] = m[Len(n) + (i - Len(new))]
        BY <1>5, <1>7, <2>4, <4>1
      <4>3. g[i] = f[Len(n) + (i - Len(new))]
        BY <2>3, <2>4, <4>1
      <4>4. QED
        BY <1>1, <3>1, <4>1, <4>2, <4>3
    <3>4. QED
      BY <1>0, <3>2, <3>3
  <2>8. ParentName(r) = g
    BY <2>3, <2>5, <2>6, <2>7, SeqEqual DEF Names
  <2>9. QED
    BY <1>5, <1>7, <2>1, <2>8 DEF f, g, r
<1>8. QED
  BY <1>4, <1>6, <1>7

\* A record keeps its own name, but for the one that is written.
LEMMA LastOfMoved ==
  ASSUME NEW n \in Names, n # Root, NEW new \in Names, new # Root, NEW m \in Names
  PROVE  \/ CompleteName(n, new, m) = m
         \/ Last(CompleteName(n, new, m)) = Last(new)
         \/ m # Root /\ Last(CompleteName(n, new, m)) = Last(m)
<1> DEFINE r == CompleteName(n, new, m)
<1>1. CASE ~IsPrefix(n, m)
  BY <1>1 DEF CompleteName
<1>2. CASE IsPrefix(n, m)
  <2>1. /\ Len(r) = Len(new) + (Len(m) - Len(n)) /\ Len(n) <= Len(m)
        /\ \A i \in 1..Len(new) : r[i] = new[i]
        /\ \A i \in (Len(new) + 1)..(Len(new) + (Len(m) - Len(n))) :
             r[i] = m[Len(n) + (i - Len(new))]
    BY <1>2, CompleteNameElements
  <2>2. Len(n) \in Nat \ {0} /\ Len(new) \in Nat \ {0} /\ Len(m) \in Nat
    BY ParentElements, LenProperties DEF Names
  <2> HIDE DEF r
  <2>3. CASE Len(m) = Len(n)
    <3>1. Len(r) = Len(new) /\ Len(new) \in 1..Len(new)
      BY <2>1, <2>2, <2>3
    <3>2. r[Len(r)] = new[Len(new)]
      BY <2>1, <3>1
    <3>3. QED
      BY <3>2 DEF Last, r
  <2>4. CASE Len(m) # Len(n)
    <3>1. /\ Len(r) \in (Len(new) + 1)..(Len(new) + (Len(m) - Len(n)))
          /\ Len(n) + (Len(r) - Len(new)) = Len(m)
      BY <2>1, <2>2, <2>4
    <3>2. r[Len(r)] = m[Len(m)]
      BY <2>1, <3>1
    <3>3. m # Root
      BY <2>1, <2>2, <2>4, EmptySeq DEF Root
    <3>4. QED
      BY <3>2, <3>3 DEF Last, r
  <2>5. QED
    BY <2>3, <2>4
<1>3. QED
  BY <1>1, <1>2

\* The name that a record is given.
LEMMA GivenName ==
  ASSUME NEW parent \in Names, NEW part \in Part \cup Company
  PROVE  /\ Append(parent, part) \in Names /\ Append(parent, part) # Root
         /\ ParentName(Append(parent, part)) = parent
         /\ Last(Append(parent, part)) = part
<1> DEFINE new == Append(parent, part)
<1>1. /\ new \in Names /\ Len(new) = Len(parent) + 1 /\ Len(parent) \in Nat
      /\ \A i \in 1..Len(parent) : new[i] = parent[i]
      /\ new[Len(parent) + 1] = part
  BY AppendProperties, LenProperties DEF Names
<1> HIDE DEF new
<1>2. new # Root
  BY <1>1, EmptySeq DEF Names, Root
<1>3. /\ ParentName(new) \in Names
      /\ Len(ParentName(new)) = Len(new) - 1
      /\ \A i \in 1..(Len(new) - 1) : ParentName(new)[i] = new[i]
  BY <1>1, <1>2, ParentElements
<1>4. Len(new) - 1 = Len(parent)
  BY <1>1
<1>5. ParentName(new) = parent
  BY <1>1, <1>3, <1>4, SeqEqual DEF Names
<1>6. QED
  BY <1>1, <1>2, <1>5 DEF Last, new

------------------------------------------------------------------------------
(* The channels of the runner                                                *)

\* A set of names that has all the names above its members.
Closed(t) ==
  /\ \A n \in t : n \in Names
  /\ \A n \in t : \A i \in 0..Len(n) : SubSeq(n, 1, i) \in t

LEMMA RootIsName == Root \in Names /\ Len(Root) = 0
BY EmptySeq DEF Names, Root

LEMMA RootIsPrefix ==
  ASSUME NEW n \in Names
  PROVE  IsPrefix(Root, n)
<1>1. SubSeq(Root, 1, 0) = SubSeq(n, 1, 0)
  BY SubSeqEmpty
<1>2. Len(n) \in Nat /\ Len(Root) = 0
  BY RootIsName, LenProperties DEF Names
<1>3. QED
  BY <1>1, <1>2 DEF IsPrefix

LEMMA RootInClosed ==
  ASSUME NEW t, Closed(t), t # {}
  PROVE  Root \in t
<1>1. PICK n \in t : n \in Names
  BY DEF Closed
<1>2. SubSeq(n, 1, 0) = Root
  BY SubSeqEmpty DEF Root
<1>3. 0 \in 0..Len(n)
  BY <1>1, LenProperties DEF Names
<1>4. QED
  BY <1>1, <1>2, <1>3 DEF Closed

\* The fallback of an unknown name is the longest name above it.
LEMMA FallbackIsLongest ==
  ASSUME NEW t, Closed(t), t # {}, NEW n \in Names, n \notin t
  PROVE  /\ Fallback(t, n) \in t
         /\ IsStrictPrefix(Fallback(t, n), n)
         /\ \A q \in t : IsStrictPrefix(q, n) => Len(q) <= Len(Fallback(t, n))
<1> DEFINE above == {q \in t : IsStrictPrefix(q, n)}
           T == {k \in Nat : \E q \in above : k = Len(n) - Len(q)}
<1>1. Root \in above
  BY RootInClosed, RootIsPrefix DEF IsStrictPrefix
<1>2. \A q \in above : Len(q) \in Nat /\ Len(q) <= Len(n)
  BY LenProperties, PrefixElements DEF IsStrictPrefix, Closed, Names
<1>3. Len(n) \in Nat
  BY LenProperties DEF Names
<1>4. T # {}
  <2>1. Len(Root) = 0 /\ Len(n) = Len(n) - Len(Root)
    BY <1>3, RootIsName
  <2>2. Len(n) \in T
    BY <1>1, <1>3, <2>1
  <2>3. QED
    BY <2>2
<1>5. PICK x \in T : \A y \in T : x <= y
  BY <1>4, LeastNumber
<1>6. PICK p \in above : x = Len(n) - Len(p)
  BY <1>5
<1>7. \A q \in above : Len(q) <= Len(p)
  <2> SUFFICES ASSUME NEW q \in above PROVE Len(q) <= Len(p)
    OBVIOUS
  <2>1. Len(n) - Len(q) \in T
    BY <1>2, <1>3
  <2>2. Len(n) - Len(p) <= Len(n) - Len(q)
    BY <1>5, <1>6, <2>1
  <2> HIDE DEF above, T
  <2>3. QED
    BY <1>2, <1>3, <2>2
<1>8. Fallback(t, n) = CHOOSE p1 \in above : \A q \in above : Len(q) <= Len(p1)
  BY DEF Fallback
<1> HIDE DEF T
<1>9. Fallback(t, n) \in above /\ \A q \in above : Len(q) <= Len(Fallback(t, n))
  BY <1>7, <1>8
<1>10. QED
  BY <1>9

\* The elements of the name that Grown creates.
LEMMA BelowElements ==
  ASSUME NEW p \in Names, NEW n \in Names, NEW i \in 0..Len(n)
  PROVE  /\ p \o SubSeq(n, 1, i) \in Names
         /\ Len(p) \in Nat /\ Len(n) \in Nat
         /\ Len(p \o SubSeq(n, 1, i)) = Len(p) + i
         /\ \A k \in 1..(Len(p) + i) :
              (p \o SubSeq(n, 1, i))[k] = IF k <= Len(p) THEN p[k] ELSE n[k - Len(p)]
<1> DEFINE S == Part \cup Company
           m == SubSeq(n, 1, i)
<1>1. p \in Seq(S) /\ n \in Seq(S) /\ Len(p) \in Nat /\ Len(n) \in Nat
  BY LenProperties DEF Names
<1>2. m \in Seq(S) /\ Len(m) = i /\ \A k \in 1..i : m[k] = n[k]
  BY <1>1, FirstElements
<1> HIDE DEF m
<1>3. /\ p \o m \in Seq(S)
      /\ Len(p \o m) = Len(p) + Len(m)
      /\ \A k \in 1..(Len(p) + Len(m)) :
           (p \o m)[k] = IF k <= Len(p) THEN p[k] ELSE m[k - Len(p)]
  BY <1>1, <1>2, ConcatProperties
<1>4. \A k \in 1..(Len(p) + i) : k <= Len(p) \/ k - Len(p) \in 1..i
  BY <1>1
<1>5. /\ p \o m \in Names
      /\ Len(p \o m) = Len(p) + i
      /\ \A k \in 1..(Len(p) + i) :
           (p \o m)[k] = IF k <= Len(p) THEN p[k] ELSE n[k - Len(p)]
  BY <1>2, <1>3, <1>4 DEF Names
<1>6. QED
  BY <1>1, <1>5 DEF m

\* What is above a new name is above the fallback or a new name as well.
LEMMA BelowIsClosed ==
  ASSUME NEW t, Closed(t), NEW p \in t, NEW n \in Names
  PROVE  Closed(t \cup Below(p, n))
<1> DEFINE S == Part \cup Company
<1>1. p \in Names /\ Len(p) \in Nat /\ Len(n) \in Nat
  BY LenProperties DEF Closed, Names
<1>2. \A i \in 1..Len(n) : i \in 0..Len(n)
  BY <1>1
<1>3. \A m \in t \cup Below(p, n) : m \in Names
  BY <1>1, <1>2, BelowElements DEF Closed, Below
<1>4. ASSUME NEW i \in 1..Len(n), NEW k \in 0..Len(p \o SubSeq(n, 1, i))
      PROVE  SubSeq(p \o SubSeq(n, 1, i), 1, k) \in t \cup Below(p, n)
  <2> DEFINE x == p \o SubSeq(n, 1, i)
  <2>1. /\ x \in Names /\ Len(x) = Len(p) + i
        /\ \A l \in 1..(Len(p) + i) : x[l] = IF l <= Len(p) THEN p[l] ELSE n[l - Len(p)]
    BY <1>1, <1>2, BelowElements
  <2> HIDE DEF x
  <2>2. k \in 0..Len(x)
    BY DEF x
  <2>3. /\ SubSeq(x, 1, k) \in Seq(S) /\ Len(SubSeq(x, 1, k)) = k
        /\ \A l \in 1..k : SubSeq(x, 1, k)[l] = x[l]
    BY <2>1, <2>2, FirstElements DEF Names
  <2>4. CASE k <= Len(p)
    <3>1. k \in 0..Len(p)
      BY <1>1, <2>2, <2>4
    <3>2. /\ SubSeq(p, 1, k) \in Seq(S) /\ Len(SubSeq(p, 1, k)) = k
          /\ \A l \in 1..k : SubSeq(p, 1, k)[l] = p[l]
      BY <1>1, <3>1, FirstElements DEF Names
    <3>3. \A l \in 1..k : x[l] = p[l]
      BY <1>1, <2>1, <3>1
    <3>4. SubSeq(x, 1, k) = SubSeq(p, 1, k)
      BY <2>3, <3>2, <3>3, SeqEqual
    <3>5. SubSeq(p, 1, k) \in t
      BY <3>1 DEF Closed
    <3>6. QED
      BY <3>4, <3>5 DEF x
  <2>5. CASE k > Len(p)
    <3> DEFINE e == k - Len(p)
               y == p \o SubSeq(n, 1, e)
    <3>1. e \in 1..Len(n) /\ e \in 0..Len(n) /\ Len(p) + e = k
      BY <1>1, <2>1, <2>2, <2>5
    <3>2. /\ y \in Names /\ Len(y) = Len(p) + e
          /\ \A l \in 1..(Len(p) + e) : y[l] = IF l <= Len(p) THEN p[l] ELSE n[l - Len(p)]
      BY <1>1, <3>1, BelowElements
    <3>3. y \in Below(p, n)
      BY <3>1 DEF Below
    <3> HIDE DEF e, y
    <3>4. \A l \in 1..k : y[l] = x[l]
      <4>1. \A l \in 1..k : l \in 1..(Len(p) + i) /\ l \in 1..(Len(p) + e)
        BY <1>1, <2>1, <2>2, <3>1
      <4>2. QED
        BY <2>1, <3>2, <4>1
    <3>5. SubSeq(x, 1, k) = y
      BY <2>3, <3>1, <3>2, <3>4, SeqEqual DEF Names
    <3>6. QED
      BY <3>3, <3>5 DEF x
  <2>6. QED
    BY <1>1, <2>1, <2>2, <2>4, <2>5
<1>5. \A m \in Below(p, n) : \E i \in 1..Len(n) : m = p \o SubSeq(n, 1, i)
  BY DEF Below
<1>6. \A m \in t \cup Below(p, n) : \A k \in 0..Len(m) :
        SubSeq(m, 1, k) \in t \cup Below(p, n)
  BY <1>4, <1>5 DEF Closed
<1>7. QED
  BY <1>3, <1>6 DEF Closed

\* What Notify makes of the tree, and the channel that it finds there.
LEMMA GrownIsClosed ==
  ASSUME NEW t, Closed(t), t # {}, NEW n \in Names
  PROVE  Closed(Grown(t, n)) /\ t \subseteq Grown(t, n) /\ Resolve(t, n) \in Grown(t, n)
<1>1. CASE n \in t
  BY <1>1 DEF Grown, Resolve
<1>2. CASE n \notin t
  <2> DEFINE p == Fallback(t, n)
  <2>1. p \in t
    BY <1>2, FallbackIsLongest
  <2>2. Grown(t, n) = t \cup Below(p, n) /\ Resolve(t, n) = p \o n
    BY <1>2 DEF Grown, Resolve
  <2>3. Len(n) \in 1..Len(n)
    <3>1. n # Root /\ n \in Seq(Part \cup Company)
      BY <1>2, RootInClosed DEF Names
    <3>2. Len(n) \in Nat \ {0}
      BY <3>1, EmptySeq DEF Root
    <3>3. QED
      BY <3>2
  <2>4. SubSeq(n, 1, Len(n)) = n
    BY SubSeqFull DEF Names
  <2>5. p \o n \in Below(p, n)
    BY <2>3, <2>4 DEF Below
  <2> HIDE DEF p
  <2>6. QED
    BY <2>1, <2>2, <2>5, BelowIsClosed
<1>3. QED
  BY <1>1, <1>2

------------------------------------------------------------------------------
(* The option of the file                                                    *)

EntryType == [name : Names, capacity : Nat]

LEMMA EntriesType == Entries = Seq(EntryType) /\ <<>> \in Entries
BY EmptySeq DEF Entries, EntryType

LEMMA OptionEntry ==
  ASSUME NEW option \in Entries, NEW i \in DOMAIN option
  PROVE  option[i].name \in Names /\ option[i].capacity \in Nat
<1>1. option \in Seq(EntryType)
  BY EntriesType
<1>2. option[i] \in EntryType
  BY <1>1, LenProperties, ElementOfSeq
<1>3. QED
  BY <1>2 DEF EntryType

\* The last entry of a channel has a capacity.
LEMMA ConfiguredByType ==
  ASSUME NEW option \in Entries, NEW n,
         \E i \in DOMAIN option : option[i].name = n
  PROVE  ConfiguredBy(option, n) \in Nat
<1> DEFINE ofChannel == {i \in DOMAIN option : option[i].name = n}
           T == {k \in Nat : \E i \in ofChannel : k = Len(option) - i}
           last == CHOOSE i \in ofChannel : \A k \in ofChannel : k <= i
<1>1. Len(option) \in Nat /\ DOMAIN option = 1..Len(option)
  BY EntriesType, LenProperties
<1>2. T # {}
  <2>1. PICK i \in ofChannel : TRUE
    OBVIOUS
  <2>2. Len(option) - i \in T
    BY <1>1, <2>1
  <2>3. QED
    BY <2>2
<1>3. PICK x \in T : \A y \in T : x <= y
  BY <1>2, LeastNumber
<1>4. PICK i \in ofChannel : x = Len(option) - i
  BY <1>3
<1>5. \A k \in ofChannel : k <= i
  <2> SUFFICES ASSUME NEW k \in ofChannel PROVE k <= i
    OBVIOUS
  <2>1. Len(option) - k \in T /\ k \in Nat /\ i \in Nat
    BY <1>1, <1>4
  <2>2. Len(option) - i <= Len(option) - k
    BY <1>3, <1>4, <2>1
  <2> HIDE DEF T, ofChannel
  <2>3. QED
    BY <1>1, <2>1, <2>2
<1>6. last \in ofChannel
  <2> HIDE DEF ofChannel, T
  <2>1. QED
    BY <1>4, <1>5
<1>7. ConfiguredBy(option, n) = option[last].capacity
  BY DEF ConfiguredBy
<1> HIDE DEF last
<1>8. QED
  BY <1>6, <1>7, OptionEntry

\* The channels of a new runner.
LEMMA ConfiguredType ==
  ASSUME NEW option \in Entries
  PROVE  /\ Closed(DOMAIN Configured(option))
         /\ DOMAIN Configured(option) # {}
         /\ Configured(option) \in [DOMAIN Configured(option) -> Nat]
<1> DEFINE entries == IF option = <<>> THEN <<Entry(Root, 1)>> ELSE option
           names == {Root} \cup UNION {Below(Root, entries[i].name) : i \in DOMAIN entries}
           Has(n) == \E i \in DOMAIN entries : entries[i].name = n
           value(n) == IF Has(n) THEN ConfiguredBy(entries, n) ELSE Unconfigured(n)
<1>1. entries \in Entries
  <2>1. Entry(Root, 1) \in EntryType
    BY RootIsName DEF Entry, EntryType
  <2>2. <<Entry(Root, 1)>> \in Seq(EntryType)
    BY <2>1
  <2>3. QED
    BY <2>2, EntriesType
<1>2. Configured(option) = [n \in names |-> value(n)]
  BY DEF Configured
<1>3. \A n \in names : value(n) \in Nat
  BY <1>1, ConfiguredByType DEF Unconfigured
<1> HIDE DEF entries, value
<1>4. Closed({Root})
  <2>1. \A n \in {Root} : \A i \in 0..Len(n) : SubSeq(n, 1, i) = Root
    <3>1. SubSeq(Root, 1, 0) = <<>>
      BY SubSeqEmpty
    <3>2. QED
      BY <3>1, RootIsName DEF Root
  <2>2. QED
    BY <2>1, RootIsName DEF Closed
<1>5. \A i \in DOMAIN entries : Closed({Root} \cup Below(Root, entries[i].name))
  BY <1>1, <1>4, OptionEntry, BelowIsClosed
<1>6. Closed(names)
  BY <1>4, <1>5 DEF Closed
<1>7. QED
  BY <1>2, <1>3, <1>6

------------------------------------------------------------------------------
(* Type correctness                                                          *)

TypeInv == TypeOK /\ OneCompany /\ TreeInv

LEMMA TreeIsClosed ==
  ASSUME TypeInv
  PROVE  Closed(tree)
BY DEF TypeInv, TypeOK, TreeInv, Closed

LEMMA CompanyName ==
  ASSUME NEW c \in Company
  PROVE  /\ NameOf(c) \in Names /\ Len(NameOf(c)) = 1 /\ NameOf(c)[1] = c
         /\ NameOf(c) # Root /\ ParentName(NameOf(c)) = Root
         /\ EntryOf(c) \in EntryType
<1>1. /\ <<c>> \in Seq(Part \cup Company)
      /\ Len(<<c>>) = 1 /\ <<c>>[1] = c /\ <<c>> # <<>>
  OBVIOUS
<1>2. SubSeq(<<c>>, 1, 0) = <<>>
  BY SubSeqEmpty
<1>3. QED
  BY <1>1, <1>2 DEF NameOf, Names, Root, ParentName, Front, EntryOf, Entry, EntryType

\* A session that validates an entry does so for one company.
LEMMA SessionCompany ==
  ASSUME TypeOK, OneCompany, NEW s \in Session, session[s].pc # "new"
  PROVE  CompanyOf(s) \in Company /\ session[s].company = {CompanyOf(s)}
BY DEF OneCompany, CompanyOf

LEMMA TypeInit == Init => TypeInv
<1> SUFFICES ASSUME Init PROVE TypeInv
  OBVIOUS
<1> USE DEF Init
<1>1. file \in Entries
  <2>1. file \in Seq([name : Seq(Part), capacity : Nat])
    BY ConfigAssumption
  <2>2. \A n \in Seq(Part) : n \in Names
    BY SeqMonotonic DEF Names
  <2>3. [name : Seq(Part), capacity : Nat] \subseteq EntryType
    BY <2>2 DEF EntryType
  <2>4. QED
    BY <2>1, <2>3, SeqMonotonic, EntriesType
<1>2. \A n \in channel : n \in Names /\ Len(n) <= MaxDepth
  BY RootIsName, ConfigAssumption
<1>3. /\ NewSession \in [pc : {"new", "delay", "create", "created", "read", "truncated",
                               "written", "over"},
                         company : SUBSET Company, read : Entries]
      /\ Down \in [kind : {"down", "prefork", "threaded"}, option : Entries]
  BY EntriesType DEF NewSession, Down
<1>4. restarts \in 0..MaxRestarts
  BY ConfigAssumption
<1>5. TypeOK
  BY <1>1, <1>2, <1>3, <1>4 DEF TypeOK
<1>6. OneCompany /\ TreeInv
  BY DEF OneCompany, TreeInv, NewSession
<1>7. QED
  BY <1>5, <1>6 DEF TypeInv

\* Administrators create, rename and remove records.
LEMMA TypeRecord ==
  ASSUME TypeInv, RecordStep
  PROVE  TypeInv'
<1> USE DEF TypeInv
<1>1. \/ \E n \in channel, part \in Part : CreateChannel(n, part)
      \/ \E n, parent \in channel, part \in Part \cup Company : WriteChannel(n, parent, part)
      \/ \E n \in channel : UnlinkChannel(n)
  BY DEF RecordStep
<1>2. UNCHANGED <<file, session, row, runner, lost>>
  BY <1>1 DEF CreateChannel, WriteChannel, UnlinkChannel
<1>3. \A m \in channel' : m \in Names /\ Len(m) <= MaxDepth
  <2>0. \A m \in channel : m \in Names /\ Len(m) \in Nat /\ Len(m) <= MaxDepth
    BY LenProperties DEF TypeOK, Names
  <2>1. ASSUME NEW n \in channel, NEW p \in Part, CreateChannel(n, p)
        PROVE  \A m \in channel' : m \in Names /\ Len(m) <= MaxDepth
    <3>1. Append(n, p) \in Names /\ Len(Append(n, p)) = Len(n) + 1
      BY <2>0, AppendProperties DEF Names
    <3>2. Len(n) + 1 <= MaxDepth
      BY <2>0, <2>1, ConfigAssumption DEF CreateChannel
    <3>3. channel' = channel \cup {Append(n, p)}
      BY <2>1 DEF CreateChannel
    <3>4. QED
      BY <2>0, <3>1, <3>2, <3>3
  <2>2. ASSUME NEW n \in channel, NEW parent \in channel, NEW part \in Part \cup Company,
               WriteChannel(n, parent, part)
        PROVE  \A m \in channel' : m \in Names /\ Len(m) <= MaxDepth
    <3> DEFINE new == Append(parent, part)
    <3>1. /\ channel' = {CompleteName(n, new, m) : m \in channel}
          /\ \A m \in channel' : Len(m) <= MaxDepth
      BY <2>2 DEF WriteChannel
    <3>2. new \in Names
      BY <2>0, GivenName
    <3> HIDE DEF new
    <3>3. \A m \in channel : CompleteName(n, new, m) \in Names
      BY <2>0, <3>2, CompleteNameElements DEF CompleteName
    <3>4. QED
      BY <3>1, <3>3
  <2>3. ASSUME NEW n \in channel, UnlinkChannel(n)
        PROVE  \A m \in channel' : m \in Names /\ Len(m) <= MaxDepth
    BY <2>0, <2>3 DEF UnlinkChannel
  <2>4. QED
    BY <1>1, <2>1, <2>2, <2>3
<1>4. QED
  BY <1>2, <1>3 DEF TypeOK, OneCompany, TreeInv, runner, Rows, HasRow

Pcs == {"new", "delay", "create", "created", "read", "truncated", "written", "over"}

Sessions == [pc : Pcs, company : SUBSET Company, read : Entries]

\* A session goes on.
LEMMA TypeSession ==
  ASSUME TypeInv, NEW s \in Session, SessionStep(s)
  PROVE  TypeInv'
<1> USE DEF TypeInv
<1>0. /\ session \in [Session -> Sessions]
      /\ session[s].pc # "new" =>
           CompanyOf(s) \in Company /\ session[s].company = {CompanyOf(s)}
  BY SessionCompany DEF TypeOK, Sessions, Pcs
<1>1. ASSUME session' \in [Session -> Sessions], OneCompany',
             file' = Truncated \/ file' \in Entries,
             \A n \in channel' : n \in Names /\ Len(n) <= MaxDepth,
             row' \in [Job -> {NoRow, Gone} \cup Rows],
             \A j \in Job : row'[j] = NoRow => row[j] = NoRow,
             lost' \subseteq Company, UNCHANGED runner
      PROVE  TypeInv'
  BY <1>1 DEF TypeOK, TreeInv, runner, Sessions, Pcs
<1>2. ASSUME NEW pc \in Pcs \ {"new"}, Step(s, pc), session[s].pc # "new"
      PROVE  session' \in [Session -> Sessions] /\ OneCompany'
  BY <1>0, <1>2 DEF Step, OneCompany, Sessions
<1>3. /\ file = Truncated \/ file \in Entries
      /\ \A n \in channel : n \in Names /\ Len(n) <= MaxDepth
      /\ row \in [Job -> {NoRow, Gone} \cup Rows]
      /\ lost \subseteq Company
  BY DEF TypeOK
<1>4. AtRisk \subseteq Company
  BY <1>0 DEF AtRisk, Sessions
<1>5. ASSUME NEW c \in Company, OpenSession(s, c)
      PROVE  TypeInv'
  <2>1. session' \in [Session -> Sessions]
    BY <1>0, <1>5, EntriesType DEF OpenSession, Sessions, Pcs
  <2>2. OneCompany'
    BY <1>0, <1>5 DEF OpenSession, OneCompany
  <2>3. QED
    BY <1>1, <1>3, <1>5, <2>1, <2>2 DEF OpenSession, records
<1>6. CASE InsertChannel(s) \/ InsertFails(s)
  <2>1. session' \in [Session -> Sessions] /\ OneCompany'
    BY <1>2, <1>6 DEF InsertChannel, InsertFails, Pcs
  <2>2. UNCHANGED <<file, records, runner, lost>>
    BY <1>6 DEF InsertChannel, InsertFails
  <2>3. QED
    BY <1>1, <1>3, <2>1, <2>2 DEF records
<1>7. CASE ReadFile(s)
  <2>1. (IF file = Truncated THEN <<>> ELSE file) \in Entries
    BY <1>3, EntriesType
  <2>2. session' \in [Session -> Sessions] /\ OneCompany'
    BY <1>0, <1>7, <2>1 DEF ReadFile, OneCompany, Sessions, Pcs
  <2>3. UNCHANGED <<file, records, runner>> /\ lost' \subseteq Company
    BY <1>3, <1>4, <1>7 DEF ReadFile
  <2>4. QED
    BY <1>1, <1>3, <2>2, <2>3 DEF records
<1>8. CASE TruncateFile(s)
  <2>1. session' \in [Session -> Sessions] /\ OneCompany'
    BY <1>2, <1>8 DEF TruncateFile, Pcs
  <2>2. QED
    BY <1>1, <1>3, <1>8, <2>1 DEF TruncateFile, records
<1>9. CASE WriteFile(s)
  <2>1. session' \in [Session -> Sessions] /\ OneCompany'
    BY <1>0, <1>9, EntriesType DEF WriteFile, OneCompany, Sessions, Pcs
  <2>2. file' \in Entries
    <3>1. session[s].read \in Seq(EntryType) /\ CompanyOf(s) \in Company
      BY <1>0, <1>9, EntriesType DEF WriteFile, Sessions
    <3>2. Append(session[s].read, EntryOf(CompanyOf(s))) \in Seq(EntryType)
      BY <3>1, CompanyName, AppendProperties
    <3>3. QED
      BY <1>9, <3>1, <3>2, EntriesType DEF WriteFile, NewOption
  <2>3. UNCHANGED <<records, runner, lost>>
    BY <1>9 DEF WriteFile
  <2>4. QED
    BY <1>1, <1>3, <2>1, <2>2, <2>3 DEF records
<1>10. CASE RollBack(s)
  <2>1. session' \in [Session -> Sessions] /\ OneCompany'
    BY <1>0, <1>10, EntriesType DEF RollBack, OneCompany, Sessions, Pcs
  <2>2. UNCHANGED <<file, records, runner>> /\ lost' \subseteq Company
    BY <1>3, <1>4, <1>10 DEF RollBack
  <2>3. QED
    BY <1>1, <1>3, <2>1, <2>2 DEF records
<1>11. ASSUME NEW j \in Job, CommitSession(s, j)
       PROVE  TypeInv'
  <2>0. /\ session[s].pc \in {"delay", "written"} /\ row[j] = NoRow
        /\ channel' = channel \cup (IF session[s].pc = "written"
                                    THEN {NameOf(CompanyOf(s))} ELSE {})
        /\ row' = [row EXCEPT ![j] = [state |-> "pending", name |-> NameOf(CompanyOf(s)),
                                      rooted |-> FALSE]]
        /\ Step(s, "over") /\ UNCHANGED <<file, runner, lost>>
    BY <1>11 DEF CommitSession
  <2>1. session' \in [Session -> Sessions] /\ OneCompany'
    BY <1>2, <2>0 DEF Pcs
  <2>2. NameOf(CompanyOf(s)) \in Names /\ Len(NameOf(CompanyOf(s))) <= MaxDepth
    <3>1. CompanyOf(s) \in Company
      BY <1>0, <2>0
    <3>2. NameOf(CompanyOf(s)) \in Names /\ Len(NameOf(CompanyOf(s))) = 1
      BY <3>1, CompanyName
    <3>3. QED
      BY <3>2, ConfigAssumption
  <2>3. \A n \in channel' : n \in Names /\ Len(n) <= MaxDepth
    BY <1>3, <2>0, <2>2
  <2>4. row' \in [Job -> {NoRow, Gone} \cup Rows]
    BY <1>3, <2>0, <2>2 DEF Rows
  <2>5. \A i \in Job : row'[i] = NoRow => row[i] = NoRow
    BY <1>3, <2>0
  <2>6. QED
    BY <1>1, <1>3, <2>0, <2>1, <2>3, <2>4, <2>5
<1>12. QED
  BY <1>5, <1>6, <1>7, <1>8, <1>9, <1>10, <1>11 DEF SessionStep

\* Rows of jobs come and go, and the runner is notified of them.
LEMMA TypeJob ==
  ASSUME TypeInv, NEW j \in Job, JobStep(j)
  PROVE  TypeInv'
<1> USE DEF TypeInv
<1>1. ASSUME row' \in [Job -> {NoRow, Gone} \cup Rows],
             \A i \in Job : row'[i] = NoRow => row[i] = NoRow,
             UNCHANGED <<file, channel, session, runner, lost>>
      PROVE  TypeInv'
  BY <1>1 DEF TypeOK, OneCompany, TreeInv, runner
<1>2. row \in [Job -> {NoRow, Gone} \cup Rows]
  BY DEF TypeOK
<1>3. ASSUME NEW n \in JobConfigChannels, DelayOther(j, n)
      PROVE  TypeInv'
  <2>1. n \in Names
    BY RootIsName, SeqMonotonic, ConfigAssumption DEF JobConfigChannels, Names
  <2>2. row' \in [Job -> {NoRow, Gone} \cup Rows]
    BY <1>2, <1>3, <2>1 DEF DelayOther, Rows
  <2>3. \A i \in Job : row'[i] = NoRow => row[i] = NoRow
    BY <1>2, <1>3 DEF DelayOther
  <2>4. QED
    BY <1>1, <1>3, <2>2, <2>3 DEF DelayOther
<1>4. CASE EndJob(j)
  <2>1. row[j] \in Rows
    BY <1>2, <1>4 DEF EndJob, NoRow, Gone
  <2>2. [row[j] EXCEPT !.state = "ended"] \in Rows
    BY <2>1 DEF Rows
  <2>3. row' \in [Job -> {NoRow, Gone} \cup Rows]
    BY <1>2, <1>4, <2>2 DEF EndJob
  <2>4. row'[j].state = "ended"
    BY <1>2, <1>4, <2>1 DEF EndJob, Rows
  <2>5. \A i \in Job : row'[i] = NoRow => row[i] = NoRow
    BY <1>2, <1>4, <2>4 DEF EndJob, NoRow
  <2>6. QED
    BY <1>1, <1>4, <2>3, <2>5 DEF EndJob
<1>5. CASE Autovacuum(j)
  <2>1. \A i \in Job : row'[i] = NoRow => row[i] = NoRow
    BY <1>2, <1>5 DEF Autovacuum, NoRow, Gone
  <2>2. QED
    BY <1>1, <1>2, <1>5, <2>1 DEF Autovacuum
<1>6. CASE Notify(j)
  <2> DEFINE n == row[j].name
  <2>1. tree # {} /\ n \in Names /\ row[j] # NoRow
    BY <1>2, <1>6 DEF Notify, HasRow, Rows, NoRow, Gone
  <2>2. Closed(tree') /\ tree \subseteq tree' /\ Resolve(tree, n) \in tree'
    BY <1>6, <2>1, TreeIsClosed, GrownIsClosed DEF Notify
  <2>3. capacity' \in [tree' -> Nat]
    <3>1. capacity' = [m \in tree' |-> IF m \in tree THEN capacity[m] ELSE 0]
      BY <1>6 DEF Notify
    <3>2. \A m \in tree : capacity[m] \in Nat
      BY DEF TypeOK
    <3>3. QED
      BY <3>1, <3>2
  <2>4. at' \in [Job -> tree' \cup {NoChannel}]
    <3>1. at' = [at EXCEPT ![j] = IF row[j].state = "ended" THEN NoChannel
                                  ELSE Resolve(tree, n)]
      BY <1>6 DEF Notify
    <3>2. at \in [Job -> tree' \cup {NoChannel}]
      BY <2>2 DEF TypeOK
    <3>3. QED
      BY <2>2, <3>1, <3>2
  <2>5. UNCHANGED <<file, records, session, server, restarts, lost>>
    BY <1>6 DEF Notify
  <2>6. \A i \in Job : at'[i] # NoChannel => row'[i] # NoRow
    BY <1>6, <2>1, <2>5 DEF Notify, TreeInv, TypeOK, records
  <2>7. TypeOK'
    BY <2>2, <2>3, <2>4, <2>5 DEF TypeOK, Closed, records
  <2>8. QED
    BY <2>2, <2>5, <2>6, <2>7 DEF TreeInv, Closed, OneCompany
<1>7. CASE NotifyGone(j)
  <2>1. at' \in [Job -> tree \cup {NoChannel}]
    BY <1>7 DEF NotifyGone, TypeOK
  <2>2. UNCHANGED <<file, records, session, server, tree, capacity, restarts, lost>>
    BY <1>7 DEF NotifyGone
  <2>3. \A i \in Job : at'[i] # NoChannel => row'[i] # NoRow
    BY <1>7, <2>2 DEF NotifyGone, TreeInv, TypeOK, records
  <2>4. TypeOK'
    BY <2>1, <2>2 DEF TypeOK, records
  <2>5. QED
    BY <2>2, <2>3, <2>4 DEF TreeInv, OneCompany
<1>8. QED
  BY <1>3, <1>4, <1>5, <1>6, <1>7 DEF JobStep

\* A new runner, or none, knows no job.
LEMMA TypeRunner ==
  ASSUME TypeInv, NEW option \in Entries, NewRunner(option) \/ NoRunner
  PROVE  /\ \A n \in tree' : n \in Names
         /\ capacity' \in [tree' -> Nat]
         /\ at' \in [Job -> tree' \cup {NoChannel}]
         /\ TreeInv'
<1>1. at' = [j \in Job |-> NoChannel]
  BY DEF NewRunner, NoRunner
<1>2. Closed(tree') /\ capacity' \in [tree' -> Nat]
  <2>1. CASE NewRunner(option)
    BY <2>1, ConfiguredType DEF NewRunner
  <2>2. CASE NoRunner
    BY <2>2 DEF NoRunner, Closed
  <2>3. QED
    BY <2>1, <2>2
<1>3. QED
  BY <1>1, <1>2 DEF TreeInv, Closed

\* The server starts and stops, and its runner.
LEMMA TypeServer ==
  ASSUME TypeInv, ServerStep
  PROVE  TypeInv'
<1> USE DEF TypeInv
<1>1. /\ server \in [kind : {"down", "prefork", "threaded"}, option : Entries]
      /\ restarts \in 0..MaxRestarts
      /\ file = Truncated \/ file \in Entries
  BY DEF TypeOK
<1>2. ASSUME NEW option \in Entries, NewRunner(option) \/ NoRunner,
             UNCHANGED <<file, records, session, lost>>,
             server' \in [kind : {"down", "prefork", "threaded"}, option : Entries],
             restarts' \in 0..MaxRestarts
      PROVE  TypeInv'
  BY <1>2, TypeRunner DEF TypeOK, OneCompany, records
<1>3. ASSUME NEW kind \in {"prefork", "threaded"}, StartServer(kind)
      PROVE  /\ server' \in [kind : {"down", "prefork", "threaded"}, option : Entries]
             /\ server'.option \in Entries /\ restarts' \in 0..MaxRestarts
             /\ UNCHANGED <<file, records, session, lost>>
  <2>1. (IF file = Truncated THEN <<>> ELSE file) \in Entries
    BY <1>1, EntriesType
  <2>2. restarts + 1 \in 0..MaxRestarts
    BY <1>1, <1>3, ConfigAssumption DEF StartServer
  <2>3. QED
    BY <1>3, <2>1, <2>2 DEF StartServer
<1>4. CASE StartThread
  BY <1>2, <1>3, <1>4 DEF StartThread
<1>5. CASE StartPrefork
  BY <1>2, <1>3, <1>5 DEF StartPrefork
<1>6. CASE SpawnRunner \/ RecoverRunner
  BY <1>1, <1>2, <1>6 DEF SpawnRunner, RecoverRunner
<1>7. CASE PopRunner
  BY <1>1, <1>2, <1>7 DEF PopRunner
<1>8. CASE StopServer
  <2>1. Down \in [kind : {"down", "prefork", "threaded"}, option : Entries]
    BY EntriesType DEF Down
  <2>2. QED
    BY <1>1, <1>2, <1>8, <2>1 DEF StopServer
<1>9. QED
  BY <1>4, <1>5, <1>6, <1>7, <1>8 DEF ServerStep

LEMMA TypeKept ==
  ASSUME TypeInv, [Next]_vars
  PROVE  TypeInv'
<1>1. CASE UNCHANGED vars
  BY <1>1 DEF vars, TypeInv, TypeOK, OneCompany, TreeInv
<1>2. QED
  BY <1>1, TypeRecord, TypeSession, TypeJob, TypeServer DEF Next

\* Every variable keeps values of its type; in particular a channel that the
\* runner assigns to a job is always one of its channels.
THEOREM TypeCorrect == Spec => []TypeOK
<1>1. TypeInv => TypeOK
  BY DEF TypeInv
<1>2. QED
  BY <1>1, TypeInit, TypeKept, PTL DEF Spec

------------------------------------------------------------------------------
(* The records are a tree                                                    *)

\* Which steps change the records.
LEMMA ChannelSteps ==
  ASSUME [Next]_vars, channel' # channel
  PROVE  \/ RecordStep
         \/ \E s \in Session, j \in Job :
              CommitSession(s, j) /\ session[s].pc = "written"
<1>1. ASSUME NEW s \in Session, SessionStep(s),
             ~ \E j \in Job : CommitSession(s, j) /\ session[s].pc = "written"
      PROVE  channel' = channel
  <2>1. ASSUME NEW j \in Job, CommitSession(s, j)
        PROVE  channel' = channel
    BY <1>1, <2>1 DEF CommitSession
  <2>2. QED
    BY <1>1, <2>1 DEF SessionStep, OpenSession, InsertChannel, InsertFails, ReadFile,
       TruncateFile, WriteFile, RollBack, records
<1>2. ASSUME NEW j \in Job, JobStep(j)
      PROVE  channel' = channel
  BY <1>2 DEF JobStep, DelayOther, EndJob, Autovacuum, Notify, NotifyGone, records
<1>3. CASE ServerStep
  BY <1>3 DEF ServerStep, StartThread, StartPrefork, StartServer, SpawnRunner,
     RecoverRunner, PopRunner, StopServer, records
<1>4. CASE UNCHANGED vars
  BY <1>4 DEF vars
<1>5. QED
  BY <1>1, <1>2, <1>3, <1>4 DEF Next

LEMMA RecordsKept ==
  ASSUME TypeInv, RecordsInv, [Next]_vars
  PROVE  RecordsInv'
<1>0. /\ \A m \in channel : m \in Names
      /\ Root \in channel
      /\ \A m \in channel : m = Root \/ ParentName(m) \in channel
  BY DEF TypeInv, TypeOK, RecordsInv, RecordsAreATree
<1>1. ASSUME NEW n \in channel, NEW p \in Part, CreateChannel(n, p)
      PROVE  RecordsInv'
  <2> DEFINE new == Append(n, p)
  <2>1. /\ new \in Names /\ new # Root /\ Len(new) = Len(n) + 1 /\ Len(n) \in Nat
        /\ \A i \in 1..Len(n) : new[i] = n[i]
    BY <1>0, AppendProperties, LenProperties DEF Names, Root
  <2>2. channel' = channel \cup {new}
    BY <1>1 DEF CreateChannel
  <2> HIDE DEF new
  <2>3. /\ ParentName(new) \in Names
        /\ Len(ParentName(new)) = Len(n)
        /\ \A i \in 1..Len(n) : ParentName(new)[i] = new[i]
    <3>1. /\ ParentName(new) \in Names
          /\ Len(ParentName(new)) = Len(new) - 1
          /\ \A i \in 1..(Len(new) - 1) : ParentName(new)[i] = new[i]
      BY <2>1, ParentElements
    <3>2. Len(new) - 1 = Len(n)
      BY <2>1
    <3>3. QED
      BY <3>1, <3>2
  <2>4. ParentName(new) = n
    BY <1>0, <2>1, <2>3, SeqEqual DEF Names
  <2>5. QED
    BY <1>0, <2>2, <2>4 DEF RecordsInv, RecordsAreATree
<1>2. ASSUME NEW n \in channel, NEW parent \in channel, NEW part \in Part \cup Company,
             WriteChannel(n, parent, part)
      PROVE  RecordsInv'
  <2> DEFINE new == Append(parent, part)
  <2>1. /\ n # Root /\ ~IsPrefix(n, parent)
        /\ channel' = {CompleteName(n, new, m) : m \in channel}
    BY <1>2 DEF WriteChannel
  <2>2. new \in Names /\ new # Root /\ ParentName(new) = parent
    BY <1>0, GivenName
  <2> HIDE DEF new
  <2>3. CompleteName(n, new, parent) = parent
    BY <2>1 DEF CompleteName
  <2>4. CompleteName(n, new, Root) = Root
    <3>1. Len(n) \in Nat \ {0}
      BY <1>0, <2>1, ParentElements
    <3>2. ~IsPrefix(n, Root)
      BY <1>0, <3>1, RootIsName, PrefixElements DEF Names
    <3>3. QED
      BY <3>2 DEF CompleteName
  <2>5. ASSUME NEW m \in channel, m # Root
        PROVE  ParentName(CompleteName(n, new, m)) \in channel'
    <3>1. ParentName(CompleteName(n, new, m)) =
            IF m = n THEN parent ELSE CompleteName(n, new, ParentName(m))
      BY <1>0, <2>1, <2>2, <2>5, ParentOfMoved
    <3>2. parent \in channel' /\ CompleteName(n, new, ParentName(m)) \in channel'
      BY <1>0, <2>1, <2>3, <2>5
    <3>3. QED
      BY <3>1, <3>2
  <2>6. Root \in channel'
    BY <1>0, <2>1, <2>4
  <2>7. \A r \in channel' : r = Root \/ ParentName(r) \in channel'
    BY <2>1, <2>4, <2>5
  <2>8. QED
    BY <2>6, <2>7 DEF RecordsInv, RecordsAreATree
<1>3. ASSUME NEW n \in channel, UnlinkChannel(n)
      PROVE  RecordsInv'
  <2>1. n # Root /\ channel' = channel \ {n}
        /\ \A m \in channel : ~IsStrictPrefix(n, m)
    BY <1>3 DEF UnlinkChannel
  <2>2. ASSUME NEW m \in channel, m # Root, ParentName(m) = n
        PROVE  FALSE
    <3>1. /\ Len(m) \in Nat \ {0} /\ n \in Names /\ Len(n) = Len(m) - 1
          /\ \A i \in 1..(Len(m) - 1) : n[i] = m[i]
      BY <1>0, <2>2, ParentElements
    <3>2. IsPrefix(n, m)
      BY <1>0, <3>1, PrefixElements DEF Names
    <3>3. n # m
      BY <3>1
    <3>4. QED
      BY <2>1, <3>2, <3>3 DEF IsStrictPrefix
  <2>3. QED
    BY <1>0, <2>1, <2>2 DEF RecordsInv, RecordsAreATree
<1>4. ASSUME NEW s \in Session, NEW j \in Job, CommitSession(s, j)
      PROVE  RecordsInv'
  <2>1. CompanyOf(s) \in Company
    BY <1>4, SessionCompany DEF TypeInv, CommitSession
  <2>2. channel' = channel \/ channel' = channel \cup {NameOf(CompanyOf(s))}
    BY <1>4 DEF CommitSession
  <2>3. ParentName(NameOf(CompanyOf(s))) = Root
    BY <2>1, CompanyName
  <2>4. QED
    BY <1>0, <2>2, <2>3 DEF RecordsInv, RecordsAreATree
<1>5. CASE channel' = channel
  BY <1>5 DEF RecordsInv, RecordsAreATree
<1>6. QED
  BY <1>1, <1>2, <1>3, <1>4, <1>5, ChannelSteps DEF RecordStep

\* The complete name of a record never outlives the record above it, for every name
\* and depth, whatever administrators create, rename, move and remove while sessions
\* insert the channels of companies.
THEOREM RecordsStayATree == Spec => []RecordsAreATree
<1>1. Init => RecordsInv
  BY DEF Init, RecordsInv, RecordsAreATree
<1>2. RecordsInv => RecordsAreATree
  BY DEF RecordsInv
<1>3. QED
  BY <1>1, <1>2, TypeInit, TypeKept, RecordsKept, PTL DEF Spec

------------------------------------------------------------------------------
(* The entries of the companies                                              *)

\* A company's record appears by the commit of a session that wrote its entry.
LEMMA NewRecords ==
  ASSUME TypeInv, [Next]_vars, NEW c \in Company, Recorded(c)', ~Recorded(c)
  PROVE  \E s \in Session : session[s].pc = "written" /\ session[s].company = {c}
<1>0. /\ \A m \in channel : m \in Names
      /\ \A p \in Part : p # c
  BY ConfigAssumption DEF TypeInv, TypeOK
<1>1. ASSUME NEW n \in channel, NEW p \in Part, CreateChannel(n, p)
      PROVE  FALSE
  <2>1. channel' = channel \cup {Append(n, p)}
    BY <1>1 DEF CreateChannel
  <2>2. Last(Append(n, p)) = p
    BY <1>0, GivenName
  <2>3. QED
    BY <1>0, <2>1, <2>2 DEF Recorded
<1>2. ASSUME NEW n \in channel, NEW parent \in channel, NEW part \in Part \cup Company,
             WriteChannel(n, parent, part)
      PROVE  FALSE
  <2> DEFINE new == Append(parent, part)
  <2>1. /\ n # Root /\ part \in Part \cup {Last(n)}
        /\ channel' = {CompleteName(n, new, m) : m \in channel}
    BY <1>2 DEF WriteChannel
  <2>2. new \in Names /\ new # Root /\ Last(new) = part
    BY <1>0, GivenName
  <2> HIDE DEF new
  <2>3. PICK m \in channel : CompleteName(n, new, m) # Root
                             /\ Last(CompleteName(n, new, m)) = c
    BY <2>1 DEF Recorded
  <2>4. \/ CompleteName(n, new, m) = m
        \/ Last(CompleteName(n, new, m)) = Last(new)
        \/ m # Root /\ Last(CompleteName(n, new, m)) = Last(m)
    BY <1>0, <2>1, <2>2, LastOfMoved
  <2>5. (m # Root /\ Last(m) = c) \/ part = c
    BY <2>2, <2>3, <2>4
  <2>6. QED
    BY <1>0, <2>1, <2>5 DEF Recorded
<1>3. ~ \E n \in channel : UnlinkChannel(n)
  BY DEF UnlinkChannel, Recorded
<1>4. ~RecordStep
  BY <1>1, <1>2, <1>3 DEF RecordStep
<1>5. PICK s \in Session, j \in Job : CommitSession(s, j) /\ session[s].pc = "written"
  BY <1>4, ChannelSteps DEF Recorded
<1>6. CompanyOf(s) \in Company /\ session[s].company = {CompanyOf(s)}
  BY <1>5, SessionCompany DEF TypeInv
<1>7. channel' = channel \cup {NameOf(CompanyOf(s))}
  BY <1>5 DEF CommitSession
<1>8. Last(NameOf(CompanyOf(s))) = CompanyOf(s)
  BY <1>6, CompanyName DEF Last
<1>9. CompanyOf(s) = c
  BY <1>7, <1>8 DEF Recorded
<1>10. QED
  BY <1>5, <1>6, <1>9

\* The file, the sessions and the history change by a session's own steps only.
LEMMA SessionSteps ==
  ASSUME TypeInv, [Next]_vars
  PROVE  \/ UNCHANGED <<file, session, lost>>
         \/ \E s \in Session :
              /\ SessionStep(s)
              /\ \A o \in Session : o # s => session'[o] = session[o]
<1>1. ASSUME NEW s \in Session, SessionStep(s)
      PROVE  \A o \in Session : o # s => session'[o] = session[o]
  <2>1. session \in [Session -> Sessions]
    BY DEF TypeInv, TypeOK, Sessions, Pcs
  <2>2. QED
    BY <1>1, <2>1 DEF SessionStep, OpenSession, InsertChannel, InsertFails, ReadFile,
       TruncateFile, WriteFile, RollBack, CommitSession, Step
<1>2. CASE RecordStep
  BY <1>2 DEF RecordStep, CreateChannel, WriteChannel, UnlinkChannel
<1>3. ASSUME NEW j \in Job, JobStep(j)
      PROVE  UNCHANGED <<file, session, lost>>
  BY <1>3 DEF JobStep, DelayOther, EndJob, Autovacuum, Notify, NotifyGone
<1>4. CASE ServerStep
  BY <1>4 DEF ServerStep, StartThread, StartPrefork, StartServer, SpawnRunner,
     RecoverRunner, PopRunner, StopServer
<1>5. CASE UNCHANGED vars
  BY <1>5 DEF vars
<1>6. QED
  BY <1>1, <1>2, <1>3, <1>4, <1>5 DEF Next

\* A session that opens goes on to delay the job or to create the record.
LEMMA OpenedSession ==
  ASSUME TypeInv, NEW s \in Session, NEW c \in Company, OpenSession(s, c)
  PROVE  session'[s].pc \in {"delay", "create"}
<1> DEFINE next == IF Recorded(c) THEN "delay" ELSE "create"
<1>1. session \in [Session -> Sessions]
  BY DEF TypeInv, TypeOK, Sessions, Pcs
<1>2. session' = [session EXCEPT ![s] = [pc |-> next, company |-> {c}, read |-> <<>>]]
  BY DEF OpenSession
<1>3. next \in {"delay", "create"}
  OBVIOUS
<1> HIDE DEF next
<1>4. session'[s] = [pc |-> next, company |-> {c}, read |-> <<>>]
  BY <1>1, <1>2
<1>5. session'[s].pc = next
  BY <1>4
<1>6. QED
  BY <1>3, <1>5

\* Where the other steps of a session lead to.
LEMMA SessionPc ==
  ASSUME TypeInv, NEW s \in Session
  PROVE  /\ \A pc : Step(s, pc) => session'[s].pc = pc
         /\ ReadFile(s) => session'[s].pc = "read"
         /\ RollBack(s) => session'[s].pc = "over"
<1>1. session \in [Session -> Sessions]
  BY DEF TypeInv, TypeOK, Sessions, Pcs
<1>2. \A pc : Step(s, pc) => session'[s].pc = pc
  BY <1>1 DEF Step
<1>3. ASSUME NEW pc, NEW read, session' = [session EXCEPT ![s].pc = pc, ![s].read = read]
      PROVE  session'[s].pc = pc
  BY <1>1, <1>3 DEF Sessions
<1>4. QED
  BY <1>2, <1>3 DEF ReadFile, RollBack

\* A company is entitled to an entry from the moment that a session writes it.
LEMMA EntitledBefore ==
  ASSUME TypeInv, [Next]_vars, NEW c \in Company, Entitled(c)'
  PROVE  \/ Entitled(c)
         \/ \E s \in Session : WriteFile(s) /\ session[s].company = {c}
<1>1. CASE Recorded(c)'
  BY <1>1, NewRecords DEF Entitled
<1>2. ASSUME NEW s \in Session, session'[s].pc = "written", c \in session'[s].company
      PROVE  \/ Entitled(c)
             \/ WriteFile(s) /\ session[s].company = {c}
  <2>1. CASE session'[s] = session[s]
    BY <1>2, <2>1 DEF Entitled
  <2>2. CASE SessionStep(s)
    <3>1. session \in [Session -> Sessions]
      BY DEF TypeInv, TypeOK, Sessions, Pcs
    <3>2. WriteFile(s)
      <4>1. \A pc : Step(s, pc) => session'[s].pc = pc
        BY <3>1 DEF Step
      <4>2. ASSUME NEW d \in Company, OpenSession(s, d)
            PROVE  FALSE
        BY <1>2, <4>2, OpenedSession
      <4>3. ~ReadFile(s) /\ ~RollBack(s)
        BY <1>2, SessionPc
      <4>4. ~InsertChannel(s) /\ ~InsertFails(s) /\ ~TruncateFile(s)
        BY <1>2, <4>1 DEF InsertChannel, InsertFails, TruncateFile
      <4>5. ~ \E j \in Job : CommitSession(s, j)
        BY <1>2, <4>1 DEF CommitSession
      <4>6. QED
        BY <2>2, <4>2, <4>3, <4>4, <4>5 DEF SessionStep
    <3>3. session'[s].company = session[s].company /\ session[s].pc # "new"
      BY <3>1, <3>2 DEF WriteFile, Sessions
    <3>4. QED
      BY <1>2, <3>2, <3>3, SessionCompany DEF TypeInv
  <2>3. QED
    BY <2>1, <2>2, SessionSteps
<1>3. QED
  BY <1>1, <1>2 DEF Entitled

\* lost only grows; every entitled company is at risk.
LEMMA LostGrows ==
  ASSUME TypeInv, [Next]_vars
  PROVE  lost \subseteq lost'
<1>1. ASSUME NEW s \in Session, SessionStep(s)
      PROVE  lost \subseteq lost'
  BY <1>1 DEF SessionStep, OpenSession, InsertChannel, InsertFails, ReadFile,
     TruncateFile, WriteFile, RollBack, CommitSession
<1>2. QED
  BY <1>1, SessionSteps

LEMMA EntitledAtRisk ==
  ASSUME NEW c \in Company, Entitled(c)
  PROVE  c \in AtRisk
BY DEF Entitled, AtRisk

\* An entry is never dropped from an option by adding another one.
LEMMA NewOptionKeeps ==
  ASSUME NEW option \in Entries, NEW c \in Company
  PROVE  /\ Contains(NewOption(option, c), EntryOf(c))
         /\ \A e : Contains(option, e) => Contains(NewOption(option, c), e)
<1>1. CASE Contains(option, EntryOf(c))
  BY <1>1 DEF NewOption
<1>2. CASE ~Contains(option, EntryOf(c))
  <2> DEFINE new == Append(option, EntryOf(c))
  <2>1. /\ Len(option) \in Nat /\ Len(new) = Len(option) + 1
        /\ \A i \in 1..Len(option) : new[i] = option[i]
        /\ new[Len(option) + 1] = EntryOf(c)
    BY EntriesType, CompanyName, AppendProperties, LenProperties
  <2>2. NewOption(option, c) = new
    BY <1>2 DEF NewOption
  <2> HIDE DEF new
  <2>3. Len(option) + 1 \in 1..Len(new) /\ \A i \in 1..Len(option) : i \in 1..Len(new)
    BY <2>1
  <2>4. QED
    BY <2>1, <2>2, <2>3 DEF Contains
<1>3. QED
  BY <1>1, <1>2

\* The entries that an option has after the step.
HasThen(option) ==
  \A c \in Company : Entitled(c)' => c \in lost' \/ Contains(option, EntryOf(c))

LEMMA EntriesThen ==
  ASSUME file' # Truncated => HasThen(file'),
         \A s \in Session : Rewriting(s)' => HasThen(session'[s].read),
         \A s, o \in Session : s # o /\ Rewriting(s)' /\ Rewriting(o)'
           => session'[s].company \subseteq lost'
  PROVE  EntriesInv'
BY DEF EntriesInv, HasEntries, HasThen

LEMMA EntriesKept ==
  ASSUME TypeInv, EntriesInv, [Next]_vars
  PROVE  EntriesInv'
<1>0. /\ session \in [Session -> Sessions] /\ lost \subseteq lost'
      /\ \A s \in Session : session[s].pc # "new" =>
           CompanyOf(s) \in Company /\ session[s].company = {CompanyOf(s)}
  BY LostGrows, SessionCompany DEF TypeInv, TypeOK, Sessions, Pcs
<1>1. ASSUME NEW option, HasEntries(option),
             \A s \in Session, c \in Company :
               WriteFile(s) /\ session[s].company = {c}
               => c \in lost' \/ Contains(option, EntryOf(c))
      PROVE  HasThen(option)
  BY <1>0, <1>1, EntitledBefore DEF HasEntries, HasThen
<1>2. ASSUME UNCHANGED <<file, session, lost>>
      PROVE  EntriesInv'
  <2>1. \A s \in Session : ~WriteFile(s)
    BY <1>0, <1>2 DEF WriteFile, Sessions
  <2>2. \A option : HasEntries(option) => HasThen(option)
    BY <1>1, <2>1
  <2>3. QED
    BY <1>2, <2>2, EntriesThen DEF EntriesInv, Rewriting
<1>3. ASSUME NEW s \in Session, SessionStep(s), ~WriteFile(s),
             \A o \in Session : o # s => session'[o] = session[o]
      PROVE  EntriesInv'
  <2>0. \A o \in Session : ~WriteFile(o)
    BY <1>0, <1>3 DEF WriteFile, Sessions
  <2>1. \A option : HasEntries(option) => HasThen(option)
    BY <1>1, <2>0
  <2>2. ASSUME file' = file \/ file' = Truncated,
               Rewriting(s)' => Rewriting(s) /\ session'[s].read = session[s].read
                                /\ session'[s].company = session[s].company
        PROVE  EntriesInv'
    <3>1. file' # Truncated => HasThen(file')
      BY <2>1, <2>2 DEF EntriesInv
    <3>2. \A o \in Session : Rewriting(o)' => HasThen(session'[o].read)
      BY <1>3, <2>1, <2>2 DEF EntriesInv, Rewriting
    <3>3. \A o \in Session : Rewriting(o)' =>
            Rewriting(o) /\ session'[o].company = session[o].company
      BY <1>3, <2>2 DEF Rewriting
    <3>4. QED
      BY <1>0, <3>1, <3>2, <3>3, EntriesThen DEF EntriesInv
  <2>3. CASE ReadFile(s)
    <3>1. /\ session'[s].read = (IF file = Truncated THEN <<>> ELSE file)
          /\ session'[s].company = session[s].company
          /\ file' = file /\ session[s].pc = "created"
          /\ lost' = IF file = Truncated \/ \E o \in Session \ {s} : Rewriting(o)
                     THEN lost \cup AtRisk ELSE lost
          /\ channel' = channel
      BY <1>0, <2>3 DEF ReadFile, Sessions, records
    <3>2. \A c \in Company : Entitled(c)' => Entitled(c)
      BY <2>0, EntitledBefore
    <3>3. HasThen(session'[s].read)
      <4>1. CASE file = Truncated
        BY <3>1, <3>2, <4>1, EntitledAtRisk DEF HasThen
      <4>2. CASE file # Truncated
        BY <2>1, <3>1, <4>2 DEF EntriesInv
      <4>3. QED
        BY <4>1, <4>2
    <3>4. \A o \in Session : o # s /\ Rewriting(o)' =>
            /\ Rewriting(o)
            /\ session'[o].company \subseteq lost'
            /\ session'[s].company \subseteq lost'
            /\ HasThen(session'[o].read)
      <4>1. \A o \in Session : session[o].company \subseteq AtRisk
        BY DEF AtRisk
      <4>2. \A o \in Session : o # s /\ Rewriting(o)' =>
              Rewriting(o) /\ session'[o] = session[o]
        BY <1>3 DEF Rewriting
      <4>3. QED
        BY <2>1, <3>1, <4>1, <4>2 DEF EntriesInv
    <3>5. \A o \in Session : Rewriting(o)' => HasThen(session'[o].read)
      BY <3>3, <3>4
    <3>6. \A o, v \in Session : o # v /\ Rewriting(o)' /\ Rewriting(v)'
            => session'[o].company \subseteq lost'
      BY <1>0, <1>3, <3>4 DEF EntriesInv, Rewriting
    <3>7. file' # Truncated => HasThen(file')
      BY <2>1, <3>1 DEF EntriesInv
    <3>8. QED
      BY <3>5, <3>6, <3>7, EntriesThen
  <2>4. CASE TruncateFile(s)
    <3>1. session[s].pc = "read" /\ file' = Truncated
      BY <2>4 DEF TruncateFile
    <3>2. /\ session'[s].read = session[s].read
          /\ session'[s].company = session[s].company
      BY <1>0, <2>4 DEF TruncateFile, Step, Sessions
    <3>3. QED
      BY <2>2, <3>1, <3>2 DEF Rewriting
  <2>5. ASSUME NEW c \in Company, OpenSession(s, c)
        PROVE  EntriesInv'
    <3>1. ~Rewriting(s)' /\ file' = file
      BY <2>5, OpenedSession DEF OpenSession, Rewriting
    <3>2. QED
      BY <2>2, <3>1
  <2>6. CASE InsertChannel(s) \/ InsertFails(s)
    <3>1. session'[s].pc \in {"created", "over"} /\ file' = file
      BY <2>6, SessionPc DEF InsertChannel, InsertFails
    <3>2. QED
      BY <2>2, <3>1 DEF Rewriting
  <2>7. CASE RollBack(s)
    <3>1. session'[s].pc = "over" /\ file' = file
      BY <2>7, SessionPc DEF RollBack
    <3>2. QED
      BY <2>2, <3>1 DEF Rewriting
  <2>8. CASE \E j \in Job : CommitSession(s, j)
    <3>1. session'[s].pc = "over" /\ file' = file
      BY <2>8, SessionPc DEF CommitSession
    <3>2. QED
      BY <2>2, <3>1 DEF Rewriting
  <2>9. QED
    BY <1>3, <2>3, <2>4, <2>5, <2>6, <2>7, <2>8 DEF SessionStep
<1>4. ASSUME NEW s \in Session, WriteFile(s)
      PROVE  EntriesInv'
  <2> DEFINE c == CompanyOf(s)
  <2>1. /\ session[s].pc = "truncated" /\ session[s].read \in Entries
        /\ session[s].company = {c} /\ c \in Company
        /\ file' = NewOption(session[s].read, c) /\ lost' = lost
        /\ \A o \in Session : o # s => session'[o] = session[o]
        /\ session'[s].pc = "written"
    BY <1>0, <1>4 DEF WriteFile, Sessions
  <2> HIDE DEF c
  <2>2. \A d \in Company : Entitled(d)' => Entitled(d) \/ d = c
    <3>1. ASSUME NEW o \in Session, NEW d \in Company, WriteFile(o),
                 session[o].company = {d}
          PROVE  d = c
      BY <1>0, <2>1, <3>1 DEF WriteFile, Sessions
    <3>2. QED
      BY <3>1, EntitledBefore
  <2>3. HasEntries(session[s].read)
    BY <2>1 DEF EntriesInv, Rewriting
  <2>4. HasThen(file')
    BY <2>1, <2>2, <2>3, NewOptionKeeps DEF HasEntries, HasThen
  <2>5. ASSUME NEW o \in Session, Rewriting(o)'
        PROVE  /\ o # s /\ Rewriting(o) /\ session'[o] = session[o] /\ c \in lost
    BY <2>1, <2>5 DEF EntriesInv, Rewriting
  <2>6. \A o \in Session : Rewriting(o)' => HasThen(session'[o].read)
    BY <2>1, <2>2, <2>5 DEF EntriesInv, HasEntries, HasThen
  <2>7. \A o, v \in Session : o # v /\ Rewriting(o)' /\ Rewriting(v)'
          => session'[o].company \subseteq lost'
    BY <2>1, <2>5 DEF EntriesInv
  <2>8. QED
    BY <2>4, <2>6, <2>7, EntriesThen
<1>5. QED
  BY <1>2, <1>3, <1>4, SessionSteps

\* A company whose record is committed keeps its entry in the file, which limits its
\* accounting jobs to one at a time, however many sessions rewrite the file for
\* however many companies; only two rewriting it at once, or one stopped after it
\* truncated the file, may lose the entries that were at risk then.
THEOREM EntriesStayInFile == Spec => []EntriesAreKept
<1>1. Init => EntriesInv
  <2> SUFFICES ASSUME Init PROVE EntriesInv
    OBVIOUS
  <2>1. \A c \in Company : ~Recorded(c)
    BY DEF Init, Recorded
  <2>2. \A s \in Session : session[s].pc = "new"
    BY DEF Init, NewSession
  <2>3. \A c \in Company : ~Entitled(c)
    BY <2>1, <2>2 DEF Entitled
  <2>4. QED
    BY <2>2, <2>3 DEF EntriesInv, HasEntries, Rewriting
<1>2. EntriesInv => EntriesAreKept
  BY DEF EntriesInv, HasEntries, Entitled, EntriesAreKept
<1>3. QED
  BY <1>1, <1>2, TypeInit, TypeKept, EntriesKept, PTL DEF Spec

------------------------------------------------------------------------------
(* The channels that the runner assigns to jobs                              *)

\* A configured name does not begin again at its element i, when i is not the first.
LEMMA NotHomonym ==
  ASSUME NEW m, ~Homonym(m), NEW i \in 1..Len(m), m[i] = m[1]
  PROVE  i = 1
<1>1. i = 1 \/ i \in 2..Len(m)
  OBVIOUS
<1>2. QED
  BY <1>1 DEF Homonym

\* A name whose channel is in the tree is not above a name that the tree gets.
LEMMA NoNewPrefix ==
  ASSUME NEW t, Closed(t), t # {}, NEW n \in Names, NEW m \in Names, ~Homonym(m),
         Resolve(t, m) \in t, NEW x \in Grown(t, n), x \notin t
  PROVE  ~IsPrefix(x, m)
<1> SUFFICES ASSUME IsPrefix(x, m) PROVE FALSE
  OBVIOUS
<1> DEFINE S == Part \cup Company
           q == Fallback(t, n)
<1>1. n \notin t /\ x \in Below(q, n)
  BY DEF Grown
<1>2. q \in t /\ IsStrictPrefix(q, n) /\ q \in Names
  BY <1>1, FallbackIsLongest DEF Closed
<1> HIDE DEF q
<1>3. PICK i \in 1..Len(n) : x = q \o SubSeq(n, 1, i)
  BY <1>1 DEF Below
<1>4. /\ n \in Seq(S) /\ m \in Seq(S) /\ q \in Seq(S)
      /\ Len(n) \in Nat /\ Len(m) \in Nat /\ Len(q) \in Nat /\ i \in 0..Len(n)
  BY <1>2, LenProperties DEF Names
<1>5. /\ x \in Seq(S) /\ Len(x) = Len(q) + i
      /\ \A k \in 1..(Len(q) + i) : x[k] = IF k <= Len(q) THEN q[k] ELSE n[k - Len(q)]
  BY <1>2, <1>3, <1>4, BelowElements DEF Names
<1>6. Len(x) <= Len(m) /\ \A k \in 1..Len(x) : x[k] = m[k]
  BY <1>4, <1>5, PrefixElements
<1>7. Len(q) <= Len(n) /\ \A k \in 1..Len(q) : q[k] = n[k]
  BY <1>2, <1>4, PrefixElements DEF IsStrictPrefix
<1>8. n[1] = x[Len(q) + 1] /\ Len(q) + 1 \in 1..Len(m) /\ x[Len(q) + 1] = m[Len(q) + 1]
  <2>1. Len(q) + 1 \in 1..(Len(q) + i) /\ ~(Len(q) + 1 <= Len(q)) /\ Len(q) + 1 - Len(q) = 1
    BY <1>4
  <2>2. x[Len(q) + 1] = n[1]
    BY <1>5, <2>1
  <2>3. QED
    BY <1>4, <1>5, <1>6, <2>1, <2>2
<1>9. CASE Len(q) = 0
  <2>1. \A k \in 1..Len(m) : m[1] = n[1]
    BY <1>8, <1>9
  <2>2. SubSeq(n, 1, 1) \notin t
    <3>1. SubSeq(n, 1, 1) \in t => IsStrictPrefix(SubSeq(n, 1, 1), n)
      <4>1. 1 \in 0..Len(n)
        BY <1>3, <1>4
      <4>2. IsPrefix(SubSeq(n, 1, 1), n)
        BY <1>4, <4>1, FirstElements
      <4>3. QED
        BY <1>1, <4>2 DEF IsStrictPrefix
    <3>2. Len(SubSeq(n, 1, 1)) = 1
      BY <1>3, <1>4, FirstElements
    <3>3. \A p \in t : IsStrictPrefix(p, n) => Len(p) <= Len(q)
      BY <1>1, FallbackIsLongest DEF q
    <3> DEFINE h == SubSeq(n, 1, 1)
    <3>4. (h \in t => IsStrictPrefix(h, n)) /\ Len(h) = 1
      BY <3>1, <3>2
    <3> HIDE DEF h
    <3>5. h \in t => 1 <= 0
      BY <1>9, <3>3, <3>4
    <3>6. QED
      BY <3>5 DEF h
  <2>3. \A p \in t : IsPrefix(p, m) => p = Root
    <3> SUFFICES ASSUME NEW p \in t, IsPrefix(p, m), p # Root PROVE FALSE
      OBVIOUS
    <3>1. p \in Seq(S) /\ Len(p) \in Nat \ {0}
      BY EmptySeq, LenProperties DEF Closed, Names, Root
    <3>2. p[1] = m[1]
      BY <1>4, <3>1, PrefixElements
    <3>3. SubSeq(p, 1, 1) \in t
      BY <3>1 DEF Closed
    <3>4. /\ SubSeq(p, 1, 1) \in Seq(S) /\ Len(SubSeq(p, 1, 1)) = 1
          /\ \A k \in 1..1 : SubSeq(p, 1, 1)[k] = p[k]
      BY <3>1, FirstElements
    <3>5. /\ SubSeq(n, 1, 1) \in Seq(S) /\ Len(SubSeq(n, 1, 1)) = 1
          /\ \A k \in 1..1 : SubSeq(n, 1, 1)[k] = n[k]
      BY <1>3, <1>4, FirstElements
    <3>6. \A k \in 1..1 : SubSeq(n, 1, 1)[k] = SubSeq(p, 1, 1)[k]
      BY <1>8, <2>1, <3>2, <3>4, <3>5
    <3>7. SubSeq(n, 1, 1) = SubSeq(p, 1, 1)
      BY <3>4, <3>5, <3>6, SeqEqual
    <3>8. QED
      BY <2>2, <3>3, <3>7
  <2>4. Resolve(t, m) = m
    <3>1. CASE m \in t
      BY <3>1 DEF Resolve
    <3>2. CASE m \notin t
      <4>1. Fallback(t, m) = Root
        BY <2>3, <3>2, FallbackIsLongest DEF IsStrictPrefix
      <4>2. QED
        BY <1>4, <3>2, <4>1, ConcatEmptySeq DEF Resolve, Root
    <3>3. QED
      BY <3>1, <3>2
  <2>5. SubSeq(m, 1, Len(x)) \in t
    BY <1>4, <1>5, <1>6, <2>4 DEF Closed
  <2>6. x = SubSeq(m, 1, Len(x))
    <3>1. Len(x) \in 0..Len(m)
      BY <1>4, <1>5, <1>6
    <3>2. /\ SubSeq(m, 1, Len(x)) \in Seq(S) /\ Len(SubSeq(m, 1, Len(x))) = Len(x)
          /\ \A k \in 1..Len(x) : SubSeq(m, 1, Len(x))[k] = m[k]
      BY <1>4, <3>1, FirstElements
    <3>3. QED
      BY <1>5, <1>6, <3>2, SeqEqual
  <2>7. QED
    BY <2>5, <2>6
<1>10. CASE Len(q) # 0
  <2>1. 1 \in 1..Len(q) /\ 1 \in 1..Len(x) /\ 1 <= Len(q) /\ 1 \in 1..(Len(q) + i)
    BY <1>4, <1>5, <1>10
  <2>2. m[1] = n[1]
    <3>1. x[1] = q[1]
      BY <1>5, <2>1
    <3>2. QED
      BY <1>6, <1>7, <2>1, <3>1
  <2>3. Len(q) + 1 = 1
    BY <1>8, <2>2, NotHomonym
  <2>4. QED
    BY <1>4, <1>10, <2>3
<1>11. QED
  BY <1>9, <1>10

\* Once a name that does not begin again has a channel, or when it gets one, the
\* channels that are added later do not change it.
LEMMA ResolveStays ==
  ASSUME NEW t, Closed(t), t # {}, NEW n \in Names, NEW m \in Names, ~Homonym(m),
         Resolve(t, m) \in t
  PROVE  Resolve(Grown(t, n), m) = Resolve(t, m)
<1> DEFINE u == Grown(t, n)
<1>0. t \subseteq u /\ \A x \in u \ t : ~IsPrefix(x, m)
  BY NoNewPrefix, GrownIsClosed
<1> HIDE DEF u
<1>1. IsPrefix(m, m)
  BY PrefixElements DEF Names
<1>2. m \in u <=> m \in t
  BY <1>0, <1>1
<1>3. {p \in u : IsStrictPrefix(p, m)} = {p \in t : IsStrictPrefix(p, m)}
  BY <1>0 DEF IsStrictPrefix
<1>4. Fallback(u, m) = Fallback(t, m)
  BY <1>3 DEF Fallback
<1>5. Resolve(u, m) = Resolve(t, m)
  BY <1>2, <1>4 DEF Resolve
<1>6. QED
  BY <1>5 DEF u

LEMMA ResolveOfGrown ==
  ASSUME NEW t, Closed(t), t # {}, NEW n \in Names, ~Homonym(n)
  PROVE  Resolve(Grown(t, n), n) = Resolve(t, n)
<1> DEFINE S == Part \cup Company
           u == Grown(t, n)
           q == Fallback(t, n)
<1>1. CASE n \in t
  BY <1>1 DEF Grown
<1>2. CASE n \notin t
  <2>1. u = t \cup Below(q, n)
    BY <1>2 DEF Grown
  <2>2. /\ q \in t /\ q \in Names /\ IsStrictPrefix(q, n)
        /\ \A p \in t : IsStrictPrefix(p, n) => Len(p) <= Len(q)
    BY <1>2, FallbackIsLongest DEF Closed
  <2> HIDE DEF q
  <2>3. n \in Seq(S) /\ q \in Seq(S) /\ Len(n) \in Nat /\ Len(q) \in Nat
    BY <2>2, LenProperties DEF Names
  <2>4. n # Root /\ Len(n) \in Nat \ {0}
    BY <1>2, <2>3, RootInClosed, EmptySeq DEF Root
  <2>5. CASE Len(q) = 0
    <3>1. q = Root
      BY <2>3, <2>5, EmptySeq DEF Root
    <3>2. Resolve(t, n) = n
      <4>1. Root \o n = n
        BY <2>3, ConcatEmptySeq DEF Root
      <4>2. QED
        BY <1>2, <3>1, <4>1 DEF Resolve, q
    <3>3. n \in u
      BY <3>2, GrownIsClosed
    <3>4. QED
      BY <3>2, <3>3 DEF Resolve, u
  <2>6. CASE Len(q) # 0
    <3>1. ASSUME NEW i \in 1..Len(n), IsPrefix(q \o SubSeq(n, 1, i), n)
          PROVE  FALSE
      <4> DEFINE x == q \o SubSeq(n, 1, i)
      <4>1. i \in 0..Len(n)
        BY <2>3
      <4>2. /\ x \in Seq(S) /\ Len(x) = Len(q) + i
            /\ \A k \in 1..(Len(q) + i) : x[k] = IF k <= Len(q) THEN q[k] ELSE n[k - Len(q)]
        BY <2>2, <4>1, BelowElements DEF Names
      <4>0. IsPrefix(x, n)
        BY <3>1
      <4> HIDE DEF x
      <4>3. Len(x) <= Len(n) /\ \A k \in 1..Len(x) : x[k] = n[k]
        BY <2>3, <4>0, <4>2, PrefixElements
      <4>4. /\ Len(q) + 1 \in 1..(Len(q) + i) /\ ~(Len(q) + 1 <= Len(q))
            /\ Len(q) + 1 - Len(q) = 1
        BY <2>3
      <4>5. n[Len(q) + 1] = n[1] /\ Len(q) + 1 \in 1..Len(n)
        BY <2>3, <4>2, <4>3, <4>4
      <4>6. Len(q) + 1 = 1
        BY <4>5, NotHomonym
      <4>7. QED
        BY <2>3, <2>6, <4>6
    <3>2. \A x \in u \ t : ~IsPrefix(x, n)
      BY <2>1, <3>1 DEF Below
    <3>3. t \subseteq u
      BY <2>1
    <3>4. n \notin u
      <4>1. IsPrefix(n, n)
        BY <2>3, PrefixElements
      <4>2. QED
        BY <1>2, <3>2, <4>1
    <3> HIDE DEF u
    <3>5. {p \in u : IsStrictPrefix(p, n)} = {p \in t : IsStrictPrefix(p, n)}
      BY <3>2, <3>3 DEF IsStrictPrefix
    <3>6. Fallback(u, n) = Fallback(t, n)
      BY <3>5 DEF Fallback
    <3>7. QED
      BY <1>2, <3>4, <3>6 DEF Resolve, u
  <2>7. QED
    BY <2>5, <2>6
<1>3. QED
  BY <1>1, <1>2

\* What the runner knows of a job changes by a notification, or is forgotten; the
\* name in the row of a job that it knows is the same until the row has gone.
LEMMA RunnerSteps ==
  ASSUME TypeInv, [Next]_vars
  PROVE  \/ \E j \in Job : Notify(j)
         \/ /\ UNCHANGED <<tree, capacity>>
            /\ \A j \in Job : at'[j] # NoChannel /\ HasRow(j)' =>
                 at'[j] = at[j] /\ HasRow(j) /\ row'[j].name = row[j].name
         \/ \A j \in Job : at'[j] = NoChannel
<1>0. /\ row \in [Job -> {NoRow, Gone} \cup Rows]
      /\ at \in [Job -> tree \cup {NoChannel}]
      /\ \A j \in Job : at[j] # NoChannel => row[j] # NoRow
  BY DEF TypeInv, TypeOK, TreeInv
<1>1. ASSUME UNCHANGED <<tree, capacity, at>>,
             \A j \in Job : row[j] # NoRow /\ HasRow(j)' =>
               HasRow(j) /\ row'[j].name = row[j].name
      PROVE  /\ UNCHANGED <<tree, capacity>>
             /\ \A j \in Job : at'[j] # NoChannel /\ HasRow(j)' =>
                  at'[j] = at[j] /\ HasRow(j) /\ row'[j].name = row[j].name
  BY <1>0, <1>1
<1>2. CASE RecordStep
  <2>1. UNCHANGED <<tree, capacity, at, row>>
    BY <1>2 DEF RecordStep, CreateChannel, WriteChannel, UnlinkChannel, runner
  <2>2. QED
    BY <1>1, <2>1 DEF HasRow
<1>3. ASSUME NEW s \in Session, SessionStep(s)
      PROVE  /\ UNCHANGED <<tree, capacity, at>>
             /\ \A j \in Job : row[j] # NoRow => row'[j] = row[j]
  <2>1. ASSUME NEW j \in Job, CommitSession(s, j)
        PROVE  /\ UNCHANGED <<tree, capacity, at>>
               /\ \A i \in Job : row[i] # NoRow => row'[i] = row[i]
    BY <1>0, <2>1 DEF CommitSession, runner
  <2>2. QED
    BY <1>3, <2>1 DEF SessionStep, OpenSession, InsertChannel, InsertFails, ReadFile,
       TruncateFile, WriteFile, RollBack, runner, records
<1>4. ASSUME NEW j \in Job, NEW n \in JobConfigChannels, DelayOther(j, n)
      PROVE  /\ UNCHANGED <<tree, capacity, at>>
             /\ \A i \in Job : row[i] # NoRow => row'[i] = row[i]
  BY <1>0, <1>4 DEF DelayOther, runner
<1>5. ASSUME NEW j \in Job, EndJob(j)
      PROVE  /\ UNCHANGED <<tree, capacity, at>>
             /\ \A i \in Job : HasRow(i)' => HasRow(i) /\ row'[i].name = row[i].name
  <2>1. row' = [row EXCEPT ![j].state = "ended"] /\ UNCHANGED <<tree, capacity, at>>
    BY <1>5 DEF EndJob, runner
  <2>2. row[j] \in Rows /\ row[j].state = "pending"
    BY <1>0, <1>5 DEF EndJob, NoRow, Gone
  <2>3. row'[j].name = row[j].name
    BY <1>0, <2>1, <2>2 DEF Rows
  <2>4. \A i \in Job : i # j => row'[i] = row[i]
    BY <1>0, <2>1
  <2>5. QED
    BY <2>1, <2>2, <2>3, <2>4 DEF HasRow
<1>6. ASSUME NEW j \in Job, Autovacuum(j)
      PROVE  /\ UNCHANGED <<tree, capacity, at>>
             /\ \A i \in Job : HasRow(i)' => row'[i] = row[i]
  BY <1>0, <1>6 DEF Autovacuum, runner, HasRow, Gone
<1>7. ASSUME NEW j \in Job, NotifyGone(j)
      PROVE  /\ UNCHANGED <<tree, capacity, row>>
             /\ \A i \in Job : at'[i] # NoChannel => at'[i] = at[i]
  BY <1>0, <1>7 DEF NotifyGone, records
<1>8. CASE ServerStep
  BY <1>8 DEF ServerStep, StartThread, StartPrefork, SpawnRunner, RecoverRunner,
     PopRunner, StopServer, NewRunner, NoRunner
<1>9. CASE UNCHANGED vars
  BY <1>1, <1>9 DEF vars, HasRow
<1>10. ASSUME NEW j \in Job, JobStep(j), ~Notify(j)
       PROVE  /\ UNCHANGED <<tree, capacity>>
              /\ \A i \in Job : at'[i] # NoChannel /\ HasRow(i)' =>
                   at'[i] = at[i] /\ HasRow(i) /\ row'[i].name = row[i].name
  BY <1>1, <1>4, <1>5, <1>6, <1>7, <1>10 DEF JobStep, HasRow
<1>11. ASSUME NEW s \in Session, SessionStep(s)
       PROVE  /\ UNCHANGED <<tree, capacity>>
              /\ \A i \in Job : at'[i] # NoChannel /\ HasRow(i)' =>
                   at'[i] = at[i] /\ HasRow(i) /\ row'[i].name = row[i].name
  BY <1>1, <1>3, <1>11 DEF HasRow
<1>12. QED
  BY <1>2, <1>8, <1>9, <1>10, <1>11, <1>1 DEF Next

LEMMA ResolvedKept ==
  ASSUME TypeInv, ResolvedInv, [Next]_vars
  PROVE  ResolvedInv'
<1>1. ASSUME NEW i \in Job, Notify(i), NEW j \in Job, at'[j] # NoChannel, HasRow(j)',
             ~Homonym(row'[j].name)
      PROVE  at'[j] = Resolve(tree', row'[j].name)
  <2> DEFINE n == row[i].name
  <2>1. /\ tree # {} /\ HasRow(i) /\ tree' = Grown(tree, n) /\ row' = row
        /\ at' = [at EXCEPT ![i] = IF row[i].state = "ended" THEN NoChannel
                                   ELSE Resolve(tree, n)]
    BY <1>1 DEF Notify, records
  <2>2. \A k \in Job : HasRow(k) => row[k].name \in Names
    BY DEF TypeInv, TypeOK, HasRow, Rows, NoRow, Gone
  <2>3. at \in [Job -> tree \cup {NoChannel}] /\ Closed(tree) /\ n \in Names
    BY <2>1, <2>2, TreeIsClosed DEF TypeInv, TypeOK
  <2>4. HasRow(j) /\ ~Homonym(row[j].name) /\ row[j].name \in Names
    BY <1>1, <2>1, <2>2 DEF HasRow
  <2> HIDE DEF n
  <2>5. CASE j = i
    <3>1. at'[j] = Resolve(tree, n)
      BY <1>1, <2>1, <2>3, <2>5
    <3>2. Resolve(Grown(tree, n), n) = Resolve(tree, n)
      BY <2>1, <2>3, <2>4, <2>5, ResolveOfGrown DEF n
    <3>3. QED
      BY <2>1, <2>5, <3>1, <3>2 DEF n
  <2>6. CASE j # i
    <3>1. at'[j] = at[j] /\ at[j] \in tree
      BY <1>1, <2>1, <2>3, <2>6
    <3>2. at[j] = Resolve(tree, row[j].name)
      BY <1>1, <2>4, <3>1 DEF ResolvedInv
    <3>3. Resolve(Grown(tree, n), row[j].name) = Resolve(tree, row[j].name)
      BY <2>1, <2>3, <2>4, <3>1, <3>2, ResolveStays
    <3>4. QED
      BY <2>1, <3>1, <3>2, <3>3
  <2>7. QED
    BY <2>5, <2>6
<1>2. ASSUME UNCHANGED <<tree, capacity>>,
             \A j \in Job : at'[j] # NoChannel /\ HasRow(j)' =>
               at'[j] = at[j] /\ HasRow(j) /\ row'[j].name = row[j].name
      PROVE  ResolvedInv'
  BY <1>2 DEF ResolvedInv
<1>3. ASSUME \A j \in Job : at'[j] = NoChannel
      PROVE  ResolvedInv'
  BY <1>3 DEF ResolvedInv
<1>4. ASSUME NEW i \in Job, Notify(i)
      PROVE  ResolvedInv'
  BY <1>1, <1>4 DEF ResolvedInv
<1>5. QED
  BY <1>2, <1>3, <1>4, RunnerSteps

\* Two jobs whose rows name the same channel are in the same channel of the runner,
\* though it looked the name up at two moments and in two trees: the channels that
\* it created in between never catch a name that does not begin again.
THEOREM OneNameOneChannel == Spec => []SameChannel
<1>1. Init => ResolvedInv
  BY DEF Init, ResolvedInv
<1>2. ResolvedInv => SameChannel
  BY DEF ResolvedInv, SameChannel
<1>3. QED
  BY <1>1, <1>2, TypeInit, TypeKept, ResolvedKept, PTL DEF Spec

------------------------------------------------------------------------------
(* The capacities that limit a job                                           *)

\* The channel that notify finds for a name.
LEMMA ResolveIsCovered ==
  ASSUME TypeInv, tree # {}, NEW n \in Names
  PROVE  \E i \in 0..Len(n) :
           /\ Resolve(tree, n) = SubSeq(n, 1, i) \o n
           /\ i = 0 \/ Covered(n, i)
<1> DEFINE S == Part \cup Company
           q == Fallback(tree, n)
<1>0. n \in Seq(S) /\ Len(n) \in Nat /\ 0 \in 0..Len(n)
  BY LenProperties DEF Names
<1>1. CASE n \in tree
  <2>1. <<>> \o n = n
    BY <1>0, ConcatEmptySeq
  <2>2. SubSeq(n, 1, 0) = <<>>
    BY SubSeqEmpty
  <2>3. Resolve(tree, n) = SubSeq(n, 1, 0) \o n
    BY <1>1, <2>1, <2>2 DEF Resolve
  <2>4. QED
    BY <1>0, <2>3
<1>2. CASE n \notin tree
  <2>1. /\ q \in tree /\ IsStrictPrefix(q, n)
        /\ \A p \in tree : IsStrictPrefix(p, n) => Len(p) <= Len(q)
    BY <1>2, TreeIsClosed, FallbackIsLongest
  <2>2. Resolve(tree, n) = q \o n
    BY <1>2 DEF Resolve
  <2> HIDE DEF q
  <2>3. q \in Seq(S) /\ Len(q) \in Nat
    BY <2>1, LenProperties DEF TypeInv, TypeOK, Names
  <2>4. Len(q) <= Len(n) /\ \A k \in 1..Len(q) : q[k] = n[k]
    BY <1>0, <2>1, <2>3, PrefixElements DEF IsStrictPrefix
  <2>5. Len(q) \in 0..Len(n)
    BY <1>0, <2>3, <2>4
  <2>6. SubSeq(n, 1, Len(q)) = q
    <3> DEFINE h == SubSeq(n, 1, Len(q))
    <3>1. h \in Seq(S) /\ Len(h) = Len(q) /\ \A k \in 1..Len(q) : h[k] = n[k]
      BY <1>0, <2>5, FirstElements
    <3> HIDE DEF h
    <3>2. h = q
      BY <2>3, <2>4, <3>1, SeqEqual
    <3>3. QED
      BY <3>2 DEF h
  <2>7. Covered(n, Len(q))
    BY <1>2, <2>1 DEF Covered, IsStrictPrefix
  <2>8. QED
    BY <2>2, <2>5, <2>6, <2>7
<1>3. QED
  BY <1>1, <1>2

\* Covered after the step.
CoveredThen(n, i) == \A m \in tree' : capacity'[m] # 0 /\ IsPrefix(m, n) => Len(m) <= i

LEMMA LimitsKept ==
  ASSUME TypeInv, LimitsInv, [Next]_vars
  PROVE  LimitsInv'
<1>1. ASSUME NEW i \in Job, Notify(i)
      PROVE  LimitsInv'
  <2> DEFINE n == row[i].name
  <2>1. /\ tree # {} /\ HasRow(i) /\ tree' = Grown(tree, n) /\ row' = row
        /\ capacity' = [m \in tree' |-> IF m \in tree THEN capacity[m] ELSE 0]
        /\ at' = [at EXCEPT ![i] = IF row[i].state = "ended" THEN NoChannel
                                   ELSE Resolve(tree, n)]
    BY <1>1 DEF Notify, records
  <2>2. \A k \in Job : HasRow(k) => row[k].name \in Names
    BY DEF TypeInv, TypeOK, HasRow, Rows, NoRow, Gone
  <2>3. at \in [Job -> tree \cup {NoChannel}]
    BY DEF TypeInv, TypeOK
  <2>4. \A m, k : Covered(m, k) => CoveredThen(m, k)
    <3>1. \A m \in tree' : capacity'[m] # 0 => m \in tree /\ capacity[m] # 0
      BY <2>1
    <3>2. QED
      BY <3>1 DEF Covered, CoveredThen
  <2>5. ASSUME NEW j \in Job, at'[j] # NoChannel, HasRow(j)'
        PROVE  \E k \in 0..Len(row'[j].name) :
                 /\ at'[j] = SubSeq(row'[j].name, 1, k) \o row'[j].name
                 /\ k = 0 \/ CoveredThen(row'[j].name, k)
    <3>1. HasRow(j)
      BY <2>1, <2>5 DEF HasRow
    <3>2. CASE j = i
      <4>1. at'[j] = Resolve(tree, n)
        BY <2>1, <2>3, <2>5, <3>2
      <4>2. PICK k \in 0..Len(n) : /\ Resolve(tree, n) = SubSeq(n, 1, k) \o n
                                   /\ k = 0 \/ Covered(n, k)
        BY <2>1, <2>2, ResolveIsCovered
      <4>3. QED
        BY <2>1, <2>4, <3>2, <4>1, <4>2
    <3>3. CASE j # i
      <4>1. at'[j] = at[j]
        BY <2>1, <2>3, <3>3
      <4>2. PICK k \in 0..Len(row[j].name) :
              /\ at[j] = SubSeq(row[j].name, 1, k) \o row[j].name
              /\ k = 0 \/ Covered(row[j].name, k)
        BY <2>5, <3>1, <4>1 DEF LimitsInv
      <4>3. QED
        BY <2>1, <2>4, <4>1, <4>2
    <3>4. QED
      BY <3>2, <3>3
  <2>6. QED
    BY <2>5 DEF LimitsInv, Covered, CoveredThen
<1>2. ASSUME UNCHANGED <<tree, capacity>>,
             \A j \in Job : at'[j] # NoChannel /\ HasRow(j)' =>
               at'[j] = at[j] /\ HasRow(j) /\ row'[j].name = row[j].name
      PROVE  LimitsInv'
  BY <1>2 DEF LimitsInv, Covered
<1>3. ASSUME \A j \in Job : at'[j] = NoChannel
      PROVE  LimitsInv'
  BY <1>3 DEF LimitsInv
<1>4. QED
  BY <1>1, <1>2, <1>3, RunnerSteps

\* What LimitsInv means for the configured channels: they are above the name of
\* a job when they are above the channel that the runner assigned to it.
LEMMA LimitsAreNamed ==
  ASSUME NEW n \in Names, NEW m \in Names, NEW i \in 0..Len(n), ~Homonym(m),
         i = 0 \/ (IsPrefix(m, n) => Len(m) <= i)
  PROVE  IsPrefix(m, SubSeq(n, 1, i) \o n) <=> IsPrefix(m, n)
<1> DEFINE S == Part \cup Company
           p == SubSeq(n, 1, i)
           a == p \o n
<1>0. n \in Seq(S) /\ m \in Seq(S) /\ Len(n) \in Nat /\ Len(m) \in Nat
  BY LenProperties DEF Names
<1>1. p \in Seq(S) /\ Len(p) = i /\ \A k \in 1..i : p[k] = n[k]
  BY <1>0, FirstElements
<1>2. CASE i = 0
  <2>1. p = <<>>
    BY <1>2, SubSeqEmpty
  <2>2. <<>> \o n = n
    BY <1>0, ConcatEmptySeq
  <2>3. QED
    BY <2>1, <2>2
<1>3. CASE i # 0
  <2> HIDE DEF p
  <2>1. /\ a \in Seq(S) /\ Len(a) = Len(p) + Len(n)
        /\ \A k \in 1..(Len(p) + Len(n)) :
             a[k] = IF k <= Len(p) THEN p[k] ELSE n[k - Len(p)]
    BY <1>0, <1>1, ConcatProperties
  <2> HIDE DEF a
  <2>2. /\ IsPrefix(m, n) <=> Len(m) <= Len(n) /\ \A k \in 1..Len(m) : m[k] = n[k]
        /\ IsPrefix(m, a) <=> Len(m) <= Len(a) /\ \A k \in 1..Len(m) : m[k] = a[k]
    BY <1>0, <2>1, PrefixElements
  <2>3. Len(a) = i + Len(n) /\ \A k \in 1..i : a[k] = n[k]
    <3>1. \A k \in 1..i : k \in 1..(Len(p) + Len(n)) /\ k <= Len(p)
      BY <1>0, <1>1
    <3>2. QED
      BY <1>1, <2>1, <3>1
  <2>4. ASSUME Len(m) <= i
        PROVE  IsPrefix(m, a) <=> IsPrefix(m, n)
    <3>1. \A k \in 1..Len(m) : k \in 1..i
      BY <1>0, <2>4
    <3>2. Len(m) <= Len(n) /\ Len(m) <= Len(a)
      BY <1>0, <2>3, <2>4
    <3>3. QED
      BY <2>2, <2>3, <3>1, <3>2
  <2>5. ASSUME Len(m) > i
        PROVE  IsPrefix(m, a) <=> IsPrefix(m, n)
    <3>1. ~IsPrefix(m, n)
      BY <1>0, <1>3, <2>5
    <3>2. ASSUME IsPrefix(m, a)
          PROVE  FALSE
      <4>1. i + 1 \in 1..Len(m) /\ 1 \in 1..Len(m) /\ 1 \in 1..i
        BY <1>0, <1>3, <2>5
      <4>2. a[i + 1] = n[1]
        <5>1. i + 1 \in 1..(Len(p) + Len(n)) /\ ~(i + 1 <= Len(p)) /\ i + 1 - Len(p) = 1
          BY <1>0, <1>1, <1>3
        <5>2. QED
          BY <2>1, <5>1
      <4>3. m[i + 1] = m[1]
        BY <2>2, <2>3, <3>2, <4>1, <4>2
      <4>4. i + 1 = 1
        BY <4>1, <4>3, NotHomonym
      <4>5. QED
        BY <1>3, <4>4
    <3>3. QED
      BY <3>1, <3>2
  <2>6. QED
    BY <1>0, <2>4, <2>5 DEF a, p
<1>4. QED
  BY <1>2, <1>3

\* The configured channels that limit a job in the runner are those that the name in
\* its row is below, wherever parent_fallback put it and whatever channels the
\* runner created before, as long as no configured name repeats its first part.
THEOREM OwnChannelsLimitJobs == Spec => []OwnChannelsLimit
<1>1. Init => LimitsInv
  BY DEF Init, LimitsInv
<1>2. TypeInv /\ LimitsInv => OwnChannelsLimit
  <2> SUFFICES ASSUME TypeInv, LimitsInv,
                      \A n \in tree : capacity[n] # 0 => ~Homonym(n),
                      NEW j \in Job, at[j] # NoChannel, HasRow(j)
               PROVE  Limits(j) = Named(j)
    BY DEF OwnChannelsLimit
  <2>1. row[j].name \in Names /\ \A m \in tree : m \in Names
    BY DEF TypeInv, TypeOK, HasRow, Rows, NoRow, Gone
  <2>2. PICK i \in 0..Len(row[j].name) :
          /\ at[j] = SubSeq(row[j].name, 1, i) \o row[j].name
          /\ i = 0 \/ Covered(row[j].name, i)
    BY DEF LimitsInv
  <2>3. \A m \in tree : capacity[m] # 0 => (IsPrefix(m, at[j]) <=> IsPrefix(m, row[j].name))
    BY <2>1, <2>2, LimitsAreNamed DEF Covered
  <2>4. QED
    BY <2>3 DEF Limits, Named
<1>3. QED
  BY <1>1, <1>2, TypeInit, TypeKept, LimitsKept, PTL DEF Spec

==============================================================================
