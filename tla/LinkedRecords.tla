--------------------------- MODULE LinkedRecords ---------------------------
(***************************************************************************)
(* Facts about sets of records that are numbered from 1 and of which each  *)
(* names the one before it.  The votes of a voter (VoteChain) and the      *)
(* purges of an authority (Authority) are such sets; the proofs about both *)
(* rest on what is stated here.                                            *)
(***************************************************************************)
EXTENDS Integers, FiniteSets, FiniteSetTheorems, TLAPS

\* The records have the numbers 1 to n, for n records.
Numbered(V) == {v.seq : v \in V} = 1..Cardinality(V)

\* The records of a set that come before one.
Earlier(V, v) == {w \in V : w.seq < v.seq}

\* The record with the highest number, if there is one.
LastIn(V, none) ==
  IF V = {} THEN none ELSE CHOOSE v \in V : \A w \in V : w.seq <= v.seq

\* Each record names the one before it, and the first one names none.
Linked(V, none) ==
  /\ Numbered(V)
  /\ \A v \in V : v.prev = LastIn(Earlier(V, v), none)

-----------------------------------------------------------------------------
(* Numbers.                                                                 *)

\* No two records have one number.
LEMMA NumberedUnique ==
  ASSUME NEW V, IsFiniteSet(V), Numbered(V), NEW v \in V, NEW w \in V, v.seq = w.seq
  PROVE  v = w
<1> DEFINE f == [x \in V |-> x.seq]
<1>1. Cardinality(V) \in Nat
  BY FS_CardinalityType
<1>2. IsFiniteSet(1..Cardinality(V)) /\ Cardinality(1..Cardinality(V)) = Cardinality(V)
  BY <1>1, FS_Interval
<1>3. f \in Surjection(V, 1..Cardinality(V))
  <2>1. f \in [V -> 1..Cardinality(V)]
    BY DEF Numbered
  <2>2. \A k \in 1..Cardinality(V) : \E x \in V : f[x] = k
    BY DEF Numbered
  <2>3. QED BY <2>1, <2>2 DEF Surjection
<1>4. f \in Injection(V, 1..Cardinality(V))
  BY <1>2, <1>3, FS_SurjSameCardinalityImpliesInj
<1>5. f[v] = f[w]
  OBVIOUS
<1>6. QED BY <1>4, <1>5 DEF Injection, IsInjective

\* Every number is between 1 and the number of records.
LEMMA NumberedRange ==
  ASSUME NEW V, IsFiniteSet(V), Numbered(V)
  PROVE  /\ Cardinality(V) \in Nat
         /\ \A v \in V : v.seq \in 1..Cardinality(V)
         /\ \A k \in 1..Cardinality(V) : \E v \in V : v.seq = k
<1>1. Cardinality(V) \in Nat
  BY FS_CardinalityType
<1>2. QED BY <1>1 DEF Numbered

\* The last record has the highest number.
LEMMA LastIsHighest ==
  ASSUME NEW V, IsFiniteSet(V), Numbered(V), NEW none, V # {}
  PROVE  /\ LastIn(V, none) \in V
         /\ LastIn(V, none).seq = Cardinality(V)
<1>1. Cardinality(V) \in Nat /\ Cardinality(V) # 0
  BY FS_CardinalityType, FS_EmptySet
<1>2. PICK v \in V : v.seq = Cardinality(V)
  BY <1>1, NumberedRange
<1>3. \A w \in V : w.seq <= v.seq
  BY <1>1, <1>2, NumberedRange
<1>4. LastIn(V, none) \in V /\ \A w \in V : w.seq <= LastIn(V, none).seq
  BY <1>2, <1>3 DEF LastIn
<1>5. v.seq <= LastIn(V, none).seq /\ LastIn(V, none).seq \in 1..Cardinality(V)
  BY <1>2, <1>4, NumberedRange
<1>6. QED BY <1>1, <1>2, <1>4, <1>5

\* Any part of a numbered set that is not empty has a last record.
LEMMA LastOfPart ==
  ASSUME NEW V, IsFiniteSet(V), Numbered(V), NEW S \in SUBSET V, S # {}, NEW none
  PROVE  LastIn(S, none) \in S /\ \A w \in S : w.seq <= LastIn(S, none).seq
<1> DEFINE n == Cardinality(V)
           T == {n - v.seq : v \in S}
<1>1. n \in Nat /\ \A v \in V : v.seq \in 1..n
  BY NumberedRange
<1>2. T \in SUBSET Nat /\ T # {}
  BY <1>1
<1>3. PICK k \in T : \A j \in T : ~ (<<j, k>> \in OpToRel(<, Nat))
  BY <1>2, NatLessThanWellFounded, WFMin
<1>4. \A j \in T : k <= j
  <2>1. ASSUME NEW j \in T PROVE k <= j
    <3>1. j \in Nat /\ k \in Nat
      BY <1>2
    <3>2. ~ (j < k)
      BY <1>3, <3>1 DEF OpToRel
    <3>3. QED BY <3>1, <3>2
  <2>2. QED BY <2>1
<1>5. PICK v \in S : k = n - v.seq
  OBVIOUS
<1>6. \A w \in S : w.seq <= v.seq
  <2>1. ASSUME NEW w \in S PROVE w.seq <= v.seq
    <3>1. n - v.seq <= n - w.seq
      BY <1>4, <1>5
    <3>2. QED BY <1>1, <3>1
  <2>2. QED BY <2>1
<1>7. QED BY <1>6 DEF LastIn

\* Where none counts as number 0, the number of the last record tells how many there are.
LEMMA LastCounts ==
  ASSUME NEW V, IsFiniteSet(V), Numbered(V), NEW none, none.seq = 0
  PROVE  LastIn(V, none).seq = Cardinality(V)
<1>1. CASE V = {}
  BY <1>1, FS_EmptySet DEF LastIn
<1>2. CASE V # {}
  BY <1>2, LastIsHighest
<1>3. QED BY <1>1, <1>2

\* What comes before a record is numbered, too, up to the number before it.
LEMMA EarlierNumbered ==
  ASSUME NEW V, IsFiniteSet(V), Numbered(V), NEW v \in V
  PROVE  /\ IsFiniteSet(Earlier(V, v)) /\ Numbered(Earlier(V, v))
         /\ Cardinality(Earlier(V, v)) = v.seq - 1
<1> DEFINE B == Earlier(V, v)
           f == [x \in B |-> x.seq]
           n == v.seq - 1
<1>1. Cardinality(V) \in Nat /\ v.seq \in 1..Cardinality(V) /\ n \in Nat
  BY NumberedRange
<1>2. B \in SUBSET V /\ IsFiniteSet(B)
  BY FS_Subset DEF Earlier
<1>3. {x.seq : x \in B} = 1..n
  <2>1. ASSUME NEW x \in B PROVE x.seq \in 1..n
    <3>1. x.seq \in 1..Cardinality(V) /\ x.seq < v.seq
      BY <1>2, NumberedRange DEF Earlier
    <3>2. QED BY <1>1, <3>1
  <2>2. ASSUME NEW k \in 1..n PROVE \E x \in B : x.seq = k
    <3>1. k \in 1..Cardinality(V)
      BY <1>1
    <3>2. PICK x \in V : x.seq = k
      BY <3>1, NumberedRange
    <3>3. x \in B
      BY <1>1, <3>2 DEF Earlier
    <3>4. QED BY <3>2, <3>3
  <2>3. QED BY <2>1, <2>2
<1>4. f \in Bijection(B, 1..n)
  <2>1. f \in [B -> 1..n]
    BY <1>3
  <2>2. \A x, y \in B : f[x] = f[y] => x = y
    BY <1>2, NumberedUnique
  <2>3. \A k \in 1..n : \E x \in B : f[x] = k
    BY <1>3
  <2>4. QED BY <2>1, <2>2, <2>3 DEF Bijection, Injection, IsInjective, Surjection
<1>5. Cardinality(1..n) = n /\ IsFiniteSet(1..n)
  <2>1. 1 \in Int /\ n \in Int
    BY <1>1
  <2>2. IsFiniteSet(1..n) /\ Cardinality(1..n) = IF 1 > n THEN 0 ELSE n - 1 + 1
    BY ONLY <2>1, FS_Interval
  <2>3. QED BY <1>1, <2>2
<1>6. Cardinality(B) = n
  <2>1. ExistsBijection(B, 1..n)
    BY <1>4 DEF ExistsBijection
  <2>2. QED BY <1>2, <1>5, <2>1, FS_Bijection
<1>7. QED BY <1>2, <1>3, <1>6 DEF Numbered

\* A record with the next number makes the set one longer, and comes after all others.
LEMMA NextNumbered ==
  ASSUME NEW V, IsFiniteSet(V), Numbered(V), NEW v, v.seq = Cardinality(V) + 1
  PROVE  /\ IsFiniteSet(V \cup {v}) /\ Numbered(V \cup {v})
         /\ v \notin V /\ Cardinality(V \cup {v}) = Cardinality(V) + 1
         /\ Earlier(V \cup {v}, v) = V
         /\ \A w \in V : Earlier(V \cup {v}, w) = Earlier(V, w)
<1>1. Cardinality(V) \in Nat /\ \A w \in V : w.seq \in 1..Cardinality(V)
  BY NumberedRange
<1>2. v \notin V
  BY <1>1
<1>3. IsFiniteSet(V \cup {v}) /\ Cardinality(V \cup {v}) = Cardinality(V) + 1
  BY <1>2, FS_AddElement
<1>4. Numbered(V \cup {v})
  <2>1. {w.seq : w \in V \cup {v}} = {w.seq : w \in V} \cup {v.seq}
    OBVIOUS
  <2>2. QED BY <1>1, <1>3, <2>1 DEF Numbered
<1>5. Earlier(V \cup {v}, v) = V
  BY <1>1 DEF Earlier
<1>6. \A w \in V : Earlier(V \cup {v}, w) = Earlier(V, w)
  BY <1>1 DEF Earlier
<1>7. QED BY <1>2, <1>3, <1>4, <1>5, <1>6

-----------------------------------------------------------------------------
(* Links.                                                                   *)

\* What comes before a record of a chain is a chain, which ends where the record says.
LEMMA EarlierLinked ==
  ASSUME NEW none, NEW V, IsFiniteSet(V), Linked(V, none), NEW v \in V
  PROVE  /\ Linked(Earlier(V, v), none)
         /\ v.prev = LastIn(Earlier(V, v), none)
         /\ \A w \in Earlier(V, v) : Earlier(Earlier(V, v), w) = Earlier(V, w)
<1>1. Numbered(Earlier(V, v))
  BY EarlierNumbered DEF Linked
<1>2. ASSUME NEW w \in Earlier(V, v) PROVE Earlier(Earlier(V, v), w) = Earlier(V, w)
  <2>1. w \in V /\ w.seq < v.seq
    BY DEF Earlier
  <2>2. Cardinality(V) \in Nat /\ \A x \in V : x.seq \in 1..Cardinality(V)
    BY NumberedRange DEF Linked
  <2>3. \A x \in V : x.seq < w.seq => x.seq < v.seq
    BY <2>1, <2>2
  <2>4. QED BY <2>3 DEF Earlier
<1>3. \A w \in Earlier(V, v) : w.prev = LastIn(Earlier(Earlier(V, v), w), none)
  BY <1>2 DEF Linked, Earlier
<1>4. QED BY <1>1, <1>2, <1>3 DEF Linked

\* In a chain, the record with the next number names the one with this number.
LEMMA NextNames ==
  ASSUME NEW none, NEW V, IsFiniteSet(V), Linked(V, none),
         NEW v \in V, NEW w \in V, w.seq = v.seq + 1
  PROVE  w.prev = v
<1>1. Cardinality(V) \in Nat /\ v.seq \in 1..Cardinality(V)
  BY NumberedRange DEF Linked
<1>2. IsFiniteSet(Earlier(V, w)) /\ Numbered(Earlier(V, w))
      /\ Cardinality(Earlier(V, w)) = v.seq
  BY <1>1, EarlierNumbered DEF Linked
<1>3. v \in Earlier(V, w)
  BY <1>1 DEF Earlier
<1>4. LastIn(Earlier(V, w), none) \in Earlier(V, w)
      /\ LastIn(Earlier(V, w), none).seq = v.seq
  BY <1>2, <1>3, LastIsHighest
<1>5. LastIn(Earlier(V, w), none) = v
  <2>1. Earlier(V, w) \subseteq V
    BY DEF Earlier
  <2>2. QED BY <1>3, <1>4, <2>1, NumberedUnique DEF Linked
<1>6. QED BY <1>5 DEF Linked

\* The last record determines the whole chain.
LEMMA SameLastSameChain ==
  ASSUME NEW none, none.seq = 0,
         NEW V, IsFiniteSet(V), Linked(V, none),
         NEW W, IsFiniteSet(W), Linked(W, none),
         LastIn(V, none) = LastIn(W, none)
  PROVE  V = W
<1> DEFINE n == Cardinality(V)
<1>1. Cardinality(W) = n /\ n \in Nat
  BY LastCounts, FS_CardinalityType DEF Linked
<1> HIDE DEF n
<1>2. \A v \in V : v.seq \in 1..n
  BY <1>1, NumberedRange DEF Linked, n
<1>3. \A v \in W : v.seq \in 1..n
  BY <1>1, NumberedRange DEF Linked, n
<1>4. \A k \in 1..n : (\E v \in V : v.seq = k) /\ (\E w \in W : w.seq = k)
  BY <1>1, NumberedRange DEF Linked, n
<1>5. \A v, w \in V : v.seq = w.seq => v = w
  BY NumberedUnique DEF Linked
<1>6. \A v, w \in W : v.seq = w.seq => v = w
  BY NumberedUnique DEF Linked
<1> DEFINE Agree(k) == \A v \in V, w \in W : v.seq = k /\ w.seq = k => v = w
           Bad == {j \in 0..n : ~Agree(n - j)}
<1>7. Agree(n)
  <2>1. CASE V = {}
    BY <2>1
  <2>2. CASE V # {}
    <3>1. W # {}
      BY <1>1, <2>2, FS_EmptySet DEF n
    <3>2. /\ LastIn(V, none) \in V /\ LastIn(V, none).seq = n
          /\ LastIn(W, none) \in W /\ LastIn(W, none).seq = n
      BY <1>1, <2>2, <3>1, LastIsHighest DEF Linked, n
    <3>3. QED BY <1>5, <1>6, <3>2
  <2>3. QED BY <2>1, <2>2
<1>8. ASSUME NEW k \in 1..(n - 1), Agree(k + 1) PROVE Agree(k)
  <2>1. k + 1 \in 1..n /\ k \in 1..n
    BY <1>1
  <2>2. PICK v \in V : v.seq = k + 1
    BY <1>4, <2>1
  <2>3. v \in W
    BY <1>4, <1>8, <2>1, <2>2
  <2>4. \A x \in V : x.seq = k => v.prev = x
    BY <2>2, NextNames
  <2>5. \A x \in W : x.seq = k => v.prev = x
    BY <2>2, <2>3, NextNames
  <2>6. QED BY <2>4, <2>5
<1>9. Bad = {}
  <2>1. SUFFICES ASSUME Bad # {} PROVE FALSE
    OBVIOUS
  <2>2. Bad \in SUBSET Nat
    BY <1>1
  <2>3. PICK j \in Bad : \A i \in Bad : ~ (<<i, j>> \in OpToRel(<, Nat))
    BY <2>1, <2>2, NatLessThanWellFounded, WFMin
  <2>4. j \in 0..n /\ ~Agree(n - j)
    BY <2>3
  <2>5. j # 0
    <3>1. j = 0 => n - j = n
      BY <1>1
    <3>2. QED BY <1>7, <2>4, <3>1
  <2>6. n - j # 0
    BY <1>2, <2>4
  <2>7. j - 1 \in 0..n /\ j - 1 < j /\ n - j \in 1..(n - 1) /\ n - (j - 1) = (n - j) + 1
    BY <1>1, <2>4, <2>5, <2>6
  <2>8. ~Agree(n - (j - 1))
    BY <1>8, <2>4, <2>7
  <2>9. j - 1 \in Bad
    BY <2>7, <2>8
  <2>10. <<j - 1, j>> \in OpToRel(<, Nat)
    <3>1. j - 1 \in Nat /\ j \in Nat
      BY <1>1, <2>7
    <3>2. QED BY <2>7, <3>1 DEF OpToRel
  <2>11. QED BY <2>3, <2>9, <2>10
<1>10. \A k \in 1..n : Agree(k)
  <2>1. ASSUME NEW k \in 1..n PROVE Agree(k)
    <3>1. n - k \in 0..n /\ n - (n - k) = k
      BY <1>1
    <3>2. n - k \notin Bad
      BY <1>9
    <3>3. QED BY <3>1, <3>2
  <2>2. QED BY <2>1
<1>11. QED
  <2>1. ASSUME NEW v \in V PROVE v \in W
    <3>1. PICK w \in W : w.seq = v.seq
      BY <1>2, <1>4
    <3>2. QED BY <1>2, <1>10, <3>1
  <2>2. ASSUME NEW w \in W PROVE w \in V
    <3>1. PICK v \in V : v.seq = w.seq
      BY <1>3, <1>4
    <3>2. QED BY <1>3, <1>10, <3>1
  <2>3. QED BY <2>1, <2>2
=============================================================================
