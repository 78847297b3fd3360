--------------------------- MODULE ExchangeProofs ---------------------------
(***************************************************************************)
(* Proofs about what a node exchanges with others, as parts of Daemon,     *)
(* beside whatever else the node does: the synchronisation of logs (E,     *)
(* AntiEntropy), and the rating of those who vote (R, Reputation).  The    *)
(* last theorem is about the whole node.                                   *)
(***************************************************************************)
EXTENDS DaemonProofs, SequenceTheorems, WellFoundedInduction, TLAPS

-----------------------------------------------------------------------------
(* Numbers and entries.                                                     *)

LEMMA SyncCardinality == \A s : E!Cardinality(s) = Cardinality(s)
  BY DEF E!Cardinality, Cardinality

\* A set of naturals that is not empty has a least element.
LEMMA LeastNumber ==
  ASSUME NEW A \in SUBSET Nat, A # {}
  PROVE  \E x \in A : \A y \in A : x <= y
<1>1. PICK x \in A : \A y \in A : ~ (<<y, x>> \in OpToRel(<, Nat))
  BY NatLessThanWellFounded, WFMin
<1>2. ASSUME NEW y \in A PROVE x <= y
  <2>1. ~ (<<y, x>>[1] < <<y, x>>[2]) \/ <<y, x>> \notin Nat \X Nat
    BY <1>1 DEF OpToRel
  <2>2. QED BY <2>1
<1>3. QED BY <1>2

Replicas == {Owner, Peer}
Events == [orig : Originators, seq : Nat]
Spans == {r \in [start : Nat \ {0}, end : Nat] : r.start <= r.end}
Nonces == [of : Int, range : Spans]
DrillPackets == [kind : {"drill"}, from : Replicas, to : Replicas,
                 body : [orig : Originators, range : Spans, nonce : Nonces]]
Quotas == [requests : Int, drills : Int, pauses : Int, restarts : Int]

PacketOK(m) ==
  /\ m.from \in Replicas /\ m.to \in Replicas
  /\ m.kind = "request" => \A v \in m.body.vector : v.known \subseteq Nat
  /\ m.kind = "answer" => m.body.entries \subseteq Events
  /\ m.kind = "drill" =>
       /\ m \in DrillPackets /\ m.body.range.start < m.body.range.end
       /\ m.body.nonce.range = m.body.range
  /\ m.kind = "halves" =>
       /\ m.body.orig \in Originators /\ m.body.nonce \in Nonces
       /\ \A c \in m.body.children : c.range \in Spans

SyncTypeOK ==
  /\ log \in [Replicas -> Seq(Events)]
  /\ staged \in [Replicas -> SUBSET Events] /\ \A n \in Replicas : IsFiniteSet(staged[n])
  /\ DOMAIN saturated = Replicas /\ DOMAIN seen = Replicas
  /\ \A n \in Replicas : \A x \in saturated[n] : x.upto \in Nat /\ x.peer \in Replicas
  /\ nonces = [n \in Replicas |-> {}] /\ DOMAIN banned = Replicas
  /\ quota \in Quotas /\ DOMAIN told = Replicas
  /\ \A m \in packets : PacketOK(m)

LEMMA SyncConstants ==
  /\ Originators \subseteq Nat /\ Owner # Peer
  /\ Starts \subseteq [Replicas -> Seq(Events)]
  /\ Drills \subseteq Spans /\ \A r \in Drills : r.start < r.end
  /\ SyncBudgets \subseteq Quotas
<1>1. /\ Starts \subseteq [Replicas -> Seq([orig : Originators, seq : Nat \ {0}])]
      /\ Originators \subseteq Nat /\ Owner # Peer
      /\ Drills \subseteq [start : Nat \ {0}, end : Nat] /\ \A r \in Drills : r.start < r.end
      /\ SyncBudgets \subseteq [requests : Nat, drills : Nat, pauses : Nat, restarts : Nat]
  BY DaemonAssumption DEF E!AntiEntropyAssumption, Replicas
<1>2. Seq([orig : Originators, seq : Nat \ {0}]) \subseteq Seq(Events)
  <2>1. [orig : Originators, seq : Nat \ {0}] \subseteq Events
    BY DEF Events
  <2>2. QED BY <2>1, SeqMonotonic
<1>3. Drills \subseteq Spans
  <2>1. ASSUME NEW r \in Drills PROVE r \in Spans
    <3>1. r \in [start : Nat \ {0}, end : Nat] /\ r.start < r.end
      BY <1>1
    <3>2. r.start <= r.end
      BY <3>1
    <3>3. QED BY <3>1, <3>2 DEF Spans
  <2>2. QED BY <2>1
<1>4. Starts \subseteq [Replicas -> Seq(Events)]
  BY <1>1, <1>2
<1>5. SyncBudgets \subseteq Quotas
  BY <1>1 DEF Quotas
<1>6. QED BY <1>1, <1>3, <1>4, <1>5

\* How many staged events follow an event is a number that there is.
LEMMA BehindExists ==
  ASSUME NEW st, IsFiniteSet(st), NEW e \in Events
  PROVE  /\ E!Behind(st, e) \in 0..Cardinality(st)
         /\ \A i \in 1..E!Behind(st, e) : E!Entry(e.orig, e.seq + i) \in st
         /\ E!Entry(e.orig, e.seq + E!Behind(st, e) + 1) \notin st
<1> DEFINE c == Cardinality(st)
           T == {k \in Nat : E!Entry(e.orig, e.seq + k + 1) \notin st}
           f == [k \in 0..c |-> E!Entry(e.orig, e.seq + k + 1)]
<1>1. c \in Nat
  BY FS_CardinalityType
<1>2. IsFiniteSet(0..c) /\ Cardinality(0..c) = c + 1
  BY <1>1, FS_Interval
<1>3. \E k \in 0..c : f[k] \notin st
  <2>1. SUFFICES ASSUME \A k \in 0..c : f[k] \in st PROVE FALSE
    OBVIOUS
  <2>2. f \in [0..c -> st]
    BY <2>1
  <2>3. \A k, l \in 0..c : k # l => f[k] # f[l]
    BY <1>1 DEF E!Entry, Events
  <2> HIDE DEF f
  <2>4. Cardinality(st) < Cardinality(0..c)
    BY <1>1, <1>2
  <2>5. QED BY <1>2, <2>2, <2>3, <2>4, FS_PigeonHole
<1>4. PICK k \in T : \A l \in T : k <= l
  <2>1. T \in SUBSET Nat /\ T # {}
    BY <1>1, <1>3
  <2> HIDE DEF T
  <2>2. QED BY <2>1, LeastNumber
<1>5. k \in 0..c
  BY <1>1, <1>3, <1>4
<1>6. \A i \in 1..k : E!Entry(e.orig, e.seq + i) \in st
  <2>1. ASSUME NEW i \in 1..k PROVE E!Entry(e.orig, e.seq + i) \in st
    <3>1. i - 1 \in Nat /\ ~(k <= i - 1) /\ e.seq + (i - 1) + 1 = e.seq + i
      BY DEF Events
    <3>2. i - 1 \notin T
      BY <1>4, <3>1
    <3>3. QED BY <3>1, <3>2
  <2>2. QED BY <2>1
<1>7. \E n \in 0..c : /\ \A i \in 1..n : E!Entry(e.orig, e.seq + i) \in st
                      /\ E!Entry(e.orig, e.seq + n + 1) \notin st
  BY <1>4, <1>5, <1>6
<1>8. QED BY <1>7, SyncCardinality DEF E!Behind

-----------------------------------------------------------------------------
(* The order of a log.                                                      *)

\* The places of an originator's events in the beginning of a log.
PlacesOf(l, i, o) == {j \in 1..i : l[j].orig = o}

LEMMA PlacesFinite ==
  ASSUME NEW l, NEW i \in Nat, NEW o
  PROVE  IsFiniteSet(PlacesOf(l, i, o)) /\ Cardinality(PlacesOf(l, i, o)) \in Nat
<1>1. IsFiniteSet(1..i)
  BY FS_Interval
<1>2. IsFiniteSet(PlacesOf(l, i, o))
  BY <1>1, FS_Subset DEF PlacesOf
<1>3. QED BY <1>2, FS_CardinalityType

\* In a log in order the numbers of an originator's events are those from 1 on, each once.
LEMMA NumbersInOrder ==
  ASSUME NEW l \in Seq(Events), E!InOrder(l), NEW o
  PROVE  /\ E!Numbers(l, o) = 1..Cardinality(PlacesOf(l, Len(l), o))
         /\ Cardinality(E!Numbers(l, o)) = Cardinality(PlacesOf(l, Len(l), o))
<1> DEFINE Known(i) == {l[j].seq : j \in PlacesOf(l, i, o)}
           Right(i) == Known(i) = 1..Cardinality(PlacesOf(l, i, o))
           Bad == {i \in 0..Len(l) : ~Right(i)}
<1>1. Len(l) \in Nat /\ DOMAIN l = 1..Len(l)
  BY LenProperties
<1>2. Right(0)
  <2>1. PlacesOf(l, 0, o) = {}
    BY DEF PlacesOf
  <2>2. 1..0 = {} /\ Cardinality({}) = 0
    BY FS_EmptySet
  <2>3. QED BY <2>1, <2>2
<1>3. ASSUME NEW i \in 1..Len(l), Right(i - 1)
      PROVE  Right(i)
  <2>1. i - 1 \in Nat /\ i \in Nat /\ 1..i = (1..(i - 1)) \cup {i}
    BY <1>1
  <2>2. CASE l[i].orig # o
    <3>1. PlacesOf(l, i, o) = PlacesOf(l, i - 1, o)
      BY <2>1, <2>2 DEF PlacesOf
    <3>2. QED BY <1>3, <3>1
  <2>3. CASE l[i].orig = o
    <3>1. PlacesOf(l, i, o) = PlacesOf(l, i - 1, o) \cup {i} /\ i \notin PlacesOf(l, i - 1, o)
      BY <2>1, <2>3 DEF PlacesOf
    <3> DEFINE c == Cardinality(PlacesOf(l, i - 1, o))
    <3>2. c \in Nat /\ IsFiniteSet(PlacesOf(l, i - 1, o))
      BY <2>1, PlacesFinite
    <3>3. Cardinality(PlacesOf(l, i, o)) = c + 1
      BY <3>1, <3>2, FS_AddElement
    <3>4. l[i].seq = c + 1
      <4>1. l[i].seq = 1 + E!Cardinality({j \in 1..(i - 1) : l[j].orig = l[i].orig})
        BY <1>1 DEF E!InOrder
      <4>2. QED BY <2>3, <3>2, <4>1, SyncCardinality DEF PlacesOf
    <3>5. Known(i) = Known(i - 1) \cup {c + 1}
      BY <3>1, <3>4
    <3>6. Known(i - 1) = 1..c
      BY <1>3
    <3> HIDE DEF c, Known
    <3>7. QED BY <3>2, <3>3, <3>5, <3>6
  <2>4. QED BY <2>2, <2>3
<1>4. Bad = {}
  <2> SUFFICES ASSUME Bad # {} PROVE FALSE
    OBVIOUS
  <2>1. PICK i \in Bad : \A j \in Bad : i <= j
    <3>1. Bad \in SUBSET Nat
      BY <1>1
    <3> HIDE DEF Bad
    <3>2. QED BY <3>1, LeastNumber
  <2>2. i \in 1..Len(l) /\ i - 1 \in 0..Len(l) /\ ~(i <= i - 1)
    <3>1. i \in 0..Len(l) /\ i # 0
      BY <1>2, <2>1
    <3>2. QED BY <1>1, <3>1
  <2>3. Right(i - 1)
    BY <2>1, <2>2
  <2>4. Right(i)
    <3> HIDE DEF Right
    <3>1. QED BY <1>3, <2>2, <2>3
  <2>5. QED BY <2>1, <2>4
<1>5. Right(Len(l))
  BY <1>1, <1>4
<1>6. Known(Len(l)) = E!Numbers(l, o)
  BY <1>1 DEF PlacesOf, E!Numbers, E!ToSet
<1>7. Cardinality(1..Cardinality(PlacesOf(l, Len(l), o))) = Cardinality(PlacesOf(l, Len(l), o))
  BY <1>1, PlacesFinite, FS_Interval
<1>8. QED BY <1>5, <1>6, <1>7

\* A block of events that continues the chain of its originator.
LEMMA BlockInOrder ==
  ASSUME NEW l \in Seq(Events), E!InOrder(l), NEW e \in Events, NEW k \in Nat,
         e.seq = Cardinality(E!Numbers(l, e.orig)) + 1,
         NEW more \in Seq(Events), Len(more) = k + 1,
         \A i \in 1..(k + 1) : more[i] = E!Entry(e.orig, e.seq + i - 1)
  PROVE  /\ E!InOrder(l \o more)
         /\ \A o : Cardinality(E!Numbers(l \o more, o)) =
                     Cardinality(E!Numbers(l, o)) + IF o = e.orig THEN k + 1 ELSE 0
<1> DEFINE n == Len(l)
           m == l \o more
           c == Cardinality(PlacesOf(l, n, e.orig))
<1>1. /\ m \in Seq(Events) /\ n \in Nat /\ Len(m) = n + (k + 1) /\ DOMAIN m = 1..(n + (k + 1))
      /\ DOMAIN l = 1..n /\ \A i \in 1..n : m[i] = l[i]
      /\ \A i \in (n + 1)..(n + (k + 1)) : m[i] = more[i - n]
  <2>1. /\ m \in Seq(Events) /\ n \in Nat /\ Len(m) = n + (k + 1) /\ DOMAIN l = 1..n
        /\ \A i \in 1..(Len(l) + Len(more)) :
              m[i] = IF i <= Len(l) THEN l[i] ELSE more[i - Len(l)]
    <3>1. /\ m \in Seq(Events) /\ Len(m) = Len(l) + Len(more)
          /\ \A i \in 1..(Len(l) + Len(more)) :
                m[i] = IF i <= Len(l) THEN l[i] ELSE more[i - Len(l)]
      BY ConcatProperties, Zenon
    <3>2. n \in Nat /\ DOMAIN l = 1..n
      BY LenProperties
    <3>3. QED BY <3>1, <3>2
  <2>2. DOMAIN m = 1..(n + (k + 1))
    BY <2>1, LenProperties
  <2>3. \A i \in 1..(n + (k + 1)) : m[i] = IF i <= n THEN l[i] ELSE more[i - n]
    BY <2>1
  <2>4. n \in Nat
    BY <2>1
  <2> HIDE DEF m, n
  <2>5. /\ \A i \in 1..n : i \in 1..(n + (k + 1)) /\ i <= n
        /\ \A i \in (n + 1)..(n + (k + 1)) : i \in 1..(n + (k + 1)) /\ ~(i <= n)
    BY <2>4
  <2>6. QED BY <2>1, <2>2, <2>3, <2>5
<1>2. /\ c \in Nat /\ IsFiniteSet(PlacesOf(l, n, e.orig)) /\ e.seq = c + 1
      /\ PlacesOf(l, n, e.orig) \subseteq 1..n
  <2>1. c \in Nat /\ IsFiniteSet(PlacesOf(l, n, e.orig))
    BY <1>1, PlacesFinite
  <2>2. e.seq = c + 1
    BY NumbersInOrder
  <2>3. PlacesOf(l, n, e.orig) \subseteq 1..n
    BY DEF PlacesOf
  <2>4. QED BY <2>1, <2>2, <2>3
<1>3. \A p \in 1..(k + 1) : m[n + p] = E!Entry(e.orig, e.seq + p - 1)
  <2>1. ASSUME NEW p \in 1..(k + 1) PROVE m[n + p] = E!Entry(e.orig, e.seq + p - 1)
    <3>1. n + p \in (n + 1)..(n + (k + 1)) /\ (n + p) - n = p
      BY <1>1
    <3>2. QED BY <1>1, <3>1
  <2>2. QED BY <2>1
<1> HIDE DEF m, c, n
<1>4. ASSUME NEW p \in 0..(k + 1), NEW o
      PROVE  Cardinality(PlacesOf(m, n + p, o)) =
               Cardinality(PlacesOf(l, n, o)) + IF o = e.orig THEN p ELSE 0
  <2>1. \A j \in 1..n : m[j].orig = l[j].orig
    BY <1>1
  <2>2. \A j \in (n + 1)..(n + p) : m[j].orig = e.orig
    <3>1. ASSUME NEW j \in (n + 1)..(n + p) PROVE m[j].orig = e.orig
      <4>1. j - n \in 1..(k + 1) /\ n + (j - n) = j
        BY <1>1
      <4>2. m[j] = E!Entry(e.orig, e.seq + (j - n) - 1)
        BY <1>3, <4>1
      <4>3. QED BY <4>2 DEF E!Entry
    <3>2. QED BY <3>1
  <2>3. 1..(n + p) = (1..n) \cup ((n + 1)..(n + p)) /\ (1..n) \cap ((n + 1)..(n + p)) = {}
    BY <1>1
  <2>4. IsFiniteSet(PlacesOf(l, n, o)) /\ Cardinality(PlacesOf(l, n, o)) \in Nat
        /\ PlacesOf(l, n, o) \subseteq 1..n
    <3>1. IsFiniteSet(PlacesOf(l, n, o)) /\ Cardinality(PlacesOf(l, n, o)) \in Nat
      BY <1>1, PlacesFinite
    <3>2. PlacesOf(l, n, o) \subseteq 1..n
      BY DEF PlacesOf
    <3>3. QED BY <3>1, <3>2
  <2>5. CASE o # e.orig
    <3>1. PlacesOf(m, n + p, o) = PlacesOf(l, n, o)
      BY <2>1, <2>2, <2>3, <2>5 DEF PlacesOf
    <3>2. QED BY <2>4, <2>5, <3>1
  <2>6. CASE o = e.orig
    <3>1. PlacesOf(m, n + p, o) = PlacesOf(l, n, o) \cup ((n + 1)..(n + p))
      BY <2>1, <2>2, <2>3, <2>6 DEF PlacesOf
    <3>2. IsFiniteSet((n + 1)..(n + p)) /\ Cardinality((n + 1)..(n + p)) = p
      <4>1. n + 1 \in Int /\ n + p \in Int
        BY <1>1
      <4>2. /\ IsFiniteSet((n + 1)..(n + p))
            /\ Cardinality((n + 1)..(n + p)) =
                 IF n + 1 > n + p THEN 0 ELSE (n + p) - (n + 1) + 1
        BY <4>1, FS_Interval
      <4>3. (IF n + 1 > n + p THEN 0 ELSE (n + p) - (n + 1) + 1) = p
        BY <1>1
      <4>4. QED BY <4>2, <4>3
    <3>3. PlacesOf(l, n, o) \cap ((n + 1)..(n + p)) = {}
      BY <2>3, <2>4
    <3>4. Cardinality(PlacesOf(m, n + p, o)) = Cardinality(PlacesOf(l, n, o)) + p
      <4> DEFINE a == PlacesOf(l, n, o)
                 b == (n + 1)..(n + p)
      <4>1. Cardinality(a \cup b) = Cardinality(a) + Cardinality(b) - Cardinality(a \cap b)
        BY <2>4, <3>2, FS_Union
      <4>2. Cardinality(a \cap b) = 0
        BY <3>3, FS_EmptySet
      <4>3. Cardinality(a) \in Nat /\ Cardinality(b) = p /\ PlacesOf(m, n + p, o) = a \cup b
        BY <2>4, <3>1, <3>2
      <4> HIDE DEF a, b
      <4>4. Cardinality(PlacesOf(m, n + p, o)) = Cardinality(a) + p - 0
        BY <4>1, <4>2, <4>3, Zenon
      <4>5. Cardinality(a) + p - 0 = Cardinality(a) + p
        BY <4>3
      <4>6. QED BY <4>4, <4>5 DEF a
    <3>5. QED BY <2>6, <3>4
  <2>7. QED BY <2>5, <2>6
<1>5. ASSUME NEW i \in 1..(n + (k + 1))
      PROVE  m[i].seq = 1 + Cardinality(PlacesOf(m, i - 1, m[i].orig))
  <2>1. CASE i \in 1..n
    <3>1. m[i] = l[i] /\ l[i].seq = 1 + Cardinality(PlacesOf(l, i - 1, l[i].orig))
      BY <1>1, <2>1, SyncCardinality DEF E!InOrder, PlacesOf
    <3>2. \A j \in 1..(i - 1) : m[j] = l[j]
      BY <1>1, <2>1
    <3>3. PlacesOf(m, i - 1, l[i].orig) = PlacesOf(l, i - 1, l[i].orig)
      BY <3>2 DEF PlacesOf
    <3>4. QED BY <3>1, <3>3
  <2>2. CASE i \notin 1..n
    <3> DEFINE p == i - n
    <3>1. p \in 1..(k + 1) /\ p - 1 \in 0..(k + 1) /\ n + p = i /\ n + (p - 1) = i - 1
      BY <1>1, <2>2
    <3>2. m[i] = E!Entry(e.orig, e.seq + p - 1)
      BY <1>3, <3>1
    <3>3. Cardinality(PlacesOf(m, i - 1, e.orig)) = c + (p - 1)
      BY <1>4, <3>1 DEF c
    <3> HIDE DEF p
    <3>4. m[i].orig = e.orig /\ m[i].seq = e.seq + p - 1
      BY <3>2 DEF E!Entry
    <3>5. QED BY <1>2, <3>1, <3>3, <3>4
  <2>3. QED BY <2>1, <2>2
<1>6. E!InOrder(m)
  BY <1>1, <1>5, SyncCardinality DEF E!InOrder, PlacesOf
<1>7. ASSUME NEW o
      PROVE  Cardinality(E!Numbers(m, o)) =
               Cardinality(E!Numbers(l, o)) + IF o = e.orig THEN k + 1 ELSE 0
  <2>1. Cardinality(E!Numbers(l, o)) = Cardinality(PlacesOf(l, n, o))
    BY NumbersInOrder DEF n
  <2>2. Cardinality(E!Numbers(m, o)) = Cardinality(PlacesOf(m, n + (k + 1), o))
    BY <1>1, <1>6, NumbersInOrder
  <2>3. QED BY <1>4, <2>1, <2>2
<1>8. QED BY <1>6, <1>7 DEF m

\* A log has at least one originator, and no others than there are.
LEMMA AuthorsCounted ==
  ASSUME NEW l \in Seq(Events), l # <<>>
  PROVE  Cardinality(E!Authors(l)) \in 1..Cardinality(Originators)
<1>1. E!Authors(l) \subseteq Originators /\ E!Authors(l) # {}
  <2>1. /\ Len(l) \in Nat /\ Len(l) # 0 /\ DOMAIN l = 1..Len(l)
        /\ \A i \in 1..Len(l) : l[i] \in Events
    BY LenProperties, EmptySeq, ElementOfSeq
  <2>2. l[1] \in E!ToSet(l) /\ E!ToSet(l) \subseteq Events
    BY <2>1 DEF E!ToSet
  <2>3. QED BY <2>2 DEF Events, E!Authors
<1>2. IsFiniteSet(Originators) /\ Cardinality(Originators) \in Nat
  BY DaemonAssumption, FS_CardinalityType
     DEF E!AntiEntropyAssumption, E!IsFiniteSet, IsFiniteSet
<1>3. /\ IsFiniteSet(E!Authors(l)) /\ Cardinality(E!Authors(l)) \in Nat
      /\ Cardinality(E!Authors(l)) # 0
      /\ Cardinality(E!Authors(l)) <= Cardinality(Originators)
  BY <1>1, <1>2, FS_Subset, FS_CardinalityType, FS_EmptySet
<1>4. QED BY <1>2, <1>3

-----------------------------------------------------------------------------
(* Types, and what a step does to the logs.                                 *)

\* An event that is taken in is added to the log, with what was staged behind it.
LEMMA AppendType ==
  ASSUME SyncTypeOK, NEW n \in Replicas, NEW e \in Events, E!AppendEvent(n, e)
  PROVE  /\ log' \in [Replicas -> Seq(Events)] /\ staged' \in [Replicas -> SUBSET Events]
         /\ \A m \in Replicas : IsFiniteSet(staged'[m])
         /\ \A m \in Replicas : E!ToSet(log[m]) \subseteq E!ToSet(log'[m])
<1>1. /\ log \in [Replicas -> Seq(Events)] /\ staged \in [Replicas -> SUBSET Events]
      /\ \A m \in Replicas : IsFiniteSet(staged[m])
  BY DEF SyncTypeOK
<1> DEFINE k == E!Behind(staged[n], e)
           more == [i \in 1..(k + 1) |-> E!Entry(e.orig, e.seq + i - 1)]
           gone == {E!Entry(e.orig, e.seq + i) : i \in 1..k}
<1>2. CASE /\ log' = [log EXCEPT ![n] = @ \o more]
           /\ staged' = [staged EXCEPT ![n] = @ \ gone]
  <2>1. k \in Nat
    BY <1>1, BehindExists, FS_CardinalityType
  <2>2. \A i \in 1..(k + 1) : e.seq + i - 1 \in Nat
    BY <2>1 DEF Events
  <2>3. more \in Seq(Events)
    <3>1. \A i \in 1..(k + 1) : E!Entry(e.orig, e.seq + i - 1) \in Events
      BY <2>2 DEF E!Entry, Events
    <3> HIDE DEF k
    <3>2. k + 1 \in Nat
      BY <2>1
    <3>3. QED BY <3>1, <3>2, IsASeq
  <2> HIDE DEF more, gone, k
  <2>4. /\ log[n] \o more \in Seq(Events) /\ Len(log[n]) \in Nat
        /\ DOMAIN log[n] = 1..Len(log[n])
        /\ DOMAIN (log[n] \o more) = 1..(Len(log[n]) + Len(more)) /\ Len(more) \in Nat
        /\ \A i \in 1..Len(log[n]) : (log[n] \o more)[i] = log[n][i]
    BY <1>1, <2>3, ConcatProperties, LenProperties
  <2>5. E!ToSet(log[n]) \subseteq E!ToSet(log[n] \o more)
    BY <2>4 DEF E!ToSet
  <2>6. IsFiniteSet(staged[n] \ gone)
    BY <1>1, FS_Difference
  <2>7. QED BY <1>1, <1>2, <2>4, <2>5, <2>6
<1>3. CASE staged' = [staged EXCEPT ![n] = @ \cup {e}] /\ log' = log
  <2>1. IsFiniteSet(staged[n] \cup {e})
    BY <1>1, FS_AddElement
  <2>2. QED BY <1>1, <1>3, <2>1
<1>4. CASE log' = log /\ staged' = staged
  BY <1>1, <1>4
<1>5. QED BY <1>2, <1>3, <1>4 DEF E!AppendEvent, E!logs

\* What a handler finds in a packet.
LEMMA ReceiveFields ==
  ASSUME SyncTypeOK, NEW n, NEW m, NEW kind, E!Receive(n, kind, m)
  PROVE  /\ m \in packets /\ m.kind = kind /\ m.to = n /\ PacketOK(m)
         /\ n \in Replicas /\ m.from \in Replicas
         /\ m.from \notin banned[n] /\ m \notin seen[n]
         /\ seen' = [seen EXCEPT ![n] = seen[n] \cup {m}]
         /\ seen'[n] = seen[n] \cup {m} /\ \A o \in Replicas \ {n} : seen'[o] = seen[o]
         /\ DOMAIN seen' = Replicas /\ quota' = quota
BY DEF E!Receive, E!MarkSeen, SyncTypeOK, PacketOK

\* A vector tells the numbers of a log.
LEMMA VectorTells ==
  ASSUME NEW l, NEW at, NEW v \in E!Vector(l, at)
  PROVE  v.known = E!Numbers(l, v.orig)
BY DEF E!Vector

LEMMA NumbersType ==
  ASSUME NEW l \in Seq(Events), NEW o
  PROVE  E!Numbers(l, o) \subseteq Nat
<1>1. E!ToSet(l) \subseteq Events
  BY ElementOfSeq, LenProperties DEF E!ToSet
<1>2. QED BY <1>1 DEF E!Numbers, Events

LEMMA OfferType ==
  ASSUME NEW l \in Seq(Events), NEW vector
  PROVE  E!Offer(l, vector) \subseteq Events
BY LenProperties, ElementOfSeq DEF E!Offer

\* An offer is empty only if the vector names everything.
LEMMA OfferEmpty ==
  ASSUME NEW l \in Seq(Events), NEW vector, E!Offer(l, vector) = {}
  PROVE  \A e \in E!ToSet(l) : E!Names(vector, e)
<1> DEFINE A == {k \in DOMAIN l : ~E!Names(vector, l[k])}
<1>1. DOMAIN l = 1..Len(l) /\ Len(l) \in Nat
  BY LenProperties
<1>2. SUFFICES ASSUME A # {} PROVE FALSE
  BY DEF E!ToSet
<1>3. PICK i \in A : \A j \in A : i <= j
  <2>1. A \in SUBSET Nat
    BY <1>1
  <2> HIDE DEF A
  <2>2. QED BY <1>2, <2>1, LeastNumber
<1>4. \A j \in 1..(i - 1) : E!Names(vector, l[j])
  <2>1. ASSUME NEW j \in 1..(i - 1) PROVE E!Names(vector, l[j])
    <3>1. j \in DOMAIN l /\ ~(i <= j)
      BY <1>1, <1>3
    <3>2. QED BY <1>3, <3>1
  <2>2. QED BY <2>1
<1>5. l[i] \in E!Offer(l, vector)
  BY <1>3, <1>4 DEF E!Offer
<1>6. QED BY <1>5

\* The halves of a range are ranges.
LEMMA ChildrenType ==
  ASSUME NEW l, NEW o, NEW r \in Spans, r.start < r.end, NEW c \in E!Children(l, o, r)
  PROVE  c.range \in Spans
<1> DEFINE mid == r.start + (r.end - r.start) \div 2
<1>1. r.start \in Nat \ {0} /\ r.end \in Nat
  BY DEF Spans
<1>2. mid \in Nat /\ r.start <= mid /\ mid + 1 <= r.end
  BY <1>1
<1>3. c.range \in {[start |-> r.start, end |-> mid], [start |-> mid + 1, end |-> r.end]}
  BY DEF E!Children
<1> HIDE DEF mid
<1>4. QED BY <1>1, <1>2, <1>3 DEF Spans

\* No nonce is ever pending: the answer to a drill leads to a ban.
LEMMA HalvesFields ==
  ASSUME SyncTypeOK, NEW n \in Replicas, NEW m, E!HandleHalves(n, m)
  PROVE  /\ banned' = [banned EXCEPT ![n] = banned[n] \cup {m.from}]
         /\ UNCHANGED <<nonces, packets, log, staged, saturated, told>>
<1>1. m.body.nonce \notin nonces[n]
  BY DEF SyncTypeOK
<1>2. QED BY <1>1 DEF E!HandleHalves, E!logs

\* Each handler keeps the types.
LEMMA HandlerType ==
  ASSUME SyncTypeOK, NEW n \in Replicas, NEW m,
         E!HandleRequest(n, m) \/ E!HandleAnswer(n, m) \/ E!HandleDrill(n, m)
           \/ E!HandleHalves(n, m)
  PROVE  SyncTypeOK'
<1>1. /\ m \in packets /\ PacketOK(m) /\ m.from \in Replicas
      /\ DOMAIN seen' = Replicas /\ quota' = quota
  BY ReceiveFields DEF E!HandleRequest, E!HandleAnswer, E!HandleDrill, E!HandleHalves
<1>2. log[n] \in Seq(Events)
  BY DEF SyncTypeOK
<1>3. CASE E!HandleRequest(n, m)
  <2>1. m.kind = "request" /\ E!Offer(log[n], m.body.vector) \subseteq Events
    BY <1>2, <1>3, OfferType DEF E!HandleRequest, E!Receive
  <2>2. \A p \in packets' : PacketOK(p)
    BY <1>1, <1>3, <2>1 DEF E!HandleRequest, E!Packet, PacketOK, SyncTypeOK
  <2>3. /\ DOMAIN saturated' = Replicas
        /\ \A o \in Replicas : \A x \in saturated'[o] : x.upto \in Nat /\ x.peer \in Replicas
    <3>1. \A v \in m.body.vector : E!Extent(v.known) \subseteq Nat
      BY <1>1, <2>1 DEF PacketOK, E!Extent
    <3>2. \A x \in saturated'[n] :
            x \in saturated[n] \/ (x.upto \in Nat /\ x.peer \in Replicas)
      BY <1>1, <1>3, <3>1 DEF E!HandleRequest, E!Saturate, SyncTypeOK
    <3>3. /\ DOMAIN saturated' = Replicas
          /\ \A o \in Replicas \ {n} : saturated'[o] = saturated[o]
      BY <1>3 DEF E!HandleRequest, E!Saturate, SyncTypeOK
    <3>4. QED BY <3>2, <3>3 DEF SyncTypeOK
  <2>4. QED BY <1>1, <1>3, <2>2, <2>3 DEF E!HandleRequest, E!logs, SyncTypeOK
<1>4. CASE E!HandleAnswer(n, m)
  <2>1. m.kind = "answer" /\ m.body.entries \subseteq Events
    BY <1>1, <1>4 DEF E!HandleAnswer, E!Receive, PacketOK
  <2>2. /\ log' \in [Replicas -> Seq(Events)] /\ staged' \in [Replicas -> SUBSET Events]
        /\ \A o \in Replicas : IsFiniteSet(staged'[o])
    BY <1>4, <2>1, AppendType DEF E!HandleAnswer, E!logs, SyncTypeOK
  <2>3. E!Offer(log'[n], m.body.vector) \subseteq Events
    BY <2>2, OfferType
  <2>4. \A p \in packets' : PacketOK(p)
    BY <1>1, <1>4, <2>3 DEF E!HandleAnswer, E!Packet, PacketOK, SyncTypeOK
  <2>5. QED BY <1>1, <1>4, <2>2, <2>4 DEF E!HandleAnswer, SyncTypeOK
<1>5. CASE E!HandleDrill(n, m)
  <2>1. /\ m.body.orig \in Originators /\ m.body.nonce \in Nonces
        /\ m.body.range \in Spans /\ m.body.range.start < m.body.range.end
    BY <1>1, <1>5 DEF E!HandleDrill, E!Receive, PacketOK, DrillPackets
  <2>2. \A c \in E!Children(log[n], m.body.orig, m.body.range) : c.range \in Spans
    BY <2>1, ChildrenType
  <2>3. \A p \in packets' : PacketOK(p)
    BY <1>1, <1>5, <2>1, <2>2 DEF E!HandleDrill, E!Packet, PacketOK, SyncTypeOK
  <2>4. QED BY <1>1, <1>5, <2>3 DEF E!HandleDrill, E!logs, SyncTypeOK
<1>6. CASE E!HandleHalves(n, m)
  BY <1>1, <1>6, HalvesFields DEF SyncTypeOK
<1>7. QED BY <1>3, <1>4, <1>5, <1>6

LEMMA UseType ==
  ASSUME quota \in Quotas, NEW kind \in {"requests", "drills", "pauses", "restarts"},
         E!Use(kind)
  PROVE  quota' \in Quotas
BY DEF E!Use, Quotas

\* What is sent from outside, and a node that forgets.
LEMMA RequestSyncType ==
  ASSUME SyncTypeOK, NEW n \in Replicas, NEW peer \in Replicas, E!RequestSync(n, peer)
  PROVE  SyncTypeOK'
<1>1. quota' \in Quotas
  BY UseType DEF E!RequestSync, SyncTypeOK
<1>2. \A v \in E!Vector(log[n], offset[n]) : v.known \subseteq Nat
  BY VectorTells, NumbersType DEF SyncTypeOK
<1>3. \A p \in packets' : PacketOK(p)
  BY <1>2 DEF E!RequestSync, E!Packet, PacketOK, SyncTypeOK
<1>4. QED BY <1>1, <1>3 DEF E!RequestSync, E!logs, E!guards, SyncTypeOK

LEMMA StartDrillType ==
  ASSUME SyncTypeOK, NEW n \in Replicas, NEW peer \in Replicas, NEW o \in Originators,
         NEW r \in Drills, E!StartDrill(n, peer, o, r)
  PROVE  SyncTypeOK'
<1> DEFINE nonce == [of |-> quota.drills, range |-> r]
<1>1. quota' \in Quotas /\ quota.drills \in Int
  BY UseType DEF E!StartDrill, SyncTypeOK, Quotas
<1>2. r \in Spans /\ r.start < r.end
  BY SyncConstants
<1>3. nonce \in Nonces
  BY <1>1, <1>2 DEF Nonces
<1>4. PacketOK(E!DrillRequest(n, peer, o, r, nonce))
  BY <1>2, <1>3 DEF PacketOK, E!DrillRequest, E!Packet, DrillPackets
<1>5. packets' = packets \cup {E!DrillRequest(n, peer, o, r, nonce)}
  BY DEF E!StartDrill
<1> HIDE DEF nonce
<1>6. QED
  BY <1>1, <1>4, <1>5 DEF E!StartDrill, E!logs, E!guards, SyncTypeOK

LEMMA ForgetType ==
  ASSUME SyncTypeOK, NEW n \in Replicas, E!Pause(n) \/ E!Restart(n)
  PROVE  SyncTypeOK'
<1>1. quota' \in Quotas
  BY UseType DEF E!Pause, E!Restart, SyncTypeOK
<1>2. CASE E!Pause(n)
  BY <1>1, <1>2 DEF E!Pause, E!logs, SyncTypeOK
<1>3. CASE E!Restart(n)
  BY <1>1, <1>3, FS_EmptySet DEF E!Restart, SyncTypeOK
<1>4. QED BY <1>1, <1>2, <1>3

\* The steps of the two nodes.
Handles(n, m) ==
  E!HandleRequest(n, m) \/ E!HandleAnswer(n, m) \/ E!HandleDrill(n, m) \/ E!HandleHalves(n, m)

LEMMA SyncSteps ==
  ASSUME E!Next
  PROVE  \/ \E n \in Replicas, m \in packets : Handles(n, m)
         \/ \E n, peer \in Replicas : n # peer /\ E!RequestSync(n, peer)
         \/ \E n, peer \in Replicas, o \in Originators, r \in Drills :
              n # peer /\ E!StartDrill(n, peer, o, r)
         \/ \E n \in Replicas : E!Pause(n) \/ E!Restart(n)
BY DEF E!Next, E!Begin, E!Handle, Handles, Replicas

LEMMA SyncTypeStep ==
  ASSUME SyncTypeOK, E!Next
  PROVE  SyncTypeOK'
BY SyncSteps, HandlerType, RequestSyncType, StartDrillType, ForgetType DEF Handles

-----------------------------------------------------------------------------
(* What a peer is known to have.                                            *)

\* A vector tells what its sender has, and still has.
ToldTrue ==
  /\ \A m \in packets : m.kind = "request" =>
       \A v \in m.body.vector : v.known \subseteq E!Numbers(log[m.from], v.orig)
  /\ \A n \in Replicas : \A x \in saturated[n] :
       1..x.upto \subseteq E!Numbers(log[x.peer], x.orig)

LEMMA NumbersGrow ==
  ASSUME NEW l, NEW k, E!ToSet(l) \subseteq E!ToSet(k), NEW o
  PROVE  E!Numbers(l, o) \subseteq E!Numbers(k, o)
BY DEF E!Numbers

\* Logs only grow.
LEMMA LogsGrow ==
  ASSUME SyncTypeOK, E!Next
  PROVE  \A n \in Replicas : E!ToSet(log[n]) \subseteq E!ToSet(log'[n])
<1>1. ASSUME NEW n \in Replicas, NEW m, Handles(n, m), log' # log
      PROVE  \A k \in Replicas : E!ToSet(log[k]) \subseteq E!ToSet(log'[k])
  <2>1. E!HandleAnswer(n, m)
    BY <1>1 DEF Handles, E!HandleRequest, E!HandleDrill, E!HandleHalves, E!logs
  <2>2. m.kind = "answer" /\ PacketOK(m)
    BY <2>1, ReceiveFields DEF E!HandleAnswer
  <2>3. PICK e \in m.body.entries : E!AppendEvent(n, e)
    BY <1>1, <2>1 DEF E!HandleAnswer, E!logs
  <2>4. e \in Events
    BY <2>2 DEF PacketOK
  <2>5. QED BY <2>3, <2>4, AppendType
<1>2. log' = log \/ \E n \in Replicas, m \in packets : Handles(n, m)
  BY SyncSteps
     DEF E!RequestSync, E!StartDrill, E!Pause, E!Restart, E!logs
<1>3. QED BY <1>1, <1>2

\* What a step sends tells what the sender has.
LEMMA RequestsTrue ==
  ASSUME SyncTypeOK, E!Next, NEW p \in packets', p \notin packets, p.kind = "request",
         NEW v \in p.body.vector
  PROVE  v.known \subseteq E!Numbers(log[p.from], v.orig)
<1>1. CASE \E n, peer \in Replicas : E!RequestSync(n, peer)
  <2>1. PICK n \in Replicas, peer \in Replicas : E!RequestSync(n, peer)
    BY <1>1
  <2>2. p = E!Packet("request", n, peer,
                     [rooted |-> TRUE, vector |-> E!Vector(log[n], offset[n])])
    BY <2>1 DEF E!RequestSync
  <2>3. p.from = n /\ v \in E!Vector(log[n], offset[n])
    BY <2>2 DEF E!Packet
  <2>4. QED BY <2>3, VectorTells
<1>2. CASE \E n \in Replicas, m \in packets : E!HandleHalves(n, m)
  BY <1>2, HalvesFields
<1>3. CASE \E n \in Replicas, m \in packets :
             E!HandleRequest(n, m) \/ E!HandleAnswer(n, m) \/ E!HandleDrill(n, m)
  BY <1>3 DEF E!HandleRequest, E!HandleAnswer, E!HandleDrill, E!Packet
<1>4. CASE \E n, peer \in Replicas, o \in Originators, r \in Drills : E!StartDrill(n, peer, o, r)
  BY <1>4 DEF E!StartDrill, E!DrillRequest, E!Packet
<1>5. CASE \E n \in Replicas : E!Pause(n) \/ E!Restart(n)
  BY <1>5 DEF E!Pause, E!Restart
<1>6. QED BY <1>1, <1>2, <1>3, <1>4, <1>5, SyncSteps DEF Handles

\* What a step takes down as known of a peer is what a vector of that peer told.
LEMMA SaturationTold ==
  ASSUME SyncTypeOK, ToldTrue, E!Next, NEW n \in Replicas, NEW x \in saturated'[n],
         x \notin saturated[n]
  PROVE  1..x.upto \subseteq E!Numbers(log[x.peer], x.orig)
<1>1. PICK m \in packets : E!HandleRequest(n, m)
  <2>1. ASSUME NEW k \in Replicas, NEW m, E!HandleRequest(k, m), k # n
        PROVE  saturated'[n] = saturated[n]
    BY <2>1 DEF E!HandleRequest, E!Saturate, SyncTypeOK
  <2>2. ASSUME NEW k \in Replicas, E!Restart(k) \/ E!Pause(k)
        PROVE  saturated'[n] \subseteq saturated[n]
    BY <2>2 DEF E!Restart, E!Pause, SyncTypeOK
  <2>3. ASSUME NEW k \in Replicas, NEW m,
               E!HandleAnswer(k, m) \/ E!HandleDrill(k, m) \/ E!HandleHalves(k, m)
        PROVE  saturated' = saturated
    BY <2>3 DEF E!HandleAnswer, E!HandleDrill, E!HandleHalves
  <2>4. ASSUME NEW k, NEW peer, NEW o, NEW r, E!RequestSync(k, peer) \/ E!StartDrill(k, peer, o, r)
        PROVE  saturated' = saturated
    BY <2>4 DEF E!RequestSync, E!StartDrill, E!guards
  <2>5. QED BY <2>1, <2>2, <2>3, <2>4, SyncSteps DEF Handles
<1>2. m.kind = "request" /\ m.from \in Replicas
  BY <1>1, ReceiveFields DEF E!HandleRequest
<1>3. PICK v \in m.body.vector : \E s \in E!Extent(v.known) :
        x = [peer |-> m.from, orig |-> v.orig, upto |-> s]
  BY <1>1 DEF E!HandleRequest, E!Saturate, SyncTypeOK
<1>4. PICK s \in v.known :
        v.known = 1..s /\ x = [peer |-> m.from, orig |-> v.orig, upto |-> s]
  BY <1>3 DEF E!Extent
<1>5. v.known \subseteq E!Numbers(log[m.from], v.orig)
  BY <1>2 DEF ToldTrue
<1>6. QED BY <1>4, <1>5

LEMMA ToldTrueStep ==
  ASSUME SyncTypeOK, ToldTrue, E!Next
  PROVE  ToldTrue'
<1>1. \A n \in Replicas : \A o : E!Numbers(log[n], o) \subseteq E!Numbers(log'[n], o)
  BY LogsGrow, NumbersGrow
<1>2. SyncTypeOK'
  BY SyncTypeStep
<1>3. ASSUME NEW p \in packets', p.kind = "request", NEW v \in p.body.vector
      PROVE  v.known \subseteq E!Numbers(log'[p.from], v.orig)
  <2>1. v.known \subseteq E!Numbers(log[p.from], v.orig)
    BY <1>3, RequestsTrue DEF ToldTrue
  <2>2. p.from \in Replicas
    BY <1>2 DEF SyncTypeOK, PacketOK
  <2>3. QED BY <1>1, <2>1, <2>2
<1>4. ASSUME NEW n \in Replicas, NEW x \in saturated'[n]
      PROVE  1..x.upto \subseteq E!Numbers(log'[x.peer], x.orig)
  <2>1. 1..x.upto \subseteq E!Numbers(log[x.peer], x.orig)
    BY SaturationTold DEF ToldTrue
  <2>2. x.peer \in Replicas
    BY <1>2 DEF SyncTypeOK
  <2>3. QED BY <1>1, <2>1, <2>2
<1>5. QED BY <1>3, <1>4 DEF ToldTrue

-----------------------------------------------------------------------------
(* The order of the logs as they grow, and the pages of the vectors.        *)

\* The order of the logs, and of what is staged beside them.
LogsInOrder ==
  \A n \in Replicas :
    /\ E!InOrder(log[n])
    /\ \A e \in staged[n] : e.seq > Cardinality(E!Numbers(log[n], e.orig)) + 1

PagesOK ==
  /\ offset \in [Replicas -> Nat] /\ offsetFile \in [Replicas -> Nat]
  /\ \A n \in Replicas : offsetFile[n] < VectorSize + Cardinality(Originators)

LEMMA EventsNumbered ==
  ASSUME NEW l \in Seq(Events), E!InOrder(l), NEW o
  PROVE  Cardinality(E!Numbers(l, o)) \in Nat
<1>1. Len(l) \in Nat
  BY LenProperties
<1>2. QED BY <1>1, NumbersInOrder, PlacesFinite

\* An event that is taken in comes behind those there are, with what was staged behind it;
\* what stays staged is still ahead.
LEMMA OrderAppend ==
  ASSUME SyncTypeOK, LogsInOrder, NEW n \in Replicas, NEW e \in Events, E!AppendEvent(n, e)
  PROVE  LogsInOrder'
<1>1. /\ log \in [Replicas -> Seq(Events)] /\ staged \in [Replicas -> SUBSET Events]
      /\ IsFiniteSet(staged[n]) /\ log[n] \in Seq(Events) /\ E!InOrder(log[n])
  BY DEF SyncTypeOK, LogsInOrder
<1> DEFINE c(o) == Cardinality(E!Numbers(log[n], o))
           k == E!Behind(staged[n], e)
           more == [i \in 1..(k + 1) |-> E!Entry(e.orig, e.seq + i - 1)]
           gone == {E!Entry(e.orig, e.seq + i) : i \in 1..k}
<1>2. \A o : c(o) \in Nat
  BY <1>1, EventsNumbered
<1>3. \A x \in staged[n] : x \in Events /\ x.seq > c(x.orig) + 1
  BY <1>1 DEF LogsInOrder
<1>4. CASE /\ e.seq = c(e.orig) + 1
           /\ log' = [log EXCEPT ![n] = @ \o more]
           /\ staged' = [staged EXCEPT ![n] = @ \ gone]
  <2>1. /\ k \in Nat /\ \A i \in 1..k : E!Entry(e.orig, e.seq + i) \in staged[n]
        /\ E!Entry(e.orig, e.seq + k + 1) \notin staged[n]
    BY <1>1, BehindExists, FS_CardinalityType
  <2>2. more \in Seq(Events) /\ Len(more) = k + 1
        /\ \A i \in 1..(k + 1) : more[i] = E!Entry(e.orig, e.seq + i - 1)
    <3>1. k + 1 \in Nat
      BY <2>1
    <3>2. \A i \in 1..(k + 1) : e.seq + i - 1 \in Nat /\ e.orig \in Originators
      BY <2>1 DEF Events
    <3>3. \A i \in 1..(k + 1) : E!Entry(e.orig, e.seq + i - 1) \in Events
      BY <3>2 DEF E!Entry, Events
    <3> HIDE DEF k
    <3>4. more \in Seq(Events)
      BY <3>1, <3>3, IsASeq
    <3>5. DOMAIN more = 1..(k + 1)
      OBVIOUS
    <3> HIDE DEF more
    <3>6. Len(more) = k + 1
      BY <3>1, <3>4, <3>5, LenProperties
    <3>7. QED BY <3>4, <3>6 DEF more
  <2> HIDE DEF k, more
  <2>3. /\ E!InOrder(log[n] \o more)
        /\ \A o : Cardinality(E!Numbers(log[n] \o more, o)) =
                    c(o) + IF o = e.orig THEN k + 1 ELSE 0
    BY <1>1, <1>4, <2>1, <2>2, BlockInOrder
  <2>4. ASSUME NEW x \in staged[n], x \notin gone
        PROVE  x.seq > c(x.orig) + (IF x.orig = e.orig THEN k + 1 ELSE 0) + 1
    <3>1. x \in Events /\ x.seq > c(x.orig) + 1 /\ c(x.orig) \in Nat /\ x.seq \in Nat
      BY <1>2, <1>3, <2>4 DEF Events
    <3>2. CASE x.orig # e.orig
      <4> HIDE DEF c
      <4>1. QED BY <3>1, <3>2
    <3>3. CASE x.orig = e.orig
      <4>1. x = E!Entry(e.orig, x.seq)
        BY <3>1, <3>3 DEF Events, E!Entry
      <4>2. x.seq > e.seq /\ e.seq \in Nat /\ e.seq = c(e.orig) + 1
        BY <1>4, <3>1, <3>3 DEF Events
      <4>3. ~ (x.seq <= e.seq + k)
        <5>1. SUFFICES ASSUME x.seq <= e.seq + k PROVE FALSE
          OBVIOUS
        <5>2. x.seq - e.seq \in 1..k /\ e.seq + (x.seq - e.seq) = x.seq
          BY <2>1, <3>1, <4>2, <5>1
        <5>3. QED BY <2>4, <4>1, <5>2
      <4>4. x.seq # e.seq + k + 1
        BY <2>1, <2>4, <4>1
      <4> HIDE DEF c, gone
      <4>5. c(x.orig) = c(e.orig)
        BY <3>3
      <4>6. QED BY <2>1, <3>1, <3>3, <4>2, <4>3, <4>4, <4>5
    <3>4. QED BY <3>2, <3>3
  <2>5. /\ log'[n] = log[n] \o more /\ staged'[n] = staged[n] \ gone
        /\ \A m \in Replicas \ {n} : log'[m] = log[m] /\ staged'[m] = staged[m]
    BY <1>1, <1>4
  <2> HIDE DEF gone, c
  <2>6. \A x \in staged'[n] : x.seq > Cardinality(E!Numbers(log'[n], x.orig)) + 1
    BY <2>3, <2>4, <2>5
  <2>7. E!InOrder(log'[n])
    BY <2>3, <2>5
  <2>8. QED BY <2>5, <2>6, <2>7 DEF LogsInOrder
<1>5. CASE /\ e.seq > c(e.orig) + 1
           /\ staged' = [staged EXCEPT ![n] = @ \cup {e}] /\ log' = log
  BY <1>1, <1>5 DEF LogsInOrder
<1>6. CASE log' = log /\ staged' = staged
  BY <1>6 DEF LogsInOrder
<1>7. QED BY <1>4, <1>5, <1>6, SyncCardinality DEF E!AppendEvent, E!logs

LEMMA PageTurned ==
  ASSUME SyncTypeOK, PagesOK, NEW n \in Replicas, E!TurnPage(n)
  PROVE  PagesOK'
<1>1. log[n] \in Seq(Events) /\ offset[n] \in Nat /\ VectorSize \in Nat
  BY DaemonAssumption DEF SyncTypeOK, PagesOK, E!AntiEntropyAssumption
<1> DEFINE a == Cardinality(E!Authors(log[n]))
           next == offset[n] + VectorSize
<1>2. CASE log[n] # <<>>
  <2>1. /\ offset' = [offset EXCEPT ![n] = next]
        /\ offsetFile' = [offsetFile EXCEPT ![n] = next % a]
    BY <1>2, SyncCardinality DEF E!TurnPage
  <2>2. a \in 1..Cardinality(Originators) /\ Cardinality(Originators) \in Nat
    <3>1. Cardinality(Originators) \in Nat
      BY DaemonAssumption, FS_CardinalityType
         DEF E!AntiEntropyAssumption, E!IsFiniteSet, IsFiniteSet
    <3>2. QED BY <1>1, <1>2, <3>1, AuthorsCounted
  <2>3. next \in Nat
    BY <1>1
  <2> HIDE DEF a, next
  <2>4. next % a \in Nat /\ next % a < VectorSize + Cardinality(Originators)
    BY <1>1, <2>2, <2>3
  <2>5. QED BY <2>1, <2>3, <2>4 DEF PagesOK
<1>3. CASE log[n] = <<>>
  BY <1>3 DEF E!TurnPage, E!pages, PagesOK
<1>4. QED BY <1>2, <1>3

LEMMA OrderStep ==
  ASSUME SyncTypeOK, LogsInOrder, PagesOK, E!Next
  PROVE  LogsInOrder' /\ PagesOK'
<1>1. ASSUME NEW n \in Replicas, NEW m, Handles(n, m)
      PROVE  LogsInOrder' /\ PagesOK'
  <2>1. CASE E!HandleRequest(n, m)
    BY <2>1, PageTurned DEF E!HandleRequest, E!logs, LogsInOrder
  <2>2. CASE E!HandleAnswer(n, m)
    <3>1. PacketOK(m) /\ m.kind = "answer"
      BY <2>2, ReceiveFields DEF E!HandleAnswer
    <3>2. UNCHANGED <<log, staged>> \/ \E e \in m.body.entries : E!AppendEvent(n, e)
      BY <2>2 DEF E!HandleAnswer, E!logs
    <3>3. LogsInOrder'
      <4>1. CASE UNCHANGED <<log, staged>>
        BY <4>1 DEF LogsInOrder
      <4>2. CASE \E e \in m.body.entries : E!AppendEvent(n, e)
        BY <3>1, <4>2, OrderAppend DEF PacketOK
      <4>3. QED BY <3>2, <4>1, <4>2
    <3>4. PagesOK'
      BY <2>2 DEF E!HandleAnswer, E!pages, PagesOK
    <3>5. QED BY <3>3, <3>4
  <2>3. CASE E!HandleDrill(n, m) \/ E!HandleHalves(n, m)
    BY <2>3 DEF E!HandleDrill, E!HandleHalves, E!logs, E!pages, LogsInOrder, PagesOK
  <2>4. QED BY <1>1, <2>1, <2>2, <2>3 DEF Handles
<1>2. ASSUME NEW n \in Replicas, NEW peer \in Replicas, E!RequestSync(n, peer)
      PROVE  LogsInOrder' /\ PagesOK'
  BY <1>2, PageTurned DEF E!RequestSync, E!logs, LogsInOrder
<1>3. ASSUME NEW n, NEW peer, NEW o, NEW r, E!StartDrill(n, peer, o, r)
      PROVE  LogsInOrder' /\ PagesOK'
  BY <1>3 DEF E!StartDrill, E!logs, E!pages, LogsInOrder, PagesOK
<1>4. ASSUME NEW n \in Replicas, E!Pause(n)
      PROVE  LogsInOrder' /\ PagesOK'
  BY <1>4 DEF E!Pause, E!logs, E!pages, LogsInOrder, PagesOK
<1>5. ASSUME NEW n \in Replicas, E!Restart(n)
      PROVE  LogsInOrder' /\ PagesOK'
  <2>1. LogsInOrder'
    BY <1>5 DEF E!Restart, LogsInOrder, SyncTypeOK
  <2>2. PagesOK'
    BY <1>5 DEF E!Restart, PagesOK
  <2>3. QED BY <2>1, <2>2
<1>6. QED BY <1>1, <1>2, <1>3, <1>4, <1>5, SyncSteps

LEMMA OrderInit == E!Init => LogsInOrder /\ PagesOK
<1> SUFFICES ASSUME E!Init PROVE LogsInOrder /\ PagesOK
  OBVIOUS
<1>1. /\ log \in Starts /\ staged = [n \in Replicas |-> {}]
      /\ offset = [n \in Replicas |-> 0] /\ offsetFile = [n \in Replicas |-> 0]
  BY DEF E!Init, Replicas
<1>2. /\ \A s \in Starts : \A n \in Replicas : E!InOrder(s[n])
      /\ VectorSize \in Nat \ {0} /\ IsFiniteSet(Originators)
  BY DaemonAssumption DEF E!AntiEntropyAssumption, E!IsFiniteSet, IsFiniteSet, Replicas
<1>3. Cardinality(Originators) \in Nat
  BY <1>2, FS_CardinalityType
<1>4. LogsInOrder
  BY <1>1, <1>2 DEF LogsInOrder
<1>5. PagesOK
  BY <1>1, <1>2, <1>3 DEF PagesOK
<1>6. QED BY <1>4, <1>5

LEMMA SyncTypes ==
  ASSUME LogsInOrder, PagesOK
  PROVE  E!TypeOK
BY SyncCardinality DEF LogsInOrder, PagesOK, E!TypeOK, Replicas

-----------------------------------------------------------------------------
(* The synchronisation as a part of the node.                               *)

SyncInv == SyncTypeOK /\ ToldTrue /\ LogsInOrder /\ PagesOK

LEMMA SyncInit == E!Init => SyncInv
<1> SUFFICES ASSUME E!Init PROVE SyncInv
  OBVIOUS
<1>1. /\ log \in Starts /\ quota \in SyncBudgets /\ packets = {}
      /\ staged = [n \in Replicas |-> {}] /\ saturated = [n \in Replicas |-> {}]
      /\ nonces = [n \in Replicas |-> {}] /\ banned = [n \in Replicas |-> {}]
      /\ seen = [n \in Replicas |-> {}] /\ told = [n \in Replicas |-> {}]
  BY DEF E!Init, Replicas
<1>2. SyncTypeOK
  BY <1>1, SyncConstants, FS_EmptySet DEF SyncTypeOK
<1>3. ToldTrue
  BY <1>1 DEF ToldTrue
<1>4. QED BY <1>2, <1>3, OrderInit DEF SyncInv

\* The other parts of the node leave the logs and the messages alone.
LEMMA SyncStutter ==
  ASSUME SyncInv, UNCHANGED syncVars
  PROVE  SyncInv'
<1>1. /\ UNCHANGED <<log, staged, saturated, nonces, banned>>
      /\ UNCHANGED <<seen, packets, quota, told, offset, offsetFile>>
  BY DEF syncVars
<1>2. SyncTypeOK'
  BY <1>1 DEF SyncInv, SyncTypeOK
<1>3. ToldTrue'
  BY <1>1 DEF SyncInv, ToldTrue
<1>4. LogsInOrder' /\ PagesOK'
  BY <1>1 DEF SyncInv, LogsInOrder, PagesOK
<1>5. QED BY <1>2, <1>3, <1>4 DEF SyncInv

LEMMA SyncPart ==
  ASSUME [Next]_vars
  PROVE  E!Next \/ UNCHANGED syncVars
BY DEF Next, Swarm, Synchronisation, Rating, Proving, Restart, vars, E!Next

LEMMA SyncInvariant == Spec => []SyncInv
<1>1. Init => SyncInv
  BY SyncInit DEF Init
<1>2. ASSUME SyncInv, [Next]_vars
      PROVE  SyncInv'
  <2>1. CASE E!Next
    BY <1>2, <2>1, SyncTypeStep, ToldTrueStep, OrderStep DEF SyncInv
  <2>2. CASE UNCHANGED syncVars
    BY <1>2, <2>2, SyncStutter
  <2>3. QED BY <1>2, <2>1, <2>2, SyncPart
<1>3. QED BY <1>1, <1>2, PTL DEF Spec

\* A drill is left without an answer only when the one who asks has the whole range
\* (is_originator_saturated, handle_merkle_drill_request).
THEOREM SuppressedDrillsHadAll == Spec => []SuppressedHadAll
<1>1. ASSUME SyncInv, NEW q \in packets, q.kind = "drill",
             E!IsSaturated(q.to, q.from, q.body.orig, q.body.range.end)
      PROVE  q.body.range.start..q.body.range.end \subseteq E!Numbers(log[q.from], q.body.orig)
  <2>1. /\ q.to \in Replicas /\ q.body.range.start \in Nat \ {0} /\ q.body.range.end \in Nat
        /\ q.body.range.start < q.body.range.end
    BY <1>1 DEF SyncInv, SyncTypeOK, PacketOK, DrillPackets, Spans
  <2>2. PICK x \in saturated[q.to] :
          x.peer = q.from /\ x.orig = q.body.orig /\ q.body.range.end <= x.upto
    BY <1>1 DEF E!IsSaturated
  <2>3. x.upto \in Nat
    BY <1>1, <2>1 DEF SyncInv, SyncTypeOK
  <2>4. q.body.range.start..q.body.range.end \subseteq 1..x.upto
    BY <2>1, <2>2, <2>3
  <2>5. 1..x.upto \subseteq E!Numbers(log[x.peer], x.orig)
    BY <1>1, <2>1, <2>4 DEF SyncInv, ToldTrue
  <2>6. QED BY <2>2, <2>4, <2>5
<1>2. SyncInv => SuppressedHadAll
  BY <1>1 DEF SuppressedHadAll, E!SuppressedHadAll
<1>3. QED BY <1>2, SyncInvariant, PTL

\* Node n owes nothing to the one who sent the packet q, if it answers with no entry.
Replied(n, q) ==
  q.kind = "request" /\ told'[n] = {} => E!ToSet(log[n]) \subseteq E!ToSet(log[q.from])

LEMMA RequestAnswered ==
  ASSUME SyncInv, NEW n \in Replicas, NEW q, E!HandleRequest(n, q)
  PROVE  Replied(n, q)
<1>1. told'[n] = E!Offer(log[n], q.body.vector)
  BY DEF E!HandleRequest, SyncInv, SyncTypeOK
<1>2. ASSUME told'[n] = {}, NEW e \in E!ToSet(log[n])
      PROVE  e \in E!ToSet(log[q.from])
  <2>1. /\ q \in packets /\ q.kind = "request" /\ q.from \in Replicas
        /\ log \in [Replicas -> Seq(Events)]
    BY ReceiveFields DEF E!HandleRequest, SyncInv, SyncTypeOK
  <2>2. PICK v \in q.body.vector : v.orig = e.orig /\ e.seq \in v.known
    <3>1. E!Offer(log[n], q.body.vector) = {} /\ log[n] \in Seq(Events)
      BY <1>1, <1>2, <2>1
    <3>2. E!Names(q.body.vector, e)
      BY <1>2, <3>1, OfferEmpty
    <3>3. QED BY <3>2 DEF E!Names
  <2>3. e.seq \in E!Numbers(log[q.from], e.orig)
    BY <1>2, <2>1, <2>2 DEF SyncInv, ToldTrue
  <2>4. PICK x \in E!ToSet(log[q.from]) : x.orig = e.orig /\ x.seq = e.seq
    BY <2>3 DEF E!Numbers
  <2>5. e \in Events /\ x \in Events
    BY <1>2, <2>1, ElementOfSeq, LenProperties DEF E!ToSet
  <2>6. e = x
    BY <2>4, <2>5 DEF Events
  <2>7. QED BY <2>6
<1>3. QED BY <1>2 DEF Replied

\* An answer without an entry says the truth: the node that sent its vector has everything
\* that the other has, also of the originators its page did not cover
\* (find_missing_entries_for_peer, handle_range_sync_request).
THEOREM NothingIsOwed == Spec => NothingOwed
<1>1. ASSUME SyncInv, [Next]_vars, NEW n \in Replicas, NEW q \in seen'[n] \ seen[n]
      PROVE  Replied(n, q)
  <2>1. SyncTypeOK
    BY <1>1 DEF SyncInv
  <2>2. ASSUME NEW k \in Replicas, NEW m, Handles(k, m)
        PROVE  Replied(n, q)
    <3>1. k = n /\ m = q
      <4>1. \E kind : E!Receive(k, kind, m)
        BY <2>2
           DEF Handles, E!HandleRequest, E!HandleAnswer, E!HandleDrill, E!HandleHalves
      <4>2. QED BY <1>1, <2>1, <4>1, ReceiveFields
    <3>2. CASE E!HandleRequest(k, m)
      BY <1>1, <3>1, <3>2, RequestAnswered
    <3>3. CASE E!HandleAnswer(k, m) \/ E!HandleDrill(k, m) \/ E!HandleHalves(k, m)
      BY <3>1, <3>3
         DEF Replied, E!HandleAnswer, E!HandleDrill, E!HandleHalves, E!Receive
    <3>4. QED BY <2>2, <3>2, <3>3 DEF Handles
  <2>3. ASSUME NEW k, NEW peer, NEW o, NEW r, E!RequestSync(k, peer) \/ E!StartDrill(k, peer, o, r)
        PROVE  seen' = seen
    BY <2>3 DEF E!RequestSync, E!StartDrill, E!guards
  <2>4. ASSUME NEW k \in Replicas, E!Pause(k) \/ E!Restart(k)
        PROVE  seen'[n] \subseteq seen[n]
    BY <2>1, <2>4 DEF E!Pause, E!Restart, SyncTypeOK
  <2>5. CASE E!Next
    BY <1>1, <2>2, <2>3, <2>4, <2>5, SyncSteps
  <2>6. QED BY <1>1, <2>5, SyncPart DEF syncVars
<1>2. ASSUME SyncInv, [Next]_vars
      PROVE  E!OwedNothing
  BY <1>1, <1>2 DEF Replied, E!OwedNothing, Replicas
<1>3. QED BY <1>2, SyncInvariant, PTL DEF Spec, NothingOwed, E!NothingOwed

-----------------------------------------------------------------------------
(* Ratings.                                                                 *)

VoteRecords == [domain : Domains, action : R!Actions]
Entries == [key : Voters, score : 0..100, headless : BOOLEAN]
Jobs == [trigger : Voters, domain : Domains, demotion : 0..100]
Fines == [voter : Voters, penalty : 1..50]
Marks == [voter : Voters, score : 0..100]
Inserts == [op : {"inserted"}, voter : Voters]
Ratings == {r \in [op : {"rated"}, voter : Voters, prior : 0..100, score : 0..100,
                   domain : Domains, void : BOOLEAN] : r.void => r.score = 0}
Punishments == [op : {"punish"}, todo : SUBSET Fines, got : SUBSET Marks]
Turns == {R!Idle} \cup Inserts \cup Ratings \cup Punishments

VoteTypeOK ==
  /\ votes \in [Voters -> Seq(VoteRecords)]
  /\ index \in [Voters -> [R!Names -> R!Actions \cup {"none"}]]
  /\ book \in [R!Addresses -> Entries \cup {R!NoEntry}]
  /\ \A a \in R!Addresses : book[a] # R!NoEntry => book[a] \in Entries
  /\ task \in [R!Tasks -> Turns]
  /\ queue \in Seq(Jobs) /\ Len(queue) <= QueueSize
  /\ \A t \in R!Tasks : task[t].op = "inserted" => votes[task[t].voter] # <<>>

LEMMA VoteConstants ==
  /\ IsFiniteSet(Voters) /\ IsFiniteSet(Domains)
  /\ GATE \in Nat \ {0} /\ K0 \in Nat /\ QueueSize \in Nat /\ Self \in Voters
  /\ SAMPLE \in Nat \ {0} /\ Scored \subseteq 0..100
  /\ Ballots \subseteq [Voters -> Seq(VoteRecords)]
BY DaemonAssumption DEF R!ReputationAssumption, R!IsFiniteSet, IsFiniteSet, VoteRecords

\* Clean spellings are spellings, and have numbers.
LEMMA NamesType ==
  /\ \A d \in Domains : Clean[d] \in R!Names
  /\ R!Names \subseteq Domains /\ R!Names \subseteq Nat /\ IsFiniteSet(R!Names)
<1>1. /\ \A d \in Domains : Clean[d] \in Domains
      /\ Domains \subseteq Nat
  BY DaemonAssumption DEF R!ReputationAssumption
<1>2. R!Names \in SUBSET Domains /\ \A d \in Domains : Clean[d] \in R!Names
  BY <1>1 DEF R!Names
<1>3. IsFiniteSet(R!Names)
  BY <1>2, VoteConstants, FS_Subset
<1>4. QED BY <1>1, <1>2, <1>3

LEMMA TurnKinds ==
  ASSUME NEW x \in Turns
  PROVE  /\ x.op = "idle" => x = R!Idle
         /\ x.op = "inserted" => x \in Inserts
         /\ x.op = "rated" => x \in Ratings
         /\ x.op = "punish" => x \in Punishments
BY DEF Turns, R!Idle, Inserts, Ratings, Punishments

LEMMA ScoresType ==
  ASSUME VoteTypeOK, NEW v
  PROVE  R!Scores(v) \subseteq 0..100
<1>1. ASSUME NEW a \in R!EntriesOf(v)
      PROVE  book[a].score \in 0..100
  BY <1>1 DEF R!EntriesOf, VoteTypeOK, Entries
<1>2. 50 \in 0..100
  OBVIOUS
<1>3. QED BY <1>1, <1>2 DEF R!Scores

LEMMA ClampType ==
  ASSUME NEW x, NEW high \in Nat
  PROVE  R!Clamp(x, 0, high) \in 0..high
BY DEF R!Clamp

LEMMA FinalScoreType ==
  ASSUME NEW v, NEW h, NEW s \in R!FinalScores(v, h)
  PROVE  s \in 0..100 /\ (h \/ v \in exposed => s = 0)
BY VoteConstants DEF R!FinalScores

\* Half of a demotion by up to 100 points, times a similarity of up to one.
LEMMA PenaltyBound ==
  ASSUME NEW m \in Nat, NEW n \in Nat \ {0}, m <= n, NEW d \in 0..100
  PROVE  (m * d + n) \div (2 * n) \in 0..50
<1>1. m * d \in Nat /\ m * d <= n * d /\ n * d <= n * 100
  OBVIOUS
<1> DEFINE x == m * d
<1>2. x \in Nat /\ x <= 100 * n
  BY <1>1
<1> HIDE DEF x
<1>3. (x + n) \div (2 * n) \in 0..50
  BY <1>2
<1>4. QED BY <1>3 DEF x

\* A score that falls, falls by a hundred at most.
LEMMA FallBound ==
  ASSUME NEW p \in 0..100, NEW s \in 0..100, ~(p - s < 5)
  PROVE  p - s \in 0..100
OBVIOUS

\* Of the domains that two have voted on some are looked at: the first.
LEMMA SampleType ==
  ASSUME NEW u, NEW v
  PROVE  /\ IsFiniteSet(R!CoVoted(u, v)) /\ R!Sampled(u, v) \subseteq R!CoVoted(u, v)
         /\ IsFiniteSet(R!Sampled(u, v))
         /\ R!CoVoted(u, v) # {} => R!Sampled(u, v) # {}
<1>1. R!CoVoted(u, v) \in SUBSET R!Names
  BY DEF R!CoVoted
<1>2. IsFiniteSet(R!CoVoted(u, v)) /\ R!CoVoted(u, v) \in SUBSET Nat
  BY <1>1, NamesType, FS_Subset
<1>3. R!Sampled(u, v) \subseteq R!CoVoted(u, v)
  BY DEF R!Sampled
<1>4. ASSUME R!CoVoted(u, v) # {} PROVE R!Sampled(u, v) # {}
  <2>1. PICK d \in R!CoVoted(u, v) : \A e \in R!CoVoted(u, v) : d <= e
    BY <1>2, <1>4, LeastNumber
  <2>2. {e \in R!CoVoted(u, v) : e < d} = {}
    <3>1. \A e \in R!CoVoted(u, v) : ~(e < d)
      BY <1>2, <2>1
    <3>2. QED BY <3>1
  <2>3. R!Cardinality({}) = 0
    BY FS_EmptySet DEF R!Cardinality, Cardinality
  <2>4. 0 < SAMPLE
    BY VoteConstants
  <2>5. d \in R!Sampled(u, v)
    BY <2>1, <2>2, <2>3, <2>4 DEF R!Sampled
  <2>6. QED BY <2>5
<1>5. QED BY <1>2, <1>3, <1>4, FS_Subset

\* Whoever is punished for a job loses from one to fifty points.
LEMMA PunishType ==
  ASSUME VoteTypeOK, NEW job \in Jobs
  PROVE  R!Punish(job) \in Punishments
<1>1. ASSUME NEW v \in Voters, R!Similar(job.trigger, v),
             R!Penalty(job.trigger, v, job.demotion) > 0
      PROVE  R!Penalty(job.trigger, v, job.demotion) \in 1..50
  <2> DEFINE n == R!Cardinality(R!Sampled(job.trigger, v)) + K0
             m == R!Cardinality(R!Matches(job.trigger, v))
  <2>1. \A s : R!Cardinality(s) = Cardinality(s)
    BY DEF R!Cardinality, Cardinality
  <2>2. /\ R!Matches(job.trigger, v) \subseteq R!Sampled(job.trigger, v)
        /\ IsFiniteSet(R!Sampled(job.trigger, v)) /\ IsFiniteSet(R!Matches(job.trigger, v))
    BY SampleType, FS_Subset DEF R!Matches
  <2>3. R!Sampled(job.trigger, v) # {}
    <3>1. Cardinality(R!CoVoted(job.trigger, v)) # 0
      BY <1>1, <2>1, VoteConstants DEF R!Similar
    <3>2. R!CoVoted(job.trigger, v) # {}
      BY <3>1, FS_EmptySet
    <3>3. QED BY <3>2, SampleType
  <2>4. n \in Nat \ {0} /\ m \in Nat /\ m <= n
    <3>1. /\ Cardinality(R!Sampled(job.trigger, v)) \in Nat
          /\ Cardinality(R!Sampled(job.trigger, v)) # 0
          /\ Cardinality(R!Matches(job.trigger, v)) \in Nat
          /\ Cardinality(R!Matches(job.trigger, v)) <= Cardinality(R!Sampled(job.trigger, v))
      BY <2>2, <2>3, FS_CardinalityType, FS_Subset, FS_EmptySet
    <3>2. QED BY <2>1, <3>1, VoteConstants
  <2>5. job.demotion \in 0..100
    BY DEF Jobs
  <2>6. R!Penalty(job.trigger, v, job.demotion) = (m * job.demotion + n) \div (2 * n)
    BY DEF R!Penalty
  <2> HIDE DEF n, m
  <2>7. R!Penalty(job.trigger, v, job.demotion) \in 0..50
    BY <2>4, <2>5, <2>6, PenaltyBound
  <2>8. QED BY <1>1, <2>7
<1>2. R!Punished(job) \subseteq Fines
  BY <1>1 DEF R!Punished, Fines
<1>3. QED BY <1>2 DEF R!Punish, Punishments

-----------------------------------------------------------------------------
(* Types.                                                                   *)

\* What the index is filled with.
LEMMA FilledType ==
  ASSUME NEW i, R!Filled(i)
  PROVE  i \in [Voters -> [R!Names -> R!Actions \cup {"none"}]]
BY DEF R!Filled

LEMMA VoteInit == R!Init => VoteTypeOK
<1> SUFFICES ASSUME R!Init PROVE VoteTypeOK
  OBVIOUS
<1>1. /\ votes \in Ballots /\ R!Filled(index)
      /\ book = [a \in R!Addresses |-> R!NoEntry]
      /\ task = [t \in R!Tasks |-> R!Idle] /\ queue = <<>>
  BY DEF R!Init
<1>2. <<>> \in Seq(Jobs) /\ Len(<<>>) <= QueueSize
  BY EmptySeq, VoteConstants
<1>3. R!Idle.op = "idle" /\ R!Idle \in Turns
  BY DEF R!Idle, Turns
<1>4. QED BY <1>1, <1>2, <1>3, FilledType, VoteConstants DEF VoteTypeOK

\* A step of one task.
LEMMA TurnType ==
  ASSUME VoteTypeOK, NEW t \in R!Tasks, NEW x \in Turns, R!Turn(t, x),
         x.op # "inserted", votes' = votes
  PROVE  /\ task' \in [R!Tasks -> Turns]
         /\ \A u \in R!Tasks : task'[u].op = "inserted" => votes'[task'[u].voter] # <<>>
BY DEF VoteTypeOK, R!Turn

LEMMA UpdatedType ==
  ASSUME VoteTypeOK, NEW v, NEW s \in 0..100, book' = R!Updated(v, s)
  PROVE  /\ book' \in [R!Addresses -> Entries \cup {R!NoEntry}]
         /\ \A a \in R!Addresses : book'[a] # R!NoEntry => book'[a] \in Entries
<1>1. R!Least(s, 100) = s
  BY DEF R!Least
<1>2. ASSUME NEW a \in R!Addresses, a \in R!EntriesOf(v)
      PROVE  [book[a] EXCEPT !.score = s] \in Entries
  <2>1. book[a] \in Entries
    BY <1>2 DEF VoteTypeOK, R!EntriesOf
  <2>2. QED BY <2>1 DEF Entries
<1>3. QED BY <1>1, <1>2 DEF VoteTypeOK, R!Updated

LEMMA AcceptType ==
  ASSUME VoteTypeOK, NEW v \in Voters, NEW d \in Domains, NEW b \in R!Actions, R!Accept(v, d, b)
  PROVE  VoteTypeOK'
<1> DEFINE ballot == [domain |-> d, action |-> b]
<1>1. /\ votes' = [votes EXCEPT ![v] = Append(votes[v], ballot)]
      /\ index' = R!Indexed(v, d, b) /\ R!Turn(R!Reader(v), [op |-> "inserted", voter |-> v])
      /\ UNCHANGED <<book, queue>>
  BY DEF R!Accept
<1>2. ballot \in VoteRecords /\ votes[v] \in Seq(VoteRecords)
  BY DEF VoteRecords, VoteTypeOK
<1> HIDE DEF ballot
<1>3. Append(votes[v], ballot) \in Seq(VoteRecords) /\ Append(votes[v], ballot) # <<>>
  BY <1>2, AppendProperties, EmptySeq
<1>4. votes' \in [Voters -> Seq(VoteRecords)] /\ votes'[v] # <<>>
      /\ \A u \in Voters : votes[u] # <<>> => votes'[u] # <<>>
  BY <1>1, <1>3 DEF VoteTypeOK
<1>5. index' \in [Voters -> [R!Names -> R!Actions \cup {"none"}]]
  BY <1>1, NamesType DEF VoteTypeOK, R!Indexed
<1>6. [op |-> "inserted", voter |-> v] \in Turns
  BY DEF Turns, Inserts
<1>7. task' \in [R!Tasks -> Turns]
  BY <1>1, <1>6 DEF VoteTypeOK, R!Turn
<1>8. ASSUME NEW u \in R!Tasks, task'[u].op = "inserted"
      PROVE  votes'[task'[u].voter] # <<>>
  <2>1. CASE u = R!Reader(v)
    BY <1>1, <1>4, <2>1 DEF VoteTypeOK, R!Turn
  <2>2. CASE u # R!Reader(v)
    <3>1. task'[u] = task[u] /\ task[u] \in Turns
      BY <1>1, <2>2 DEF VoteTypeOK, R!Turn
    <3>2. task[u].voter \in Voters
      BY <1>8, <3>1, TurnKinds DEF Inserts
    <3>3. QED BY <1>4, <1>8, <3>1, <3>2 DEF VoteTypeOK
  <2>3. QED BY <2>1, <2>2
<1>9. QED BY <1>1, <1>4, <1>5, <1>7, <1>8 DEF VoteTypeOK

LEMMA RateType ==
  ASSUME VoteTypeOK, NEW t \in R!Tasks, R!Rate(t)
  PROVE  VoteTypeOK'
<1> DEFINE v == task[t].voter
<1>1. task[t].op = "inserted" /\ UNCHANGED <<votes, index, book, queue>>
  BY DEF R!Rate
<1>2. task[t] \in Inserts /\ votes[v] # <<>> /\ votes[v] \in Seq(VoteRecords)
  BY <1>1, TurnKinds DEF VoteTypeOK, Inserts
<1>3. v \in Voters
  BY <1>2 DEF Inserts
<1>4. votes[v][Len(votes[v])].domain \in Domains
  <2>1. Len(votes[v]) \in 1..Len(votes[v])
    BY <1>2, EmptySeq, LenProperties
  <2>2. votes[v][Len(votes[v])] \in VoteRecords
    BY <1>2, <2>1, ElementOfSeq
  <2>3. QED BY <2>2 DEF VoteRecords
<1>5. PICK prior \in R!Scores(v), headless \in R!MayBeHeadless(v) :
        \E score \in R!FinalScores(v, headless) :
          R!Turn(t, [op |-> "rated", voter |-> v, prior |-> prior, score |-> score,
                     domain |-> votes[v][Len(votes[v])].domain,
                     void |-> headless \/ v \in exposed])
  BY DEF R!Rate
<1>6. headless \in BOOLEAN
  BY <1>5 DEF R!MayBeHeadless, R!EntriesOf, VoteTypeOK, Entries
<1>7. PICK score \in R!FinalScores(v, headless) :
        R!Turn(t, [op |-> "rated", voter |-> v, prior |-> prior, score |-> score,
                   domain |-> votes[v][Len(votes[v])].domain,
                   void |-> headless \/ v \in exposed])
  BY <1>5
<1> DEFINE x == [op |-> "rated", voter |-> v, prior |-> prior, score |-> score,
                 domain |-> votes[v][Len(votes[v])].domain, void |-> headless \/ v \in exposed]
<1>8. x \in Ratings
  BY <1>3, <1>4, <1>5, <1>6, ScoresType, FinalScoreType DEF Ratings
<1>9. x \in Turns /\ x.op # "inserted"
  BY <1>8 DEF Turns
<1>10. R!Turn(t, x)
  BY <1>7
<1> HIDE DEF x
<1>11. QED BY <1>1, <1>9, <1>10, TurnType DEF VoteTypeOK

LEMMA WriteType ==
  ASSUME VoteTypeOK, NEW t \in R!Tasks, R!Write(t)
  PROVE  VoteTypeOK'
<1> DEFINE r == task[t]
           job == [trigger |-> r.voter, domain |-> r.domain, demotion |-> r.prior - r.score]
<1>1. /\ r.op = "rated" /\ book' = R!Updated(r.voter, r.score) /\ UNCHANGED <<votes, index>>
      /\ \/ R!Turn(t, R!Idle) /\ UNCHANGED queue
         \/ /\ ~(job.demotion < 5) /\ Len(queue) < QueueSize
            /\ R!Turn(t, R!Idle) /\ queue' = Append(queue, job)
         \/ ~(job.demotion < 5) /\ R!Turn(t, R!Punish(job)) /\ UNCHANGED queue
  BY DEF R!Write
<1>2. r \in Ratings
  BY <1>1, TurnKinds DEF VoteTypeOK
<1>3. r.score \in 0..100 /\ (~(job.demotion < 5) => job \in Jobs)
  <2>1. /\ r.voter \in Voters /\ r.domain \in Domains
        /\ r.prior \in 0..100 /\ r.score \in 0..100
    BY <1>2 DEF Ratings
  <2>2. ~(job.demotion < 5) => job.demotion \in 0..100
    BY <2>1, FallBound
  <2>3. QED BY <2>1, <2>2 DEF Jobs
<1>4. /\ job \in Jobs => R!Punish(job) \in Turns /\ R!Punish(job).op # "inserted"
      /\ R!Idle \in Turns /\ R!Idle.op # "inserted"
  BY PunishType DEF Turns, R!Idle, Punishments
<1> HIDE DEF job
<1>5. queue' \in Seq(Jobs) /\ Len(queue') <= QueueSize
  <2>1. queue \in Seq(Jobs) /\ Len(queue) \in Nat /\ Len(queue) <= QueueSize
    BY LenProperties DEF VoteTypeOK
  <2>2. job \in Jobs => /\ Append(queue, job) \in Seq(Jobs)
                        /\ Len(Append(queue, job)) = Len(queue) + 1
    BY <2>1, AppendProperties
  <2>3. QED BY <1>1, <1>3, <2>1, <2>2, VoteConstants
<1> HIDE DEF r
<1>6. /\ task' \in [R!Tasks -> Turns]
      /\ \A u \in R!Tasks : task'[u].op = "inserted" => votes'[task'[u].voter] # <<>>
  BY <1>1, <1>3, <1>4, TurnType
<1>7. /\ book' \in [R!Addresses -> Entries \cup {R!NoEntry}]
      /\ \A a \in R!Addresses : book'[a] # R!NoEntry => book'[a] \in Entries
  BY <1>1, <1>3, UpdatedType
<1>8. QED BY <1>1, <1>5, <1>6, <1>7 DEF VoteTypeOK

LEMMA TakeJobType ==
  ASSUME VoteTypeOK, R!TakeJob
  PROVE  VoteTypeOK'
<1>1. /\ queue # <<>> /\ R!Turn("worker", R!Punish(Head(queue))) /\ queue' = Tail(queue)
      /\ UNCHANGED <<votes, index, book>> /\ "worker" \in R!Tasks
  BY DEF R!TakeJob, R!Tasks
<1>2. queue \in Seq(Jobs)
  BY DEF VoteTypeOK
<1>3. Head(queue) \in Jobs /\ Tail(queue) \in Seq(Jobs) /\ Len(Tail(queue)) <= QueueSize
  <2>1. /\ Head(queue) \in Jobs /\ Tail(queue) \in Seq(Jobs)
        /\ Len(queue) \in Nat /\ Len(Tail(queue)) = Len(queue) - 1 /\ Len(queue) <= QueueSize
    BY <1>1, <1>2, HeadTailProperties, LenProperties DEF VoteTypeOK
  <2>2. QED BY <2>1, VoteConstants
<1>4. R!Punish(Head(queue)) \in Turns /\ R!Punish(Head(queue)).op # "inserted"
  BY <1>3, PunishType DEF Turns, Punishments
<1>5. /\ task' \in [R!Tasks -> Turns]
      /\ \A u \in R!Tasks : task'[u].op = "inserted" => votes'[task'[u].voter] # <<>>
  BY <1>1, <1>4, TurnType
<1>6. QED BY <1>1, <1>3, <1>5 DEF VoteTypeOK

\* What a job writes is between 0 and 100.
LEMMA ReadScoreType ==
  ASSUME VoteTypeOK, NEW t \in R!Tasks, R!ReadScore(t)
  PROVE  VoteTypeOK'
<1>1. /\ task[t].op = "punish" /\ UNCHANGED <<votes, index, book, queue>>
  BY DEF R!ReadScore
<1>2. PICK x \in task[t].todo : \E prior \in R!Scores(x.voter) :
        R!Turn(t, [op |-> "punish", todo |-> task[t].todo \ {x},
                   got |-> {[voter |-> x.voter, score |-> R!Clamp(prior - x.penalty, 0, 100)]}])
  BY DEF R!ReadScore
<1>3. PICK prior \in R!Scores(x.voter) :
        R!Turn(t, [op |-> "punish", todo |-> task[t].todo \ {x},
                   got |-> {[voter |-> x.voter, score |-> R!Clamp(prior - x.penalty, 0, 100)]}])
  BY <1>2
<1>4. task[t] \in Punishments
  BY <1>1, TurnKinds DEF VoteTypeOK
<1>5. R!Clamp(prior - x.penalty, 0, 100) \in 0..100
  BY ClampType
<1> DEFINE s == R!Clamp(prior - x.penalty, 0, 100)
           y == [op |-> "punish", todo |-> task[t].todo \ {x},
                 got |-> {[voter |-> x.voter, score |-> s]}]
<1>6. R!Turn(t, y) /\ s \in 0..100
  BY <1>3, <1>5
<1> HIDE DEF s
<1>7. y \in Punishments
  BY <1>2, <1>4, <1>6 DEF Punishments, Fines, Marks
<1>8. y \in Turns /\ y.op # "inserted"
  BY <1>7 DEF Turns
<1> HIDE DEF y
<1>9. QED BY <1>1, <1>6, <1>8, TurnType DEF VoteTypeOK

LEMMA WriteScoreType ==
  ASSUME VoteTypeOK, NEW t \in R!Tasks, R!WriteScore(t)
  PROVE  VoteTypeOK'
<1>1. /\ task[t].op = "punish" /\ UNCHANGED <<votes, index, queue>>
      /\ R!Turn(t, [task[t] EXCEPT !.got = {}])
  BY DEF R!WriteScore
<1>2. PICK g \in task[t].got : book' = R!Updated(g.voter, g.score)
  BY DEF R!WriteScore
<1>3. task[t] \in Punishments
  BY <1>1, TurnKinds DEF VoteTypeOK
<1>4. g.score \in 0..100
  BY <1>2, <1>3 DEF Punishments, Marks
<1> DEFINE y == [task[t] EXCEPT !.got = {}]
<1>5. y \in Punishments
  BY <1>3 DEF Punishments
<1>6. y \in Turns /\ y.op # "inserted"
  BY <1>5 DEF Turns, Punishments
<1> HIDE DEF y
<1>7. /\ task' \in [R!Tasks -> Turns]
      /\ \A u \in R!Tasks : task'[u].op = "inserted" => votes'[task'[u].voter] # <<>>
  BY <1>1, <1>6, TurnType DEF y
<1>8. /\ book' \in [R!Addresses -> Entries \cup {R!NoEntry}]
      /\ \A a \in R!Addresses : book'[a] # R!NoEntry => book'[a] \in Entries
  BY <1>2, <1>4, UpdatedType
<1>9. QED BY <1>1, <1>7, <1>8 DEF VoteTypeOK

LEMMA EndJobType ==
  ASSUME VoteTypeOK, NEW t \in R!Tasks, R!EndJob(t)
  PROVE  VoteTypeOK'
<1>1. R!Turn(t, R!Idle) /\ UNCHANGED <<votes, index, book, queue>>
  BY DEF R!EndJob
<1>2. R!Idle \in Turns /\ R!Idle.op # "inserted"
  BY DEF Turns, R!Idle
<1>3. QED BY <1>1, <1>2, TurnType DEF VoteTypeOK

LEMMA UpsertType ==
  ASSUME VoteTypeOK, NEW v \in Voters, NEW a \in Homes[v], NEW h \in BOOLEAN, R!Upsert(v, a, h)
  PROVE  VoteTypeOK'
<1>1. /\ book' = [book EXCEPT ![a] = [key |-> v, score |-> 50, headless |-> h]]
      /\ UNCHANGED <<votes, index, task, queue>>
  BY DEF R!Upsert
<1>2. [key |-> v, score |-> 50, headless |-> h] \in Entries
  BY DEF Entries
<1>3. a \in R!Addresses
  BY DEF R!Addresses
<1>4. /\ book' \in [R!Addresses -> Entries \cup {R!NoEntry}]
      /\ \A b \in R!Addresses : book'[b] # R!NoEntry => book'[b] \in Entries
  BY <1>1, <1>2, <1>3 DEF VoteTypeOK
<1>5. QED BY <1>1, <1>4 DEF VoteTypeOK

LEMMA ReopenType ==
  ASSUME VoteTypeOK, R!Reopen
  PROVE  VoteTypeOK'
<1>1. /\ task' = [t \in R!Tasks |-> R!Idle] /\ queue' = <<>> /\ UNCHANGED <<votes, book>>
      /\ index' \in [Voters -> [R!Names -> R!Actions \cup {"none"}]]
  BY FilledType DEF R!Reopen
<1>2. R!Idle \in Turns /\ R!Idle.op # "inserted"
      /\ <<>> \in Seq(Jobs) /\ Len(<<>>) <= QueueSize
  BY EmptySeq, VoteConstants DEF Turns, R!Idle
<1>3. QED BY <1>1, <1>2 DEF VoteTypeOK

\* What the part of the node that rates may do.
LEMMA VoteSteps ==
  ASSUME R!Next
  PROVE  \/ \E v \in Voters, d \in Domains, b \in R!Actions : R!Accept(v, d, b)
         \/ \E v \in Voters, h \in BOOLEAN : \E a \in Homes[v] : R!Upsert(v, a, h)
         \/ \E v \in Voters : R!Expose(v)
         \/ \E t \in R!Tasks : R!Rate(t) \/ R!Write(t)
         \/ \E t \in R!Tasks : R!ReadScore(t) \/ R!WriteScore(t) \/ R!EndJob(t)
         \/ R!TakeJob \/ R!Reopen
BY VoteConstants, NamesType DEF R!Next, R!Receive, R!Work

LEMMA VoteTypeStep ==
  ASSUME VoteTypeOK, R!Next
  PROVE  VoteTypeOK'
<1>1. ASSUME NEW v \in Voters, R!Expose(v)
      PROVE  VoteTypeOK'
  BY <1>1 DEF R!Expose, VoteTypeOK
<1>2. QED BY <1>1, VoteSteps, AcceptType, UpsertType, RateType, WriteType, ReadScoreType,
             WriteScoreType, EndJobType, TakeJobType, ReopenType

-----------------------------------------------------------------------------
(* The index.                                                               *)

\* The greatest of the numbers up to a bound that are in a set.
LEMMA GreatestNumber ==
  ASSUME NEW n \in Nat, NEW C \in SUBSET (1..n), C # {}
  PROVE  R!Max(C) \in C
<1> DEFINE A == {k \in Nat : n - k \in C}
<1>1. PICK c \in C : TRUE
  OBVIOUS
<1>2. n - c \in A
  BY <1>1
<1>3. PICK k \in A : \A l \in A : k <= l
  <2>1. A \in SUBSET Nat /\ A # {}
    BY <1>2
  <2> HIDE DEF A
  <2>2. QED BY <2>1, LeastNumber
<1>4. \A x \in C : n - k >= x
  <2>1. ASSUME NEW x \in C PROVE n - k >= x
    <3>1. n - x \in A
      OBVIOUS
    <3>2. k <= n - x
      BY <1>3, <3>1
    <3>3. QED BY <1>3, <3>2
  <2>2. QED BY <2>1
<1>5. \E m \in C : \A x \in C : m >= x
  BY <1>3, <1>4
<1>6. QED BY <1>5 DEF R!Max

\* The numbers of the votes of a voter on a domain.
LEMMA UnderNumbers ==
  ASSUME VoteTypeOK, NEW v \in Voters, NEW d
  PROVE  /\ votes[v] \in Seq(VoteRecords) /\ Len(votes[v]) \in Nat
         /\ DOMAIN votes[v] = 1..Len(votes[v])
         /\ R!Under(v, d) \in SUBSET (1..Len(votes[v]))
         /\ R!Under(v, d) # {} => R!Max(R!Under(v, d)) \in R!Under(v, d)
         /\ \A k \in R!Under(v, d) : votes[v][k].action # "none"
<1>1. votes[v] \in Seq(VoteRecords) /\ Len(votes[v]) \in Nat /\ DOMAIN votes[v] = 1..Len(votes[v])
  BY LenProperties DEF VoteTypeOK
<1>2. R!Under(v, d) \in SUBSET (1..Len(votes[v]))
  BY <1>1 DEF R!Under
<1>3. ASSUME NEW k \in R!Under(v, d) PROVE votes[v][k].action # "none"
  <2>1. votes[v][k] \in VoteRecords
    BY <1>1, <1>2, ElementOfSeq
  <2>2. QED BY <2>1 DEF VoteRecords, R!Actions
<1>4. QED BY <1>1, <1>2, <1>3, GreatestNumber

\* A vote that comes in is the last of its voter on its domain, and the others stay what
\* they are.
LEMMA AcceptIndex ==
  ASSUME VoteTypeOK, NEW v \in Voters, NEW d \in Domains, NEW b \in R!Actions, R!Accept(v, d, b),
         NEW u \in Voters, NEW e \in R!Names
  PROVE  /\ u = v /\ e = Clean[d] =>
              R!Under(u, e)' # {} /\ votes'[u][R!Max(R!Under(u, e)')].action = b
         /\ ~(u = v /\ e = Clean[d]) =>
              /\ R!Under(u, e)' = R!Under(u, e)
              /\ R!Under(u, e) # {} =>
                   votes'[u][R!Max(R!Under(u, e))] = votes[u][R!Max(R!Under(u, e))]
<1> DEFINE ballot == [domain |-> d, action |-> b]
           n == Len(votes[v])
<1>1. votes' = [votes EXCEPT ![v] = Append(votes[v], ballot)]
  BY DEF R!Accept
<1>2. votes[v] \in Seq(VoteRecords) /\ n \in Nat /\ DOMAIN votes[v] = 1..n
  BY UnderNumbers
<1>3. ballot \in VoteRecords
  BY DEF VoteRecords
<1>4. /\ DOMAIN votes'[v] = 1..(n + 1) /\ votes'[v][n + 1] = ballot
      /\ \A i \in 1..n : votes'[v][i] = votes[v][i]
  <2>1. votes'[v] = Append(votes[v], ballot)
    BY <1>1 DEF VoteTypeOK
  <2> HIDE DEF ballot
  <2>2. /\ Append(votes[v], ballot) \in Seq(VoteRecords) /\ Len(Append(votes[v], ballot)) = n + 1
        /\ Append(votes[v], ballot)[n + 1] = ballot
        /\ \A i \in 1..n : Append(votes[v], ballot)[i] = votes[v][i]
    BY <1>2, <1>3, AppendProperties
  <2>3. QED BY <2>1, <2>2, LenProperties
<1>5. CASE u = v /\ e = Clean[d]
  <2>1. R!Under(v, e)' = R!Under(v, e) \cup {n + 1}
    BY <1>2, <1>4, <1>5 DEF R!Under
  <2>2. R!Max(R!Under(v, e) \cup {n + 1}) = n + 1
    <3>1. R!Under(v, e) \in SUBSET (1..n)
      BY UnderNumbers
    <3> DEFINE C == R!Under(v, e) \cup {n + 1}
    <3>2. n + 1 \in C /\ \A x \in C : n + 1 >= x /\ x \in Int
      BY <1>2, <3>1
    <3> HIDE DEF C
    <3>3. ASSUME NEW y \in C, \A x \in C : y >= x
          PROVE  y = n + 1
      BY <1>2, <3>2, <3>3
    <3>4. R!Max(C) = n + 1
      BY <3>2, <3>3 DEF R!Max
    <3>5. QED BY <3>4 DEF C
  <2>3. QED BY <1>4, <1>5, <2>1, <2>2
<1>6. CASE u = v /\ e # Clean[d]
  <2>1. R!Under(v, e)' = R!Under(v, e)
    BY <1>2, <1>4, <1>6 DEF R!Under
  <2>2. R!Under(v, e) # {} =>
          votes'[v][R!Max(R!Under(v, e))] = votes[v][R!Max(R!Under(v, e))]
    BY <1>4, UnderNumbers
  <2>3. QED BY <1>6, <2>1, <2>2
<1>7. CASE u # v
  <2>1. votes'[u] = votes[u]
    BY <1>1, <1>7 DEF VoteTypeOK
  <2>2. QED BY <1>7, <2>1 DEF R!Under
<1>8. QED BY <1>5, <1>6, <1>7

IndexInv == VoteTypeOK /\ R!IndexFollows

\* What the index is filled with, is what it follows after a start.
LEMMA FilledFollows ==
  ASSUME VoteTypeOK, NEW i, R!Filled(i), NEW v \in Voters, NEW d \in R!Names
  PROVE  i[v][d] = "none" <=> R!Under(v, d) = {}
<1>1. IF R!Under(v, d) = {} THEN i[v][d] = "none"
      ELSE \E k \in R!Under(v, d) : i[v][d] = votes[v][k].action
  BY DEF R!Filled
<1>2. QED BY <1>1, UnderNumbers

LEMMA IndexQuiet ==
  ASSUME R!IndexFollows, UNCHANGED <<votes, index, reopened>>
  PROVE  R!IndexFollows'
<1>1. \A v \in Voters, d \in R!Names : R!Under(v, d)' = R!Under(v, d)
  BY DEF R!Under
<1>2. R!Names' = R!Names
  BY DEF R!Names
<1>3. QED BY <1>1, <1>2 DEF R!IndexFollows

LEMMA IndexStep ==
  ASSUME IndexInv, R!Next
  PROVE  R!IndexFollows'
<1>1. VoteTypeOK /\ R!IndexFollows
  BY DEF IndexInv
<1>2. ASSUME NEW v \in Voters, NEW d \in Domains, NEW b \in R!Actions, R!Accept(v, d, b)
      PROVE  R!IndexFollows'
  <2>1. index' = [index EXCEPT ![v][Clean[d]] = b] /\ reopened' = reopened
    BY <1>2 DEF R!Accept, R!Indexed
  <2>2. b # "none"
    BY DEF R!Actions
  <2>3. ASSUME NEW u \in Voters, NEW e \in R!Names
        PROVE  /\ ~reopened' /\ R!Under(u, e)' # {} =>
                    index'[u][e] = votes'[u][R!Max(R!Under(u, e)')].action
               /\ index'[u][e] = "none" <=> R!Under(u, e)' = {}
    <3>1. index'[u][e] = IF u = v /\ e = Clean[d] THEN b ELSE index[u][e]
      BY <1>1, <2>1, NamesType DEF VoteTypeOK
    <3>2. /\ ~reopened /\ R!Under(u, e) # {} =>
               index[u][e] = votes[u][R!Max(R!Under(u, e))].action
          /\ index[u][e] = "none" <=> R!Under(u, e) = {}
      BY <1>1 DEF R!IndexFollows
    <3>3. CASE u = v /\ e = Clean[d]
      <4>1. R!Under(u, e)' # {} /\ votes'[u][R!Max(R!Under(u, e)')].action = b
        BY <1>1, <1>2, <3>3, AcceptIndex
      <4>2. QED BY <2>2, <3>1, <3>3, <4>1
    <3>4. CASE ~(u = v /\ e = Clean[d])
      <4>1. /\ R!Under(u, e)' = R!Under(u, e)
            /\ R!Under(u, e) # {} =>
                 votes'[u][R!Max(R!Under(u, e))] = votes[u][R!Max(R!Under(u, e))]
        BY <1>1, <1>2, <3>4, AcceptIndex
      <4>2. index'[u][e] = index[u][e]
        BY <3>1, <3>4
      <4>3. QED BY <2>1, <3>2, <4>1, <4>2
    <3>5. QED BY <3>3, <3>4
  <2>4. R!Names' = R!Names
    BY DEF R!Names
  <2>5. QED BY <2>3, <2>4 DEF R!IndexFollows
<1>3. ASSUME R!Reopen
      PROVE  R!IndexFollows'
  <2>1. reopened' = TRUE /\ votes' = votes /\ R!Filled(index')
    BY <1>3 DEF R!Reopen
  <2>2. \A v \in Voters, d \in R!Names : index'[v][d] = "none" <=> R!Under(v, d) = {}
    BY <1>1, <2>1, FilledFollows
  <2>3. R!Names' = R!Names /\ \A v \in Voters, d \in R!Names : R!Under(v, d)' = R!Under(v, d)
    BY <2>1 DEF R!Under, R!Names
  <2>4. QED BY <2>1, <2>2, <2>3 DEF R!IndexFollows
<1>4. ASSUME NEW v \in Voters, NEW a, NEW h, R!Upsert(v, a, h) \/ R!Expose(v)
      PROVE  R!IndexFollows'
  BY <1>1, <1>4, IndexQuiet DEF R!Upsert, R!Expose
<1>5. ASSUME NEW t, R!Rate(t) \/ R!Write(t) \/ R!ReadScore(t) \/ R!WriteScore(t) \/ R!EndJob(t)
      PROVE  R!IndexFollows'
  <2>1. UNCHANGED <<votes, index, reopened>>
    BY <1>5 DEF R!Rate, R!Write, R!ReadScore, R!WriteScore, R!EndJob
  <2>2. QED BY <1>1, <2>1, IndexQuiet
<1>6. ASSUME R!TakeJob
      PROVE  R!IndexFollows'
  BY <1>1, <1>6, IndexQuiet DEF R!TakeJob
<1>7. QED BY <1>2, <1>3, <1>4, <1>5, <1>6, VoteSteps

-----------------------------------------------------------------------------
(* Those who weigh nothing.                                                 *)

\* A penalty that is being subtracted from nothing gives nothing.
SilenceInv ==
  \A v \in silenced :
    /\ \A a \in R!EntriesOf(v) : book[a].score = 0
    /\ R!EntriesOf(v) # {} =>
         \A t \in R!Tasks : task[t].op = "punish" =>
           \A g \in task[t].got : g.voter = v => g.score = 0

LEMMA EntriesUpdated ==
  ASSUME VoteTypeOK, NEW v, NEW s \in 0..100, book' = R!Updated(v, s), NEW u
  PROVE  /\ R!EntriesOf(u)' = R!EntriesOf(u)
         /\ \A a \in R!EntriesOf(u) :
              book'[a].score = IF a \in R!EntriesOf(v) THEN s ELSE book[a].score
<1>1. R!Least(s, 100) = s
  BY DEF R!Least
<1>2. ASSUME NEW a \in R!Addresses
      PROVE  /\ book'[a] # R!NoEntry <=> book[a] # R!NoEntry
             /\ book[a] # R!NoEntry =>
                  /\ book'[a].key = book[a].key
                  /\ book'[a].score = IF a \in R!EntriesOf(v) THEN s ELSE book[a].score
  <2>1. book'[a] = IF a \in R!EntriesOf(v) THEN [book[a] EXCEPT !.score = s] ELSE book[a]
    BY <1>1 DEF R!Updated
  <2>2. a \in R!EntriesOf(v) => book[a] # R!NoEntry /\ book[a] \in Entries
    BY DEF R!EntriesOf, VoteTypeOK
  <2>3. book[a] \in Entries =>
          /\ [book[a] EXCEPT !.score = s].key = book[a].key
          /\ [book[a] EXCEPT !.score = s].score = s
          /\ [book[a] EXCEPT !.score = s] # R!NoEntry
    BY DEF Entries, R!NoEntry
  <2>4. QED BY <2>1, <2>2, <2>3
<1>3. QED BY <1>2 DEF R!EntriesOf

\* Entries of two keys are not the same.
LEMMA EntriesApart == \A u, v : \A a : a \in R!EntriesOf(u) /\ a \in R!EntriesOf(v) => u = v
BY DEF R!EntriesOf

\* A step that silences nobody, leaves the phonebook, and starts to subtract nothing.
LEMMA SilenceQuiet ==
  ASSUME SilenceInv, silenced' \subseteq silenced, book' = book,
         \A t \in R!Tasks : task'[t].op = "punish" => task'[t].got = {} \/ task'[t] = task[t]
  PROVE  SilenceInv'
<1>1. \A v : R!EntriesOf(v)' = R!EntriesOf(v)
  BY DEF R!EntriesOf
<1>2. QED BY <1>1 DEF SilenceInv

LEMMA SilenceWrite ==
  ASSUME VoteTypeOK, SilenceInv, NEW t \in R!Tasks, R!Write(t)
  PROVE  SilenceInv'
<1> DEFINE r == task[t]
           undone == \E u \in R!Tasks : task[u].op = "punish"
                                          /\ \E g \in task[u].got : g.voter = r.voter
           job == [trigger |-> r.voter, domain |-> r.domain, demotion |-> r.prior - r.score]
<1>1. /\ r.op = "rated" /\ book' = R!Updated(r.voter, r.score)
      /\ silenced' = IF r.void /\ ~undone THEN silenced \cup {r.voter}
                     ELSE silenced \ {r.voter}
      /\ R!Turn(t, R!Idle) \/ R!Turn(t, R!Punish(job))
  BY DEF R!Write
<1>2. r \in Ratings /\ r.score \in 0..100 /\ (r.void => r.score = 0)
  BY <1>1, TurnKinds DEF VoteTypeOK, Ratings
<1>3. \A u \in R!Tasks : task'[u].op = "punish" =>
        task'[u].got = {} \/ (u # t /\ task'[u] = task[u])
  BY <1>1 DEF VoteTypeOK, R!Turn, R!Idle, R!Punish
<1> HIDE DEF job
<1>4. ASSUME NEW v \in silenced'
      PROVE  /\ \A a \in R!EntriesOf(v)' : book'[a].score = 0
             /\ R!EntriesOf(v)' # {} =>
                  \A u \in R!Tasks : task'[u].op = "punish" =>
                    \A g \in task'[u].got : g.voter = v => g.score = 0
  <2>1. /\ R!EntriesOf(v)' = R!EntriesOf(v)
        /\ \A a \in R!EntriesOf(v) :
             book'[a].score = IF a \in R!EntriesOf(r.voter) THEN r.score ELSE book[a].score
    <3> HIDE DEF r, undone
    <3>1. book' = R!Updated(r.voter, r.score) /\ r.score \in 0..100
      BY <1>1, <1>2
    <3>2. QED BY <3>1, EntriesUpdated
  <2>2. CASE v = r.voter
    <3>1. r.void /\ ~undone
      BY <1>1, <1>4, <2>2
    <3>2. \A a \in R!EntriesOf(v)' : book'[a].score = 0
      BY <1>2, <2>1, <2>2, <3>1
    <3>3. \A u \in R!Tasks : task'[u].op = "punish" => \A g \in task'[u].got : g.voter # v
      BY <1>3, <2>2, <3>1
    <3>4. QED BY <3>2, <3>3
  <2>3. CASE v # r.voter
    <3>1. v \in silenced
      BY <1>1, <1>4, <2>3
    <3>2. \A a \in R!EntriesOf(v)' : book'[a].score = 0
      BY <2>1, <2>3, <3>1, EntriesApart DEF SilenceInv
    <3>3. QED BY <1>3, <2>1, <3>1, <3>2 DEF SilenceInv
  <2>4. QED BY <2>2, <2>3
<1>5. QED BY <1>4 DEF SilenceInv

LEMMA SilenceReadScore ==
  ASSUME VoteTypeOK, SilenceInv, NEW t \in R!Tasks, R!ReadScore(t)
  PROVE  SilenceInv'
<1>1. task[t].op = "punish" /\ UNCHANGED <<book, silenced>> /\ task[t] \in Punishments
  BY TurnKinds DEF R!ReadScore, VoteTypeOK
<1>2. PICK x \in task[t].todo : \E prior \in R!Scores(x.voter) :
        R!Turn(t, [op |-> "punish", todo |-> task[t].todo \ {x},
                   got |-> {[voter |-> x.voter, score |-> R!Clamp(prior - x.penalty, 0, 100)]}])
  BY DEF R!ReadScore
<1>3. PICK prior \in R!Scores(x.voter) :
        R!Turn(t, [op |-> "punish", todo |-> task[t].todo \ {x},
                   got |-> {[voter |-> x.voter, score |-> R!Clamp(prior - x.penalty, 0, 100)]}])
  BY <1>2
<1>4. x.penalty \in Nat
  BY <1>1, <1>2 DEF Punishments, Fines
<1>5. x.voter \in silenced /\ R!EntriesOf(x.voter) # {} => R!Clamp(prior - x.penalty, 0, 100) = 0
  <2>1. x.voter \in silenced /\ R!EntriesOf(x.voter) # {} => prior = 0
    BY <1>3 DEF SilenceInv, R!Scores
  <2>2. R!Clamp(0 - x.penalty, 0, 100) = 0
    BY <1>4 DEF R!Clamp
  <2>3. QED BY <2>1, <2>2
<1> DEFINE s == R!Clamp(prior - x.penalty, 0, 100)
<1>6. /\ task'[t].got = {[voter |-> x.voter, score |-> s]}
      /\ \A u \in R!Tasks \ {t} : task'[u] = task[u]
  BY <1>3 DEF R!Turn, VoteTypeOK
<1>7. x.voter \in silenced /\ R!EntriesOf(x.voter) # {} => s = 0
  BY <1>5
<1> HIDE DEF s
<1>8. \A v : R!EntriesOf(v)' = R!EntriesOf(v)
  BY <1>1 DEF R!EntriesOf
<1>9. ASSUME NEW v \in silenced, R!EntriesOf(v) # {}, NEW u \in R!Tasks, task'[u].op = "punish",
             NEW g \in task'[u].got, g.voter = v
      PROVE  g.score = 0
  BY <1>6, <1>7, <1>9 DEF SilenceInv
<1>10. QED BY <1>1, <1>8, <1>9 DEF SilenceInv

LEMMA SilenceWriteScore ==
  ASSUME VoteTypeOK, SilenceInv, NEW t \in R!Tasks, R!WriteScore(t)
  PROVE  SilenceInv'
<1>1. /\ task[t].op = "punish" /\ task[t] \in Punishments /\ UNCHANGED silenced
      /\ R!Turn(t, [task[t] EXCEPT !.got = {}])
  BY TurnKinds DEF R!WriteScore, VoteTypeOK
<1>2. PICK g \in task[t].got : book' = R!Updated(g.voter, g.score)
  BY DEF R!WriteScore
<1>3. g.score \in 0..100
  BY <1>1, <1>2 DEF Punishments, Marks
<1>4. \A u \in R!Tasks : task'[u].op = "punish" => task'[u].got = {} \/ task'[u] = task[u]
  BY <1>1 DEF R!Turn, VoteTypeOK, Punishments
<1>5. ASSUME NEW v \in silenced
      PROVE  /\ \A a \in R!EntriesOf(v)' : book'[a].score = 0
             /\ R!EntriesOf(v)' = R!EntriesOf(v)
  <2>1. /\ R!EntriesOf(v)' = R!EntriesOf(v)
        /\ \A a \in R!EntriesOf(v) :
             book'[a].score = IF a \in R!EntriesOf(g.voter) THEN g.score ELSE book[a].score
    BY <1>2, <1>3, EntriesUpdated
  <2>2. R!EntriesOf(v) # {} /\ g.voter = v => g.score = 0
    BY <1>1, <1>2 DEF SilenceInv
  <2>3. QED BY <2>1, <2>2, EntriesApart DEF SilenceInv
<1>6. QED BY <1>1, <1>4, <1>5 DEF SilenceInv

LEMMA SilenceUpsert ==
  ASSUME VoteTypeOK, SilenceInv, NEW v, NEW b \in R!Addresses, NEW h, R!Upsert(v, b, h)
  PROVE  SilenceInv'
<1>1. /\ book' = [book EXCEPT ![b] = [key |-> v, score |-> 50, headless |-> h]]
      /\ silenced' = silenced \ {v} /\ task' = task
  BY DEF R!Upsert
<1>2. ASSUME NEW u, u # v
      PROVE  /\ R!EntriesOf(u)' \subseteq R!EntriesOf(u)
             /\ \A a \in R!EntriesOf(u)' : book'[a] = book[a]
  BY <1>1, <1>2 DEF R!EntriesOf, VoteTypeOK
<1>3. QED BY <1>1, <1>2 DEF SilenceInv

LEMMA SilenceStep ==
  ASSUME VoteTypeOK, SilenceInv, R!Next
  PROVE  SilenceInv'
<1>1. ASSUME NEW v \in Voters, NEW d \in Domains, NEW b \in R!Actions, R!Accept(v, d, b)
      PROVE  SilenceInv'
  <2>1. /\ UNCHANGED <<book, silenced>> /\ R!Turn(R!Reader(v), [op |-> "inserted", voter |-> v])
    BY <1>1 DEF R!Accept
  <2>2. \A t \in R!Tasks : task'[t].op = "punish" => task'[t] = task[t]
    BY <2>1 DEF R!Turn, VoteTypeOK
  <2>3. QED BY <2>1, <2>2, SilenceQuiet
<1>2. ASSUME NEW v \in Voters, R!Expose(v)
      PROVE  SilenceInv'
  BY <1>2, SilenceQuiet DEF R!Expose
<1>3. ASSUME NEW t \in R!Tasks, R!Rate(t)
      PROVE  SilenceInv'
  <2>1. /\ UNCHANGED <<book, silenced>>
        /\ \E x : x.op = "rated" /\ R!Turn(t, x)
    BY <1>3 DEF R!Rate
  <2>2. \A u \in R!Tasks : task'[u].op = "punish" => task'[u] = task[u]
    BY <2>1 DEF R!Turn, VoteTypeOK
  <2>3. QED BY <2>1, <2>2, SilenceQuiet
<1>4. ASSUME NEW t \in R!Tasks, R!EndJob(t)
      PROVE  SilenceInv'
  <2>1. UNCHANGED <<book, silenced>> /\ R!Turn(t, R!Idle)
    BY <1>4 DEF R!EndJob
  <2>2. \A u \in R!Tasks : task'[u].op = "punish" => task'[u] = task[u]
    BY <2>1 DEF R!Turn, R!Idle, VoteTypeOK
  <2>3. QED BY <2>1, <2>2, SilenceQuiet
<1>5. ASSUME R!TakeJob
      PROVE  SilenceInv'
  <2>1. UNCHANGED <<book, silenced>> /\ R!Turn("worker", R!Punish(Head(queue)))
    BY <1>5 DEF R!TakeJob
  <2>2. \A u \in R!Tasks : task'[u].op = "punish" => task'[u].got = {} \/ task'[u] = task[u]
    BY <2>1 DEF R!Turn, R!Punish, VoteTypeOK
  <2>3. QED BY <2>1, <2>2, SilenceQuiet
<1>6. ASSUME R!Reopen
      PROVE  SilenceInv'
  <2>1. UNCHANGED <<book, silenced>> /\ \A t \in R!Tasks : task'[t].op # "punish"
    BY <1>6 DEF R!Reopen, R!Idle
  <2>2. QED BY <2>1, SilenceQuiet
<1>7. ASSUME NEW v \in Voters, NEW h \in BOOLEAN, NEW a \in Homes[v], R!Upsert(v, a, h)
      PROVE  SilenceInv'
  BY <1>7, SilenceUpsert DEF R!Addresses
<1>8. QED BY <1>1, <1>2, <1>3, <1>4, <1>5, <1>6, <1>7, VoteSteps, SilenceWrite,
             SilenceReadScore, SilenceWriteScore

-----------------------------------------------------------------------------
(* Sums of weights.                                                         *)

Pick(s) == CHOOSE v \in s : TRUE
Rest(s) == s \ {Pick(s)}
Small(all, n) == {s \in SUBSET all : Cardinality(s) <= n}

\* g says what the voters of each of the sets weigh together.
Sums(w, sets, g) == g = [s \in sets |-> IF s = {} THEN 0 ELSE w[Pick(s)] + g[Rest(s)]]

LEMMA WeightIsSum ==
  \A w, d, b : R!WeightOf(w, d, b) = (CHOOSE g : Sums(w, SUBSET R!Saying(d, b), g))[R!Saying(d, b)]
BY DEF R!WeightOf, R!MapThenSumSet, R!MapThenFoldSet, Sums, Pick, Rest

LEMMA RestSmaller ==
  ASSUME NEW all, IsFiniteSet(all), NEW s \in SUBSET all, s # {}
  PROVE  /\ Pick(s) \in s /\ Rest(s) \in SUBSET all /\ IsFiniteSet(s)
         /\ Cardinality(s) \in Nat /\ Cardinality(Rest(s)) = Cardinality(s) - 1
         /\ Cardinality(s) # 0
<1>1. Pick(s) \in s
  BY DEF Pick
<1>2. IsFiniteSet(s)
  BY FS_Subset
<1>3. QED BY <1>1, <1>2, FS_CardinalityType, FS_RemoveElement, FS_EmptySet DEF Rest

\* There is such a g for the small sets of voters, and so for all of them.
LEMMA SumsExist ==
  ASSUME NEW all, IsFiniteSet(all), NEW w, \A v \in all : w[v] \in Nat, NEW n \in Nat
  PROVE  \E g \in [Small(all, n) -> Nat] : Sums(w, Small(all, n), g)
<1> DEFINE Good(k) == \E g \in [Small(all, k) -> Nat] : Sums(w, Small(all, k), g)
           Bad == {k \in Nat : ~Good(k)}
<1>1. Good(0)
  <2> DEFINE g == [s \in Small(all, 0) |-> 0]
  <2>1. \A s \in Small(all, 0) : s = {}
    BY RestSmaller DEF Small
  <2>2. Sums(w, Small(all, 0), g)
    BY <2>1 DEF Sums
  <2>3. QED BY <2>2
<1>2. ASSUME NEW k \in Nat, Good(k)
      PROVE  Good(k + 1)
  <2>1. PICK g \in [Small(all, k) -> Nat] : Sums(w, Small(all, k), g)
    BY <1>2
  <2> DEFINE h == [s \in Small(all, k + 1) |-> IF s = {} THEN 0 ELSE w[Pick(s)] + g[Rest(s)]]
  <2>2. ASSUME NEW s \in Small(all, k + 1), s # {}
        PROVE  Pick(s) \in all /\ Rest(s) \in Small(all, k) /\ Rest(s) \in Small(all, k + 1)
    BY <2>2, RestSmaller DEF Small
  <2>3. h \in [Small(all, k + 1) -> Nat]
    BY <2>1, <2>2
  <2>4. ASSUME NEW s \in Small(all, k) PROVE h[s] = g[s]
    <3>1. s \in Small(all, k + 1)
      <4>1. Cardinality(s) \in Nat
        BY FS_Subset, FS_CardinalityType DEF Small
      <4>2. QED BY <4>1 DEF Small
    <3>2. g[s] = IF s = {} THEN 0 ELSE w[Pick(s)] + g[Rest(s)]
      BY <2>1 DEF Sums
    <3>3. QED BY <3>1, <3>2
  <2>5. \A s \in Small(all, k + 1) : h[s] = IF s = {} THEN 0 ELSE w[Pick(s)] + h[Rest(s)]
    BY <2>2, <2>4
  <2> HIDE DEF h
  <2>6. Sums(w, Small(all, k + 1), h)
    BY <2>3, <2>5 DEF Sums
  <2>7. QED BY <2>3, <2>6
<1>3. Bad = {}
  <2> SUFFICES ASSUME Bad # {} PROVE FALSE
    OBVIOUS
  <2>1. Bad \in SUBSET Nat
    OBVIOUS
  <2>2. PICK k \in Bad : \A l \in Bad : k <= l
    <3> HIDE DEF Bad
    <3>1. QED BY <2>1, LeastNumber
  <2>3. k # 0 /\ k \in Nat
    BY <1>1, <2>2
  <2>4. k - 1 \in Nat /\ k - 1 \notin Bad
    <3>1. k - 1 \in Nat /\ ~(k <= k - 1)
      BY <2>3
    <3>2. QED BY <2>2, <3>1
  <2>5. Good(k - 1)
    BY <2>4
  <2>6. Good((k - 1) + 1)
    <3> HIDE DEF Good
    <3>1. QED BY <1>2, <2>4, <2>5
  <2>7. (k - 1) + 1 = k
    BY <2>3
  <2>8. QED BY <2>2, <2>6, <2>7
<1>4. QED BY <1>3

\* Sums of naturals are naturals.
LEMMA SumsNat ==
  ASSUME NEW all, IsFiniteSet(all), NEW w, \A v \in all : w[v] \in Nat,
         NEW g, Sums(w, SUBSET all, g)
  PROVE  g[all] \in Nat
<1> DEFINE Bad == {k \in Nat : \E s \in SUBSET all : Cardinality(s) = k /\ g[s] \notin Nat}
<1>1. Bad = {}
  <2> SUFFICES ASSUME Bad # {} PROVE FALSE
    OBVIOUS
  <2>1. PICK k \in Bad : \A l \in Bad : k <= l
    <3>1. Bad \in SUBSET Nat
      OBVIOUS
    <3> HIDE DEF Bad
    <3>2. QED BY <3>1, LeastNumber
  <2>2. PICK s \in SUBSET all : Cardinality(s) = k /\ g[s] \notin Nat
    BY <2>1
  <2>3. g[s] = IF s = {} THEN 0 ELSE w[Pick(s)] + g[Rest(s)]
    BY DEF Sums
  <2>4. s # {}
    BY <2>2, <2>3
  <2>5. /\ Pick(s) \in all /\ Rest(s) \in SUBSET all
        /\ Cardinality(Rest(s)) = k - 1 /\ k - 1 \in Nat /\ ~(k <= k - 1)
    BY <2>2, <2>4, RestSmaller
  <2>6. g[Rest(s)] \in Nat
    <3>1. k - 1 \notin Bad
      BY <2>1, <2>5
    <3>2. QED BY <2>5, <3>1
  <2>7. w[Pick(s)] + g[Rest(s)] \in Nat
    BY <2>5, <2>6
  <2>8. QED BY <2>2, <2>3, <2>4, <2>7
<1>2. Cardinality(all) \in Nat
  BY FS_CardinalityType
<1>3. QED BY <1>1, <1>2

LEMMA WeightsAreNaturals ==
  ASSUME VoteTypeOK, NEW w \in R!Weights, NEW d, NEW b
  PROVE  R!WeightOf(w, d, b) \in Nat
<1> DEFINE all == R!Saying(d, b)
           n == Cardinality(all)
           h == CHOOSE g : Sums(w, SUBSET all, g)
<1>1. all \subseteq Voters /\ IsFiniteSet(all)
  BY VoteConstants, FS_Subset DEF R!Saying
<1>2. \A v \in all : w[v] \in Nat
  BY <1>1, ScoresType DEF R!Weights
<1>3. R!WeightOf(w, d, b) = h[all]
  BY WeightIsSum
<1> HIDE DEF all
<1>4. n \in Nat /\ SUBSET all = Small(all, n)
  BY <1>1, FS_CardinalityType, FS_Subset DEF Small
<1>5. \E g : Sums(w, SUBSET all, g)
  <2> HIDE DEF n
  <2>1. \E g \in [Small(all, n) -> Nat] : Sums(w, Small(all, n), g)
    BY <1>1, <1>2, <1>4, SumsExist
  <2>2. QED BY <1>4, <2>1
<1>6. Sums(w, SUBSET all, h)
  BY <1>5
<1> HIDE DEF h
<1>7. QED BY <1>1, <1>2, <1>3, <1>6, SumsNat

\* Which side the score is on, of two weights.
LEMMA RoundedSide ==
  ASSUME NEW tw \in Nat, NEW utw \in Nat, tw + utw > 0, NEW trust,
         trust = (20000 * tw + (tw + utw)) \div (2 * (tw + utw))
  PROVE  /\ trust > 5000 => tw > utw
         /\ trust < 5000 => utw > tw
         /\ trust = 5000 /\ tw + utw <= 10000 => tw = utw
OBVIOUS

-----------------------------------------------------------------------------
(* Those who are punished did vote.                                         *)

FinesOK ==
  \A t \in R!Tasks : task[t].op = "punish" => \A x \in task[t].todo : votes[x.voter] # <<>>

\* The index has a voter on a domain only if the store has a vote of it.
LEMMA PunishedVoted ==
  ASSUME IndexInv, NEW job \in Jobs, NEW x \in R!Punished(job)
  PROVE  votes[x.voter] # <<>>
<1>1. PICK v \in Voters : x.voter = v /\ index[v][Clean[job.domain]] # "none"
  BY DEF R!Punished
<1>2. Clean[job.domain] \in R!Names
  BY NamesType DEF Jobs
<1>3. R!Under(v, Clean[job.domain]) # {}
  BY <1>1, <1>2 DEF IndexInv, R!IndexFollows
<1>4. R!Under(v, Clean[job.domain]) \subseteq DOMAIN votes[v]
  BY DEF R!Under
<1>5. DOMAIN <<>> = {}
  OBVIOUS
<1>6. QED BY <1>1, <1>3, <1>4, <1>5

\* What a step makes of the penalties that are under way.
LEMMA FinesFrom ==
  ASSUME VoteTypeOK, R!Next, NEW t \in R!Tasks, task'[t].op = "punish", NEW x \in task'[t].todo
  PROVE  \/ task[t].op = "punish" /\ x \in task[t].todo
         \/ \E job \in Jobs : x \in R!Punished(job)
<1>1. ASSUME NEW u \in R!Tasks, NEW y, R!Turn(u, y),
             y.op # "punish" \/ (task[u].op = "punish" /\ y.todo \subseteq task[u].todo)
               \/ \E job \in Jobs : y = R!Punish(job)
      PROVE  \/ task[t].op = "punish" /\ x \in task[t].todo
             \/ \E job \in Jobs : x \in R!Punished(job)
  BY <1>1 DEF R!Turn, R!Punish, VoteTypeOK
<1>2. CASE \E v \in Voters, d \in Domains, b \in R!Actions : R!Accept(v, d, b)
  BY <1>1, <1>2 DEF R!Accept, R!Reader, R!Tasks
<1>3. CASE task' = task
  BY <1>3
<1>4. CASE \E u \in R!Tasks : R!Rate(u)
  BY <1>1, <1>4 DEF R!Rate
<1>5. CASE \E u \in R!Tasks : R!Write(u)
  <2>1. PICK u \in R!Tasks : R!Write(u)
    BY <1>5
  <2> DEFINE r == task[u]
             job == [trigger |-> r.voter, domain |-> r.domain, demotion |-> r.prior - r.score]
  <2>2. R!Turn(u, R!Idle) \/ (~(job.demotion < 5) /\ R!Turn(u, R!Punish(job)))
    BY <2>1 DEF R!Write
  <2>3. CASE R!Turn(u, R!Idle)
    BY <1>1, <2>3 DEF R!Idle
  <2>4. CASE ~(job.demotion < 5) /\ R!Turn(u, R!Punish(job))
    <3>1. r \in Ratings
      BY <2>1, TurnKinds DEF VoteTypeOK, R!Write
    <3>2. job.demotion \in 0..100
      <4>1. ~(r.prior - r.score < 5) /\ r.prior \in 0..100 /\ r.score \in 0..100
        BY <2>4, <3>1 DEF Ratings
      <4> HIDE DEF r
      <4>2. QED BY <4>1, FallBound
    <3>3. job \in Jobs
      BY <3>1, <3>2 DEF Ratings, Jobs
    <3> HIDE DEF job
    <3>4. QED BY <1>1, <2>4, <3>3
  <2>5. QED BY <2>2, <2>3, <2>4
<1>6. CASE \E u \in R!Tasks : R!ReadScore(u)
  BY <1>1, <1>6 DEF R!ReadScore
<1>7. CASE \E u \in R!Tasks : R!WriteScore(u)
  <2>1. PICK u \in R!Tasks : R!WriteScore(u)
    BY <1>7
  <2>2. task[u] \in Punishments
    BY <2>1, TurnKinds DEF VoteTypeOK, R!WriteScore
  <2>3. [task[u] EXCEPT !.got = {}].todo = task[u].todo
    BY <2>2 DEF Punishments
  <2>4. QED BY <1>1, <2>1, <2>3 DEF R!WriteScore
<1>8. CASE \E u \in R!Tasks : R!EndJob(u)
  BY <1>1, <1>8 DEF R!EndJob, R!Idle
<1>9. CASE R!TakeJob
  <2>1. Head(queue) \in Jobs /\ R!Turn("worker", R!Punish(Head(queue))) /\ "worker" \in R!Tasks
    <3>1. queue \in Seq(Jobs) /\ queue # <<>>
      BY <1>9 DEF VoteTypeOK, R!TakeJob
    <3>2. QED BY <1>9, <3>1, HeadTailProperties DEF R!TakeJob, R!Tasks
  <2>2. QED BY <1>1, <2>1
<1>10. CASE R!Reopen
  BY <1>10 DEF R!Reopen, R!Idle
<1>11. CASE \E v \in Voters : \E a, h : R!Upsert(v, a, h) \/ R!Expose(v)
  BY <1>3, <1>11 DEF R!Upsert, R!Expose
<1>12. QED
  BY <1>2, <1>4, <1>5, <1>6, <1>7, <1>8, <1>9, <1>10, <1>11, VoteSteps

\* A vote that was stored stays.
LEMMA VotesStay ==
  ASSUME VoteTypeOK, R!Next, NEW v \in Voters, votes[v] # <<>>
  PROVE  votes'[v] # <<>>
<1>1. ASSUME NEW u \in Voters, NEW d \in Domains, NEW b \in R!Actions, R!Accept(u, d, b)
      PROVE  votes'[v] # <<>>
  <2> DEFINE ballot == [domain |-> d, action |-> b]
  <2>1. votes' = [votes EXCEPT ![u] = Append(votes[u], ballot)]
    BY <1>1 DEF R!Accept
  <2>2. votes[u] \in Seq(VoteRecords) /\ ballot \in VoteRecords /\ votes \in [Voters -> Seq(VoteRecords)]
    BY DEF VoteTypeOK, VoteRecords
  <2> HIDE DEF ballot
  <2>3. Append(votes[u], ballot) # <<>>
    BY <2>2, AppendProperties
  <2>4. QED BY <2>1, <2>2, <2>3
<1>2. (\E u \in Voters, d \in Domains, b \in R!Actions : R!Accept(u, d, b)) \/ votes' = votes
  BY VoteSteps DEF R!Upsert, R!Expose, R!Rate, R!Write, R!ReadScore, R!WriteScore,
                   R!EndJob, R!TakeJob, R!Reopen
<1>3. QED BY <1>1, <1>2

LEMMA FinesStep ==
  ASSUME IndexInv, FinesOK, R!Next
  PROVE  FinesOK'
<1>1. ASSUME NEW t \in R!Tasks, task'[t].op = "punish", NEW x \in task'[t].todo
      PROVE  votes'[x.voter] # <<>>
  <2>1. VoteTypeOK /\ VoteTypeOK'
    BY VoteTypeStep DEF IndexInv
  <2>2. votes[x.voter] # <<>>
    BY <1>1, <2>1, FinesFrom, PunishedVoted DEF FinesOK
  <2>3. x.voter \in Voters
    <3>1. task'[t] \in Turns
      BY <2>1 DEF VoteTypeOK
    <3>2. task'[t] \in Punishments
      BY <1>1, <3>1, TurnKinds
    <3>3. QED BY <3>2 DEF Punishments, Fines
  <2>4. QED BY <2>1, <2>2, <2>3, VotesStay
<1>2. QED BY <1>1 DEF FinesOK

LEMMA RatingTypes ==
  ASSUME VoteTypeOK, FinesOK
  PROVE  R!TypeOK
<1>1. \A a \in R!Addresses : book[a] # R!NoEntry => book[a].score \in 0..100
  BY DEF VoteTypeOK, Entries
<1>2. ASSUME NEW t \in R!Tasks, task[t].op = "punish", NEW x \in task[t].todo
      PROVE  R!VotedOn(x.voter) # {} /\ x.penalty \in 1..50
  <2>1. x \in Fines
    BY <1>2, TurnKinds DEF VoteTypeOK, Punishments
  <2>2. votes[x.voter] \in Seq(VoteRecords) /\ votes[x.voter] # <<>>
    BY <1>2, <2>1 DEF FinesOK, VoteTypeOK, Fines
  <2>3. 1 \in DOMAIN votes[x.voter]
    BY <2>2, LenProperties, EmptySeq
  <2>4. QED BY <2>1, <2>3 DEF R!VotedOn, Fines
<1>3. QED BY <1>1, <1>2 DEF R!TypeOK, VoteTypeOK

-----------------------------------------------------------------------------
(* The ratings as a part of the node.                                       *)

VoteInv == IndexInv /\ SilenceInv /\ FinesOK

LEMMA VoteStutter ==
  ASSUME VoteInv, UNCHANGED voteVars
  PROVE  VoteInv'
<1>1. UNCHANGED <<votes, index, book, task, queue, silenced, reopened>>
  BY DEF voteVars
<1>2. VoteTypeOK'
  BY <1>1 DEF VoteInv, IndexInv, VoteTypeOK
<1>3. R!IndexFollows'
  BY <1>1, IndexQuiet DEF VoteInv, IndexInv
<1>4. SilenceInv'
  BY <1>1, SilenceQuiet DEF VoteInv
<1>5. FinesOK'
  BY <1>1 DEF VoteInv, FinesOK
<1>6. QED BY <1>2, <1>3, <1>4, <1>5 DEF VoteInv, IndexInv

LEMMA VotePart ==
  ASSUME [Next]_vars
  PROVE  R!Next \/ UNCHANGED voteVars
BY DEF Next, Swarm, Synchronisation, Rating, Proving, Restart, vars, R!Next

LEMMA VoteInvariant == Spec => []VoteInv
<1>1. Init => VoteInv
  <2> SUFFICES ASSUME Init PROVE VoteInv
    OBVIOUS
  <2>1. R!Init
    BY DEF Init
  <2>2. VoteTypeOK
    BY <2>1, VoteInit
  <2>3. /\ R!Filled(index) /\ reopened = (\E v \in Voters : votes[v] # <<>>)
        /\ silenced = {} /\ \A t \in R!Tasks : task[t].op # "punish"
    BY <2>1 DEF R!Init, R!Idle
  <2>4. ASSUME NEW v \in Voters, NEW d \in R!Names
        PROVE  /\ ~reopened => R!Under(v, d) = {}
               /\ index[v][d] = "none" <=> R!Under(v, d) = {}
    <3>1. ASSUME ~reopened PROVE R!Under(v, d) = {}
      <4>1. votes[v] = <<>>
        BY <2>3, <3>1
      <4>2. QED BY <4>1 DEF R!Under
    <3>2. QED BY <2>2, <2>3, <3>1, FilledFollows
  <2>5. QED BY <2>2, <2>3, <2>4 DEF VoteInv, IndexInv, R!IndexFollows, SilenceInv, FinesOK
<1>2. ASSUME VoteInv, [Next]_vars
      PROVE  VoteInv'
  <2>1. CASE R!Next
    BY <1>2, <2>1, VoteTypeStep, IndexStep, SilenceStep, FinesStep DEF VoteInv, IndexInv
  <2>2. CASE UNCHANGED voteVars
    BY <1>2, <2>2, VoteStutter
  <2>3. QED BY <1>2, <2>1, <2>2, VotePart
<1>3. QED BY <1>1, <1>2, PTL DEF Spec

\* The index that clusters are found with tells the last vote of each voter on each domain,
\* whatever spellings it was voted on under, until the node is started with votes, and then
\* still one of that voter's votes on it (insert_or_update_vote; cluster_index filled from
\* the store).
THEOREM IndexFollowsVotes == Spec => []IndexFollows
<1>1. VoteInv => IndexFollows
  BY DEF VoteInv, IndexInv, IndexFollows
<1>2. QED BY <1>1, VoteInvariant, PTL

\* Who was rated as headless or as an equivocator weighs nothing from then on, whatever
\* the worker subtracts and whoever else is rated, unless a handshake renews its entry or
\* a penalty of it was under way (compute_and_update_voter_ponderation,
\* process_cluster_job).
THEOREM SilencedStaySilent == Spec => []SilencedWeighsNothing
<1>1. ASSUME SilenceInv, NEW v \in silenced, R!EntriesOf(v) # {}
      PROVE  R!Scores(v) = {0}
  BY <1>1 DEF SilenceInv, R!Scores
<1>2. VoteInv => SilencedWeighsNothing
  BY <1>1 DEF VoteInv, SilencedWeighsNothing, R!SilencedWeighsNothing
<1>3. QED BY <1>2, VoteInvariant, PTL

\* The trust score of a domain and the consensus about it never take sides against each
\* other, for any number of voters and whatever they weigh; only when the weights exceed
\* 10000 together can the score's rounding hide a side that the consensus takes
\* (evaluate_domain_trust_with_weights, DomainConsensus::from_weighted_votes).
THEOREM TrustSidesWithConsensus == Spec => []TrustAndConsensusAgree
<1>1. ASSUME VoteTypeOK, NEW w \in R!Weights, NEW d \in Domains,
             R!WeightOf(w, d, "tw") + R!WeightOf(w, d, "utw") > 0
      PROVE  /\ R!TrustScore(w, d) > 5000 => R!Direction(w, d) = "tw"
             /\ R!TrustScore(w, d) < 5000 => R!Direction(w, d) = "utw"
             /\ R!TrustScore(w, d) = 5000
                  /\ R!WeightOf(w, d, "tw") + R!WeightOf(w, d, "utw") <= 10000 =>
                  R!Direction(w, d) = "undecided"
  <2> DEFINE tw == R!WeightOf(w, d, "tw")
             utw == R!WeightOf(w, d, "utw")
  <2>1. tw \in Nat /\ utw \in Nat /\ tw + utw > 0
    BY <1>1, WeightsAreNaturals
  <2>2. R!Direction(w, d) = IF tw > utw THEN "tw" ELSE IF utw > tw THEN "utw" ELSE "undecided"
    BY <1>1 DEF R!Direction, R!Sides
  <2>3. R!TrustScore(w, d) = (20000 * tw + (tw + utw)) \div (2 * (tw + utw))
    BY <2>1 DEF R!TrustScore
  <2> HIDE DEF tw, utw
  <2>4. /\ R!TrustScore(w, d) > 5000 => tw > utw
        /\ R!TrustScore(w, d) < 5000 => utw > tw
        /\ R!TrustScore(w, d) = 5000 /\ tw + utw <= 10000 => tw = utw
    BY <2>1, <2>3, RoundedSide
  <2>5. /\ R!TrustScore(w, d) > 5000 => R!Direction(w, d) = "tw"
        /\ R!TrustScore(w, d) < 5000 => R!Direction(w, d) = "utw"
        /\ R!TrustScore(w, d) = 5000 /\ tw + utw <= 10000 => R!Direction(w, d) = "undecided"
    BY <2>1, <2>2, <2>4
  <2>6. QED BY <2>5 DEF tw, utw
<1>2. VoteInv => TrustAndConsensusAgree
  BY <1>1 DEF VoteInv, IndexInv, TrustAndConsensusAgree, R!TrustAndConsensusAgree
<1>3. QED BY <1>2, VoteInvariant, PTL
-----------------------------------------------------------------------------
(* The node.                                                                *)

LEMMA SwarmTypes ==
  ASSUME SwarmInv
  PROVE  S!TypeOK
<1>1. ASSUME NEW members \in {swarm[n] : n \in S!Nodes} \cup {file} \cup removals
      PROVE  OnePerWorker(members)
  BY DEF SwarmInv, OwnerTables, Sound, ToldOK, S!Nodes
<1>2. \A w \in Workers : swarm[w] \subseteq {S!Told(r) : r \in S!Arrived("activation")} \cup S!Heard
  BY DEF SwarmInv, ToldOK
<1>3. /\ \A c \in challenges : c.contract \in pending
      /\ listener.op = "fetch" => listener.proof.contract \in pending
  BY DEF SwarmInv, WaitingOK
<1>4. QED BY <1>1, <1>2, <1>3 DEF S!TypeOK, OnePerWorker

\* In whatever order proofs, entries, votes and penalties come in, and wherever the node is
\* stopped: a worker has one record in each table and in the file, and the members that other nodes
\* know of are those the owner has confirmed and those whose activation another key signed
\* (custodian.rs); each log has the events of an
\* originator in their order, and nothing is left staged that could follow (append_event);
\* scores stay between 0 and 100, and who is punished did vote (process_cluster_job).
THEOREM NodeTypeOK == Spec => []TypeOK
<1>1. SwarmInv /\ SyncInv /\ VoteInv => TypeOK
  BY SwarmTypes, SyncTypes, RatingTypes DEF SyncInv, VoteInv, IndexInv, TypeOK
<1>2. QED BY <1>1, SwarmInvariant, SyncInvariant, VoteInvariant, PTL
=============================================================================
