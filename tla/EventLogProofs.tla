--------------------------- MODULE EventLogProofs ---------------------------
(***************************************************************************)
(* Theorems about EventLog, for every set of originators, every set of     *)
(* entries and frames the network can carry, and every bound.              *)
(***************************************************************************)
EXTENDS EventLog, SequenceTheorems, FunctionTheorems, FiniteSetTheorems, TLAPS

-----------------------------------------------------------------------------
(* First and last positions.                                               *)

\* A set of naturals that is not empty has a least element.
LEMMA LeastNatural ==
  ASSUME NEW S \in SUBSET Nat, S # {}
  PROVE  FirstOf(S) \in S /\ \A j \in S : FirstOf(S) <= j
<1>1. \E x \in S : \A y \in S : ~ (<<y, x>> \in OpToRel(<, Nat))
  BY NatLessThanWellFounded, WFMin
<1>2. PICK x \in S : \A y \in S : ~ (<<y, x>> \in OpToRel(<, Nat))
  BY <1>1
<1>3. \A y \in S : x <= y
  <2>1. ASSUME NEW y \in S PROVE x <= y
    <3>1. ~ (<<y, x>>[1] < <<y, x>>[2]) \/ <<y, x>> \notin Nat \X Nat
      BY <1>2 DEF OpToRel
    <3>2. QED BY <3>1
  <2>2. QED BY <2>1
<1>4. QED BY <1>3 DEF FirstOf

\* A set of naturals that is bounded and not empty has a greatest element.
LEMMA GreatestNatural ==
  ASSUME NEW n \in Nat, NEW S \in SUBSET (0..n), S # {}
  PROVE  LastOf(S) \in S /\ \A j \in S : j <= LastOf(S)
<1> DEFINE T == {n - i : i \in S}
<1>1. T \in SUBSET Nat /\ T # {}
  <2>1. \A i \in S : n - i \in Nat
    OBVIOUS
  <2>2. PICK i \in S : TRUE
    OBVIOUS
  <2>3. n - i \in T
    OBVIOUS
  <2>4. QED BY <2>1, <2>3
<1>2. FirstOf(T) \in T /\ \A j \in T : FirstOf(T) <= j
  BY <1>1, LeastNatural
<1>3. PICK i \in S : FirstOf(T) = n - i
  BY <1>2
<1>4. \A j \in S : j <= i
  <2>1. ASSUME NEW j \in S PROVE j <= i
    <3>1. n - i <= n - j BY <1>2, <1>3
    <3>2. QED BY <3>1
  <2>2. QED BY <2>1
<1>5. QED BY <1>4 DEF LastOf

-----------------------------------------------------------------------------
(* Entries and their place in a log.                                       *)

\* What every entry of a log looks like.
LEMMA EntryFields ==
  \A e \in Entries :
    /\ e.orig \in Originators
    /\ e.seq \in Nat \ {0}
    /\ e.kind \in {"event", "proof"}
    /\ e.bad \in BOOLEAN
<1>1. \A e \in Events :
        /\ e.orig \in Originators /\ e.seq \in Nat \ {0}
        /\ e.kind \in {"event", "proof"} /\ e.bad \in BOOLEAN
  BY EventLogAssumption DEF Events, Flag, Recorded
<1>2. \A a, e \in Events :
        LET p == EquivocationProof(a, e) IN
        /\ p.orig = e.orig /\ p.seq = e.seq /\ p.kind = "proof" /\ p.bad = TRUE
  BY DEF EquivocationProof
<1>3. ASSUME NEW p \in Entries \ Events
      PROVE  /\ p.orig \in Originators /\ p.seq \in Nat \ {0}
             /\ p.kind = "proof" /\ p.bad = TRUE
  <2>1. PICK a \in Events, e \in Events : p = EquivocationProof(a, e)
    BY <1>3 DEF Entries
  <2>2. QED BY <2>1, <1>1, <1>2
<1>4. QED BY <1>1, <1>3

\* Flagging a delivered entry keeps all but the flag; one of an originator that is
\* only synced is an event.
LEMMA FlagFields ==
  ASSUME NEW e \in Deliverable, NEW b \in BOOLEAN
  PROVE  /\ Flag(e, b) \in Events
         /\ Flag(e, b).orig = e.orig /\ Flag(e, b).seq = e.seq
         /\ Flag(e, b).kind = e.kind /\ Flag(e, b).bad = b
         /\ Flag(e, b).prev = e.prev
         /\ e.bad = b => Flag(e, b) = e
         /\ e \in Events
         /\ SyncedOnly(e.orig) => e.kind = "event"
  BY EventLogAssumption DEF Events, Flag, SyncedOnly

\* The last event of an originator that has one.
LEMMA LastEvent ==
  ASSUME NEW l \in Seq(Entries), NEW o, EventsOf(l, o) # {}
  PROVE  /\ EventsOf(l, o) \subseteq 1..Len(l)
         /\ LastOf(EventsOf(l, o)) \in EventsOf(l, o)
         /\ \A i \in EventsOf(l, o) : i <= LastOf(EventsOf(l, o))
<1>1. Len(l) \in Nat /\ EventsOf(l, o) \subseteq 1..Len(l)
  BY DEF EventsOf
<1>2. EventsOf(l, o) \in SUBSET (0..Len(l))
  BY <1>1
<1>3. QED BY <1>1, <1>2, GreatestNatural

\* The number expected next, and that it is above all numbers in the log.
LEMMA ExpectedSeqIs ==
  ASSUME NEW l \in Seq(Entries), NEW o, GapFree(l, o)
  PROVE  /\ ExpectedSeq(l, o) \in Nat \ {0}
         /\ \A i \in EventsOf(l, o) : l[i].seq < ExpectedSeq(l, o)
         /\ ExpectedSeq(l, o) # 1 =>
              \E i \in EventsOf(l, o) : l[i].seq = ExpectedSeq(l, o) - 1
<1>1. CASE EventsOf(l, o) = {}
  BY <1>1 DEF ExpectedSeq
<1>2. CASE EventsOf(l, o) # {}
  <2> DEFINE last == LastOf(EventsOf(l, o))
  <2>1. /\ EventsOf(l, o) \subseteq 1..Len(l)
        /\ last \in EventsOf(l, o)
        /\ \A i \in EventsOf(l, o) : i <= last
    BY <1>2, LastEvent
  <2>2. \A i \in EventsOf(l, o) : l[i].seq \in Nat \ {0}
    BY <2>1, EntryFields
  <2>3. \A i \in EventsOf(l, o) : l[i].seq <= l[last].seq
    BY <2>1, <2>2 DEF GapFree
  <2>4. ExpectedSeq(l, o) = l[last].seq + 1
    BY <1>2 DEF ExpectedSeq
  <2> HIDE DEF last
  <2>5. QED BY <2>1, <2>2, <2>3, <2>4
<1>3. QED BY <1>1, <1>2

\* Two logs with the same events of o, up to flag and link, expect the same
\* number of o, and either both are free of gaps or none is.
LEMMA SameEvents ==
  ASSUME NEW l \in Seq(Entries), NEW m, NEW o,
         EventsOf(m, o) = EventsOf(l, o),
         \A i \in EventsOf(l, o) : m[i].seq = l[i].seq
  PROVE  /\ ExpectedSeq(m, o) = ExpectedSeq(l, o)
         /\ GapFree(l, o) => GapFree(m, o)
<1>1. CASE EventsOf(l, o) = {}
  BY <1>1 DEF ExpectedSeq, GapFree
<1>2. CASE EventsOf(l, o) # {}
  <2>1. GapFree(l, o) => GapFree(m, o)
    BY DEF GapFree
  <2>2. LastOf(EventsOf(l, o)) \in EventsOf(l, o)
    BY <1>2, LastEvent
  <2>3. QED BY <2>1, <2>2, <1>2 DEF ExpectedSeq
<1>3. QED BY <1>1, <1>2

\* Appending a run of events of o that starts at the expected number keeps the
\* log free of gaps, and the number expected next moves by its length.
LEMMA AppendRun ==
  ASSUME NEW l \in Seq(Entries), NEW o, GapFree(l, o),
         NEW new \in Seq(Entries), Len(new) > 0,
         \A k \in 1..Len(new) :
           /\ new[k].orig = o /\ new[k].kind = "event"
           /\ new[k].seq = ExpectedSeq(l, o) + k - 1
  PROVE  /\ GapFree(l \o new, o)
         /\ ExpectedSeq(l \o new, o) = ExpectedSeq(l, o) + Len(new)
<1> DEFINE m == l \o new
           a == Len(l)
           b == Len(new)
           base == ExpectedSeq(l, o)
<1>1. /\ m \in Seq(Entries) /\ Len(m) = a + b
      /\ \A i \in 1..a : m[i] = l[i]
      /\ \A k \in 1..b : m[a + k] = new[k]
      /\ a \in Nat /\ b \in Nat /\ b > 0
      /\ DOMAIN l = 1..a /\ DOMAIN m = 1..(a + b)
  <2>1. /\ m \in Seq(Entries) /\ Len(m) = a + b
        /\ \A i \in 1..(a + b) : m[i] = IF i <= a THEN l[i] ELSE new[i - a]
    BY ConcatProperties
  <2>2. /\ a \in Nat /\ b \in Nat /\ b > 0
        /\ DOMAIN l = 1..a /\ DOMAIN m = 1..(a + b)
    BY <2>1, LenProperties
  <2> HIDE DEF m, a, b
  <2>3. \A i \in 1..a : m[i] = l[i]
    BY <2>1, <2>2
  <2>4. ASSUME NEW k \in 1..b PROVE m[a + k] = new[k]
    <3>1. a + k \in 1..(a + b) /\ ~ (a + k <= a) /\ (a + k) - a = k
      BY <2>2
    <3>2. QED BY <3>1, <2>1
  <2>5. QED BY <2>1, <2>2, <2>3, <2>4
<1>2. /\ base \in Nat \ {0}
      /\ \A i \in EventsOf(l, o) : l[i].seq < base
      /\ base # 1 => \E i \in EventsOf(l, o) : l[i].seq = base - 1
  BY ExpectedSeqIs
<1>3. \A k \in 1..b : new[k].orig = o /\ new[k].kind = "event" /\ new[k].seq = base + k - 1
  OBVIOUS
<1> HIDE DEF m, a, b, base
<1>4. /\ EventsOf(l, o) \subseteq 1..a
      /\ EventsOf(l, o) \subseteq EventsOf(m, o)
      /\ \A k \in 1..b : a + k \in EventsOf(m, o) /\ m[a + k].seq = base + k - 1
      /\ \A i \in EventsOf(m, o) : i \in EventsOf(l, o) \/ \E k \in 1..b : i = a + k
  <2>1. EventsOf(l, o) \subseteq 1..a
    BY <1>1 DEF EventsOf
  <2>2. EventsOf(l, o) \subseteq EventsOf(m, o)
    BY <1>1 DEF EventsOf
  <2>3. ASSUME NEW k \in 1..b
        PROVE  a + k \in EventsOf(m, o) /\ m[a + k].seq = base + k - 1
    <3>1. a + k \in 1..(a + b)
      BY <1>1
    <3>2. QED BY <3>1, <1>1, <1>3 DEF EventsOf
  <2>4. ASSUME NEW i \in EventsOf(m, o), i \notin EventsOf(l, o)
        PROVE  \E k \in 1..b : i = a + k
    <3>1. i \in 1..(a + b) /\ i \notin 1..a
      BY <2>4, <1>1 DEF EventsOf
    <3>2. i - a \in 1..b /\ i = a + (i - a)
      BY <3>1, <1>1
    <3>3. QED BY <3>2
  <2>5. QED BY <2>1, <2>2, <2>3, <2>4
<1>5. \A i \in EventsOf(l, o) : m[i].seq = l[i].seq /\ l[i].seq \in Nat
  <2>1. ASSUME NEW i \in EventsOf(l, o) PROVE m[i].seq = l[i].seq /\ l[i].seq \in Nat
    <3>1. i \in 1..a /\ l[i] \in Entries
      BY <1>1, <1>4
    <3>2. QED BY <3>1, <1>1, EntryFields
  <2>2. QED BY <2>1
<1>6. GapFree(m, o)
  <2>1. ASSUME NEW i \in EventsOf(m, o)
        PROVE  m[i].seq = 1 \/ \E j \in EventsOf(m, o) : j < i /\ m[j].seq = m[i].seq - 1
    <3>1. CASE i \in EventsOf(l, o)
      BY <3>1, <1>4, <1>5 DEF GapFree
    <3>2. CASE i = a + 1
      <4>1. m[i].seq = base
        BY <3>2, <1>1, <1>2, <1>4
      <4>2. CASE base # 1
        <5>1. PICK j \in EventsOf(l, o) : l[j].seq = base - 1
          BY <4>2, <1>2
        <5>2. j < i
          BY <3>2, <1>1, <1>4
        <5>3. QED BY <4>1, <5>1, <5>2, <1>4, <1>5
      <4>3. QED BY <4>1, <4>2
    <3>3. ASSUME NEW k \in 1..b, k > 1, i = a + k
          PROVE  \E j \in EventsOf(m, o) : j < i /\ m[j].seq = m[i].seq - 1
      <4>1. k - 1 \in 1..b
        BY <3>3, <1>1
      <4>2. /\ a + (k - 1) \in EventsOf(m, o) /\ a + (k - 1) < i
            /\ m[a + (k - 1)].seq = base + (k - 1) - 1
            /\ m[i].seq = base + k - 1
        BY <3>3, <4>1, <1>1, <1>4
      <4>3. m[a + (k - 1)].seq = m[i].seq - 1
        BY <4>2, <1>2
      <4>4. QED BY <4>2, <4>3
    <3>4. ASSUME NEW k \in 1..b, i = a + k
          PROVE  i = a + 1 \/ k > 1
      BY <3>4, <1>1
    <3>5. QED BY <3>1, <3>2, <3>3, <3>4, <1>4
  <2>2. ASSUME NEW i \in EventsOf(m, o), NEW j \in EventsOf(m, o), j < i
        PROVE  m[j].seq < m[i].seq
    <3>1. CASE i \in EventsOf(l, o)
      <4>1. j \in EventsOf(l, o)
        BY <3>1, <2>2, <1>1, <1>4
      <4>2. QED BY <3>1, <4>1, <2>2, <1>5 DEF GapFree
    <3>2. ASSUME NEW k \in 1..b, i = a + k PROVE m[j].seq < m[i].seq
      <4>1. m[i].seq = base + k - 1
        BY <3>2, <1>4
      <4>2. CASE j \in EventsOf(l, o)
        <5>1. m[j].seq < base /\ m[j].seq \in Nat
          BY <4>2, <1>2, <1>5
        <5>2. QED BY <4>1, <5>1, <1>1, <1>2
      <4>3. ASSUME NEW h \in 1..b, j = a + h PROVE m[j].seq < m[i].seq
        <5>1. m[j].seq = base + h - 1
          BY <4>3, <1>4
        <5>2. h < k
          BY <2>2, <3>2, <4>3, <1>1
        <5>3. QED BY <4>1, <5>1, <5>2, <1>1, <1>2
      <4>4. QED BY <4>2, <4>3, <1>4
    <3>3. QED BY <3>1, <3>2, <1>4
  <2>3. QED BY <2>1, <2>2 DEF GapFree
<1>7. ExpectedSeq(m, o) = base + b
  <2>1. b \in 1..b /\ \A k \in 1..b : k <= b
    BY <1>1
  <2>2. a + b \in EventsOf(m, o) /\ m[a + b].seq = base + b - 1
    BY <2>1, <1>4
  <2>3. EventsOf(m, o) # {}
    BY <2>2
  <2>4. /\ LastOf(EventsOf(m, o)) \in EventsOf(m, o)
        /\ \A i \in EventsOf(m, o) : i <= LastOf(EventsOf(m, o))
        /\ EventsOf(m, o) \subseteq 1..(a + b)
    BY <2>3, <1>1, LastEvent
  <2>5. LastOf(EventsOf(m, o)) = a + b
    BY <2>2, <2>4, <1>1
  <2>6. ExpectedSeq(m, o) = (base + b - 1) + 1
    BY <2>2, <2>3, <2>5 DEF ExpectedSeq
  <2>7. QED BY <2>6, <1>1, <1>2
<1>8. QED BY <1>6, <1>7 DEF m, b, base

\* Appending an entry that is no event of o leaves the events of o alone.
LEMMA AppendOther ==
  ASSUME NEW l \in Seq(Entries), NEW o, NEW x \in Entries,
         x.orig # o \/ x.kind = "proof"
  PROVE  /\ EventsOf(Append(l, x), o) = EventsOf(l, o)
         /\ ExpectedSeq(Append(l, x), o) = ExpectedSeq(l, o)
         /\ GapFree(l, o) => GapFree(Append(l, x), o)
<1> DEFINE m == Append(l, x)
<1>1. /\ m \in Seq(Entries) /\ Len(m) = Len(l) + 1
      /\ \A i \in 1..Len(l) : m[i] = l[i]
      /\ m[Len(l) + 1] = x
      /\ Len(l) \in Nat /\ DOMAIN l = 1..Len(l) /\ DOMAIN m = 1..(Len(l) + 1)
  BY AppendProperties, LenProperties
<1> HIDE DEF m
<1>2. EventsOf(m, o) = EventsOf(l, o)
  <2>1. ASSUME NEW i \in EventsOf(m, o) PROVE i \in EventsOf(l, o)
    BY <1>1 DEF EventsOf
  <2>2. ASSUME NEW i \in EventsOf(l, o) PROVE i \in EventsOf(m, o)
    BY <1>1 DEF EventsOf
  <2>3. QED BY <2>1, <2>2
<1>3. \A i \in EventsOf(l, o) : m[i].seq = l[i].seq
  BY <1>1 DEF EventsOf
<1>4. QED BY <1>2, <1>3, SameEvents DEF m

-----------------------------------------------------------------------------
(* The inductive invariant.                                                *)

\* The memory of a running node is its file, that of a stopped one is empty.
MemoryIsFile ==
  /\ log = IF up THEN disk ELSE <<>>
  /\ ~up => \A o \in Originators : DOMAIN pending[o] = {}

FileGapFree == \A o \in Originators : SyncedOnly(o) => GapFree(disk, o)

FileHonest ==
  \A o \in Originators : Honest(o) =>
    \A i \in DOMAIN disk : disk[i].orig = o => disk[i] \in Deliverable

StagingFinite == \A o \in Originators : IsFiniteSet(DOMAIN pending[o])

IInv ==
  /\ TypeOK
  /\ MemoryIsFile
  /\ FileGapFree
  /\ FileHonest
  /\ StagingFinite
  /\ StagedAhead

\* Initially nothing is logged or staged.
LEMMA InitIInv == Init => IInv
<1> SUFFICES ASSUME Init PROVE IInv
  OBVIOUS
<1>1. \A o \in Originators : DOMAIN pending[o] = {}
  BY DEF Init
<1>2. TypeOK
  <2>1. log \in Seq(Entries) /\ disk \in Seq(Entries) /\ up \in BOOLEAN
    BY DEF Init
  <2>2. Cardinality({}) = 0
    BY FS_EmptySet
  <2>3. DOMAIN cache = {} /\ DOMAIN pending = Originators
    BY DEF Init
  <2>4. \A o \in Originators : Cardinality(DOMAIN pending[o]) <= MAX_STAGED_EVENTS
    <3>1. 0 <= MAX_STAGED_EVENTS
      BY EventLogAssumption
    <3>2. ASSUME NEW o \in Originators
          PROVE  Cardinality(DOMAIN pending[o]) <= MAX_STAGED_EVENTS
      <4>1. Cardinality(DOMAIN pending[o]) = 0
        BY <1>1, <2>2, Zenon
      <4>2. QED BY <3>1, <4>1
    <3>3. QED BY <3>2
  <2>5. QED BY <1>1, <2>1, <2>3, <2>4 DEF TypeOK
<1>3. MemoryIsFile
  BY <1>1 DEF MemoryIsFile, Init
<1>4. DOMAIN disk = {}
  BY DEF Init
<1>5. FileGapFree /\ FileHonest
  BY <1>4 DEF FileGapFree, FileHonest, GapFree, EventsOf
<1>6. StagingFinite
  BY <1>1, FS_EmptySet DEF StagingFinite
<1>7. StagedAhead
  BY <1>1 DEF StagedAhead
<1>8. QED BY <1>2, <1>3, <1>5, <1>6, <1>7 DEF IInv

\* A staged number is a natural number.
LEMMA StagedNumbers ==
  ASSUME TypeOK, NEW o \in Originators
  PROVE  DOMAIN pending[o] \in SUBSET (Nat \ {0})
  BY EventLogAssumption DEF TypeOK

\* Staging an entry.
LEMMA StageStep ==
  ASSUME IInv, up, NEW e \in Deliverable, Stage(e)
  PROVE  IInv'
<1> DEFINE o == e.orig
           p == pending[o]
           q == [s \in DOMAIN p \cup {e.seq} |-> IF s = e.seq THEN e ELSE p[s]]
<1>1. /\ o \in Originators /\ e.seq \in Nat \ {0} /\ DOMAIN pending = Originators
      /\ IsFiniteSet(DOMAIN p) /\ Cardinality(DOMAIN p) \in Nat
      /\ e.seq > ExpectedSeq(log, o) /\ e.seq \notin DOMAIN p
      /\ Cardinality(DOMAIN p) < MAX_STAGED_EVENTS
      /\ pending' = [pending EXCEPT ![o] = q]
  BY EventLogAssumption, FS_CardinalityType
     DEF IInv, TypeOK, StagingFinite, Stage, StagingFull
<1>2. /\ up' = up /\ log' = log /\ disk' = disk /\ cache' = cache
  BY DEF Stage
<1>3. /\ DOMAIN pending' = Originators /\ pending'[o] = q
      /\ \A m \in Originators \ {o} : pending'[m] = pending[m]
  BY <1>1
<1>4. DOMAIN q = DOMAIN p \cup {e.seq}
  OBVIOUS
<1>5. IsFiniteSet(DOMAIN q) /\ Cardinality(DOMAIN q) <= MAX_STAGED_EVENTS
  <2>1. IsFiniteSet(DOMAIN p) /\ e.seq \notin DOMAIN p
    BY <1>1
  <2>2. /\ IsFiniteSet(DOMAIN p \cup {e.seq})
        /\ Cardinality(DOMAIN p \cup {e.seq}) = Cardinality(DOMAIN p) + 1
    BY <2>1, FS_AddElement, Zenon
  <2>3. IsFiniteSet(DOMAIN q) /\ Cardinality(DOMAIN q) = Cardinality(DOMAIN p) + 1
    BY <1>4, <2>2, Zenon
  <2>4. QED BY <1>1, <2>3, EventLogAssumption
<1>6. \A s \in DOMAIN q : q[s] \in Deliverable /\ q[s].seq = s /\ q[s].orig = o
  BY <1>1 DEF IInv, TypeOK
<1> HIDE DEF q
<1>7. TypeOK'
  <2>1. ASSUME NEW m \in Originators
        PROVE  /\ \A s \in DOMAIN pending'[m] :
                    pending'[m][s] \in Deliverable /\ pending'[m][s].seq = s
                      /\ pending'[m][s].orig = m
               /\ Cardinality(DOMAIN pending'[m]) <= MAX_STAGED_EVENTS
    <3>1. CASE m = o
      BY <3>1, <1>3, <1>5, <1>6
    <3>2. CASE m # o
      BY <3>2, <1>3 DEF IInv, TypeOK
    <3>3. QED BY <3>1, <3>2
  <2>2. /\ up' \in BOOLEAN /\ log' \in Seq(Entries) /\ disk' \in Seq(Entries)
        /\ DOMAIN cache' \subseteq Originators \X Ranges
    BY <1>2 DEF IInv, TypeOK
  <2>3. QED BY <2>1, <2>2, <1>3 DEF TypeOK
<1>8. MemoryIsFile'
  BY <1>2 DEF IInv, MemoryIsFile
<1>9. FileGapFree' /\ FileHonest'
  BY <1>2 DEF IInv, FileGapFree, FileHonest
<1>10. StagingFinite'
  BY <1>3, <1>5 DEF IInv, StagingFinite
<1>11. StagedAhead'
  <2>1. ASSUME NEW m \in Originators, SyncedOnly(m), NEW s \in DOMAIN pending'[m]
        PROVE  s > ExpectedSeq(log, m)
    <3>1. CASE m = o
      BY <3>1, <2>1, <1>1, <1>3, <1>4 DEF IInv, StagedAhead
    <3>2. CASE m # o
      BY <3>2, <2>1, <1>3 DEF IInv, StagedAhead
    <3>3. QED BY <3>1, <3>2
  <2>2. QED BY <2>1, <1>2 DEF StagedAhead
<1>12. QED BY <1>7, <1>8, <1>9, <1>10, <1>11 DEF IInv

\* In an honest chain, one entry is delivered for a number.
LEMMA HonestUnique ==
  ASSUME NEW o, Honest(o), NEW d \in Deliverable, NEW e \in Deliverable,
         d.orig = o, e.orig = o, d.seq = e.seq
  PROVE  d = e
  BY DEF Honest

\* What Equivocate leaves: the log, where the truth may have replaced the flagged
\* entry at i, and the proof behind it.
Accused(e, i, resolved, proof) ==
  /\ i \in DOMAIN log
  /\ log[i].orig = e.orig /\ log[i].seq = e.seq /\ log[i].kind # "proof"
  /\ Len(resolved) = Len(log)
  /\ \A j \in 1..Len(log) :
        \/ resolved[j] = log[j]
        \/ /\ j = i /\ resolved[j] = e
           /\ log[i].bad /\ e.prev = CanonicalPrev(log, e.orig, e.seq)
  /\ proof.orig = e.orig /\ proof.kind = "proof" /\ proof.bad
  /\ log' = Append(resolved, proof)

\* It leaves that, and an honest originator does not get there.
LEMMA EquivocateAppends ==
  ASSUME IInv, up, NEW e \in Deliverable, Equivocate(e)
  PROVE  /\ ~ Honest(e.orig)
         /\ \E i \in Nat, resolved \in Seq(Entries), proof \in Entries :
              Accused(e, i, resolved, proof)
<1> DEFINE same == EventsAt(log, e.orig, e.seq)
           i == FirstOf(same)
           proof == EquivocationProof(log[i], e)
           truth == IsTruth(log[i], e, CanonicalPrev(log, e.orig, e.seq))
           resolved == IF truth THEN [log EXCEPT ![i] = e] ELSE log
<1>1. /\ same # {} /\ Hash(log[i]) # Hash(e)
      /\ log' = Append(resolved, proof) /\ disk' = log'
      /\ up' = up /\ pending' = pending /\ cache' = cache
  BY DEF Equivocate
<1>2. log = disk /\ log \in Seq(Entries) /\ DOMAIN log = 1..Len(log)
  BY DEF IInv, MemoryIsFile, TypeOK
<1>3. i \in DOMAIN log /\ log[i].orig = e.orig /\ log[i].seq = e.seq /\ log[i].kind # "proof"
  <2>1. same \in SUBSET Nat
    BY <1>2 DEF EventsAt, EventsOf
  <2>2. i \in same
    BY <1>1, <2>1, LeastNatural
  <2>3. QED BY <2>2 DEF EventsAt, EventsOf
<1>4. log[i] \in Events
  <2>1. log[i] \in Entries
    BY <1>2, <1>3
  <2>2. \A a, b \in Events : EquivocationProof(a, b).kind = "proof"
    BY DEF EquivocationProof
  <2>3. QED BY <2>1, <2>2, <1>3 DEF Entries
<1>5. /\ e \in Events /\ e \in Entries
      /\ proof \in Entries /\ proof.orig = e.orig /\ proof.kind = "proof" /\ proof.bad
  <2>1. e \in Events
    BY FlagFields, EventLogAssumption
  <2>2. proof \in Entries
    BY <1>4, <2>1 DEF Entries
  <2>3. proof.orig = e.orig /\ proof.kind = "proof" /\ proof.bad
    BY DEF EquivocationProof
  <2>4. QED BY <2>1, <2>2, <2>3 DEF Entries
<1> HIDE DEF proof, same, i
<1>6. /\ resolved \in Seq(Entries) /\ Len(resolved) = Len(log)
      /\ \A j \in 1..Len(log) : resolved[j] = log[j] \/ (j = i /\ resolved[j] = e /\ truth)
  BY <1>2, <1>3, <1>5, ExceptSeq
<1> HIDE DEF resolved
<1>7. ~ Honest(e.orig)
  <2>1. SUFFICES ASSUME Honest(e.orig) PROVE FALSE
    OBVIOUS
  <2>2. e.orig \in Originators
    BY EventLogAssumption
  <2>3. log[i] \in Deliverable
    BY <2>1, <2>2, <1>2, <1>3 DEF IInv, FileHonest
  <2>4. log[i] = e
    BY <2>1, <2>3, <1>3, HonestUnique
  <2>5. QED BY <2>4, <1>1 DEF i, same
<1>8. Accused(e, i, resolved, proof)
  BY <1>1, <1>3, <1>5, <1>6 DEF Accused, IsTruth
<1>9. i \in Nat
  BY <1>2, <1>3
<1>10. QED BY <1>5, <1>6, <1>7, <1>8, <1>9

\* Recording an equivocation, and perhaps the truth.
LEMMA EquivocateStep ==
  ASSUME IInv, up, NEW e \in Deliverable, Equivocate(e)
  PROVE  IInv'
<1>1. PICK i \in Nat, resolved \in Seq(Entries), proof \in Entries :
        Accused(e, i, resolved, proof)
  BY EquivocateAppends
<1>2. /\ log = disk /\ log \in Seq(Entries) /\ DOMAIN log = 1..Len(log)
      /\ disk' = log' /\ up' = up /\ pending' = pending /\ cache' = cache
  BY DEF Equivocate, IInv, MemoryIsFile, TypeOK
<1>3. /\ i \in DOMAIN log
      /\ log[i].orig = e.orig /\ log[i].seq = e.seq /\ log[i].kind # "proof"
  BY <1>1 DEF Accused
<1>4. /\ SyncedOnly(e.orig) => e.kind = "event"
      /\ proof.orig = e.orig /\ proof.kind = "proof"
  BY <1>1, EventLogAssumption DEF Accused, SyncedOnly
<1>5. /\ log' = Append(resolved, proof) /\ Len(resolved) = Len(log)
      /\ \A j \in 1..Len(log) : resolved[j] = log[j] \/ (j = i /\ resolved[j] = e)
  BY <1>1 DEF Accused
<1>6. DOMAIN resolved = 1..Len(log) /\ Len(log) \in Nat
  BY <1>2, <1>5, LenProperties
<1>7. ASSUME NEW o, SyncedOnly(o)
      PROVE  /\ ExpectedSeq(log', o) = ExpectedSeq(log, o)
             /\ GapFree(log, o) => GapFree(log', o)
  <2>1. EventsOf(resolved, o) = EventsOf(log, o)
    <3>1. ASSUME NEW j \in 1..Len(log)
          PROVE  resolved[j].orig = o /\ resolved[j].kind # "proof"
                   <=> log[j].orig = o /\ log[j].kind # "proof"
      <4>1. CASE resolved[j] = log[j]
        BY <4>1
      <4>2. CASE j = i /\ resolved[j] = e
        <5>1. resolved[j].orig = e.orig /\ resolved[j].kind = e.kind
          BY <4>2
        <5>2. log[j].orig = e.orig /\ log[j].kind # "proof"
          BY <4>2, <1>3
        <5>3. e.orig = o => e.kind # "proof"
          BY <1>4, <1>7
        <5>4. QED BY <5>1, <5>2, <5>3
      <4>3. QED BY <4>1, <4>2, <1>5
    <3>2. DOMAIN resolved = DOMAIN log /\ DOMAIN log = 1..Len(log)
      BY <1>2, <1>6
    <3>3. QED BY <3>1, <3>2 DEF EventsOf
  <2>2. \A j \in EventsOf(log, o) : resolved[j].seq = log[j].seq
    BY <1>2, <1>3, <1>5 DEF EventsOf
  <2>3. /\ ExpectedSeq(resolved, o) = ExpectedSeq(log, o)
        /\ GapFree(log, o) => GapFree(resolved, o)
    BY <2>1, <2>2, <1>2, SameEvents
  <2>4. QED BY <2>3, <1>4, <1>5, AppendOther
<1>8. /\ log' \in Seq(Entries) /\ Len(log') = Len(log) + 1
      /\ \A j \in 1..Len(log) : log'[j] = resolved[j]
      /\ log'[Len(log) + 1] = proof
      /\ DOMAIN log' = 1..(Len(log) + 1)
  BY <1>5, <1>6, AppendProperties, LenProperties
<1>9. TypeOK'
  BY <1>2, <1>8 DEF IInv, TypeOK
<1>10. MemoryIsFile'
  BY <1>2 DEF IInv, MemoryIsFile
<1>11. FileGapFree'
  BY <1>1, <1>2, <1>7 DEF IInv, FileGapFree
<1>12. ~ Honest(e.orig)
  BY EquivocateAppends
<1>13. FileHonest'
  <2>1. ASSUME NEW o \in Originators, Honest(o), NEW j \in DOMAIN log', log'[j].orig = o
        PROVE  log'[j] \in Deliverable
    <3>1. o # e.orig
      BY <2>1, <1>12
    <3>2. j \in 1..Len(log) /\ log'[j] = log[j]
      BY <2>1, <3>1, <1>4, <1>5, <1>6, <1>8
    <3>3. QED BY <2>1, <3>2, <1>2 DEF IInv, FileHonest
  <2>2. QED BY <2>1, <1>2 DEF FileHonest
<1>14. StagingFinite' /\ StagedAhead'
  BY <1>2, <1>7 DEF IInv, StagingFinite, StagedAhead
<1>15. QED BY <1>9, <1>10, <1>11, <1>13, <1>14 DEF IInv

\* Recording a gossip frame: its originator is not one that is only synced.
LEMMA RecordStep ==
  ASSUME IInv, NEW f \in Frames, NEW bad \in BOOLEAN, RecordGossipEvent(f, bad)
  PROVE  IInv'
<1> DEFINE x == Recorded(f, bad)
<1>1. /\ log' = Append(log, x) /\ disk' = log' /\ up
      /\ up' = up /\ pending' = pending /\ cache' = cache
  BY DEF RecordGossipEvent
<1>2. log = disk /\ log \in Seq(Entries) /\ DOMAIN log = 1..Len(log)
  BY <1>1 DEF IInv, MemoryIsFile, TypeOK
<1>3. x \in Entries /\ x.orig = f.orig
  BY DEF Entries, Events, Recorded
<1> HIDE DEF x
<1>4. ASSUME NEW o, SyncedOnly(o)
      PROVE  /\ x.orig # o
             /\ ExpectedSeq(log', o) = ExpectedSeq(log, o)
             /\ GapFree(log, o) => GapFree(log', o)
  BY <1>1, <1>2, <1>3, <1>4, AppendOther DEF SyncedOnly
<1>5. /\ log' \in Seq(Entries) /\ Len(log') = Len(log) + 1
      /\ \A j \in 1..Len(log) : log'[j] = log[j]
      /\ log'[Len(log) + 1] = x
      /\ DOMAIN log' = 1..(Len(log) + 1) /\ Len(log) \in Nat
  BY <1>1, <1>2, <1>3, AppendProperties, LenProperties
<1>6. TypeOK'
  BY <1>1, <1>5 DEF IInv, TypeOK
<1>7. MemoryIsFile'
  BY <1>1 DEF IInv, MemoryIsFile
<1>8. FileGapFree'
  BY <1>1, <1>2, <1>4 DEF IInv, FileGapFree
<1>9. FileHonest'
  <2>1. ASSUME NEW o \in Originators, Honest(o), NEW j \in DOMAIN log', log'[j].orig = o
        PROVE  log'[j] \in Deliverable
    <3>1. x.orig # o
      BY <2>1, <1>4 DEF Honest
    <3>2. j \in 1..Len(log) /\ log'[j] = log[j]
      BY <2>1, <3>1, <1>5
    <3>3. QED BY <2>1, <3>2, <1>2 DEF IInv, FileHonest
  <2>2. QED BY <2>1, <1>1 DEF FileHonest
<1>10. StagingFinite' /\ StagedAhead'
  BY <1>1, <1>4 DEF IInv, StagingFinite, StagedAhead
<1>11. QED BY <1>6, <1>7, <1>8, <1>9, <1>10 DEF IInv

\* What the drain loop promotes: a run of consecutive numbers that leaves
\* staged only what is beyond the next number.
LEMMA DrainedRun ==
  ASSUME NEW D \in SUBSET Nat, NEW p, DOMAIN p = D, NEW s \in Nat, NEW n \in Nat,
         \A t \in D : t > s, Drains(p, s, n)
  PROVE  /\ \A k \in 1..n : s + k \in D
         /\ \A t \in D \ (s + 1)..(s + n) : t > s + n + 1
<1>1. ~ \E t \in D : t <= s
  OBVIOUS
<1>2. (\A k \in 1..n : s + k \in D) /\ s + n + 1 \notin D
  BY <1>1 DEF Drains
<1>3. ASSUME NEW t \in D, t \notin (s + 1)..(s + n) PROVE t > s + n + 1
  BY <1>2, <1>3
<1>4. QED BY <1>2, <1>3

\* What Extend appends: the expected event of o, then the n events that were
\* staged behind it, each of them linked to the one before; all as they were
\* signed if o is honest.
Appended(e, n, new) ==
  LET o == e.orig
      p == pending[o]
  IN
  /\ Len(new) = n + 1
  /\ log' = log \o new
  /\ Drains(p, e.seq, n)
  /\ pending' = [pending EXCEPT ![o] =
                   [s \in DOMAIN p \ (e.seq + 1)..(e.seq + n) |-> p[s]]]
  /\ new[1] = Linked(e, ExpectedPrev(log, o))
  /\ \A k \in 1..n :
        p[e.seq + k] \in Deliverable /\ new[k + 1] = Linked(p[e.seq + k], Hash(new[k]))
  /\ \A k \in 1..(n + 1) :
        /\ new[k].orig = o /\ new[k].seq = e.seq + k - 1
        /\ SyncedOnly(o) => new[k].kind = "event"
  /\ Honest(o) => \A k \in 1..(n + 1) : new[k] \in Deliverable

\* Extend appends such a run. An honest chain is appended as it was signed: were
\* an entry flagged, the first one flagged would follow one that is not, to which
\* it links.
LEMMA ExtendAppends ==
  ASSUME IInv, up, NEW e \in Deliverable, Extend(e)
  PROVE  \E n \in Nat : \E new \in Seq(Entries) : Appended(e, n, new)
<1> DEFINE o == e.orig
           p == pending[o]
           head == Linked(e, ExpectedPrev(log, o))
<1> DEFINE Drain(n, bad) ==
             /\ Drains(p, e.seq, n)
             /\ LET promoted == [k \in 1..n |-> Flag(p[e.seq + k], bad[k])]
                    new == <<head>> \o promoted
                IN /\ \A k \in 1..n : promoted[k] = Linked(p[e.seq + k], Hash(new[k]))
                   /\ log' = log \o new
             /\ pending' = [pending EXCEPT ![o] =
                              [s \in DOMAIN p \ (e.seq + 1)..(e.seq + n) |-> p[s]]]
<1>0. PICK n \in 0..MAX_STAGED_EVENTS : \E bad \in [1..n -> BOOLEAN] : Drain(n, bad)
  BY DEF Extend
<1>1. PICK bad \in [1..n -> BOOLEAN] : Drain(n, bad)
  BY <1>0
<1> DEFINE promoted == [k \in 1..n |-> Flag(p[e.seq + k], bad[k])]
           new == <<head>> \o promoted
           rest == [s \in DOMAIN p \ (e.seq + 1)..(e.seq + n) |-> p[s]]
<1>2. /\ e.seq = ExpectedSeq(log, o) /\ disk' = log' /\ up' = up
      /\ DOMAIN cache' = {}
      /\ log = disk /\ log \in Seq(Entries)
      /\ DOMAIN log = 1..Len(log) /\ Len(log) \in Nat
  <2>1. e.seq = ExpectedSeq(log, o) /\ disk' = log' /\ up' = up /\ DOMAIN cache' = {}
    BY DEF Extend, Clear
  <2>2. log = disk /\ log \in Seq(Entries)
    BY DEF IInv, MemoryIsFile, TypeOK
  <2>3. QED BY <2>1, <2>2, LenProperties
<1>3. /\ o \in Originators /\ e.seq \in Nat \ {0} /\ n \in Nat /\ DOMAIN pending = Originators
      /\ SyncedOnly(o) => e.kind = "event"
  BY EventLogAssumption DEF IInv, TypeOK, SyncedOnly
<1>4. \A s \in DOMAIN p : p[s] \in Deliverable /\ p[s].seq = s /\ p[s].orig = o
  BY <1>3 DEF IInv, TypeOK
<1>5. /\ Drains(p, e.seq, n)
      /\ \A k \in 1..n : promoted[k] = Linked(p[e.seq + k], Hash(new[k]))
      /\ log' = log \o new
      /\ pending' = [pending EXCEPT ![o] = rest]
  BY <1>1
<1>6. \A k \in 1..n : e.seq + k \in DOMAIN p
  BY <1>5, <1>3 DEF Drains
<1>7. /\ head \in Events /\ head.orig = o /\ head.seq = e.seq
      /\ SyncedOnly(o) => head.kind = "event"
      /\ e.prev = ExpectedPrev(log, o) /\ ~e.bad => head = e
  BY <1>3, FlagFields, EventLogAssumption DEF Linked
<1>8. ASSUME NEW k \in 1..n
      PROVE  /\ promoted[k] \in Events /\ promoted[k].orig = o
             /\ promoted[k].seq = e.seq + k
             /\ SyncedOnly(o) => promoted[k].kind = "event"
  <2>1. p[e.seq + k] \in Deliverable /\ p[e.seq + k].seq = e.seq + k /\ p[e.seq + k].orig = o
    BY <1>4, <1>6
  <2>2. promoted[k] = Flag(p[e.seq + k], bad[k]) /\ bad[k] \in BOOLEAN
    OBVIOUS
  <2>3. QED BY <2>1, <2>2, FlagFields
<1> HIDE DEF head, rest
<1>9. /\ new \in Seq(Entries) /\ Len(new) = n + 1
      /\ new[1] = head
      /\ \A k \in 1..n : new[k + 1] = promoted[k]
  <2>1. promoted \in [1..n -> Entries] /\ <<head>> \in Seq(Entries)
    BY <1>7, <1>8 DEF Entries
  <2>2. promoted \in Seq(Entries) /\ Len(promoted) = n
    BY <2>1, <1>3
  <2> HIDE DEF promoted
  <2>3. /\ new \in Seq(Entries) /\ Len(new) = 1 + n
        /\ \A i \in 1..(1 + n) : new[i] = IF i <= 1 THEN <<head>>[i] ELSE promoted[i - 1]
    BY <2>1, <2>2, ConcatProperties
  <2> HIDE DEF new
  <2>4. ASSUME NEW k \in 1..n PROVE new[k + 1] = promoted[k]
    <3>1. k + 1 \in 1..(1 + n) /\ ~ (k + 1 <= 1) /\ (k + 1) - 1 = k
      BY <1>3
    <3>2. QED BY <3>1, <2>3
  <2>5. QED BY <2>3, <2>4, <1>3
<1> HIDE DEF promoted, new
<1>10. \A k \in 1..Len(new) :
         /\ new[k] \in Entries /\ new[k].orig = o /\ new[k].seq = e.seq + k - 1
         /\ SyncedOnly(o) => new[k].kind = "event"
  <2>1. ASSUME NEW k \in 1..(n + 1)
        PROVE  /\ new[k] \in Entries /\ new[k].orig = o /\ new[k].seq = e.seq + k - 1
               /\ SyncedOnly(o) => new[k].kind = "event"
    <3>1. CASE k = 1
      BY <3>1, <1>3, <1>7, <1>9 DEF Entries
    <3>2. CASE k # 1
      <4>1. k - 1 \in 1..n /\ (k - 1) + 1 = k
        BY <3>2, <1>3
      <4>2. new[k] = promoted[k - 1]
        BY <4>1, <1>9
      <4>3. e.seq + (k - 1) = e.seq + k - 1
        BY <1>3
      <4>4. QED BY <4>1, <4>2, <4>3, <1>8 DEF Entries
    <3>3. QED BY <3>1, <3>2
  <2>2. QED BY <2>1, <1>9
<1>11. ASSUME Honest(o) PROVE \A k \in 1..Len(new) : new[k] \in Deliverable
  <2>1. /\ \A d \in Deliverable : d.orig = o =>
             /\ ~d.bad
             /\ \/ d.seq = 1 /\ d.prev = ZeroHash
                \/ \E c \in Deliverable :
                     c.orig = o /\ c.seq = d.seq - 1 /\ d.prev = Hash(c)
        /\ SyncedOnly(o)
    BY <1>11 DEF Honest
  <2>2. \A d \in Deliverable : d.seq \in Nat \ {0} /\ d.bad \in BOOLEAN
    BY EventLogAssumption
  <2>3. head = e
    <3>1. ~e.bad
      BY <2>1
    <3>2. e.prev = ExpectedPrev(log, o)
      <4>1. CASE EventsOf(log, o) = {}
        <5>1. e.seq = 1 /\ ExpectedPrev(log, o) = ZeroHash
          BY <4>1, <1>2 DEF ExpectedSeq, ExpectedPrev
        <5>2. ~ \E c \in Deliverable : c.seq = e.seq - 1
          BY <5>1, <2>2
        <5>3. QED BY <5>1, <5>2, <2>1
      <4>2. CASE EventsOf(log, o) # {}
        <5> DEFINE last == log[LastOf(EventsOf(log, o))]
        <5>1. LastOf(EventsOf(log, o)) \in EventsOf(log, o)
          BY <4>2, <1>2, LastEvent
        <5>2. last \in Deliverable /\ last.orig = o
          BY <5>1, <1>11, <1>2, <1>3 DEF EventsOf, IInv, FileHonest
        <5>3. e.seq = last.seq + 1 /\ ExpectedPrev(log, o) = Hash(last)
          BY <4>2, <1>2 DEF ExpectedSeq, ExpectedPrev
        <5> HIDE DEF last
        <5>4. e.seq # 1 /\ e.seq - 1 = last.seq
          BY <5>2, <5>3, <2>2
        <5>5. PICK c \in Deliverable : c.orig = o /\ c.seq = e.seq - 1 /\ e.prev = Hash(c)
          BY <5>4, <2>1
        <5>6. c = last
          BY <5>2, <5>4, <5>5, <1>11, HonestUnique
        <5>7. QED BY <5>3, <5>5, <5>6
      <4>3. QED BY <4>1, <4>2
    <3>3. QED BY <3>1, <3>2, <1>7
  <2>4. ASSUME NEW k \in 1..n
        PROVE  /\ p[e.seq + k] \in Deliverable
               /\ promoted[k].bad \in BOOLEAN
               /\ ~promoted[k].bad => promoted[k] = p[e.seq + k]
               /\ p[e.seq + k].prev = Hash(new[k]) => ~promoted[k].bad
    <3>1. p[e.seq + k] \in Deliverable /\ p[e.seq + k].orig = o
      BY <1>4, <1>6
    <3>2. ~ p[e.seq + k].bad /\ p[e.seq + k].bad \in BOOLEAN
      BY <3>1, <2>1, <2>2
    <3>3. promoted[k] = Flag(p[e.seq + k], p[e.seq + k].bad \/ p[e.seq + k].prev # Hash(new[k]))
      BY <1>5 DEF Linked
    <3> DEFINE d == p[e.seq + k]
               broken == d.prev # Hash(new[k])
    <3>4. promoted[k] = Flag(d, broken)
      <4>1. (d.bad \/ broken) = broken
        BY <3>2
      <4>2. QED BY <3>3, <4>1
    <3>5. d \in Deliverable /\ d.bad = FALSE /\ broken \in BOOLEAN
      BY <3>1, <3>2
    <3> HIDE DEF d, broken
    <3>6. /\ promoted[k].bad = broken
          /\ d.bad = broken => promoted[k] = d
      BY <3>4, <3>5, FlagFields
    <3>7. QED BY <3>1, <3>5, <3>6 DEF d, broken
  <2>5. \A k \in 1..n : ~promoted[k].bad
    <3> DEFINE B == {k \in 1..n : promoted[k].bad}
               k0 == FirstOf(B)
    <3>1. SUFFICES ASSUME B # {} PROVE FALSE
      OBVIOUS
    <3>2. k0 \in 1..n /\ promoted[k0].bad /\ \A j \in B : k0 <= j
      <4>1. B \in SUBSET Nat
        BY <1>3
      <4>2. k0 \in B /\ \A j \in B : k0 <= j
        BY <3>1, <4>1, LeastNatural
      <4>3. QED BY <4>2
    <3>3. new[k0] \in Deliverable /\ new[k0].orig = o /\ new[k0].seq = e.seq + k0 - 1
      <4>1. CASE k0 = 1
        BY <4>1, <2>3, <1>3, <1>9
      <4>2. CASE k0 # 1
        <5>1. k0 - 1 \in 1..n /\ (k0 - 1) + 1 = k0 /\ ~ (k0 <= k0 - 1)
          BY <3>2, <4>2, <1>3
        <5>2. ~ promoted[k0 - 1].bad
          BY <5>1, <3>2
        <5>3. promoted[k0 - 1] = p[e.seq + (k0 - 1)] /\ p[e.seq + (k0 - 1)] \in Deliverable
          BY <5>1, <5>2, <2>4
        <5>4. new[k0] = promoted[k0 - 1]
          BY <5>1, <1>9
        <5>5. e.seq + (k0 - 1) = e.seq + k0 - 1
          BY <1>3, <3>2
        <5>6. QED BY <5>1, <5>3, <5>4, <5>5, <1>8
      <4>3. QED BY <4>1, <4>2
    <3> DEFINE d == p[e.seq + k0]
    <3>4. d \in Deliverable /\ d.orig = o /\ d.seq = e.seq + k0
      BY <3>2, <1>4, <1>6
    <3> HIDE DEF k0, B, d
    <3>5. d.seq # 1 /\ d.seq - 1 = e.seq + k0 - 1
      BY <3>2, <3>4, <1>3
    <3>6. PICK c \in Deliverable : c.orig = o /\ c.seq = d.seq - 1 /\ d.prev = Hash(c)
      BY <3>4, <3>5, <2>1
    <3>7. c = new[k0]
      BY <3>3, <3>5, <3>6, <1>11, HonestUnique
    <3>8. QED BY <3>2, <3>6, <3>7, <2>4 DEF d
  <2>6. ASSUME NEW k \in 1..(n + 1) PROVE new[k] \in Deliverable
    <3>1. CASE k = 1
      BY <3>1, <2>3, <1>9
    <3>2. CASE k # 1
      <4>1. k - 1 \in 1..n /\ (k - 1) + 1 = k
        BY <3>2, <1>3
      <4>2. promoted[k - 1] \in Deliverable
        BY <4>1, <2>4, <2>5
      <4>3. QED BY <4>1, <4>2, <1>9
    <3>3. QED BY <3>1, <3>2
  <2>7. QED BY <2>6, <1>9
<1>12. \A k \in 1..n :
         p[e.seq + k] \in Deliverable /\ new[k + 1] = Linked(p[e.seq + k], Hash(new[k]))
  BY <1>4, <1>5, <1>6, <1>9
<1>13. Appended(e, n, new)
  BY <1>3, <1>5, <1>9, <1>10, <1>11, <1>12 DEF Appended, head, rest
<1>14. QED BY <1>3, <1>9, <1>13

\* Appending the expected event of o and what was staged behind it.
LEMMA ExtendStep ==
  ASSUME IInv, up, NEW e \in Deliverable, Extend(e)
  PROVE  IInv'
<1> DEFINE o == e.orig
           p == pending[o]
<1>1. PICK n \in Nat, new \in Seq(Entries) : Appended(e, n, new)
  BY ExtendAppends
<1> DEFINE rest == [s \in DOMAIN p \ (e.seq + 1)..(e.seq + n) |-> p[s]]
<1>2. /\ e.seq = ExpectedSeq(log, o) /\ disk' = log' /\ up' = up
      /\ DOMAIN cache' = {}
      /\ log = disk /\ log \in Seq(Entries)
      /\ DOMAIN log = 1..Len(log) /\ Len(log) \in Nat
  <2>1. e.seq = ExpectedSeq(log, o) /\ disk' = log' /\ up' = up /\ DOMAIN cache' = {}
    BY DEF Extend, Clear
  <2>2. log = disk /\ log \in Seq(Entries)
    BY DEF IInv, MemoryIsFile, TypeOK
  <2>3. QED BY <2>1, <2>2, LenProperties
<1>3. /\ o \in Originators /\ e.seq \in Nat \ {0} /\ n \in Nat /\ DOMAIN pending = Originators
      /\ SyncedOnly(o) => e.kind = "event"
  BY EventLogAssumption DEF IInv, TypeOK, SyncedOnly
<1>4. \A s \in DOMAIN p : p[s] \in Deliverable /\ p[s].seq = s /\ p[s].orig = o
  BY <1>3 DEF IInv, TypeOK
<1>5. /\ Drains(p, e.seq, n)
      /\ log' = log \o new
      /\ pending' = [pending EXCEPT ![o] = rest]
  BY <1>1 DEF Appended
<1> HIDE DEF rest
<1>6. new \in Seq(Entries) /\ Len(new) = n + 1
  BY <1>1 DEF Appended
<1>7. \A k \in 1..Len(new) :
         /\ new[k] \in Entries /\ new[k].orig = o /\ new[k].seq = e.seq + k - 1
         /\ SyncedOnly(o) => new[k].kind = "event"
  BY <1>1, <1>6, LenProperties DEF Appended
<1>8. Honest(o) => \A k \in 1..Len(new) : new[k] \in Deliverable
  BY <1>1, <1>6 DEF Appended
<1>9. /\ log' \in Seq(Entries) /\ Len(log') = Len(log) + Len(new)
      /\ DOMAIN log' = 1..(Len(log) + Len(new))
      /\ \A j \in 1..Len(log) : log'[j] = log[j]
      /\ \A j \in 1..(Len(log) + Len(new)) : j > Len(log) => log'[j] = new[j - Len(log)]
  <2>1. /\ log' \in Seq(Entries) /\ Len(log') = Len(log) + Len(new)
        /\ \A j \in 1..(Len(log) + Len(new)) :
             log'[j] = IF j <= Len(log) THEN log[j] ELSE new[j - Len(log)]
    BY <1>2, <1>5, <1>6, ConcatProperties
  <2>2. DOMAIN log' = 1..(Len(log) + Len(new))
    BY <2>1, LenProperties
  <2>3. Len(log) \in Nat /\ Len(new) \in Nat
    BY <1>2, <1>3, <1>6
  <2>4. QED BY <2>1, <2>2, <2>3
<1>10. /\ DOMAIN pending' = Originators /\ pending'[o] = rest
       /\ \A m \in Originators \ {o} : pending'[m] = pending[m]
       /\ DOMAIN rest = DOMAIN p \ (e.seq + 1)..(e.seq + n)
       /\ \A s \in DOMAIN rest : rest[s] = p[s]
  BY <1>3, <1>5 DEF rest
<1>11. IsFiniteSet(DOMAIN rest) /\ Cardinality(DOMAIN rest) <= MAX_STAGED_EVENTS
  <2>1. /\ IsFiniteSet(DOMAIN p) /\ Cardinality(DOMAIN p) <= MAX_STAGED_EVENTS
        /\ DOMAIN rest \in SUBSET (DOMAIN p)
    BY <1>3, <1>10 DEF IInv, TypeOK, StagingFinite
  <2>2. /\ IsFiniteSet(DOMAIN rest)
        /\ Cardinality(DOMAIN rest) <= Cardinality(DOMAIN p)
    BY <2>1, FS_Subset, Zenon
  <2>3. Cardinality(DOMAIN rest) \in Nat /\ Cardinality(DOMAIN p) \in Nat
    BY <2>1, <2>2, FS_CardinalityType
  <2>4. QED BY <2>1, <2>2, <2>3, EventLogAssumption
<1>12. TypeOK'
  <2>1. ASSUME NEW m \in Originators
        PROVE  /\ \A s \in DOMAIN pending'[m] :
                     /\ pending'[m][s] \in Deliverable
                     /\ pending'[m][s].seq = s /\ pending'[m][s].orig = m
               /\ Cardinality(DOMAIN pending'[m]) <= MAX_STAGED_EVENTS
    <3>1. CASE m = o
      BY <3>1, <1>4, <1>10, <1>11
    <3>2. CASE m # o
      BY <3>2, <1>10 DEF IInv, TypeOK
    <3>3. QED BY <3>1, <3>2
  <2>2. QED BY <2>1, <1>2, <1>9, <1>10 DEF IInv, TypeOK
<1>13. MemoryIsFile'
  BY <1>2 DEF MemoryIsFile
<1>14. StagingFinite'
  <2>1. ASSUME NEW m \in Originators PROVE IsFiniteSet(DOMAIN pending'[m])
    BY <1>10, <1>11 DEF IInv, StagingFinite
  <2>2. QED BY <2>1 DEF StagingFinite
<1>15. ASSUME NEW m, m # o
       PROVE  /\ EventsOf(log', m) = EventsOf(log, m)
              /\ ExpectedSeq(log', m) = ExpectedSeq(log, m)
              /\ GapFree(log, m) => GapFree(log', m)
  <2>1. \A j \in 1..(Len(log) + Len(new)) : j > Len(log) => log'[j].orig = o
    <3>1. ASSUME NEW j \in 1..(Len(log) + Len(new)), j > Len(log)
          PROVE  log'[j].orig = o
      <4>1. j - Len(log) \in 1..Len(new)
        BY <3>1, <1>2, <1>3, <1>6
      <4>2. QED BY <4>1, <3>1, <1>7, <1>9
    <3>2. QED BY <3>1
  <2>2. EventsOf(log', m) = EventsOf(log, m)
    <3>1. ASSUME NEW j \in EventsOf(log', m) PROVE j \in EventsOf(log, m)
      BY <2>1, <1>15, <1>2, <1>9 DEF EventsOf
    <3>2. ASSUME NEW j \in EventsOf(log, m) PROVE j \in EventsOf(log', m)
      BY <1>2, <1>3, <1>6, <1>9 DEF EventsOf
    <3>3. QED BY <3>1, <3>2
  <2>3. \A j \in EventsOf(log, m) : log'[j].seq = log[j].seq
    BY <1>2, <1>9 DEF EventsOf
  <2>4. QED BY <2>2, <2>3, <1>2, SameEvents
<1>16. GapFree(log, o) /\ SyncedOnly(o) =>
         GapFree(log', o) /\ ExpectedSeq(log', o) = e.seq + n + 1
  <2>1. SUFFICES ASSUME GapFree(log, o), SyncedOnly(o)
                 PROVE  GapFree(log', o) /\ ExpectedSeq(log', o) = e.seq + n + 1
    OBVIOUS
  <2>2. /\ Len(new) > 0
        /\ \A k \in 1..Len(new) :
             /\ new[k].orig = o /\ new[k].kind = "event"
             /\ new[k].seq = ExpectedSeq(log, o) + k - 1
    BY <2>1, <1>2, <1>3, <1>6, <1>7
  <2>3. /\ GapFree(log \o new, o)
        /\ ExpectedSeq(log \o new, o) = ExpectedSeq(log, o) + Len(new)
    BY <2>1, <2>2, <1>2, <1>6, AppendRun
  <2>4. QED BY <2>3, <1>2, <1>3, <1>5, <1>6
<1>17. FileGapFree'
  <2>1. ASSUME NEW m \in Originators, SyncedOnly(m) PROVE GapFree(log', m)
    <3>1. GapFree(log, m)
      BY <2>1, <1>2 DEF IInv, FileGapFree
    <3>2. QED BY <2>1, <3>1, <1>15, <1>16
  <2>2. QED BY <2>1, <1>2 DEF FileGapFree
<1>18. StagedAhead'
  <2>1. ASSUME NEW m \in Originators, SyncedOnly(m), NEW s \in DOMAIN pending'[m]
        PROVE  s > ExpectedSeq(log', m)
    <3>1. CASE m = o
      <4>1. ExpectedSeq(log', o) = e.seq + n + 1
        BY <3>1, <2>1, <1>2, <1>16 DEF IInv, FileGapFree
      <4>2. DOMAIN p \in SUBSET Nat /\ \A t \in DOMAIN p : t > e.seq
        BY <3>1, <2>1, <1>2, <1>3, StagedNumbers DEF IInv, StagedAhead
      <4>3. \A t \in DOMAIN p \ (e.seq + 1)..(e.seq + n) : t > e.seq + n + 1
        BY <4>2, <1>3, <1>5, DrainedRun
      <4>4. QED BY <3>1, <2>1, <4>1, <4>3, <1>10
    <3>2. CASE m # o
      BY <3>2, <2>1, <1>10, <1>15 DEF IInv, StagedAhead
    <3>3. QED BY <3>1, <3>2
  <2>2. QED BY <2>1 DEF StagedAhead
<1>19. FileHonest'
  <2>1. ASSUME NEW m \in Originators, Honest(m), NEW j \in DOMAIN log', log'[j].orig = m
        PROVE  log'[j] \in Deliverable
    <3>1. CASE j <= Len(log)
      <4>1. j \in 1..Len(log) /\ log'[j] = log[j]
        BY <3>1, <1>2, <1>9
      <4>2. QED BY <4>1, <2>1, <1>2 DEF IInv, FileHonest
    <3>2. CASE j > Len(log)
      <4>1. j - Len(log) \in 1..Len(new) /\ log'[j] = new[j - Len(log)]
        BY <3>2, <1>2, <1>3, <1>6, <1>9
      <4>2. m = o
        BY <4>1, <2>1, <1>7
      <4>3. QED BY <4>1, <4>2, <2>1, <1>8
    <3>3. QED BY <3>1, <3>2, <1>2, <1>9
  <2>2. QED BY <2>1, <1>2 DEF FileHonest
<1>20. QED BY <1>12, <1>13, <1>14, <1>17, <1>18, <1>19 DEF IInv

\* Stopping forgets what is only in memory, opening reads the file back.
LEMMA StopStep ==
  ASSUME IInv, Stop
  PROVE  IInv'
<1>1. /\ up' = FALSE /\ log' = <<>> /\ disk' = disk
      /\ DOMAIN pending' = Originators
      /\ \A o \in Originators : DOMAIN pending'[o] = {}
      /\ DOMAIN cache' = {}
  BY DEF Stop, Clear
<1>2. \A o \in Originators :
        /\ IsFiniteSet(DOMAIN pending'[o])
        /\ Cardinality(DOMAIN pending'[o]) <= MAX_STAGED_EVENTS
  <2>1. ASSUME NEW o \in Originators
        PROVE  /\ IsFiniteSet(DOMAIN pending'[o])
               /\ Cardinality(DOMAIN pending'[o]) <= MAX_STAGED_EVENTS
    <3>1. IsFiniteSet(DOMAIN pending'[o]) /\ Cardinality(DOMAIN pending'[o]) = 0
      BY <1>1, FS_EmptySet, Zenon
    <3>2. QED BY <3>1, EventLogAssumption
  <2>2. QED BY <2>1
<1>3. log' \in Seq(Entries)
  BY <1>1
<1>4. QED
  BY <1>1, <1>2, <1>3
     DEF IInv, TypeOK, MemoryIsFile, FileGapFree, FileHonest, StagingFinite, StagedAhead

\* Opening takes the log from the file, if every line of it verifies.
LEMMA OpenStep ==
  ASSUME IInv, Open
  PROVE  IInv'
<1>1. ~up /\ disk' = disk /\ pending' = pending /\ cache' = cache
  BY DEF Open
<1>2. (up' = TRUE /\ log' = disk) \/ (up' = up /\ log' = log)
  BY DEF Open
<1>3. \A o \in Originators : DOMAIN pending[o] = {}
  BY <1>1 DEF IInv, MemoryIsFile
<1>4. TypeOK'
  <2>1. up' \in BOOLEAN /\ log' \in Seq(Entries) /\ disk' \in Seq(Entries)
    BY <1>1, <1>2 DEF IInv, TypeOK
  <2>2. QED BY <2>1, <1>1 DEF IInv, TypeOK
<1>5. MemoryIsFile'
  BY <1>1, <1>2, <1>3 DEF IInv, MemoryIsFile
<1>6. FileGapFree' /\ FileHonest' /\ StagingFinite' /\ StagedAhead'
  BY <1>1, <1>3 DEF IInv, FileGapFree, FileHonest, StagingFinite, StagedAhead
<1>7. QED BY <1>4, <1>5, <1>6 DEF IInv

\* Filling the cache touches nothing else.
LEMMA MerkleStep ==
  ASSUME IInv, NEW o \in Originators, NEW r \in Ranges, ComputeMerkle(o, r)
  PROVE  IInv'
<1>1. /\ up' = up /\ log' = log /\ disk' = disk /\ pending' = pending
      /\ DOMAIN cache' = DOMAIN cache \cup {<<o, r>>}
  BY DEF ComputeMerkle
<1>2. QED
  BY <1>1 DEF IInv, TypeOK, MemoryIsFile, FileGapFree, FileHonest, StagingFinite, StagedAhead

\* Every step keeps the inductive invariant: one case for each action.
LEMMA StepIInv == IInv /\ [Next]_vars => IInv'
<1> SUFFICES ASSUME IInv, [Next]_vars PROVE IInv'
  OBVIOUS
<1>1. ASSUME NEW e \in Deliverable, AppendEvent(e) PROVE IInv'
  <2>1. up
    BY <1>1 DEF AppendEvent
  <2>2. CASE Stage(e)
    BY <2>1, <2>2, StageStep
  <2>3. CASE Equivocate(e)
    BY <2>1, <2>3, EquivocateStep
  <2>4. CASE Discard(e)
    BY <2>4 DEF Discard, vars, IInv, TypeOK, MemoryIsFile, FileGapFree, FileHonest,
                StagingFinite, StagedAhead
  <2>5. CASE Extend(e)
    BY <2>1, <2>5, ExtendStep
  <2>6. QED BY <1>1, <2>2, <2>3, <2>4, <2>5 DEF AppendEvent
<1>2. ASSUME NEW f \in Frames, NEW bad \in BOOLEAN, RecordGossipEvent(f, bad) PROVE IInv'
  BY <1>2, RecordStep
<1>3. ASSUME NEW o \in Originators, NEW r \in Ranges, ComputeMerkle(o, r) PROVE IInv'
  BY <1>3, MerkleStep
<1>4. CASE Stop
  BY <1>4, StopStep
<1>5. CASE Open
  BY <1>5, OpenStep
<1>6. CASE UNCHANGED vars
  BY <1>6 DEF vars, IInv, TypeOK, MemoryIsFile, FileGapFree, FileHonest,
              StagingFinite, StagedAhead
<1>7. QED BY <1>1, <1>2, <1>3, <1>4, <1>5, <1>6 DEF Next

\* The inductive invariant holds in every reachable state.
LEMMA InvariantHolds == Spec => []IInv
  BY InitIInv, StepIInv, PTL DEF Spec

-----------------------------------------------------------------------------
(* What follows from it.                                                   *)

\* Only entries that were sent, and proofs about them, are logged; staging is
\* bounded.
THEOREM TypeCorrect == Spec => []TypeOK
<1>1. IInv => TypeOK
  BY DEF IInv
<1>2. QED BY <1>1, InvariantHolds, PTL

\* The log of an originator that is only synced has no gap and is in order.
THEOREM SyncedChainsHaveNoGap == Spec => []SyncedChainGapFree
<1>1. IInv => SyncedChainGapFree
  <2>1. SUFFICES ASSUME IInv, NEW o \in Originators, SyncedOnly(o)
                 PROVE  GapFree(log, o)
    BY DEF SyncedChainGapFree
  <2>2. CASE up
    BY <2>1, <2>2 DEF IInv, MemoryIsFile, FileGapFree
  <2>3. CASE ~up
    <3>1. DOMAIN log = {}
      BY <2>1, <2>3 DEF IInv, MemoryIsFile
    <3>2. QED BY <3>1 DEF GapFree, EventsOf
  <2>4. QED BY <2>2, <2>3
<1>2. QED BY <1>1, InvariantHolds, PTL

\* Staged events are always ahead: none that could be promoted is left behind.
THEOREM StagedIsAhead == Spec => []StagedAhead
<1>1. IInv => StagedAhead
  BY DEF IInv
<1>2. QED BY <1>1, InvariantHolds, PTL

\* An honest originator is never flagged nor accused.
THEOREM HonestIsNeverAccused == Spec => []HonestNeverAccused
<1>1. IInv => HonestNeverAccused
  <2>1. SUFFICES ASSUME IInv, NEW o \in Originators, Honest(o),
                        NEW i \in DOMAIN log, log[i].orig = o
                 PROVE  log[i] \in Deliverable
    BY DEF HonestNeverAccused
  <2>2. up
    BY <2>1 DEF IInv, MemoryIsFile
  <2>3. QED BY <2>1, <2>2 DEF IInv, MemoryIsFile, FileHonest
<1>2. QED BY <1>1, InvariantHolds, PTL

-----------------------------------------------------------------------------
(* What a step may do to the log and to its file.                          *)

\* If the last entry is an event of o, the next one of o has to link to it.
LEMMA LinksToLast ==
  ASSUME NEW l \in Seq(Entries), NEW o, Len(l) > 0,
         l[Len(l)].orig = o, l[Len(l)].kind # "proof"
  PROVE  ExpectedPrev(l, o) = Hash(l[Len(l)])
<1>1. Len(l) \in Nat /\ DOMAIN l = 1..Len(l)
  BY LenProperties
<1>2. Len(l) \in EventsOf(l, o)
  BY <1>1 DEF EventsOf
<1>3. /\ EventsOf(l, o) \subseteq 1..Len(l)
      /\ LastOf(EventsOf(l, o)) \in EventsOf(l, o)
      /\ \A i \in EventsOf(l, o) : i <= LastOf(EventsOf(l, o))
  BY <1>2, LastEvent
<1>4. LastOf(EventsOf(l, o)) = Len(l)
  BY <1>1, <1>2, <1>3
<1>5. QED BY <1>2, <1>4 DEF ExpectedPrev

\* An event linked to what it is compared with keeps its link.
LEMMA LinkedFields ==
  ASSUME NEW d \in Deliverable, NEW prev, ~Linked(d, prev).bad
  PROVE  Linked(d, prev).prev = prev
<1> DEFINE b == d.bad \/ d.prev # prev
<1>1. b \in BOOLEAN /\ Linked(d, prev) = Flag(d, b)
  BY EventLogAssumption DEF Linked
<1>2. Flag(d, b).bad = b /\ Flag(d, b).prev = d.prev
  BY DEF Flag
<1>3. ~b
  BY <1>1, <1>2
<1>4. QED BY <1>1, <1>2, <1>3

\* What Extend appends is flagged, or links to what is in front of it.
LEMMA ExtendLinks ==
  ASSUME IInv, up, NEW e \in Deliverable, Extend(e)
  PROVE  AppendsLinked
<1> DEFINE o == e.orig
           a == Len(log)
<1>1. PICK n \in Nat, new \in Seq(Entries) : Appended(e, n, new)
  BY ExtendAppends
<1>2. log \in Seq(Entries) /\ a \in Nat /\ DOMAIN log = 1..a
  BY LenProperties DEF IInv, TypeOK
<1>3. /\ Len(new) = n + 1 /\ log' = log \o new
      /\ new[1] = Linked(e, ExpectedPrev(log, o))
      /\ \A k \in 1..n : \E d \in Deliverable : new[k + 1] = Linked(d, Hash(new[k]))
      /\ \A k \in 1..(n + 1) :
            new[k].orig = o /\ (SyncedOnly(o) => new[k].kind = "event")
  BY <1>1 DEF Appended
<1>4. /\ log' \in Seq(Entries) /\ Len(log') = a + n + 1 /\ DOMAIN log' = 1..(a + n + 1)
      /\ \A j \in 1..(a + n + 1) : log'[j] = IF j <= a THEN log[j] ELSE new[j - a]
  <2>1. /\ log' \in Seq(Entries) /\ Len(log') = a + Len(new)
        /\ \A j \in 1..(a + Len(new)) : log'[j] = IF j <= a THEN log[j] ELSE new[j - a]
    BY <1>2, <1>3, ConcatProperties
  <2>2. a + Len(new) = a + n + 1
    BY <1>2, <1>3
  <2>3. QED BY <2>1, <2>2, LenProperties
<1> HIDE DEF a
<1>5. ASSUME NEW i \in DOMAIN log' \ DOMAIN log, ~log'[i].bad, SyncedOnly(o)
      PROVE  log'[i].prev = ExpectedPrev(SubSeq(log', 1, i - 1), o)
  <2> DEFINE k == i - a
             m == SubSeq(log', 1, i - 1)
  <2>1. /\ k \in 1..(n + 1) /\ log'[i] = new[k] /\ i - 1 \in Nat
        /\ i \in 1..(a + n + 1)
    BY <1>2, <1>4
  <2>2. /\ m \in Seq(Entries) /\ Len(m) = i - 1
        /\ \A j \in 1..(i - 1) : m[j] = log'[j]
    <3>1. 1 \in 1..(Len(log') + 1) /\ i - 1 \in (1 - 1)..Len(log')
      BY <2>1, <1>2, <1>4
    <3>2. /\ m \in Seq(Entries)
          /\ Len(m) = IF 1 <= i - 1 THEN (i - 1) - 1 + 1 ELSE 0
          /\ \A j \in 1..((i - 1) - 1 + 1) : m[j] = log'[1 + j - 1]
      BY <1>4, <3>1, SubSeqProperties
    <3>3. (i - 1) - 1 + 1 = i - 1 /\ \A j \in 1..(i - 1) : 1 + j - 1 = j
      BY <2>1
    <3>4. (IF 1 <= i - 1 THEN (i - 1) - 1 + 1 ELSE 0) = i - 1
      BY <2>1
    <3>5. QED BY <3>2, <3>3, <3>4
  <2> HIDE DEF m
  <2>3. CASE k = 1
    <3>1. i - 1 = a
      BY <2>1, <2>3, <1>2
    <3>2. m = log
      <4>1. DOMAIN m = 1..a /\ \A j \in 1..a : m[j] = log[j]
        BY <2>2, <3>1, <1>2, <1>4, LenProperties
      <4>2. QED BY <4>1, <1>2, <2>2, SeqEqual
    <3>3. e \in Deliverable /\ ~Linked(e, ExpectedPrev(log, o)).bad
      BY <1>3, <1>5, <2>1, <2>3
    <3>4. new[1].prev = ExpectedPrev(log, o)
      BY <1>3, <3>3, LinkedFields
    <3>5. QED BY <2>1, <2>3, <3>2, <3>4 DEF m
  <2>4. CASE k # 1
    <3>1. /\ k - 1 \in 1..n /\ k - 1 \in 1..(n + 1) /\ (k - 1) + 1 = k
          /\ i - 1 \in 1..(i - 1) /\ i - 1 \in 1..(a + n + 1) /\ ~ (i - 1 <= a)
          /\ (i - 1) - a = k - 1 /\ i - 1 > 0
      BY <2>1, <2>4, <1>2
    <3> HIDE DEF k
    <3>2. m[i - 1] = new[k - 1]
      BY <3>1, <2>2, <1>4
    <3>3. ExpectedPrev(m, o) = Hash(new[k - 1])
      <4>1. m[Len(m)].orig = o /\ m[Len(m)].kind # "proof" /\ Len(m) > 0
        BY <3>1, <3>2, <2>2, <1>3, <1>5
      <4>2. QED BY <4>1, <2>2, <3>2, LinksToLast
    <3>4. PICK d \in Deliverable : new[k] = Linked(d, Hash(new[k - 1]))
      BY <3>1, <1>3
    <3>5. new[k].prev = Hash(new[k - 1])
      BY <3>4, <2>1, <1>5, LinkedFields
    <3>6. QED BY <2>1, <3>3, <3>5 DEF m
  <2>5. QED BY <2>3, <2>4
<1>6. ASSUME NEW i \in DOMAIN log' \ DOMAIN log PROVE log'[i].orig = o
  <2>1. i - a \in 1..(n + 1) /\ log'[i] = new[i - a]
    BY <1>2, <1>4
  <2>2. QED BY <2>1, <1>3
<1>7. QED BY <1>5, <1>6 DEF AppendsLinked

\* Of what a step appends, only what links to its predecessor has no flag.
THEOREM UnflaggedEventsAreLinked == Spec => UnflaggedIsLinked
<1>1. IInv /\ [Next]_vars => [AppendsLinked]_vars
  <2> SUFFICES ASSUME IInv, [Next]_vars PROVE [AppendsLinked]_vars
    OBVIOUS
  <2>1. log \in Seq(Entries) /\ Len(log) \in Nat /\ DOMAIN log = 1..Len(log)
    BY LenProperties DEF IInv, TypeOK
  <2>2. ASSUME log' = log PROVE AppendsLinked
    BY <2>2 DEF AppendsLinked
  <2>3. ASSUME NEW x \in Entries, NEW l \in Seq(Entries), Len(l) = Len(log),
               log' = Append(l, x), x.bad \/ ~SyncedOnly(x.orig)
        PROVE  AppendsLinked
    <3>1. /\ DOMAIN log' = 1..(Len(log) + 1) /\ log'[Len(log) + 1] = x
      BY <2>1, <2>3, AppendProperties, LenProperties
    <3>2. \A i \in DOMAIN log' \ DOMAIN log : i = Len(log) + 1
      BY <2>1, <3>1
    <3>3. QED BY <2>3, <3>1, <3>2 DEF AppendsLinked
  <2>4. ASSUME NEW e \in Deliverable, AppendEvent(e) PROVE AppendsLinked
    <3>1. CASE Stage(e) \/ Discard(e)
      BY <3>1, <2>2 DEF Stage, Discard, vars
    <3>2. CASE Equivocate(e)
      <4>1. PICK i \in Nat, resolved \in Seq(Entries), proof \in Entries :
              Accused(e, i, resolved, proof)
        BY <3>2, <2>4, EquivocateAppends DEF AppendEvent
      <4>2. Len(resolved) = Len(log) /\ log' = Append(resolved, proof) /\ proof.bad
        BY <4>1 DEF Accused
      <4>3. QED BY <4>2, <2>3
    <3>3. CASE Extend(e)
      BY <3>3, <2>4, ExtendLinks DEF AppendEvent
    <3>4. QED BY <3>1, <3>2, <3>3, <2>4 DEF AppendEvent
  <2>5. ASSUME NEW f \in Frames, NEW bad \in BOOLEAN, RecordGossipEvent(f, bad)
        PROVE  AppendsLinked
    <3>1. log' = Append(log, Recorded(f, bad))
      BY <2>5 DEF RecordGossipEvent
    <3>2. Recorded(f, bad) \in Entries /\ Recorded(f, bad).orig = f.orig
      BY DEF Entries, Events, Recorded
    <3>3. ~SyncedOnly(f.orig)
      BY DEF SyncedOnly
    <3>4. QED BY <2>1, <2>3, <3>1, <3>2, <3>3
  <2>6. ASSUME NEW o \in Originators, NEW r \in Ranges, ComputeMerkle(o, r)
        PROVE  AppendsLinked
    BY <2>6, <2>2 DEF ComputeMerkle
  <2>7. CASE Stop
    BY <2>7 DEF Stop, AppendsLinked
  <2>8. CASE Open
    BY <2>8 DEF Open, AppendsLinked
  <2>9. QED BY <2>4, <2>5, <2>6, <2>7, <2>8 DEF Next
<1>2. QED BY <1>1, InvariantHolds, PTL DEF Spec, UnflaggedIsLinked

\* A line of the file stays, or the truth replaces it.
THEOREM OnlyTruthReplacesLines == Spec => OnlyTruthReplaces
<1>1. IInv /\ [Next]_vars => [ReplacedByTruth]_vars
  <2> SUFFICES ASSUME IInv, [Next]_vars PROVE [ReplacedByTruth]_vars
    OBVIOUS
  <2>1. /\ log \in Seq(Entries) /\ Len(log) \in Nat /\ DOMAIN log = 1..Len(log)
        /\ up => disk = log
    BY LenProperties DEF IInv, TypeOK, MemoryIsFile
  <2>2. ASSUME disk' = disk PROVE ReplacedByTruth
    BY <2>2 DEF ReplacedByTruth
  <2>3. ASSUME up, NEW new \in Seq(Entries), disk' = log \o new PROVE ReplacedByTruth
    <3>1. \A i \in 1..Len(log) : i \in DOMAIN disk' /\ disk'[i] = log[i]
      <4>1. /\ disk' \in Seq(Entries) /\ Len(disk') = Len(log) + Len(new)
            /\ \A i \in 1..(Len(log) + Len(new)) :
                 disk'[i] = IF i <= Len(log) THEN log[i] ELSE new[i - Len(log)]
        BY <2>1, <2>3, ConcatProperties
      <4>2. Len(new) \in Nat /\ DOMAIN disk' = 1..(Len(log) + Len(new))
        BY <4>1, LenProperties
      <4>3. QED BY <2>1, <4>1, <4>2
    <3>2. QED BY <2>1, <2>3, <3>1 DEF ReplacedByTruth
  <2>4. ASSUME NEW e \in Deliverable, AppendEvent(e) PROVE ReplacedByTruth
    <3>1. CASE Stage(e) \/ Discard(e)
      BY <3>1, <2>2 DEF Stage, Discard, vars
    <3>2. CASE Equivocate(e)
      <4>1. PICK i \in Nat, resolved \in Seq(Entries), proof \in Entries :
              Accused(e, i, resolved, proof)
        BY <3>2, <2>4, EquivocateAppends DEF AppendEvent
      <4>2. /\ log[i].orig = e.orig /\ log[i].seq = e.seq
            /\ Len(resolved) = Len(log)
            /\ \A j \in 1..Len(log) :
                  \/ resolved[j] = log[j]
                  \/ /\ j = i /\ resolved[j] = e
                     /\ log[i].bad /\ e.prev = CanonicalPrev(log, e.orig, e.seq)
            /\ log' = Append(resolved, proof)
        BY <4>1 DEF Accused
      <4>3. disk' = log' /\ disk = log
        BY <3>2, <2>4, <2>1 DEF Equivocate, AppendEvent
      <4>4. /\ \A j \in 1..Len(log) : log'[j] = resolved[j]
            /\ DOMAIN log' = 1..(Len(log) + 1)
        BY <4>2, AppendProperties, LenProperties
      <4>5. ASSUME NEW j \in DOMAIN log
            PROVE  /\ j \in DOMAIN log'
                   /\ log'[j] # log[j] =>
                        /\ log[j].bad
                        /\ log'[j].orig = log[j].orig /\ log'[j].seq = log[j].seq
                        /\ log'[j].prev = CanonicalPrev(log, log[j].orig, log[j].seq)
        BY <4>2, <4>4, <2>1
      <4>6. QED BY <4>3, <4>5 DEF ReplacedByTruth
    <3>3. CASE Extend(e)
      <4>1. up /\ disk' = log'
        BY <3>3, <2>4 DEF AppendEvent, Extend
      <4>2. PICK n \in Nat, new \in Seq(Entries) : Appended(e, n, new)
        BY <3>3, <4>1, ExtendAppends
      <4>3. QED BY <4>1, <4>2, <2>3 DEF Appended
    <3>4. QED BY <3>1, <3>2, <3>3, <2>4 DEF AppendEvent
  <2>5. ASSUME NEW f \in Frames, NEW bad \in BOOLEAN, RecordGossipEvent(f, bad)
        PROVE  ReplacedByTruth
    <3>1. up /\ disk' = Append(log, Recorded(f, bad))
      BY <2>5 DEF RecordGossipEvent
    <3>2. Recorded(f, bad) \in Entries
      BY DEF Entries, Events
    <3> DEFINE new == <<Recorded(f, bad)>>
    <3>3. new \in Seq(Entries) /\ disk' = log \o new
      BY <2>1, <3>1, <3>2, AppendIsConcat
    <3> HIDE DEF new
    <3>4. QED BY <2>3, <3>1, <3>3
  <2>6. ASSUME NEW o \in Originators, NEW r \in Ranges, ComputeMerkle(o, r)
        PROVE  ReplacedByTruth
    BY <2>6, <2>2 DEF ComputeMerkle
  <2>7. CASE Stop \/ Open
    BY <2>7, <2>2 DEF Stop, Open
  <2>8. QED BY <2>4, <2>5, <2>6, <2>7 DEF Next
<1>2. QED BY <1>1, InvariantHolds, PTL DEF Spec, OnlyTruthReplaces

-----------------------------------------------------------------------------
(* What is o's in two logs.                                                *)

\* The entries of o are the same in both, at the same positions.
SameOwn(l, m, o) ==
  /\ \A i \in DOMAIN l : l[i].orig = o => i \in DOMAIN m /\ m[i] = l[i]
  /\ \A i \in DOMAIN m : m[i].orig = o => i \in DOMAIN l /\ l[i] = m[i]

\* Appending what is not of o leaves what is.
LEMMA AppendedOthers ==
  ASSUME NEW l \in Seq(Entries), NEW new \in Seq(Entries), NEW o,
         \A k \in 1..Len(new) : new[k].orig # o
  PROVE  SameOwn(l, l \o new, o)
<1> DEFINE m == l \o new
<1>1. /\ Len(l) \in Nat /\ Len(new) \in Nat
      /\ DOMAIN l = 1..Len(l) /\ DOMAIN m = 1..(Len(l) + Len(new))
      /\ \A i \in 1..(Len(l) + Len(new)) : m[i] = IF i <= Len(l) THEN l[i] ELSE new[i - Len(l)]
  BY ConcatProperties, LenProperties
<1> HIDE DEF m
<1>2. \A i \in DOMAIN l : i \in DOMAIN m /\ m[i] = l[i]
  BY <1>1
<1>3. ASSUME NEW i \in DOMAIN m, m[i].orig = o PROVE i \in DOMAIN l
  <2>1. SUFFICES ASSUME ~ (i <= Len(l)) PROVE FALSE
    BY <1>1
  <2>2. i - Len(l) \in 1..Len(new) /\ m[i] = new[i - Len(l)]
    BY <1>1, <2>1
  <2>3. QED BY <1>3, <2>2
<1>4. SameOwn(l, m, o)
  BY <1>2, <1>3 DEF SameOwn
<1>5. QED BY <1>4 DEF m

\* A proof, and the truth it may come with, are not of an honest originator.
LEMMA EquivocateOthers ==
  ASSUME IInv, up, NEW e \in Deliverable, Equivocate(e), NEW o, Honest(o)
  PROVE  SameOwn(log, log', o)
<1>1. PICK i \in Nat, resolved \in Seq(Entries), proof \in Entries :
        Accused(e, i, resolved, proof)
  BY EquivocateAppends
<1>2. e.orig # o
  BY EquivocateAppends
<1>3. /\ Len(resolved) = Len(log) /\ log' = Append(resolved, proof)
      /\ log[i].orig = e.orig /\ proof.orig = e.orig
      /\ \A j \in 1..Len(log) : resolved[j] = log[j] \/ (j = i /\ resolved[j] = e)
  BY <1>1 DEF Accused
<1>4. /\ DOMAIN log = 1..Len(log) /\ DOMAIN log' = 1..(Len(log) + 1)
      /\ Len(log) \in Nat
      /\ \A j \in 1..Len(log) : log'[j] = resolved[j]
      /\ log'[Len(log) + 1] = proof
  BY <1>3, AppendProperties, LenProperties DEF IInv, TypeOK
<1>5. \A j \in 1..Len(log) : log[j].orig = o \/ log'[j].orig = o => log'[j] = log[j]
  BY <1>2, <1>3, <1>4
<1>6. log'[Len(log) + 1].orig # o
  BY <1>2, <1>3, <1>4
<1>7. QED BY <1>4, <1>5, <1>6 DEF SameOwn

\* Nor is a recorded frame.
LEMMA RecordOthers ==
  ASSUME IInv, NEW f \in Frames, NEW bad \in BOOLEAN, RecordGossipEvent(f, bad),
         NEW o, SyncedOnly(o)
  PROVE  SameOwn(log, log', o)
<1> DEFINE x == Recorded(f, bad)
<1>1. log' = Append(log, x) /\ log \in Seq(Entries)
  BY DEF RecordGossipEvent, IInv, TypeOK
<1>2. x \in Entries /\ x.orig # o
  BY DEF Entries, Events, Recorded, SyncedOnly
<1> HIDE DEF x
<1>3. <<x>> \in Seq(Entries) /\ Len(<<x>>) = 1 /\ <<x>>[1] = x /\ log' = log \o <<x>>
  BY <1>1, <1>2, AppendIsConcat
<1>4. \A k \in 1..Len(<<x>>) : <<x>>[k].orig # o
  BY <1>2, <1>3
<1>5. QED BY <1>1, <1>3, <1>4, AppendedOthers

\* Nor is what another originator's event brings along.
LEMMA ExtendOthers ==
  ASSUME IInv, up, NEW e \in Deliverable, Extend(e), NEW o, o # e.orig
  PROVE  SameOwn(log, log', o)
<1>1. PICK n \in Nat, new \in Seq(Entries) : Appended(e, n, new)
  BY ExtendAppends
<1>2. log \in Seq(Entries) /\ log' = log \o new /\ \A k \in 1..Len(new) : new[k].orig # o
  BY <1>1 DEF Appended, IInv, TypeOK
<1>3. QED BY <1>2, AppendedOthers

-----------------------------------------------------------------------------
(* The Merkle cache.                                                       *)

\* The hash of an originator's range is a matter of its own entries.
LEMMA SameHash ==
  ASSUME NEW l, NEW m, NEW o, NEW r, SameOwn(l, m, o)
  PROVE  MerkleHash(m, o, r) = MerkleHash(l, o, r)
<1> DEFINE P == {i \in DOMAIN l : l[i].orig = o /\ Contains(r, l[i].seq)}
           Q == {i \in DOMAIN m : m[i].orig = o /\ Contains(r, m[i].seq)}
<1>1. P = Q
  BY DEF SameOwn
<1>2. \A i \in P : m[i] = l[i]
  BY DEF SameOwn
<1>3. [i \in P |-> Hash(l[i])] = [i \in Q |-> Hash(m[i])]
  BY <1>1, <1>2
<1>4. QED BY <1>3, Zenon DEF MerkleHash

\* A stopped node has no cache.
NoCacheWhenDown == ~up => DOMAIN cache = {}

\* The cache of a running node is cleared or stays true.
CacheInv == NoCacheWhenDown /\ HonestCacheFresh

LEMMA CacheStep == IInv /\ CacheInv /\ [Next]_vars => CacheInv'
<1> SUFFICES ASSUME IInv, CacheInv, [Next]_vars PROVE CacheInv'
  OBVIOUS
<1>1. ASSUME DOMAIN cache' = {} PROVE CacheInv'
  BY <1>1 DEF CacheInv, NoCacheWhenDown, HonestCacheFresh
<1>2. ASSUME up' = up, cache' = cache, 
             \A o : Honest(o) => SameOwn(log, log', o)
      PROVE  CacheInv'
  <2>1. ASSUME NEW k \in DOMAIN cache', Honest(k[1])
        PROVE  cache'[k] = MerkleHash(log', k[1], k[2])
    <3>1. cache[k] = MerkleHash(log, k[1], k[2])
      BY <2>1, <1>2 DEF CacheInv, HonestCacheFresh
    <3>2. QED BY <3>1, <2>1, <1>2, SameHash
  <2>2. QED BY <2>1, <1>2 DEF CacheInv, NoCacheWhenDown, HonestCacheFresh
<1>3. ASSUME UNCHANGED <<up, log, cache>> PROVE CacheInv'
  BY <1>3 DEF CacheInv, NoCacheWhenDown, HonestCacheFresh
<1>4. ASSUME NEW e \in Deliverable, AppendEvent(e) PROVE CacheInv'
  <2>1. CASE Stage(e) \/ Discard(e)
    BY <2>1, <1>3 DEF Stage, Discard, vars
  <2>2. CASE Equivocate(e)
    BY <2>2, <1>4, <1>2, EquivocateOthers DEF AppendEvent, Equivocate
  <2>3. CASE Extend(e)
    BY <2>3, <1>1 DEF Extend, Clear
  <2>4. QED BY <2>1, <2>2, <2>3, <1>4 DEF AppendEvent
<1>5. ASSUME NEW f \in Frames, NEW bad \in BOOLEAN, RecordGossipEvent(f, bad)
      PROVE  CacheInv'
  <2>1. \A o : Honest(o) => SameOwn(log, log', o)
    BY <1>5, RecordOthers DEF Honest
  <2>2. QED BY <2>1, <1>5, <1>2 DEF RecordGossipEvent
<1>6. ASSUME NEW o \in Originators, NEW r \in Ranges, ComputeMerkle(o, r)
      PROVE  CacheInv'
  <2>1. /\ up /\ up' = up /\ log' = log
        /\ cache' = [k \in DOMAIN cache \cup {<<o, r>>} |->
                       IF k = <<o, r>> THEN MerkleHash(log, o, r) ELSE cache[k]]
    BY <1>6 DEF ComputeMerkle
  <2>2. ASSUME NEW k \in DOMAIN cache', Honest(k[1])
        PROVE  cache'[k] = MerkleHash(log', k[1], k[2])
    <3>1. CASE k = <<o, r>>
      BY <3>1, <2>1
    <3>2. CASE k # <<o, r>>
      <4>1. k \in DOMAIN cache /\ cache'[k] = cache[k]
        BY <3>2, <2>1, <2>2
      <4>2. QED BY <4>1, <2>1, <2>2 DEF CacheInv, HonestCacheFresh
    <3>3. QED BY <3>1, <3>2
  <2>3. QED BY <2>1, <2>2 DEF CacheInv, NoCacheWhenDown, HonestCacheFresh
<1>7. CASE Stop
  BY <1>7, <1>1 DEF Stop, Clear
<1>8. CASE Open
  BY <1>8, <1>1 DEF Open, CacheInv, NoCacheWhenDown
<1>9. CASE UNCHANGED vars
  BY <1>9, <1>3 DEF vars
<1>10. QED BY <1>4, <1>5, <1>6, <1>7, <1>8, <1>9 DEF Next

\* The cached hash of an honest originator's range is that of the log.
THEOREM HonestCacheStaysFresh == Spec => []HonestCacheFresh
<1>1. Init => CacheInv
  BY DEF Init, CacheInv, NoCacheWhenDown, HonestCacheFresh
<1>2. CacheInv => HonestCacheFresh
  BY DEF CacheInv
<1>3. QED BY <1>1, <1>2, CacheStep, InvariantHolds, PTL DEF Spec

-----------------------------------------------------------------------------
(* The ledger of an honest originator.                                     *)

Rank(l, o, i) == Cardinality({j \in EventsOf(l, o) : j <= i})

\* In a log without gaps, the events of o up to one of them are as many as its
\* number says, and every smaller number is that of one of them.
LEMMA NumberIsRank ==
  ASSUME NEW l \in Seq(Entries), NEW o, GapFree(l, o), NEW i \in EventsOf(l, o)
  PROVE  /\ Rank(l, o, i) = l[i].seq
         /\ \A s \in 1..l[i].seq : \E j \in EventsOf(l, o) : j <= i /\ l[j].seq = s
<1> DEFINE E == EventsOf(l, o)
           S == {j \in E : j <= i}
           n == l[i].seq
           f == [j \in S |-> l[j].seq]
<1>1. E \subseteq 1..Len(l) /\ Len(l) \in Nat
  BY LenProperties DEF EventsOf
<1>2. \A j \in E : l[j].seq \in Nat \ {0}
  BY <1>1, EntryFields
<1>3. \A j, k \in E : j < k => l[j].seq < l[k].seq
  BY DEF GapFree
<1>4. \A j \in E : l[j].seq # 1 => \E k \in E : k < j /\ l[k].seq = l[j].seq - 1
  BY DEF GapFree
<1>5. i \in E /\ i \in S /\ n \in Nat \ {0}
  BY <1>1, <1>2
<1> HIDE DEF E
<1>6. \A s \in 1..n : \E j \in S : l[j].seq = s
  <2> DEFINE M == {s \in 1..n : ~ \E j \in S : l[j].seq = s}
             g == LastOf(M)
  <2>1. SUFFICES ASSUME M # {} PROVE FALSE
    OBVIOUS
  <2>2. g \in M /\ \A s \in M : s <= g
    <3>1. M \in SUBSET (0..n) /\ n \in Nat
      BY <1>5
    <3> HIDE DEF M
    <3>2. QED BY <2>1, <3>1, GreatestNatural
  <2>3. g \in 1..n /\ ~ \E j \in S : l[j].seq = g
    BY <2>2
  <2>4. \A s \in 1..n : s > g => \E j \in S : l[j].seq = s
    BY <2>2, <1>5
  <2> HIDE DEF M, g
  <2>5. g # n
    BY <2>3, <1>5
  <2>6. g + 1 \in 1..n /\ g + 1 > g /\ g + 1 # 1 /\ (g + 1) - 1 = g
    BY <2>3, <2>5, <1>5
  <2>7. PICK j \in S : l[j].seq = g + 1
    BY <2>4, <2>6
  <2>8. PICK k \in E : k < j /\ l[k].seq = g
    BY <2>6, <2>7, <1>4
  <2>9. k \in S
    BY <2>7, <2>8, <1>1, <1>5
  <2>10. QED BY <2>3, <2>8, <2>9
<1>7. \A j \in S : l[j].seq \in 1..n
  <2>1. ASSUME NEW j \in S PROVE l[j].seq \in 1..n
    <3>1. CASE j = i
      BY <3>1, <1>5
    <3>2. CASE j # i
      <4>1. j < i
        BY <3>2, <1>1, <1>5
      <4>2. l[j].seq < n /\ l[j].seq \in Nat \ {0}
        BY <4>1, <1>2, <1>3, <1>5
      <4>3. QED BY <4>2, <1>5
    <3>3. QED BY <3>1, <3>2
  <2>2. QED BY <2>1
<1>8. \A j, k \in S : j # k => l[j].seq # l[k].seq
  <2>1. ASSUME NEW j \in S, NEW k \in S, j # k PROVE l[j].seq # l[k].seq
    <3>1. j < k \/ k < j
      BY <2>1, <1>1
    <3>2. l[j].seq < l[k].seq \/ l[k].seq < l[j].seq
      BY <3>1, <1>3
    <3>3. QED BY <3>2, <1>2
  <2>2. QED BY <2>1
<1> HIDE DEF S, n
<1>9. f \in Bijection(S, 1..n)
  <2>1. f \in [S -> 1..n]
    BY <1>7
  <2>2. \A j, k \in S : f[j] = f[k] => j = k
    BY <1>8
  <2>3. \A s \in 1..n : \E j \in S : f[j] = s
    BY <1>6
  <2> HIDE DEF f
  <2>4. QED BY <2>1, <2>2, <2>3, Fun_IsBij
<1>10. Cardinality(S) = n
  <2>1. ExistsBijection(1..n, S)
    BY <1>9, Fun_ExistsBij, Fun_ExistsBijSymmetric
  <2>2. QED BY <2>1, <1>5, FS_CountingElements
<1>11. QED BY <1>6, <1>10 DEF S, n, E, Rank

\* What a log without gaps holds of an originator whose entries are as signed is
\* a prefix of the chain it signed.
LEMMA PartIsChain ==
  ASSUME NEW l \in Seq(Entries), NEW o, GapFree(l, o), SyncedOnly(o),
         \A i \in DOMAIN l : l[i].orig = o => l[i] \in Deliverable
  PROVE  /\ PartOf(l, o) \in Seq(Deliverable)
         /\ Len(PartOf(l, o)) = ExpectedSeq(l, o) - 1
         /\ \A s \in 1..(ExpectedSeq(l, o) - 1) :
              /\ PartOf(l, o)[s] \in Deliverable
              /\ PartOf(l, o)[s].orig = o /\ PartOf(l, o)[s].seq = s
<1>0. \A i \in EventsOf(l, o) :
        /\ Rank(l, o, i) = l[i].seq
        /\ \A s \in 1..l[i].seq : \E j \in EventsOf(l, o) : l[j].seq = s
  <2>1. ASSUME NEW i \in EventsOf(l, o)
        PROVE  Rank(l, o, i) = l[i].seq
    BY <2>1, NumberIsRank
  <2>2. ASSUME NEW i \in EventsOf(l, o)
        PROVE  \A s \in 1..l[i].seq : \E j \in EventsOf(l, o) : l[j].seq = s
    BY <2>2, NumberIsRank
  <2>3. QED BY <2>1, <2>2
<1> DEFINE P == {i \in DOMAIN l : l[i].orig = o}
           f == [i \in P |-> l[i]]
           rank(i) == Cardinality({j \in P : j <= i})
           c == Cardinality(P)
           part == [k \in 1..c |-> f[CHOOSE i \in P : rank(i) = k]]
<1>1. PartOf(l, o) = part
  BY DEF PartOf, InOrder
<1>2. P = EventsOf(l, o)
  BY DEF EventsOf, SyncedOnly
<1>3. \A i \in P : rank(i) = l[i].seq /\ \A s \in 1..l[i].seq : \E j \in P : l[j].seq = s
  <2> HIDE DEF P
  <2>1. QED BY <1>0, <1>2 DEF Rank
<1>4. c = ExpectedSeq(l, o) - 1 /\ c \in Nat
      /\ \A s \in 1..c : \E j \in P : l[j].seq = s
  <2>1. CASE P = {}
    <3>1. c = 0
      BY <2>1, FS_EmptySet, Zenon
    <3>2. ExpectedSeq(l, o) = 1
      BY <2>1, <1>2 DEF ExpectedSeq
    <3> HIDE DEF c, P
    <3>3. QED BY <3>1, <3>2
  <2>2. CASE P # {}
    <3> DEFINE last == LastOf(P)
    <3>1. last \in P /\ P \subseteq 1..Len(l) /\ \A i \in P : i <= last
      BY <2>2, <1>2, LastEvent
    <3>2. {j \in P : j <= last} = P
      BY <3>1
    <3>3. c = l[last].seq
      BY <3>1, <3>2, <1>3
    <3>4. ExpectedSeq(l, o) = l[last].seq + 1
      BY <2>2, <1>2 DEF ExpectedSeq
    <3>5. l[last].seq \in Nat
      BY <3>1, EntryFields
    <3>6. QED BY <3>1, <3>3, <3>4, <3>5, <1>3
  <2>3. QED BY <2>1, <2>2
<1> HIDE DEF c, rank
<1>5. ASSUME NEW s \in 1..c
      PROVE  part[s] \in Deliverable /\ part[s].orig = o /\ part[s].seq = s
  <2> DEFINE i == CHOOSE i \in P : rank(i) = s
  <2>1. \E j \in P : rank(j) = s
    BY <1>3, <1>4
  <2>2. i \in P /\ rank(i) = s
    BY <2>1
  <2>3. part[s] = l[i]
    BY <2>2
  <2>4. QED BY <2>2, <2>3, <1>3
<1>6. part \in [1..c -> Deliverable]
  BY <1>5
<1> HIDE DEF part
<1>7. part \in Seq(Deliverable) /\ Len(part) = c
  BY <1>4, <1>6
<1>8. QED BY <1>1, <1>4, <1>5, <1>7

\* The part of an originator is a matter of its own entries.
LEMMA SamePart ==
  ASSUME NEW l, NEW m, NEW o, SameOwn(l, m, o)
  PROVE  PartOf(m, o) = PartOf(l, o)
<1> DEFINE P == {i \in DOMAIN l : l[i].orig = o}
           Q == {i \in DOMAIN m : m[i].orig = o}
<1>1. P = Q
  BY DEF SameOwn
<1>2. \A i \in P : m[i] = l[i]
  BY DEF SameOwn
<1>3. [i \in P |-> l[i]] = [i \in Q |-> m[i]]
  BY <1>1, <1>2
<1>4. QED BY <1>3, Zenon DEF PartOf

\* When the number expected of an honest originator rises and the others' parts
\* are what they were, this is one step of the ledger.
LEMMA LearnStep ==
  ASSUME IInv, IInv', NEW o \in HonestOriginators,
         ExpectedSeq(disk', o) > ExpectedSeq(disk, o),
         \A m \in HonestOriginators \ {o} : PartOf(disk', m) = PartOf(disk, m)
  PROVE  Ledger!Learn(o)
<1> DEFINE a == ExpectedSeq(disk, o) - 1
           b == ExpectedSeq(disk', o) - 1
           old == PartOf(disk, o)
           new == PartOf(disk', o)
<1>1. o \in Originators /\ Honest(o) /\ SyncedOnly(o)
  BY DEF HonestOriginators, Honest
<1>2. /\ disk \in Seq(Entries) /\ GapFree(disk, o)
      /\ \A i \in DOMAIN disk : disk[i].orig = o => disk[i] \in Deliverable
  BY <1>1 DEF IInv, TypeOK, FileGapFree, FileHonest
<1>3. /\ disk' \in Seq(Entries) /\ GapFree(disk', o)
      /\ \A i \in DOMAIN disk' : disk'[i].orig = o => disk'[i] \in Deliverable
  BY <1>1 DEF IInv, TypeOK, FileGapFree, FileHonest
<1>4. a \in Nat /\ b \in Nat /\ a < b
  <2>1. ExpectedSeq(disk, o) \in Nat \ {0} /\ ExpectedSeq(disk', o) \in Nat \ {0}
    BY <1>2, <1>3, ExpectedSeqIs
  <2>2. QED BY <2>1
<1>5. /\ old \in Seq(Deliverable) /\ Len(old) = a
      /\ \A s \in 1..a : old[s] \in Deliverable /\ old[s].orig = o /\ old[s].seq = s
  BY <1>1, <1>2, PartIsChain
<1>6. /\ new \in Seq(Deliverable) /\ Len(new) = b
      /\ \A s \in 1..b : new[s] \in Deliverable /\ new[s].orig = o /\ new[s].seq = s
  BY <1>1, <1>3, PartIsChain
<1> HIDE DEF a, b, old, new
<1>7. SubSeq(new, 1, a) = old
  <2>1. \A s \in 1..a : new[s] = old[s]
    <3>1. ASSUME NEW s \in 1..a PROVE new[s] = old[s]
      <4>1. s \in 1..b
        BY <1>4
      <4>2. QED BY <4>1, <1>1, <1>5, <1>6, HonestUnique
    <3>2. QED BY <3>1
  <2>2. /\ SubSeq(new, 1, a) \in Seq(Deliverable) /\ Len(SubSeq(new, 1, a)) = a
        /\ \A s \in 1..a : SubSeq(new, 1, a)[s] = new[s]
    BY <1>4, <1>6
  <2>3. QED BY <2>1, <2>2, <1>5, SeqEqual
<1> DEFINE before == [m \in HonestOriginators |-> PartOf(disk, m)]
           after == [m \in HonestOriginators |-> PartOf(disk', m)]
<1>8. /\ before[o] = old /\ after[o] = new
      /\ \A m \in HonestOriginators \ {o} : after[m] = before[m]
      /\ DOMAIN after = HonestOriginators
  BY DEF old, new
<1> HIDE DEF before, after
<1>9. /\ Len(after[o]) > Len(before[o])
      /\ SubSeq(after[o], 1, Len(before[o])) = before[o]
      /\ \A s \in 1..Len(after[o]) :
           after[o][s] \in Deliverable /\ after[o][s].orig = o /\ after[o][s].seq = s
  BY <1>4, <1>5, <1>6, <1>7, <1>8
<1>10. QED BY <1>8, <1>9 DEF Ledger!Learn, before, after

\* Extend moves on the number expected of an originator whose log has no gap.
LEMMA ExtendAdvances ==
  ASSUME IInv, up, NEW e \in Deliverable, Extend(e), SyncedOnly(e.orig)
  PROVE  ExpectedSeq(log', e.orig) > ExpectedSeq(log, e.orig)
<1> DEFINE o == e.orig
<1>1. PICK n \in Nat, new \in Seq(Entries) : Appended(e, n, new)
  BY ExtendAppends
<1>2. /\ log \in Seq(Entries) /\ GapFree(log, o)
      /\ e.seq = ExpectedSeq(log, o) /\ e.seq \in Nat
  BY EventLogAssumption DEF IInv, TypeOK, MemoryIsFile, FileGapFree, Extend
<1>3. /\ Len(new) = n + 1 /\ Len(new) > 0 /\ log' = log \o new
      /\ \A k \in 1..Len(new) :
           /\ new[k].orig = o /\ new[k].kind = "event"
           /\ new[k].seq = ExpectedSeq(log, o) + k - 1
  BY <1>1, <1>2 DEF Appended
<1> HIDE DEF o
<1>4. ExpectedSeq(log', o) = ExpectedSeq(log, o) + Len(new)
  BY <1>2, <1>3, AppendRun
<1>5. QED BY <1>2, <1>3, <1>4 DEF o

\* Every step is a step of the ledger or leaves it alone: Extend of an honest
\* originator's event is a Learn, and nothing else changes an honest part.
LEMMA LedgerStep ==
  IInv /\ IInv' /\ [Next]_vars =>
    [Ledger!Next]_([o \in HonestOriginators |-> PartOf(disk, o)])
<1> SUFFICES ASSUME IInv, IInv', [Next]_vars
             PROVE  [Ledger!Next]_([o \in HonestOriginators |-> PartOf(disk, o)])
  OBVIOUS
<1>1. ASSUME \A o \in HonestOriginators : PartOf(disk', o) = PartOf(disk, o)
      PROVE  [Ledger!Next]_([o \in HonestOriginators |-> PartOf(disk, o)])
  BY <1>1
<1>2. ASSUME disk' = disk
      PROVE  [Ledger!Next]_([o \in HonestOriginators |-> PartOf(disk, o)])
  BY <1>1, <1>2
<1>3. ASSUME up, disk' = log', \A o \in HonestOriginators : SameOwn(log, log', o)
      PROVE  [Ledger!Next]_([o \in HonestOriginators |-> PartOf(disk, o)])
  <2>1. log = disk
    BY <1>3 DEF IInv, MemoryIsFile
  <2>2. QED BY <2>1, <1>1, <1>3, SamePart
<1>4. ASSUME NEW e \in Deliverable, AppendEvent(e)
      PROVE  [Ledger!Next]_([o \in HonestOriginators |-> PartOf(disk, o)])
  <2>1. up
    BY <1>4 DEF AppendEvent
  <2>2. CASE Stage(e) \/ Discard(e)
    BY <2>2, <1>2 DEF Stage, Discard, vars
  <2>3. CASE Equivocate(e)
    <3>1. \A o \in HonestOriginators : SameOwn(log, log', o)
      BY <2>1, <2>3, EquivocateOthers DEF HonestOriginators
    <3>2. QED BY <3>1, <2>1, <2>3, <1>3 DEF Equivocate
  <2>4. CASE Extend(e)
    <3>1. disk' = log' /\ disk = log
      BY <2>1, <2>4 DEF Extend, IInv, MemoryIsFile
    <3>2. \A o \in HonestOriginators \ {e.orig} : SameOwn(log, log', o)
      BY <2>1, <2>4, ExtendOthers
    <3>3. CASE e.orig \notin HonestOriginators
      BY <3>1, <3>2, <3>3, <2>1, <1>3
    <3>4. CASE e.orig \in HonestOriginators
      <4>1. \A o \in HonestOriginators \ {e.orig} : PartOf(disk', o) = PartOf(disk, o)
        BY <3>1, <3>2, SamePart
      <4>2. ExpectedSeq(disk', e.orig) > ExpectedSeq(disk, e.orig)
        BY <3>1, <3>4, <2>1, <2>4, ExtendAdvances DEF HonestOriginators, Honest
      <4>3. Ledger!Learn(e.orig)
        BY <3>4, <4>1, <4>2, LearnStep
      <4>4. QED BY <3>4, <4>3 DEF Ledger!Next
    <3>5. QED BY <3>3, <3>4
  <2>5. QED BY <2>2, <2>3, <2>4, <1>4 DEF AppendEvent
<1>5. ASSUME NEW f \in Frames, NEW bad \in BOOLEAN, RecordGossipEvent(f, bad)
      PROVE  [Ledger!Next]_([o \in HonestOriginators |-> PartOf(disk, o)])
  <2>1. \A o \in HonestOriginators : SameOwn(log, log', o)
    BY <1>5, RecordOthers DEF HonestOriginators, Honest
  <2>2. QED BY <2>1, <1>5, <1>3 DEF RecordGossipEvent
<1>6. ASSUME NEW o \in Originators, NEW r \in Ranges, ComputeMerkle(o, r)
      PROVE  disk' = disk
  BY <1>6 DEF ComputeMerkle
<1>7. CASE Stop \/ Open \/ UNCHANGED vars
  BY <1>7, <1>2 DEF Stop, Open, vars
<1>8. QED BY <1>2, <1>4, <1>5, <1>6, <1>7 DEF Next

\* The log implements the ledger: what an honest originator signed comes in its
\* order and stays, whatever the network, the others and the restarts do.
THEOREM LogImplementsLedger == Spec => LedgerRefined
<1>1. Init => Ledger!Init
  <2>1. SUFFICES ASSUME Init, NEW o \in HonestOriginators PROVE PartOf(disk, o) = <<>>
    BY DEF Ledger!Init
  <2> DEFINE P == {i \in DOMAIN disk : disk[i].orig = o}
  <2>2. P = {}
    BY <2>1 DEF Init
  <2>3. Cardinality(P) = 0
    BY <2>2, FS_EmptySet, Zenon
  <2>4. DOMAIN [i \in P |-> disk[i]] = P
    OBVIOUS
  <2> HIDE DEF P
  <2>5. PartOf(disk, o) = InOrder([i \in P |-> disk[i]])
    BY DEF PartOf, P
  <2>6. QED BY <2>3, <2>4, <2>5 DEF InOrder
<1>2. QED
  BY <1>1, LedgerStep, InvariantHolds, PTL DEF Spec, LedgerRefined, Ledger!Spec
=============================================================================
