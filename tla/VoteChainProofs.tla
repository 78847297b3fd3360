--------------------------- MODULE VoteChainProofs ---------------------------
(***************************************************************************)
(* Theorems about VoteChain, for any number of replicas, domains, commands *)
(* and restarts, any clock and any difficulty.                             *)
(*                                                                         *)
(* Why a store stays a chain although insert_vote only tests that a vote   *)
(* costs enough: a vote names the one before it, that one the one before   *)
(* it, and so on, so that there is only one chain it can follow, the one   *)
(* it was made for; its price was that chain's when it was mined, and is   *)
(* that chain's when it is inserted.                                       *)
(***************************************************************************)
EXTENDS VoteChain, LinkedRecords

-----------------------------------------------------------------------------
(* The inductive invariant.                                                 *)

\* The count of revisions and the difficulty are what these votes require.
Priced(v, votes) ==
  LET context == VoteContext(votes, v.domain) IN
  /\ v.revisions = context.revisions
  /\ v.difficulty = Difficulty(context.active, context.revisions)

\* The vote was made to follow a chain of votes, which may be lost by now.
Rooted(v) ==
  \E votes : /\ IsFiniteSet(votes) /\ IsChain(votes)
             /\ v.prev = Latest(votes) /\ v.seq = Latest(votes).seq + 1
             /\ Priced(v, votes)

InTime(v) == v.prev # NoVote => v.time >= v.prev.time

\* The highest number a vote can have had so far.
Highest == Cardinality(Past) + casts

Typed(v, highest) ==
  /\ v.domain \in Domains /\ v.action \in Actions /\ v.time \in Times
  /\ v.seq \in 1..highest /\ v.revisions \in Nat
  /\ v.difficulty \in BASE..MAX_DIFFICULTY

\* What a store, a file or a snapshot may hold.
Kept(votes, highest) ==
  IsFiniteSet(votes) /\ IsChain(votes) /\ \A v \in votes : Typed(v, highest)

Shapes ==
  /\ DOMAIN store = Nodes /\ DOMAIN file = Nodes /\ DOMAIN writing = Nodes
  /\ DOMAIN casting = Commands /\ DOMAIN seen = Replicas
  /\ casts \in 0..MaxCasts /\ faults \in 0..MaxFaults

KeptEverywhere ==
  \A n \in Nodes :
    /\ Kept(store[n], Highest) /\ Kept(file[n], Highest)
    /\ \A votes \in writing[n] : Kept(votes, Highest)

CastRooted ==
  \A c \in Commands : casting[c] # NoVote => Typed(casting[c], Highest) /\ Rooted(casting[c])

SentRooted == \A v \in sent : Typed(v, Highest) /\ Rooted(v) /\ InTime(v)

\* A replica has seen what was cast before, and what was sent.
SeenKnown == \A r \in Replicas : seen[r] \subseteq Past \cup sent

SentStored == ~lost => sent \subseteq store[Voter]

IInv ==
  Shapes /\ KeptEverywhere /\ CastRooted /\ SentRooted /\ SeenKnown /\ SentStored

-----------------------------------------------------------------------------
(* Chains of votes.                                                         *)

\* The latest vote is the last of the linked records.
LEMMA LatestIsLast == \A votes : Latest(votes) = LastIn(votes, NoVote)
  BY DEF Latest, LastIn

LEMMA NoVoteHasNoNumber == NoVote.seq = 0
  BY DEF NoVote

\* A chain is a set of linked records, each in time and priced by those before it.
LEMMA ChainIsLinked ==
  ASSUME NEW votes, IsFiniteSet(votes)
  PROVE  IsChain(votes) <=>
           /\ Linked(votes, NoVote)
           /\ \A v \in votes : InTime(v) /\ Priced(v, Earlier(votes, v))
<1> DEFINE before(v) == Earlier(votes, v)
<1>1. IsChain(votes) <=>
        /\ Numbered(votes)
        /\ \A v \in votes :
             /\ v.prev = Latest(before(v)) /\ v.seq = Latest(before(v)).seq + 1
             /\ Latest(before(v)) # NoVote => v.time >= Latest(before(v)).time
             /\ Priced(v, before(v))
  BY DEF IsChain, Numbered, Earlier, Priced
<1>2. ASSUME Numbered(votes), NEW v \in votes
      PROVE  v.seq = Latest(before(v)).seq + 1
  <2>1. Latest(before(v)).seq = v.seq - 1
    BY <1>2, EarlierNumbered, LastCounts, LatestIsLast, NoVoteHasNoNumber
  <2>2. v.seq \in Int
    BY <1>2, NumberedRange
  <2>3. QED BY <2>1, <2>2
<1>3. \A v \in votes : before(v) = Earlier(votes, v)
  OBVIOUS
<1> HIDE DEF before
<1>4. QED BY <1>1, <1>2, <1>3, LatestIsLast DEF Linked, InTime

\* The number of a chain's last vote counts its votes.
LEMMA ChainLength ==
  ASSUME NEW votes, IsFiniteSet(votes), IsChain(votes)
  PROVE  /\ Latest(votes).seq = Cardinality(votes) /\ Cardinality(votes) \in Nat
         /\ votes # {} => Latest(votes) \in votes
         /\ \A v \in votes : v.seq \in 1..Cardinality(votes)
<1>1. Numbered(votes)
  BY ChainIsLinked DEF Linked
<1>2. QED
  BY <1>1, NumberedRange, LastCounts, LastIsHighest, LatestIsLast, NoVoteHasNoNumber

\* There is no vote before the first.
LEMMA EmptyChain == IsFiniteSet({}) /\ IsChain({}) /\ Latest({}) = NoVote
<1>1. IsFiniteSet({}) /\ Cardinality({}) = 0
  BY FS_EmptySet
<1>2. 1..0 = {}
  OBVIOUS
<1>3. QED BY <1>1, <1>2 DEF IsChain, Latest

\* Two chains that end with the same vote are the same.
LEMMA SameLatestSameChain ==
  ASSUME NEW votes, IsFiniteSet(votes), IsChain(votes),
         NEW others, IsFiniteSet(others), IsChain(others),
         Latest(votes) = Latest(others)
  PROVE  votes = others
<1>1. Linked(votes, NoVote) /\ Linked(others, NoVote)
  BY ChainIsLinked
<1>2. LastIn(votes, NoVote) = LastIn(others, NoVote)
  BY LatestIsLast
<1>3. QED BY <1>1, <1>2, NoVoteHasNoNumber, SameLastSameChain

\* Each vote of a chain was made to follow a chain, and came in time.
LEMMA MembersRooted ==
  ASSUME NEW votes, IsFiniteSet(votes), IsChain(votes), NEW v \in votes
  PROVE  Rooted(v) /\ InTime(v)
<1> DEFINE before == Earlier(votes, v)
<1>1. Linked(votes, NoVote) /\ \A w \in votes : InTime(w) /\ Priced(w, Earlier(votes, w))
  BY ChainIsLinked
<1>2. IsFiniteSet(before) /\ Numbered(before) /\ Cardinality(before) = v.seq - 1
  BY <1>1, EarlierNumbered DEF Linked
<1>3. /\ Linked(before, NoVote) /\ v.prev = LastIn(before, NoVote)
      /\ \A w \in before : Earlier(before, w) = Earlier(votes, w)
  BY <1>1, EarlierLinked
<1>4. before \subseteq votes
  BY DEF Earlier
<1>5. IsChain(before)
  <2>1. \A w \in before : InTime(w) /\ Priced(w, Earlier(before, w))
    BY <1>1, <1>3, <1>4
  <2>2. QED BY <1>2, <1>3, <2>1, ChainIsLinked
<1>6. v.seq = Latest(before).seq + 1
  <2>1. Latest(before).seq = v.seq - 1
    BY <1>2, LastCounts, LatestIsLast, NoVoteHasNoNumber
  <2>2. v.seq \in Int
    BY ChainLength
  <2>3. QED BY <2>1, <2>2
<1>7. v.prev = Latest(before) /\ Priced(v, before) /\ InTime(v)
  BY <1>1, <1>3, LatestIsLast
<1> HIDE DEF before
<1>8. QED BY <1>2, <1>5, <1>6, <1>7 DEF Rooted

\* A vote that follows a chain, as it was made to, makes it a longer one.
LEMMA FollowerExtends ==
  ASSUME NEW votes, IsFiniteSet(votes), IsChain(votes),
         NEW v, Rooted(v), InTime(v), v.prev = Latest(votes)
  PROVE  /\ IsFiniteSet(votes \cup {v}) /\ IsChain(votes \cup {v})
         /\ v \notin votes /\ v.seq = Latest(votes).seq + 1 /\ Priced(v, votes)
<1>1. PICK others : /\ IsFiniteSet(others) /\ IsChain(others)
                    /\ v.prev = Latest(others) /\ v.seq = Latest(others).seq + 1
                    /\ Priced(v, others)
  BY DEF Rooted
<1>2. others = votes
  BY <1>1, SameLatestSameChain
<1>3. /\ Linked(votes, NoVote)
      /\ \A w \in votes : InTime(w) /\ Priced(w, Earlier(votes, w))
  BY ChainIsLinked
<1>4. v.seq = Cardinality(votes) + 1
  BY <1>1, <1>2, ChainLength
<1> DEFINE longer == votes \cup {v}
<1>5. /\ IsFiniteSet(longer) /\ Numbered(longer) /\ v \notin votes
      /\ Earlier(longer, v) = votes
      /\ \A w \in votes : Earlier(longer, w) = Earlier(votes, w)
  BY <1>3, <1>4, NextNumbered DEF Linked
<1>6. Linked(longer, NoVote)
  <2>1. \A w \in votes : w.prev = LastIn(Earlier(longer, w), NoVote)
    BY <1>3, <1>5 DEF Linked
  <2>2. v.prev = LastIn(Earlier(longer, v), NoVote)
    BY <1>5, LatestIsLast
  <2>3. QED BY <1>5, <2>1, <2>2 DEF Linked
<1>7. \A w \in longer : InTime(w) /\ Priced(w, Earlier(longer, w))
  BY <1>1, <1>2, <1>3, <1>5
<1>8. IsChain(longer)
  BY <1>5, <1>6, <1>7, ChainIsLinked
<1>9. QED BY <1>1, <1>2, <1>5, <1>8

-----------------------------------------------------------------------------
(* The price of a vote.                                                     *)

\* The values of a function on a finite set are finitely many.
LEMMA DomainsFinite ==
  ASSUME NEW votes, IsFiniteSet(votes)
  PROVE  IsFiniteSet({v.domain : v \in votes})
<1> DEFINE image == {v.domain : v \in votes}
           f == [v \in votes |-> v.domain]
<1>1. f \in Surjection(votes, image)
  BY DEF Surjection
<1>2. QED BY <1>1, FS_Surjection

\* The logarithm is a natural number.
LEMMA LogarithmIsNatural == \A n \in Nat : FloorLog2(n) \in Nat
<1>1. SUFFICES ASSUME NEW n \in Nat PROVE FloorLog2(n) \in Nat
  OBVIOUS
<1>2. IsFiniteSet(1..n)
  BY FS_Interval
<1>3. IsFiniteSet({k \in 1..n : 2^k <= n})
  BY <1>2, FS_Subset
<1>4. QED BY <1>3, FS_CardinalityType DEF FloorLog2

\* What is counted is natural, and nothing costs less than the base difficulty.
LEMMA PriceAtLeastBase ==
  ASSUME NEW votes, IsFiniteSet(votes), NEW d
  PROVE  LET context == VoteContext(votes, d)
             price == Difficulty(context.active, context.revisions) IN
         /\ context.active \in Nat /\ context.revisions \in Nat
         /\ price \in Nat /\ price >= BASE
<1> DEFINE recent == {v \in votes : v.time >= Cutoff(votes)}
           same == {v \in recent : v.domain = d}
           active == Cardinality({v.domain : v \in recent})
           revisions == Cardinality(same)
<1>1. IsFiniteSet(recent) /\ IsFiniteSet(same)
  BY FS_Subset
<1>2. IsFiniteSet({v.domain : v \in recent})
  BY <1>1, DomainsFinite
<1>3. active \in Nat /\ revisions \in Nat
  BY <1>1, <1>2, FS_CardinalityType
<1>4. VoteContext(votes, d) = [active |-> active, revisions |-> revisions]
  BY DEF VoteContext, Context
<1> HIDE DEF active, revisions
<1>5. FloorLog2(active + 1) \in Nat /\ FloorLog2(revisions + 1) \in Nat
  BY <1>3, LogarithmIsNatural
<1>6. Difficulty(active, revisions) \in Nat /\ Difficulty(active, revisions) >= BASE
  BY <1>5, VoteAssumption DEF Difficulty, FlipPenalty
<1>7. QED BY <1>3, <1>4, <1>6

-----------------------------------------------------------------------------
(* Every step keeps the invariant.                                          *)

LEMMA HighestIsNatural == Shapes => Highest \in Nat /\ Cardinality(Past) \in Nat
  BY PastAssumption, VoteAssumption, FS_CardinalityType DEF Shapes, Highest

\* The bound on the numbers only grows.
LEMMA TypedGrows ==
  ASSUME NEW k \in Nat, NEW m \in Nat, k <= m
  PROVE  /\ \A v : Typed(v, k) => Typed(v, m)
         /\ \A votes : Kept(votes, k) => Kept(votes, m)
  BY DEF Typed, Kept

\* Earlier anything is cast, everybody has what was cast before.
LEMMA PastKept == IsFiniteSet(Past) /\ Kept(Past, Cardinality(Past))
<1>1. IsFiniteSet(Past) /\ IsChain(Past)
  BY PastAssumption
<1>2. ASSUME NEW v \in Past PROVE Typed(v, Cardinality(Past))
  <2>1. v.seq \in 1..Cardinality(Past)
    BY <1>1, ChainLength
  <2>2. Priced(v, Earlier(Past, v)) /\ IsFiniteSet(Earlier(Past, v))
    BY <1>1, ChainIsLinked, FS_Subset DEF Earlier
  <2>3. v.revisions \in Nat /\ v.difficulty \in Nat /\ v.difficulty >= BASE
    BY <2>2, PriceAtLeastBase DEF Priced
  <2>4. QED BY <2>1, <2>3, PastAssumption, VoteAssumption DEF Typed
<1>3. QED BY <1>1, <1>2 DEF Kept

LEMMA InitIInv == Init => IInv
<1> SUFFICES ASSUME Init PROVE IInv
  OBVIOUS
<1>1. Shapes /\ Highest = Cardinality(Past)
  BY PastAssumption, VoteAssumption, FS_CardinalityType DEF Init, Shapes, Highest
<1>2. KeptEverywhere
  BY <1>1, PastKept DEF Init, KeptEverywhere
<1>3. CastRooted /\ SentRooted /\ SeenKnown /\ SentStored
  BY DEF Init, CastRooted, SentRooted, SeenKnown, SentStored
<1>4. QED BY <1>1, <1>2, <1>3 DEF IInv

\* A command starts from the store it reads.
LEMMA StartCastStep ==
  ASSUME IInv, NEW c \in Commands, NEW d \in Domains, NEW a \in Actions, NEW t \in Times,
         StartCast(c, d, a, t)
  PROVE  IInv'
<1> DEFINE v == NewVote(store[Voter], d, a, t)
           context == VoteContext(store[Voter], d)
<1>1. /\ casts' = casts + 1 /\ casts < MaxCasts /\ Computable(v)
      /\ casting' = [casting EXCEPT ![c] = v]
      /\ UNCHANGED <<store, writing, file, sent, seen, flagged, lost, faults>>
  BY DEF StartCast
<1>2. Highest \in Nat /\ Highest' = Highest + 1
  BY <1>1, HighestIsNatural, VoteAssumption DEF IInv, Highest, Shapes
<1>3. Shapes'
  BY <1>1, VoteAssumption DEF IInv, Shapes
<1>4. KeptEverywhere'
  BY <1>1, <1>2, TypedGrows DEF IInv, KeptEverywhere
<1>5. Voter \in Nodes /\ Kept(store[Voter], Highest)
  BY DEF IInv, KeptEverywhere, Nodes
<1>6. IsFiniteSet(store[Voter]) /\ IsChain(store[Voter])
  BY <1>5 DEF Kept
<1>7. Latest(store[Voter]).seq \in 0..Highest
  <2>1. CASE store[Voter] = {}
    BY <1>2, <2>1, EmptyChain, NoVoteHasNoNumber
  <2>2. CASE store[Voter] # {}
    BY <1>2, <1>5, <1>6, <2>2, ChainLength DEF Kept, Typed
  <2>3. QED BY <2>1, <2>2
<1>8. /\ context.active \in Nat /\ context.revisions \in Nat
      /\ Difficulty(context.active, context.revisions) \in Nat
      /\ Difficulty(context.active, context.revisions) >= BASE
  BY <1>6, PriceAtLeastBase
<1>9. /\ v.seq = Latest(store[Voter]).seq + 1 /\ v.prev = Latest(store[Voter])
      /\ v.domain = d /\ v.action = a /\ v.time = t /\ v.revisions = context.revisions
      /\ v.difficulty = Difficulty(context.active, context.revisions)
  BY DEF NewVote
<1> HIDE DEF v
<1>10. Rooted(v)
  BY <1>6, <1>9 DEF Rooted, Priced
<1>11. Typed(v, Highest')
  BY <1>1, <1>2, <1>7, <1>8, <1>9, VoteAssumption DEF Typed, Computable
<1>12. CastRooted'
  <2>1. casting'[c] = v /\ \A x \in Commands \ {c} : casting'[x] = casting[x]
    BY <1>1 DEF IInv, Shapes
  <2>2. ASSUME NEW x \in Commands, casting[x] # NoVote
        PROVE  Typed(casting[x], Highest') /\ Rooted(casting[x])
    BY <1>2, <2>2, TypedGrows DEF IInv, CastRooted
  <2>3. QED BY <1>10, <1>11, <2>1, <2>2 DEF CastRooted
<1>13. SentRooted' /\ SeenKnown' /\ SentStored'
  BY <1>1, <1>2, TypedGrows DEF IInv, SentRooted, SeenKnown, SentStored
<1>14. QED BY <1>3, <1>4, <1>12, <1>13 DEF IInv

\* A vote that insert_vote accepts makes a store a longer chain.
LEMMA InsertableExtends ==
  ASSUME NEW k, NEW votes, Kept(votes, k), NEW v, Typed(v, k), Rooted(v), Insertable(v, votes)
  PROVE  Kept(votes \cup {v}, k)
<1>1. v.prev = Latest(votes) /\ InTime(v)
  BY DEF Insertable, Validate, Continues, InTime
<1>2. IsFiniteSet(votes \cup {v}) /\ IsChain(votes \cup {v})
  BY <1>1, FollowerExtends DEF Kept
<1>3. QED BY <1>2 DEF Kept

LEMMA InsertStep ==
  ASSUME IInv, NEW n \in Nodes, NEW v, Typed(v, Highest), Rooted(v),
         Insertable(v, store[n]), Insert(n, v), UNCHANGED <<file, casts>>
  PROVE  KeptEverywhere' /\ DOMAIN store' = Nodes /\ DOMAIN writing' = Nodes
         /\ \A m \in Nodes : store[m] \subseteq store'[m]
<1>1. /\ store' = [store EXCEPT ![n] = @ \cup {v}]
      /\ writing' = [writing EXCEPT ![n] = @ \cup {store'[n]}]
      /\ DOMAIN store = Nodes /\ DOMAIN writing = Nodes
  BY DEF Insert, IInv, Shapes
<1>2. store'[n] = store[n] \cup {v} /\ Kept(store'[n], Highest)
  BY <1>1, InsertableExtends DEF IInv, KeptEverywhere
<1>3. Highest' = Highest
  BY DEF Highest
<1>4. \A m \in Nodes \ {n} : store'[m] = store[m] /\ writing'[m] = writing[m]
  BY <1>1
<1>5. writing'[n] = writing[n] \cup {store'[n]}
  BY <1>1
<1>6. KeptEverywhere'
  BY <1>2, <1>3, <1>4, <1>5 DEF IInv, KeptEverywhere
<1>7. QED BY <1>1, <1>2, <1>4, <1>6

\* A command inserts the vote it has mined.
LEMMA FinishCastStep ==
  ASSUME IInv, NEW c \in Commands, FinishCast(c)
  PROVE  IInv'
<1>1. /\ casting[c] # NoVote /\ Insertable(casting[c], store[Voter])
      /\ Insert(Voter, casting[c])
      /\ casting' = [casting EXCEPT ![c] = NoVote]
      /\ UNCHANGED <<file, sent, seen, flagged, lost, casts, faults>>
  BY DEF FinishCast, bounds
<1>2. Voter \in Nodes /\ Typed(casting[c], Highest) /\ Rooted(casting[c])
  BY <1>1 DEF IInv, CastRooted, Nodes
<1>3. /\ KeptEverywhere' /\ DOMAIN store' = Nodes /\ DOMAIN writing' = Nodes
      /\ store[Voter] \subseteq store'[Voter]
  BY <1>1, <1>2, InsertStep
<1>4. Highest' = Highest
  BY <1>1 DEF Highest
<1>5. Shapes'
  BY <1>1, <1>3 DEF IInv, Shapes
<1>6. CastRooted'
  BY <1>1, <1>4 DEF IInv, CastRooted, Shapes
<1>7. SentRooted' /\ SeenKnown' /\ SentStored'
  BY <1>1, <1>3, <1>4 DEF IInv, SentRooted, SeenKnown, SentStored
<1>8. QED BY <1>3, <1>5, <1>6, <1>7 DEF IInv

\* A command that ends without a new vote, whatever it answers.
LEMMA EndCastStep ==
  ASSUME IInv, NEW c \in Commands, RepeatCast(c) \/ RefuseCast(c)
  PROVE  IInv'
<1>1. /\ casting' = [casting EXCEPT ![c] = NoVote]
      /\ UNCHANGED <<store, writing, file, sent, seen, flagged, lost, casts, faults>>
  BY DEF RepeatCast, RefuseCast, bounds
<1>2. Highest' = Highest
  BY <1>1 DEF Highest
<1>3. QED
  BY <1>1, <1>2
     DEF IInv, Shapes, KeptEverywhere, CastRooted, SentRooted, SeenKnown, SentStored

\* A snapshot that is written was a store.
LEMMA WriteStep ==
  ASSUME IInv, NEW n \in Nodes, NEW votes \in writing[n], Write(n, votes)
  PROVE  IInv'
<1>1. /\ file' = [file EXCEPT ![n] = votes]
      /\ writing' = [writing EXCEPT ![n] = @ \ {votes}]
      /\ UNCHANGED <<store, casting, sent, seen, flagged, lost, casts, faults>>
  BY DEF Write, bounds
<1>2. Highest' = Highest
  BY <1>1 DEF Highest
<1>3. Shapes' /\ CastRooted' /\ SentRooted' /\ SeenKnown' /\ SentStored'
  BY <1>1, <1>2 DEF IInv, Shapes, CastRooted, SentRooted, SeenKnown, SentStored
<1>4. KeptEverywhere'
  <2>1. /\ file'[n] = votes /\ writing'[n] = writing[n] \ {votes}
        /\ \A m \in Nodes \ {n} : file'[m] = file[m] /\ writing'[m] = writing[m]
    BY <1>1 DEF IInv, Shapes
  <2>2. QED BY <1>1, <1>2, <2>1 DEF IInv, KeptEverywhere
<1>5. QED BY <1>3, <1>4 DEF IInv

\* What is broadcast is in the store of the voter.
LEMMA ActiveVotesStored ==
  ASSUME IInv
  PROVE  ActiveVotes \subseteq store[Voter]
<1>1. IsFiniteSet(store[Voter]) /\ Numbered(store[Voter])
  BY ChainIsLinked DEF IInv, KeptEverywhere, Kept, Nodes, Linked
<1>2. ASSUME NEW d \in Domains, Latest({v \in store[Voter] : v.domain = d}) # NoVote
      PROVE  Latest({v \in store[Voter] : v.domain = d}) \in store[Voter]
  <2> DEFINE cast == {v \in store[Voter] : v.domain = d}
  <2>1. cast # {}
    BY <1>2 DEF Latest
  <2>2. LastIn(cast, NoVote) \in cast
    BY <1>1, <2>1, LastOfPart
  <2>3. QED BY <2>2, LatestIsLast
<1>3. QED BY <1>2 DEF ActiveVotes

LEMMA BroadcastStep ==
  ASSUME IInv, Broadcast
  PROVE  IInv'
<1>1. /\ sent' = sent \cup ActiveVotes /\ ActiveVotes \subseteq store[Voter]
      /\ UNCHANGED <<store, writing, file, casting, seen, flagged, lost, casts, faults>>
  BY ActiveVotesStored DEF Broadcast, bounds
<1>2. Highest' = Highest
  BY <1>1 DEF Highest
<1>3. \A v \in store[Voter] : Typed(v, Highest) /\ Rooted(v) /\ InTime(v)
  BY MembersRooted DEF IInv, KeptEverywhere, Kept, Nodes
<1>4. SentRooted'
  BY <1>1, <1>2, <1>3 DEF IInv, SentRooted
<1>5. Shapes' /\ KeptEverywhere' /\ CastRooted' /\ SeenKnown' /\ SentStored'
  BY <1>1, <1>2 DEF IInv, Shapes, KeptEverywhere, CastRooted, SeenKnown, SentStored
<1>6. QED BY <1>4, <1>5 DEF IInv

\* A replica takes up a vote; it is in its seen cache from then on.
LEMMA ReceiveStep ==
  ASSUME IInv, NEW r \in Replicas, NEW v \in sent, ReceiveFlagged(r, v) \/ ReceiveAccepted(r, v)
  PROVE  IInv'
<1>1. /\ seen' = [seen EXCEPT ![r] = @ \cup {v}]
      /\ UNCHANGED <<file, casting, sent, lost, casts, faults>>
  BY DEF ReceiveFlagged, ReceiveAccepted, Arrives, bounds
<1>2. /\ r \in Nodes /\ Voter \in Nodes /\ Highest' = Highest
      /\ Typed(v, Highest) /\ Rooted(v)
  BY <1>1 DEF IInv, SentRooted, Nodes, Highest
<1>3. /\ KeptEverywhere' /\ DOMAIN store' = Nodes /\ DOMAIN writing' = Nodes
      /\ store[Voter] \subseteq store'[Voter]
  <2>1. CASE UNCHANGED <<store, writing>>
    BY <1>1, <1>2, <2>1 DEF IInv, KeptEverywhere, Shapes
  <2>2. CASE Insertable(v, store[r]) /\ Insert(r, v)
    BY <1>1, <1>2, <2>2, InsertStep
  <2>3. QED BY <2>1, <2>2 DEF ReceiveFlagged, ReceiveAccepted
<1>4. Shapes' /\ CastRooted' /\ SentRooted' /\ SentStored'
  BY <1>1, <1>2, <1>3 DEF IInv, Shapes, CastRooted, SentRooted, SentStored
<1>5. SeenKnown'
  BY <1>1 DEF IInv, SeenKnown, Shapes
<1>6. QED BY <1>3, <1>4, <1>5 DEF IInv

LEMMA ForgetStep ==
  ASSUME IInv, NEW r \in Replicas, Forget(r)
  PROVE  IInv'
<1>1. /\ seen' = [seen EXCEPT ![r] = {}]
      /\ faults' = faults + 1 /\ faults < MaxFaults
      /\ UNCHANGED <<store, writing, file, casting, sent, flagged, lost, casts>>
  BY DEF Forget
<1>2. Highest' = Highest
  BY <1>1 DEF Highest
<1>3. Shapes' /\ SeenKnown'
  BY <1>1, VoteAssumption DEF IInv, Shapes, SeenKnown
<1>4. KeptEverywhere' /\ CastRooted' /\ SentRooted' /\ SentStored'
  BY <1>1, <1>2 DEF IInv, KeptEverywhere, CastRooted, SentRooted, SentStored
<1>5. QED BY <1>3, <1>4 DEF IInv

\* A process starts with what it reads, which was a store or is nothing.
LEMMA RestartStep ==
  ASSUME IInv, NEW n \in Nodes, NEW votes \in Readable(n), Restart(n, votes)
  PROVE  IInv'
<1>1. /\ store' = [store EXCEPT ![n] = votes] /\ file' = [file EXCEPT ![n] = votes]
      /\ writing' = [writing EXCEPT ![n] = {}]
      /\ faults' = faults + 1 /\ faults < MaxFaults
      /\ UNCHANGED <<sent, flagged, casts>>
  BY DEF Restart
<1>2. Highest' = Highest
  BY <1>1 DEF Highest
<1>3. Kept(votes, Highest)
  BY EmptyChain DEF IInv, KeptEverywhere, Readable, Kept
<1>4. KeptEverywhere'
  <2>1. /\ store'[n] = votes /\ file'[n] = votes /\ writing'[n] = {}
        /\ \A m \in Nodes \ {n} :
             store'[m] = store[m] /\ file'[m] = file[m] /\ writing'[m] = writing[m]
    BY <1>1 DEF IInv, Shapes
  <2>2. QED BY <1>2, <1>3, <2>1 DEF IInv, KeptEverywhere
<1>5. CASE n = Voter
  <2>1. /\ casting' = [c \in Commands |-> NoVote] /\ seen' = seen
        /\ lost' = (lost \/ ~(store[n] \subseteq votes))
    BY <1>5 DEF Restart
  <2>2. Shapes' /\ CastRooted' /\ SentRooted' /\ SeenKnown'
    BY <1>1, <1>2, <2>1, VoteAssumption DEF IInv, Shapes, CastRooted, SentRooted, SeenKnown
  <2>3. SentStored'
    BY <1>1, <1>5, <2>1 DEF IInv, Shapes, SentStored, Nodes
  <2>4. QED BY <1>4, <2>2, <2>3 DEF IInv
<1>6. CASE n # Voter
  <2>1. /\ seen' = [seen EXCEPT ![n] = {}] /\ UNCHANGED <<casting, lost>>
    BY <1>6 DEF Restart
  <2>2. n \in Replicas /\ store'[Voter] = store[Voter]
    BY <1>1, <1>6 DEF Nodes, IInv, Shapes
  <2>3. Shapes' /\ SeenKnown'
    BY <1>1, <2>1, <2>2, VoteAssumption DEF IInv, Shapes, SeenKnown
  <2>4. CastRooted' /\ SentRooted' /\ SentStored'
    BY <1>1, <1>2, <2>1, <2>2 DEF IInv, CastRooted, SentRooted, SentStored
  <2>5. QED BY <1>4, <2>3, <2>4 DEF IInv
<1>7. QED BY <1>5, <1>6

LEMMA StepIInv == IInv /\ [Next]_vars => IInv'
<1> SUFFICES ASSUME IInv, [Next]_vars PROVE IInv'
  OBVIOUS
<1>1. ASSUME NEW c \in Commands, NEW d \in Domains, NEW a \in Actions, NEW t \in Times,
             StartCast(c, d, a, t)
      PROVE  IInv'
  BY <1>1, StartCastStep
<1>2. ASSUME NEW c \in Commands, FinishCast(c) PROVE IInv'
  BY <1>2, FinishCastStep
<1>3. ASSUME NEW c \in Commands, RepeatCast(c) \/ RefuseCast(c) PROVE IInv'
  BY <1>3, EndCastStep
<1>4. ASSUME NEW n \in Nodes, NEW votes \in writing[n], Write(n, votes) PROVE IInv'
  BY <1>4, WriteStep
<1>5. CASE Broadcast
  BY <1>5, BroadcastStep
<1>6. ASSUME NEW r \in Replicas, NEW v \in sent, ReceiveFlagged(r, v) \/ ReceiveAccepted(r, v)
      PROVE  IInv'
  BY <1>6, ReceiveStep
<1>7. ASSUME NEW r \in Replicas, Forget(r) PROVE IInv'
  BY <1>7, ForgetStep
<1>8. ASSUME NEW n \in Nodes, NEW votes \in Readable(n), Restart(n, votes) PROVE IInv'
  BY <1>8, RestartStep
<1>9. CASE UNCHANGED vars
  <2>1. Highest' = Highest
    BY <1>9 DEF vars, bounds, Highest
  <2>2. QED
    BY <1>9, <2>1
       DEF vars, bounds, IInv, Shapes, KeptEverywhere, CastRooted, SentRooted, SeenKnown,
           SentStored
<1>10. QED BY <1>1, <1>2, <1>3, <1>4, <1>5, <1>6, <1>7, <1>8, <1>9 DEF Next

LEMMA InvariantHolds == Spec => []IInv
  BY InitIInv, StepIInv, PTL DEF Spec

-----------------------------------------------------------------------------
(* What follows from it.                                                    *)

\* Every vote anywhere has its type, and no puzzle was ever worked on that is harder
\* than the limit.
THEOREM VotesTyped == Spec => []TypeOK
<1>1. IInv => TypeOK
  <2> SUFFICES ASSUME IInv PROVE TypeOK
    OBVIOUS
  <2>1. Highest \in Nat /\ Cardinality(Past) \in Nat /\ Highest <= Cardinality(Past) + MaxCasts
    BY HighestIsNatural, VoteAssumption DEF IInv, Shapes, Highest
  <2>2. \A v \in Past : Typed(v, Highest)
    <3>1. Cardinality(Past) <= Highest
      BY <2>1 DEF IInv, Shapes, Highest
    <3>2. QED BY <2>1, <3>1, PastKept, TypedGrows DEF Kept
  <2>3. \A n \in Nodes : \A v \in store[n] \cup file[n] \cup (UNION writing[n]) : Typed(v, Highest)
    BY DEF IInv, KeptEverywhere, Kept
  <2>4. \A v \in sent : Typed(v, Highest)
    BY DEF IInv, SentRooted
  <2>5. \A r \in Replicas : \A v \in seen[r] : Typed(v, Highest)
    BY <2>2, <2>4 DEF IInv, SeenKnown
  <2>6. \A c \in Commands : casting[c] # NoVote => Typed(casting[c], Highest)
    BY DEF IInv, CastRooted
  <2> DEFINE held(n) == store[n] \cup file[n] \cup (UNION writing[n])
  <2>7. ASSUME NEW v \in Known PROVE Typed(v, Highest)
    <3>1. \/ v \in UNION {held(n) : n \in Nodes}
          \/ v \in {casting[c] : c \in Commands} \ {NoVote}
          \/ v \in sent
          \/ v \in UNION {seen[r] : r \in Replicas}
      BY DEF Known
    <3>2. CASE v \in UNION {held(n) : n \in Nodes}
      <4>1. PICK n \in Nodes : v \in held(n)
        BY <3>2
      <4>2. QED BY <2>3, <4>1
    <3>3. CASE v \in {casting[c] : c \in Commands} \ {NoVote}
      BY <2>6, <3>3
    <3>4. CASE v \in UNION {seen[r] : r \in Replicas}
      BY <2>5, <3>4
    <3>5. QED BY <2>4, <3>1, <3>2, <3>3, <3>4
  <2>8. \A v \in Known :
          /\ v.domain \in Domains /\ v.action \in Actions /\ v.time \in Times
          /\ v.seq \in 1..(Cardinality(Past) + MaxCasts) /\ v.revisions \in Nat
          /\ v.difficulty \in BASE..MAX_DIFFICULTY
    BY <2>1, <2>7, VoteAssumption DEF Typed
  <2>9. \A n \in Nodes : store[n] \subseteq Known /\ file[n] \subseteq Known
    <3>1. \A n \in Nodes : held(n) \subseteq UNION {held(m) : m \in Nodes}
      OBVIOUS
    <3>2. \A n \in Nodes : held(n) \subseteq Known
      BY <3>1 DEF Known
    <3>3. QED BY <3>2
  <2>10. QED BY <2>8, <2>9 DEF TypeOK, IInv, Shapes
<1>2. QED BY <1>1, InvariantHolds, PTL

\* Every store, file and snapshot is one unbroken chain, in which every flip is paid for.
THEOREM StoresStayChains == Spec => []StoresAreChains
<1>1. IInv => StoresAreChains
  BY DEF IInv, KeptEverywhere, Kept, StoresAreChains
<1>2. QED BY <1>1, InvariantHolds, PTL

\* The voter never lets two votes out under one number, as long as it lost none.
THEOREM NumbersIssuedOnce == Spec => []OneVotePerNumber
<1>1. IInv => OneVotePerNumber
  <2> SUFFICES ASSUME IInv, ~lost, NEW v \in Issued, NEW w \in Issued, v.seq = w.seq
               PROVE  v = w
    BY DEF OneVotePerNumber
  <2>1. v \in store[Voter] /\ w \in store[Voter]
    BY DEF Issued, IInv, SentStored
  <2>2. IsFiniteSet(store[Voter]) /\ Numbered(store[Voter])
    BY ChainIsLinked DEF IInv, KeptEverywhere, Kept, Nodes, Linked
  <2>3. QED BY <2>1, <2>2, NumberedUnique
<1>2. QED BY <1>1, InvariantHolds, PTL

\* A vote made to follow a chain is acceptable to whoever holds just this chain.
LEMMA FollowerAcceptable ==
  ASSUME NEW votes, NEW k, Kept(votes, k), NEW v, Typed(v, k), Rooted(v), InTime(v),
         v.prev = Latest(votes)
  PROVE  /\ Validate(v, Latest(votes), VoteContext(votes, v.domain))
         /\ Insertable(v, votes)
<1>1. v \notin votes /\ v.seq = Latest(votes).seq + 1 /\ Priced(v, votes)
  BY FollowerExtends DEF Kept
<1>2. InsertContext(votes, v.domain) = VoteContext(votes, v.domain)
  BY DEF InsertContext, VoteContext
<1>3. v.difficulty \in Int /\ v.difficulty <= MAX_DIFFICULTY
  BY VoteAssumption DEF Typed
<1>4. Validate(v, Latest(votes), VoteContext(votes, v.domain))
  BY <1>1, <1>3 DEF Validate, Continues, InTime, Priced
<1>5. QED BY <1>1, <1>2, <1>4 DEF Insertable

\* Who has just the votes before a vote accepts it, whatever else goes on.
THEOREM InOrderIsAccepted == Spec => InOrderAccepted
<1>1. IInv /\ [Next]_vars => [AcceptsInOrder]_vars
  <2> SUFFICES ASSUME IInv, Next PROVE AcceptsInOrder
    OBVIOUS
  <2>1. ASSUME NEW r \in Replicas, NEW v \in seen'[r] \ seen[r], v.prev = Latest(store[r])
        PROVE  v \in store'[r]
    <3>1. PICK q \in Replicas, w \in sent : ReceiveFlagged(q, w) \/ ReceiveAccepted(q, w)
      <4>1. CASE \E q \in Replicas : Forget(q)
        BY <2>1, <4>1 DEF Forget, IInv, Shapes
      <4>2. CASE \E n \in Nodes : \E votes \in Readable(n) : Restart(n, votes)
        BY <2>1, <4>2 DEF Restart, IInv, Shapes
      <4>3. QED BY <2>1, <4>1, <4>2
                DEF Next, StartCast, FinishCast, RepeatCast, RefuseCast, Write, Broadcast, bounds
    <3>2. seen' = [seen EXCEPT ![q] = @ \cup {w}]
      BY <3>1 DEF ReceiveFlagged, ReceiveAccepted, Arrives
    <3>3. q = r /\ w = v
      BY <2>1, <3>2 DEF IInv, Shapes
    <3>4. r \in Nodes /\ Kept(store[r], Highest) /\ Typed(v, Highest) /\ Rooted(v) /\ InTime(v)
      BY <3>1, <3>3 DEF IInv, KeptEverywhere, SentRooted, Nodes
    <3>5. Acceptable(r, v) /\ Insertable(v, store[r])
      BY <2>1, <3>4, FollowerAcceptable DEF Acceptable
    <3>6. ReceiveAccepted(r, v)
      BY <3>1, <3>3, <3>5 DEF ReceiveFlagged
    <3>7. store' = [store EXCEPT ![r] = @ \cup {v}]
      BY <3>5, <3>6 DEF ReceiveAccepted, Insert
    <3>8. QED BY <3>4, <3>7 DEF IInv, Shapes
  <2>2. ASSUME NEW c \in Commands, casting[c] # NoVote, casting'[c] = NoVote, faults' = faults,
               casting[c].prev = Latest(store[Voter]),
               ~ (casting[c].time < Latest(store[Voter]).time)
        PROVE  casting[c] \in store'[Voter]
    <3>1. FinishCast(c) \/ RepeatCast(c) \/ RefuseCast(c)
      <4>1. ASSUME NEW b \in Commands, NEW d \in Domains, NEW a \in Actions, NEW t \in Times,
                   StartCast(b, d, a, t)
            PROVE  FALSE
        BY <2>2, <4>1 DEF StartCast, IInv, Shapes
      <4>2. ASSUME NEW b \in Commands, FinishCast(b) \/ RepeatCast(b) \/ RefuseCast(b)
            PROVE  b = c
        BY <2>2, <4>2 DEF FinishCast, RepeatCast, RefuseCast, IInv, Shapes
      <4>3. ASSUME NEW q \in Replicas, Forget(q) PROVE FALSE
        BY <2>2, <4>3 DEF Forget
      <4>4. ASSUME NEW n \in Nodes, NEW votes \in Readable(n), Restart(n, votes) PROVE FALSE
        BY <2>2, <4>4 DEF Restart, IInv, Shapes
      <4>5. QED
        BY <2>2, <4>1, <4>2, <4>3, <4>4
           DEF Next, Write, Broadcast, ReceiveFlagged, ReceiveAccepted, bounds
    <3>2. /\ Voter \in Nodes /\ Kept(store[Voter], Highest)
          /\ Typed(casting[c], Highest) /\ Rooted(casting[c])
      BY <2>2 DEF IInv, KeptEverywhere, CastRooted, Nodes
    <3>3. InTime(casting[c])
      <4>1. CASE store[Voter] = {}
        BY <2>2, <4>1, EmptyChain DEF InTime
      <4>2. CASE store[Voter] # {}
        <5>1. Latest(store[Voter]) \in store[Voter]
          BY <3>2, <4>2, ChainLength DEF Kept
        <5>2. Latest(store[Voter]).time \in Nat /\ casting[c].time \in Nat
          BY <3>2, <5>1, VoteAssumption DEF Kept, Typed
        <5>3. QED BY <2>2, <5>2 DEF InTime
      <4>3. QED BY <4>1, <4>2
    <3>4. Insertable(casting[c], store[Voter])
      BY <2>2, <3>2, <3>3, FollowerAcceptable
    <3>5. casting[c] \notin store[Voter]
      BY <3>4 DEF Insertable
    <3>6. FinishCast(c)
      BY <3>1, <3>4, <3>5 DEF RepeatCast, RefuseCast
    <3>7. store' = [store EXCEPT ![Voter] = @ \cup {casting[c]}]
      BY <3>6 DEF FinishCast, Insert
    <3>8. QED BY <3>2, <3>7 DEF IInv, Shapes
  <2>3. QED BY <2>1, <2>2 DEF AcceptsInOrder
<1>2. QED BY <1>1, InvariantHolds, PTL DEF Spec, InOrderAccepted
=============================================================================
