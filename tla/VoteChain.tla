----------------------------- MODULE VoteChain -----------------------------
(***************************************************************************)
(* The domain votes of one voter: the commands that cast them              *)
(* (net/ipc/handler/vote.rs), the vote store of the voter and of the nodes *)
(* that replicate it, with its file (storage/db/subtables/vote_subtable.rs *)
(* and crypto/vote/mod.rs), the broadcast of the active votes and their    *)
(* reception (net/router/broadcast).                                       *)
(*                                                                         *)
(* A voter's votes form a chain: each names the one before it, and carries *)
(* a proof of work whose difficulty grows with the domains voted on and    *)
(* with the votes on the same domain, within a window of time.  Commands   *)
(* run concurrently, each reads the store, solves its puzzle and only then *)
(* inserts; the file is written after the lock of the store is released.   *)
(*                                                                         *)
(* A vote stands for its own hash: prev is the vote before it.  The puzzle *)
(* itself, signatures and domain names are taken as sound; headless nodes, *)
(* which cast no votes, are left out.                                      *)
(***************************************************************************)
EXTENDS Integers, FiniteSets

CONSTANTS
  Voter,          \* the node that votes
  Replicas,       \* its peers
  Domains,        \* the domains voted on
  Actions,        \* TW and UTW
  Times,          \* the readings of the voter's clock
  Commands,       \* the IPC connections that carry CastVote commands
  WINDOW,         \* ACTIVE_VOTES_ROLLING_WINDOW_SECS
  BASE,           \* DEFAULT_BASE_DIFFICULTY
  MAX_DIFFICULTY, \* MAX_COMPUTABLE_DIFFICULTY
  Past,           \* the votes that were cast and replicated before
  MaxCasts,       \* bound: how many commands there are
  MaxFaults       \* bound: how many restarts and expiries of seen caches

VARIABLES
  store,     \* vote_store, the voter's part of it: for each node, a set of votes
  writing,   \* snapshots of the store taken under its lock, not yet written
  file,      \* domain_votes.json
  casting,   \* for each command, the vote whose puzzle it is solving, if any
  sent,      \* the network: the votes that were broadcast
  seen,      \* seen_cache of each replica
  flagged,   \* the replicas that have recorded a bullshit event of the voter
  lost,      \* history: has a restart of the voter lost a vote?
  casts,     \* how many commands there were
  faults     \* how many restarts and expiries of a seen cache there were

bounds == <<casts, faults>>
vars == <<store, writing, file, casting, sent, seen, flagged, lost, bounds>>

Nodes == {Voter} \cup Replicas

NoVote == [seq |-> 0]

ASSUME VoteAssumption ==
  /\ Voter \notin Replicas /\ IsFiniteSet(Replicas)
  /\ Times \subseteq Nat
  /\ WINDOW \in Nat /\ BASE \in Nat /\ MAX_DIFFICULTY \in Nat
  /\ {MaxCasts, MaxFaults} \subseteq Nat

-----------------------------------------------------------------------------
(* The chain.                                                              *)

\* floor(log2(n)): how often 1 can be doubled without passing n.
FloorLog2(n) == Cardinality({k \in 1..n : 2^k <= n})

FlipPenalty(revisions) == 2 * FloorLog2(revisions + 1)
Difficulty(active, revisions) ==
  BASE + 2 * FloorLog2(active + 1) + FlipPenalty(revisions)

\* The last of the votes sorted by number.
Latest(votes) ==
  IF votes = {} THEN NoVote
  ELSE CHOOSE v \in votes : \A w \in votes : w.seq <= v.seq

\* The window ends at the latest vote, not at the time of day.
Cutoff(votes) ==
  IF votes = {} \/ Latest(votes).time < WINDOW THEN 0 ELSE Latest(votes).time - WINDOW

Context(recent, d) ==
  [active |-> Cardinality({v.domain : v \in recent}),
   revisions |-> Cardinality({v \in recent : v.domain = d})]

\* get_vote_context: what a command or a replica expects of the next vote on d.
VoteContext(votes, d) == Context({v \in votes : v.time >= Cutoff(votes)}, d)

\* Mutant: the oldest instant of the window is left out.
InsertContextStrict(votes, d) ==
  Context({v \in votes : votes = {} \/ v.time > Cutoff(votes)}, d)

\* insert_vote computes it again, under the lock.
InsertContext(votes, d) == Context({v \in votes : v.time >= Cutoff(votes)}, d)

\* Mutant: the hash link is not compared.
ContinuesUnlinked(v, last) ==
  /\ v.seq = last.seq + 1
  /\ last # NoVote => v.time >= last.time

\* The vote has the next number, names the vote before it and is not older.
Continues(v, last) ==
  /\ v.seq = last.seq + 1
  /\ v.prev = last
  /\ last # NoVote => v.time >= last.time

\* validate_against_chain.
Validate(v, last, context) ==
  /\ Continues(v, last)
  /\ v.revisions = context.revisions
  /\ v.difficulty >= Difficulty(context.active, context.revisions)
  /\ v.difficulty <= MAX_DIFFICULTY

\* Mutant: the store is not looked at again under the lock.
InsertableUnchecked(v, votes) == v \notin votes

\* insert_vote accepts a vote that is not there yet.
Insertable(v, votes) ==
  /\ v \notin votes
  /\ Validate(v, Latest(votes), InsertContext(votes, v.domain))

\* Every vote of the set follows from those before it, priced as they require.
IsChain(votes) ==
  /\ {v.seq : v \in votes} = 1..Cardinality(votes)
  /\ \A v \in votes :
       LET before == {w \in votes : w.seq < v.seq}
           last == Latest(before)
           context == VoteContext(before, v.domain)
       IN
       /\ v.prev = last /\ v.seq = last.seq + 1
       /\ last # NoVote => v.time >= last.time
       /\ v.revisions = context.revisions
       /\ v.difficulty = Difficulty(context.active, context.revisions)

\* What was cast before was cast by this program.
ASSUME PastAssumption ==
  /\ IsFiniteSet(Past) /\ IsChain(Past)
  /\ \A v \in Past :
       /\ v.domain \in Domains /\ v.action \in Actions /\ v.time \in Times
       /\ v.difficulty <= MAX_DIFFICULTY

-----------------------------------------------------------------------------
(* Casting.                                                                 *)

\* VoteRecord::new_signed, from the store the command has read at time t.
NewVote(votes, d, a, t) ==
  LET context == VoteContext(votes, d) IN
  [seq |-> Latest(votes).seq + 1, prev |-> Latest(votes),
   domain |-> d, action |-> a, time |-> t, revisions |-> context.revisions,
   difficulty |-> Difficulty(context.active, context.revisions)]

\* Mutant: any difficulty is mined.
ComputableAlways(v) == TRUE

\* The command is refused when the puzzle is too hard to solve.
Computable(v) == v.difficulty <= MAX_DIFFICULTY

\* handle_cast_vote reads the store and starts on the puzzle.
StartCast(c, d, a, t) ==
  LET v == NewVote(store[Voter], d, a, t) IN
  /\ casting[c] = NoVote
  /\ casts < MaxCasts
  /\ casts' = casts + 1
  /\ Computable(v)
  /\ casting' = [casting EXCEPT ![c] = v]
  /\ UNCHANGED <<store, writing, file, sent, seen, flagged, lost, faults>>

\* insert_vote, up to the release of the lock: the snapshot is still to be written.
Insert(n, v) ==
  /\ store' = [store EXCEPT ![n] = @ \cup {v}]
  /\ writing' = [writing EXCEPT ![n] = @ \cup {store'[n]}]

FinishCast(c) ==
  /\ casting[c] # NoVote
  /\ Insertable(casting[c], store[Voter])
  /\ Insert(Voter, casting[c])
  /\ casting' = [casting EXCEPT ![c] = NoVote]
  /\ UNCHANGED <<file, sent, seen, flagged, lost, bounds>>

\* Another command cast the very same vote: answered Ok at once.
RepeatCast(c) ==
  /\ casting[c] \in store[Voter]
  /\ casting' = [casting EXCEPT ![c] = NoVote]
  /\ UNCHANGED <<store, writing, file, sent, seen, flagged, lost, bounds>>

\* Another command was faster, or the clock has gone back.
RefuseCast(c) ==
  /\ casting[c] # NoVote
  /\ casting[c] \notin store[Voter] /\ ~Insertable(casting[c], store[Voter])
  /\ casting' = [casting EXCEPT ![c] = NoVote]
  /\ UNCHANGED <<store, writing, file, sent, seen, flagged, lost, bounds>>

\* The rest of insert_vote; a command is then answered, and the broadcast woken.
Write(n, votes) ==
  /\ votes \in writing[n]
  /\ file' = [file EXCEPT ![n] = votes]
  /\ writing' = [writing EXCEPT ![n] = @ \ {votes}]
  /\ UNCHANGED <<store, casting, sent, seen, flagged, lost, bounds>>

-----------------------------------------------------------------------------
(* Broadcast and reception.                                                 *)

\* list_active_domain_votes: the last vote on each domain.
ActiveVotes ==
  {Latest({v \in store[Voter] : v.domain = d}) : d \in Domains} \ {NoVote}

\* broadcast_published_pki_entities, its votes, which CastVote and other commands
\* wake.  The network delivers what was sent at any time, in any order, any number
\* of times or never.
Broadcast ==
  /\ sent' = sent \cup ActiveVotes
  /\ UNCHANGED <<store, writing, file, casting, seen, flagged, lost, bounds>>

\* handle_vote_packet, its checks.
Acceptable(r, v) ==
  Validate(v, Latest(store[r]), VoteContext(store[r], v.domain))

\* A packet whose message is not in the seen cache; the listener has ended with the
\* one before it.
Arrives(r, v) ==
  /\ v \in sent /\ v \notin seen[r] /\ writing[r] = {}
  /\ seen' = [seen EXCEPT ![r] = @ \cup {v}]

\* A vote that does not fit is recorded as a bullshit event of its voter.
ReceiveFlagged(r, v) ==
  /\ Arrives(r, v)
  /\ ~Acceptable(r, v)
  /\ flagged' = flagged \cup {r}
  /\ UNCHANGED <<store, writing, file, casting, sent, lost, bounds>>

ReceiveAccepted(r, v) ==
  /\ Arrives(r, v)
  /\ Acceptable(r, v)
  /\ IF Insertable(v, store[r]) THEN Insert(r, v) ELSE UNCHANGED <<store, writing>>
  /\ UNCHANGED <<file, casting, sent, flagged, lost, bounds>>

\* An hour passes without a packet: prune_seen_cache.
Forget(r) ==
  /\ faults < MaxFaults /\ seen[r] # {}
  /\ faults' = faults + 1
  /\ seen' = [seen EXCEPT ![r] = {}]
  /\ UNCHANGED <<store, writing, file, casting, sent, flagged, lost, casts>>

\* What is found in the file by the next process: a write that was cut short
\* leaves a file that does not parse, which is read as an empty one.
Readable(n) == {file[n]} \cup IF writing[n] # {} THEN {{}} ELSE {}

\* The process ends and is started again.
Restart(n, votes) ==
  /\ faults < MaxFaults
  /\ faults' = faults + 1
  /\ votes \in Readable(n)
  /\ store' = [store EXCEPT ![n] = votes]
  /\ file' = [file EXCEPT ![n] = votes]
  /\ writing' = [writing EXCEPT ![n] = {}]
  /\ IF n = Voter
     THEN /\ casting' = [c \in Commands |-> NoVote]
          /\ lost' = (lost \/ ~(store[n] \subseteq votes))
          /\ UNCHANGED seen
     ELSE /\ seen' = [seen EXCEPT ![n] = {}]
          /\ UNCHANGED <<casting, lost>>
  /\ UNCHANGED <<sent, flagged, casts>>

Init ==
  /\ store = [n \in Nodes |-> Past] /\ file = [n \in Nodes |-> Past]
  /\ writing = [n \in Nodes |-> {}]
  /\ casting = [c \in Commands |-> NoVote]
  /\ sent = {}
  /\ seen = [r \in Replicas |-> Past] /\ flagged = {} /\ lost = FALSE
  /\ casts = 0 /\ faults = 0

Next ==
  \/ \E c \in Commands :
       \/ \E d \in Domains, a \in Actions, t \in Times : StartCast(c, d, a, t)
       \/ FinishCast(c) \/ RepeatCast(c) \/ RefuseCast(c)
  \/ \E n \in Nodes : \E votes \in writing[n] : Write(n, votes)
  \/ Broadcast
  \/ \E r \in Replicas : \E v \in sent : ReceiveFlagged(r, v) \/ ReceiveAccepted(r, v)
  \/ \E r \in Replicas : Forget(r)
  \/ \E n \in Nodes : \E votes \in Readable(n) : Restart(n, votes)

Spec == Init /\ [][Next]_vars

-----------------------------------------------------------------------------
(* Properties.                                                              *)

\* The votes known anywhere.
Known ==
  (UNION {store[n] \cup file[n] \cup (UNION writing[n]) : n \in Nodes})
    \cup ({casting[c] : c \in Commands} \ {NoVote})
    \cup sent \cup (UNION {seen[r] : r \in Replicas})

\* No puzzle is ever worked on that is harder than the limit.
TypeOK ==
  /\ \A v \in Known :
        /\ v.domain \in Domains /\ v.action \in Actions /\ v.time \in Times
        /\ v.seq \in 1..(Cardinality(Past) + MaxCasts) /\ v.revisions \in Nat
        /\ v.difficulty \in BASE..MAX_DIFFICULTY
  /\ \A n \in Nodes : store[n] \subseteq Known /\ file[n] \subseteq Known
  /\ casts \in 0..MaxCasts /\ faults \in 0..MaxFaults

\* Whatever races, losses and crashes there are, each store, each file and each
\* snapshot about to be written is one unbroken chain, in which every flip is paid
\* for: also once the voter has lost votes and cast others under their numbers.
StoresAreChains ==
  \A n \in Nodes :
    IsChain(store[n]) /\ IsChain(file[n]) /\ \A votes \in writing[n] : IsChain(votes)

\* An honest vote is refused only for its place in the chain: a node that has just
\* the votes before it accepts it, for node and voter compute the same price and the
\* same count of revisions, whatever the clock of the day.  So it is with the
\* command that casts it, unless the clock went back.
AcceptsInOrder ==
  /\ \A r \in Replicas : \A v \in seen'[r] \ seen[r] :
       v.prev = Latest(store[r]) => v \in store'[r]
  /\ \A c \in Commands :
       /\ casting[c] # NoVote /\ casting'[c] = NoVote /\ faults' = faults
       /\ casting[c].prev = Latest(store[Voter])
       => \/ casting[c] \in store'[Voter]
          \/ casting[c].time < Latest(store[Voter]).time
InOrderAccepted == [][AcceptsInOrder]_vars

Issued == store[Voter] \cup sent

\* As long as no restart has lost a vote, the voter never lets two votes out under
\* the same number, however its commands race.
OneVotePerNumber ==
  ~lost => \A v, w \in Issued : v.seq = w.seq => v = w

-----------------------------------------------------------------------------
(* What the documentation says, and the code does not do: see README.      *)

\* Peers never record an honest vote as a bullshit event, which is for broken chains
\* and bad signatures, and costs the voter its weight.
HonestVoterNotFlagged == flagged = {}

\* insert_vote "persists to disk": once every write is done, the file has what the
\* store has.
PersistedToDisk == writing[Voter] = {} => file[Voter] = store[Voter]
=============================================================================
