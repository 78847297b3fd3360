------------------------------ MODULE EventLog ------------------------------
(***************************************************************************)
(* The event log of one randbotd node (src/src/storage/db): the in-memory  *)
(* vector event_log and the file event_log.jsonl behind it, the staging    *)
(* buffer pending_unverified, and the cache of Merkle range hashes.        *)
(*                                                                         *)
(* An event arrives either in a peer's RangeSyncResponse (append_event) or *)
(* as a gossip frame whose handler has judged it (record_gossip_event).    *)
(* Each handler runs under the event_log write lock, so it is one action,  *)
(* with its disk write.  Peers deliver in any order, any number of times,  *)
(* or never; the process may be stopped between two handlers and started   *)
(* again from the file.                                                    *)
(*                                                                         *)
(* Hashes and signatures are symbolic: Hash(e) is the tuple of what        *)
(* compute_hash digests, a signature is the tuple of what was signed.      *)
(***************************************************************************)
EXTENDS Integers, Sequences, FiniteSets

CONSTANTS
  Originators,        \* originator public keys
  Deliverable,        \* the entries peers may send in a RangeSyncResponse
  Frames,             \* the gossip frames whose handler records them
  Ranges,             \* the sequence ranges asked of the Merkle cache
  MAX_STAGED_EVENTS,  \* staging slots per originator
  MaxLog              \* bound: no delivery is handled beyond this log length

VARIABLES
  up,       \* is the process running?
  log,      \* event_log
  disk,     \* event_log.jsonl, one entry a line
  pending,  \* pending_unverified, per originator: sequence number to entry
  cache     \* merkle_cache: <<originator, range>> to hash

vars == <<up, log, disk, pending, cache>>

-----------------------------------------------------------------------------
(* Entries, hashes and signatures.                                         *)

ZeroHash == <<>>

\* compute_hash: the is_bullshit flag is part of the digest.
Hash(e) == <<e.seq, e.prev, e.orig, e.kind, e.payload, e.sig, e.bad>>

\* The two byte strings whose signature verify_signature accepts.
ChainContent(e) == <<"chain", e.orig, e.seq, e.prev, e.kind, e.payload>>
FrameContent(e) == <<"frame", e.orig, e.seq, e.kind, e.payload>>
VerifySignature(e) == e.sig \in {ChainContent(e), FrameContent(e)}

\* An entry with another is_bullshit flag.
Flag(e, b) ==
  [orig |-> e.orig, seq |-> e.seq, prev |-> e.prev, kind |-> e.kind,
   payload |-> e.payload, sig |-> e.sig, bad |-> b]

\* What record_gossip_event makes of a frame: it has no link.
Recorded(f, b) ==
  [orig |-> f.orig, seq |-> f.seq, prev |-> ZeroHash, kind |-> f.kind,
   payload |-> f.payload, sig |-> f.sig, bad |-> b]

\* The proof append_event records: it carries the signature of the incoming
\* entry, which was made over other content.
EquivocationProof(existing, e) ==
  [orig |-> e.orig, seq |-> e.seq, prev |-> ZeroHash, kind |-> "proof",
   payload |-> <<Hash(existing), Hash(e)>>, sig |-> e.sig, bad |-> TRUE]

Events ==
  {Flag(e, b) : e \in Deliverable, b \in BOOLEAN}
    \cup {Recorded(f, b) : f \in Frames, b \in BOOLEAN}

Entries == Events \cup {EquivocationProof(a, e) : a, e \in Events}

\* A delivered entry and a gossip frame, as the network can carry them.  An
\* originator can sign an entry with the payload type of a proof; a frame of that
\* type has no handler.
ASSUME EventLogAssumption ==
  /\ \A e \in Deliverable :
        /\ e = Flag(e, e.bad) /\ e.bad \in BOOLEAN
        /\ e.orig \in Originators /\ e.seq \in Nat \ {0}
        /\ e.kind \in {"event", "proof"} /\ VerifySignature(e)
  /\ \A f \in Frames :
        /\ f.orig \in Originators /\ f.seq \in Nat \ {0}
        /\ f.kind = "event" /\ f.sig = FrameContent(f)
  /\ MAX_STAGED_EVENTS \in Nat \ {0}
  /\ MaxLog \in Nat

-----------------------------------------------------------------------------
(* Reading the log.                                                        *)

\* The positions of an originator's events.  Every entry with the payload type of
\* a proof is left out, also one the originator signed and a peer delivered:
\* append_event does not see it when it looks for what it has, but appends it.
EventsOf(l, o) == {i \in DOMAIN l : l[i].orig = o /\ l[i].kind # "proof"}

\* Mutant: whoever the originator is.
EventsAtAnyone(l, o, s) == {i \in DOMAIN l : l[i].seq = s /\ l[i].kind # "proof"}

EventsAt(l, o, s) == {i \in EventsOf(l, o) : l[i].seq = s}

FirstOf(S) == CHOOSE i \in S : \A j \in S : i <= j
LastOf(S) == CHOOSE i \in S : \A j \in S : j <= i

\* Mutant: the last sequence number again.
ExpectedSeqAgain(l, o) ==
  IF EventsOf(l, o) = {} THEN 1 ELSE l[LastOf(EventsOf(l, o))].seq

\* Where append_event expects the originator to continue.
ExpectedSeq(l, o) ==
  IF EventsOf(l, o) = {} THEN 1 ELSE l[LastOf(EventsOf(l, o))].seq + 1

\* Mutant: the link of the first event.
ExpectedPrevFirst(l, o) ==
  IF EventsOf(l, o) = {} THEN ZeroHash ELSE Hash(l[FirstOf(EventsOf(l, o))])

ExpectedPrev(l, o) ==
  IF EventsOf(l, o) = {} THEN ZeroHash ELSE Hash(l[LastOf(EventsOf(l, o))])

\* The link an event at sequence s must carry to count as the truth.
CanonicalPrev(l, o, s) ==
  IF s = 1 \/ EventsAt(l, o, s - 1) = {} THEN ZeroHash
  ELSE Hash(l[LastOf(EventsAt(l, o, s - 1))])

Contains(r, s) == r.start <= s /\ s <= r.end

\* The values of a function on positions, in the order of the positions.
InOrder(f) ==
  LET rank(i) == Cardinality({j \in DOMAIN f : j <= i})
  IN  [k \in 1..Cardinality(DOMAIN f) |-> f[CHOOSE i \in DOMAIN f : rank(i) = k]]

\* compute_merkle_hash_for_range without its cache; <<>> is None.
MerkleHash(l, o, r) ==
  InOrder([i \in {i \in DOMAIN l : l[i].orig = o /\ Contains(r, l[i].seq)} |-> Hash(l[i])])

-----------------------------------------------------------------------------
(* append_event, after its signature check.                                *)

\* Mutant: the link is not checked.
LinkedUnchecked(e, prev) == e

\* An entry keeps the flag its sender gave it; a broken link raises it.
Linked(e, prev) == Flag(e, e.bad \/ e.prev # prev)

\* Mutant: one entry too many.
StagingFullLate(p) == Cardinality(DOMAIN p) > MAX_STAGED_EVENTS

StagingFull(p) == Cardinality(DOMAIN p) >= MAX_STAGED_EVENTS

\* seq > expected: staged, unless the buffer is full or has that number.
Stage(e) ==
  LET p == pending[e.orig] IN
  /\ e.seq > ExpectedSeq(log, e.orig)
  /\ e.seq \notin DOMAIN p
  /\ ~StagingFull(p)
  /\ pending' = [pending EXCEPT ![e.orig] =
                   [s \in DOMAIN p \cup {e.seq} |-> IF s = e.seq THEN e ELSE p[s]]]
  /\ UNCHANGED <<up, log, disk, cache>>

\* Mutant: an entry is replaced whether or not it was flagged.
IsTruthAlways(existing, e, prev) == e.prev = prev

\* Truth resolution: the incoming entry replaces a flagged one if it links.
IsTruth(existing, e, prev) == existing.bad /\ e.prev = prev

\* seq < expected and another entry holds that number: the proof is recorded.
Equivocate(e) ==
  LET same == EventsAt(log, e.orig, e.seq)
      i == FirstOf(same)
      prev == CanonicalPrev(log, e.orig, e.seq)
      resolved == IF IsTruth(log[i], e, prev) THEN [log EXCEPT ![i] = e] ELSE log
  IN
  /\ e.seq < ExpectedSeq(log, e.orig)
  /\ same # {}
  /\ Hash(log[i]) # Hash(e)
  /\ log' = Append(resolved, EquivocationProof(log[i], e))
  /\ disk' = log'
  /\ UNCHANGED <<up, pending, cache>>

\* Nothing to do: the entry is known, or it would not fit.
Discard(e) ==
  LET o == e.orig
      same == EventsAt(log, o, e.seq)
  IN
  /\ \/ /\ e.seq > ExpectedSeq(log, o)
        /\ e.seq \in DOMAIN pending[o] \/ StagingFull(pending[o])
     \/ /\ e.seq < ExpectedSeq(log, o)
        /\ same # {} => Hash(log[FirstOf(same)]) = Hash(e)
  /\ UNCHANGED vars

\* Mutant: nothing staged is promoted.
DrainsNothing(p, s, n) == n = 0

\* The drain loop promotes the n staged entries that follow s: it looks only at
\* the lowest staged number, so one at or below s stops it.
Drains(p, s, n) ==
  IF \E t \in DOMAIN p : t <= s
  THEN n = 0
  ELSE /\ \A k \in 1..n : s + k \in DOMAIN p
       /\ s + n + 1 \notin DOMAIN p

\* Mutant: the cache survives.
ClearKeeps(c) == c

Clear(c) == [k \in {} |-> ZeroHash]

\* seq = expected: appended, then what was staged behind it.
Extend(e) ==
  LET o == e.orig
      p == pending[o]
      head == Linked(e, ExpectedPrev(log, o))
  IN
  /\ e.seq = ExpectedSeq(log, o)
  /\ \E n \in 0..MAX_STAGED_EVENTS : \E bad \in [1..n -> BOOLEAN] :
       /\ Drains(p, e.seq, n)
       /\ LET promoted == [k \in 1..n |-> Flag(p[e.seq + k], bad[k])]
              new == <<head>> \o promoted
          IN /\ \A k \in 1..n : promoted[k] = Linked(p[e.seq + k], Hash(new[k]))
             /\ log' = log \o new
       /\ pending' = [pending EXCEPT ![o] =
                        [s \in DOMAIN p \ (e.seq + 1)..(e.seq + n) |-> p[s]]]
  /\ disk' = log'
  /\ cache' = Clear(cache)
  /\ UNCHANGED up

AppendEvent(e) ==
  /\ up
  /\ Len(log) < MaxLog
  /\ Stage(e) \/ Equivocate(e) \/ Discard(e) \/ Extend(e)

-----------------------------------------------------------------------------
(* The other operations.                                                   *)

\* record_gossip_event: no sequence check, no staging, no cache invalidation.
RecordGossipEvent(f, bad) ==
  /\ up
  /\ Len(log) < MaxLog
  /\ log' = Append(log, Recorded(f, bad))
  /\ disk' = log'
  /\ UNCHANGED <<up, pending, cache>>

\* compute_merkle_hash_for_range, when the range is not cached yet.
ComputeMerkle(o, r) ==
  /\ up
  /\ <<o, r>> \notin DOMAIN cache
  /\ cache' = [k \in DOMAIN cache \cup {<<o, r>>} |->
                 IF k = <<o, r>> THEN MerkleHash(log, o, r) ELSE cache[k]]
  /\ UNCHANGED <<up, log, disk, pending>>

\* The process ends between two handlers: what is only in memory is gone.
Stop ==
  /\ up
  /\ up' = FALSE
  /\ log' = <<>>
  /\ pending' = [o \in Originators |-> <<>>]
  /\ cache' = Clear(cache)
  /\ UNCHANGED disk

\* Database::open: every line must verify, or the daemon exits.
Openable == \A i \in DOMAIN disk : VerifySignature(disk[i])

Open ==
  /\ ~up
  /\ IF Openable THEN up' = TRUE /\ log' = disk ELSE UNCHANGED <<up, log>>
  /\ UNCHANGED <<disk, pending, cache>>

Init ==
  /\ up = TRUE
  /\ log = <<>>
  /\ disk = <<>>
  /\ pending = [o \in Originators |-> <<>>]
  /\ cache = [k \in {} |-> ZeroHash]

Next ==
  \/ \E e \in Deliverable : AppendEvent(e)
  \/ \E f \in Frames, bad \in BOOLEAN : RecordGossipEvent(f, bad)
  \/ \E o \in Originators, r \in Ranges : ComputeMerkle(o, r)
  \/ Stop
  \/ Open

Spec == Init /\ [][Next]_vars

-----------------------------------------------------------------------------
(* Properties.                                                             *)

\* The log and its file hold nothing but entries that peers sent, with their
\* flag, or proofs about two of them; staging is bounded by MAX_STAGED_EVENTS.
TypeOK ==
  /\ up \in BOOLEAN
  /\ log \in Seq(Entries)
  /\ disk \in Seq(Entries)
  /\ DOMAIN pending = Originators
  /\ \A o \in Originators :
        /\ \A s \in DOMAIN pending[o] :
              pending[o][s] \in Deliverable /\ pending[o][s].seq = s
                /\ pending[o][s].orig = o
        /\ Cardinality(DOMAIN pending[o]) <= MAX_STAGED_EVENTS
  /\ DOMAIN cache \subseteq Originators \X Ranges

\* An originator none of whose gossip frames is recorded here, and that signs no
\* entry of the payload type of a proof: both enter the log beside the chain.
SyncedOnly(o) ==
  /\ \A f \in Frames : f.orig # o
  /\ \A e \in Deliverable : e.orig = o => e.kind # "proof"

\* An originator that signs one unbroken chain, relayed unflagged.
Honest(o) ==
  /\ SyncedOnly(o)
  /\ \A e \in Deliverable : e.orig = o =>
        /\ ~e.bad
        /\ \A d \in Deliverable : d.orig = o /\ d.seq = e.seq => d = e
        /\ \/ e.seq = 1 /\ e.prev = ZeroHash
           \/ \E d \in Deliverable :
                d.orig = o /\ d.seq = e.seq - 1 /\ e.prev = Hash(d)

\* The events of an originator that is only synced stand in the log in the
\* order of their numbers, from 1 and without a gap, whatever order they came
\* in, whatever was replaced and however often the node restarted.
GapFree(l, o) ==
  \A i \in EventsOf(l, o) :
    /\ l[i].seq = 1 \/ \E j \in EventsOf(l, o) : j < i /\ l[j].seq = l[i].seq - 1
    /\ \A j \in EventsOf(l, o) : j < i => l[j].seq < l[i].seq
SyncedChainGapFree == \A o \in Originators : SyncedOnly(o) => GapFree(log, o)

\* What is staged for such an originator is ahead of the next number: the drain
\* never leaves behind an event that could have been promoted.
StagedAhead ==
  \A o \in Originators : SyncedOnly(o) =>
    \A s \in DOMAIN pending[o] : s > ExpectedSeq(log, o)

\* An honest originator is never flagged and no equivocation proof is recorded
\* against it, whatever the others do.
HonestNeverAccused ==
  \A o \in Originators : Honest(o) =>
    \A i \in DOMAIN log : log[i].orig = o => log[i] \in Deliverable

\* The cached Merkle hash of an honest originator is the hash of its log.
HonestCacheFresh ==
  \A k \in DOMAIN cache :
    Honest(k[1]) => cache[k] = MerkleHash(log, k[1], k[2])

\* An event that append_event adds for an originator that is only synced is
\* unflagged only if it links to the event the originator had before it.
AppendsLinked ==
  up /\ up' =>
    \A i \in DOMAIN log' \ DOMAIN log :
      LET o == log'[i].orig IN
      SyncedOnly(o) /\ ~log'[i].bad =>
        log'[i].prev = ExpectedPrev(SubSeq(log', 1, i - 1), o)
UnflaggedIsLinked == [][AppendsLinked]_vars

\* A line once in the file stays there: it can only be replaced by an entry for
\* the same number that links to the canonical chain, if it was flagged.
ReplacedByTruth ==
  \A i \in DOMAIN disk :
    /\ i \in DOMAIN disk'
    /\ disk'[i] # disk[i] =>
         /\ disk[i].bad
         /\ disk'[i].orig = disk[i].orig /\ disk'[i].seq = disk[i].seq
         /\ disk'[i].prev = CanonicalPrev(disk, disk[i].orig, disk[i].seq)
OnlyTruthReplaces == [][ReplacedByTruth]_vars

\* Each honest originator's part of the file is a prefix of its chain that only
\* grows: the log implements the abstract ledger.
HonestOriginators == {o \in Originators : Honest(o)}
PartOf(l, o) == InOrder([i \in {i \in DOMAIN l : l[i].orig = o} |-> l[i]])
Ledger ==
  INSTANCE Ledger WITH
    Members <- HonestOriginators,
    Signed <- Deliverable,
    ledger <- [o \in HonestOriginators |-> PartOf(disk, o)]
LedgerRefined == Ledger!Spec

-----------------------------------------------------------------------------
(* What the documentation says, and the code does not do: see README.      *)

\* An equivocation proof names two different events its originator signed.
ProofShowsDoubleSigning ==
  \A i \in DOMAIN log : log[i].kind = "proof" =>
    \E d, e \in Deliverable :
      /\ d.orig = log[i].orig /\ e.orig = log[i].orig
      /\ d.seq = log[i].seq /\ e.seq = log[i].seq
      /\ <<d.prev, d.payload>> # <<e.prev, e.payload>>

\* A node that stopped can always open its event log again.
LogReopens == up \/ Openable
=============================================================================
