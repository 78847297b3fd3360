---------------------------- MODULE AntiEntropy ----------------------------
(***************************************************************************)
(* How two nodes compare and complete their event logs                     *)
(* (net/router/sync.rs, storage/db/sync.rs, storage/db/merkle.rs,          *)
(* net/router/anti_spam.rs).                                               *)
(*                                                                         *)
(* The originators here are honest: EventLog shows what a log makes of the *)
(* others, and that of an honest originator it holds the events 1 to n,    *)
(* unflagged.  So an entry is its originator and its number, a Merkle hash *)
(* is the set of the numbers it covers, and the root that a vector carries *)
(* makes no difference.  Two entries never fit the 1024 bytes of a packet. *)
(*                                                                         *)
(* All these messages have the sequence number 1: to the seen cache, one   *)
(* with the same sender and payload is the same message.  Nothing in the   *)
(* daemon begins a session: the first messages are sent from outside, in   *)
(* the name of a node, whose router does not hear of it.                   *)
(***************************************************************************)
EXTENDS Integers, FiniteSets, Sequences, SequencesExt

CONSTANTS
  Replicas,          \* the nodes that synchronise
  Originators,       \* keys whose events are in the logs: numbers, for their order
  Starts,            \* the logs the nodes may have at the beginning
  MAX_STAGED_EVENTS, \* as in EventLog
  VectorSize,        \* how many originators a vector covers: 8
  Drills,            \* the ranges a session may ask for first
  SyncBudgets        \* bounds: how many sessions, pauses and restarts there are

VARIABLES
  log,        \* event_log of each node
  staged,     \* pending_unverified
  offset,     \* sync_offset
  offsetFile, \* the file it is read from
  saturated,  \* saturated_originators: how far a peer is known to have an originator
  nonces,     \* pending_drill_nonces
  banned,     \* banned_peers
  seen,       \* the seen cache, of these messages
  packets,    \* every packet sent, for it may come late and again
  quota,      \* how much there may still be of each kind
  told        \* history: the entries of a node's last answer to a request

vars == <<log, staged, offset, offsetFile, saturated, nonces, banned, seen, packets, quota, told>>
logs == <<log, staged>>
guards == <<saturated, nonces, banned, seen>>
pages == <<offset, offsetFile>>

\* The events of each originator come in their order and without a gap.
InOrder(l) ==
  \A i \in DOMAIN l :
    l[i].seq = 1 + Cardinality({j \in 1..(i - 1) : l[j].orig = l[i].orig})

AntiEntropyAssumption ==
  /\ Originators \subseteq Nat /\ IsFiniteSet(Originators)
  /\ {VectorSize, MAX_STAGED_EVENTS} \subseteq Nat \ {0}
  /\ Starts \subseteq [Replicas -> Seq([orig : Originators, seq : Nat \ {0}])]
  /\ \A s \in Starts : \A n \in Replicas : InOrder(s[n])
  /\ Drills \subseteq [start : Nat \ {0}, end : Nat] /\ \A r \in Drills : r.start < r.end
  /\ SyncBudgets \subseteq [requests : Nat, drills : Nat, pauses : Nat, restarts : Nat]

Use(kind) == quota[kind] > 0 /\ quota' = [quota EXCEPT ![kind] = @ - 1]
Packet(kind, from, to, body) == [kind |-> kind, from |-> from, to |-> to, body |-> body]

-----------------------------------------------------------------------------
(* Reading a log.                                                           *)

Entry(o, s) == [orig |-> o, seq |-> s]
Numbers(l, o) == {e.seq : e \in {x \in ToSet(l) : x.orig = o}}

\* The originators of a log, and the place of one in the order of their keys.
Authors(l) == {e.orig : e \in ToSet(l)}
Place(os, o) == Cardinality({p \in os : p < o})

\* get_originator_range_vectors: a page of originators, from an offset on; with fewer
\* of them than it has room for it begins again.
Vector(l, at) ==
  LET os == Authors(l)
      page == {o \in os : \E k \in 0..(VectorSize - 1) :
                           Place(os, o) = (at + k) % Cardinality(os)}
  IN  {[orig |-> o, known |-> Numbers(l, o)] : o \in page}

\* The next call continues after the page; the file has its offset, reduced.
TurnPage(n) ==
  LET next == offset[n] + VectorSize IN
  IF log[n] = <<>> THEN UNCHANGED pages
  ELSE /\ offset' = [offset EXCEPT ![n] = next]
       /\ offsetFile' = [offsetFile EXCEPT ![n] = next % Cardinality(Authors(log[n]))]

Names(vector, e) == \E v \in vector : v.orig = e.orig /\ e.seq \in v.known

\* Mutant: an originator the vector does not cover is taken as known.
OfferCovered(l, vector) ==
  LET Lacks(e) == ~Names(vector, e) /\ \E v \in vector : v.orig = e.orig
      es == SelectSeq(l, Lacks)
  IN  IF es = <<>> THEN {} ELSE {Head(es)}

\* find_missing_entries_for_peer, and the loop that pops entries until they fit: the
\* first entry of the log that the vector does not name.
Offer(l, vector) ==
  {l[i] : i \in {k \in DOMAIN l : /\ ~Names(vector, l[k])
                                 /\ \A j \in 1..(k - 1) : Names(vector, l[j])}}

\* compute_merkle_hash_for_range; {} is None.
MerkleHash(l, o, r) == {s \in Numbers(l, o) : s \in r.start..r.end}

\* get_merkle_children: the halves of a range that are not empty.
Children(l, o, r) ==
  LET mid == r.start + (r.end - r.start) \div 2
      halves == {[start |-> r.start, end |-> mid], [start |-> mid + 1, end |-> r.end]}
  IN  {[range |-> h, hash |-> MerkleHash(l, o, h)] :
         h \in {x \in halves : MerkleHash(l, o, x) # {}}}

\* How many staged events follow an event without a gap.
Behind(st, e) ==
  CHOOSE k \in 0..Cardinality(st) :
    /\ \A i \in 1..k : Entry(e.orig, e.seq + i) \in st
    /\ Entry(e.orig, e.seq + k + 1) \notin st

\* append_event: an event that continues the chain takes along what was staged behind
\* it; one that is ahead is staged, if there is room; the others are known.
AppendEvent(n, e) ==
  LET next == Cardinality(Numbers(log[n], e.orig)) + 1
      k == Behind(staged[n], e)
  IN
  \/ /\ e.seq = next
     /\ log' = [log EXCEPT ![n] = @ \o [i \in 1..(k + 1) |-> Entry(e.orig, e.seq + i - 1)]]
     /\ staged' = [staged EXCEPT ![n] =
                     @ \ {Entry(e.orig, e.seq + i) : i \in 1..k}]
  \/ /\ e.seq > next
     /\ Cardinality({x \in staged[n] : x.orig = e.orig}) < MAX_STAGED_EVENTS
     /\ staged' = [staged EXCEPT ![n] = @ \cup {e}]
     /\ UNCHANGED log
  \/ /\ \/ e.seq < next
        \/ e.seq > next /\ Cardinality({x \in staged[n] : x.orig = e.orig}) >= MAX_STAGED_EVENTS
     /\ UNCHANGED logs

-----------------------------------------------------------------------------
(* The messages.                                                            *)

MarkSeen(n, m) == seen' = [seen EXCEPT ![n] = @ \cup {m}]

\* process_incoming_packet: nothing of a banned peer, and no message twice.
Receive(n, kind, m) ==
  /\ m \in packets /\ m.to = n /\ m.kind = kind
  /\ m.from \notin banned[n] /\ m \notin seen[n]
  /\ MarkSeen(n, m)
  /\ UNCHANGED quota

\* A vector with one range from 1 on tells how far the peer has the originator.
Extent(known) == {s \in known : known = 1..s}

\* mark_originator_saturated: a later vector replaces what an earlier one told.
Saturate(n, peer, vector) ==
  saturated' = [saturated EXCEPT ![n] =
    LET extended == {v \in vector : Extent(v.known) # {}} IN
      {x \in @ : x.peer # peer \/ \A v \in extended : v.orig # x.orig}
        \cup UNION {{[peer |-> peer, orig |-> v.orig, upto |-> s] : s \in Extent(v.known)}
                      : v \in extended}]

\* Mutant: the number after the last is counted in.
IsSaturatedBeyond(n, peer, o, end) ==
  \E x \in saturated[n] : x.peer = peer /\ x.orig = o /\ end <= x.upto + 1

\* is_originator_saturated
IsSaturated(n, peer, o, end) ==
  \E x \in saturated[n] : x.peer = peer /\ x.orig = o /\ end <= x.upto

\* A session begins with the vector of a node...
RequestSync(n, peer) ==
  /\ Use("requests")
  /\ packets' = packets \cup
       {Packet("request", n, peer, [rooted |-> TRUE, vector |-> Vector(log[n], offset[n])])}
  /\ TurnPage(n)
  /\ UNCHANGED <<logs, guards, told>>

\* handle_range_sync_request: an answer, with a vector of its own.
HandleRequest(n, m) ==
  /\ Receive(n, "request", m)
  /\ Saturate(n, m.from, m.body.vector)
  /\ told' = [told EXCEPT ![n] = Offer(log[n], m.body.vector)]
  /\ packets' = packets \cup
       {Packet("answer", n, m.from, [entries |-> told'[n], vector |-> Vector(log[n], offset[n])])}
  /\ TurnPage(n)
  /\ UNCHANGED <<logs, nonces, banned>>

\* handle_range_sync_response: the entry is stored, and what the other's vector lacks
\* is sent back, without a vector.  Nobody asks whether there was a request.
HandleAnswer(n, m) ==
  /\ Receive(n, "answer", m)
  /\ IF m.body.entries = {} THEN UNCHANGED logs
     ELSE \E e \in m.body.entries : AppendEvent(n, e)
  /\ LET back == Offer(log'[n], m.body.vector) IN
     IF m.body.vector = {} \/ back = {} THEN UNCHANGED packets
     ELSE packets' = packets \cup
            {Packet("answer", n, m.from, [entries |-> back, vector |-> {}])}
  /\ UNCHANGED <<saturated, nonces, banned, pages, told>>

DrillRequest(n, peer, o, r, nonce) ==
  Packet("drill", n, peer, [orig |-> o, range |-> r, nonce |-> nonce])

\* ...or with a range to drill into, under a number nobody has registered: that is done
\* where an answer is handled, and only there.
StartDrill(n, peer, o, r) ==
  /\ Use("drills")
  /\ packets' = packets \cup
       {DrillRequest(n, peer, o, r, [of |-> quota.drills, range |-> r])}
  /\ UNCHANGED <<logs, pages, guards, told>>

\* handle_merkle_drill_request
HandleDrill(n, m) ==
  /\ Receive(n, "drill", m)
  /\ IF IsSaturated(n, m.from, m.body.orig, m.body.range.end) THEN UNCHANGED packets
     ELSE packets' = packets \cup
            {Packet("halves", n, m.from,
                    [orig |-> m.body.orig, nonce |-> m.body.nonce,
                     children |-> Children(log[n], m.body.orig, m.body.range)])}
  /\ UNCHANGED <<logs, pages, saturated, nonces, banned, told>>

\* handle_merkle_drill_response: a nonce that is not pending is punished; of the halves
\* that differ, one of several numbers is drilled into under a nonce that is registered
\* (register_drill_nonce), and one of a single number is asked for, with a vector that
\* names this number as known.  As no first nonce is registered, each answer is punished.
HandleHalves(n, m) ==
  LET o == m.body.orig
      differ == {c \in m.body.children : MerkleHash(log[n], o, c.range) # c.hash}
      leaves == {c.range : c \in {x \in differ : x.range.start = x.range.end}}
      inner == {c.range : c \in differ} \ leaves
      Nonce(r) == [m.body.nonce EXCEPT !.range = r]
  IN
  /\ Receive(n, "halves", m)
  /\ IF m.body.nonce \notin nonces[n]
     THEN /\ banned' = [banned EXCEPT ![n] = @ \cup {m.from}]
          /\ UNCHANGED <<nonces, packets>>
     ELSE /\ nonces' = [nonces EXCEPT ![n] =
                          (@ \ {m.body.nonce}) \cup {Nonce(r) : r \in inner}]
          /\ packets' = packets
               \cup {DrillRequest(n, m.from, o, r, Nonce(r)) : r \in inner}
               \cup {Packet("request", n, m.from,
                            [rooted |-> FALSE, vector |-> {[orig |-> o, known |-> {r.start}]}])
                       : r \in leaves}
          /\ UNCHANGED banned
  /\ UNCHANGED <<logs, pages, saturated, told>>

-----------------------------------------------------------------------------

\* More than an hour passes for a node: bans have ended, and what it saw is forgotten.
Pause(n) ==
  /\ Use("pauses")
  /\ banned' = [banned EXCEPT ![n] = {}]
  /\ seen' = [seen EXCEPT ![n] = {}]
  /\ UNCHANGED <<logs, pages, saturated, nonces, packets, told>>

\* A node stops and starts: its log and its offset are in files.
Restart(n) ==
  /\ Use("restarts")
  /\ staged' = [staged EXCEPT ![n] = {}]
  /\ offset' = [offset EXCEPT ![n] = offsetFile[n]]
  /\ saturated' = [saturated EXCEPT ![n] = {}]
  /\ nonces' = [nonces EXCEPT ![n] = {}]
  /\ banned' = [banned EXCEPT ![n] = {}]
  /\ seen' = [seen EXCEPT ![n] = {}]
  /\ UNCHANGED <<log, offsetFile, packets, told>>

Init ==
  /\ log \in Starts
  /\ staged = [n \in Replicas |-> {}] /\ saturated = [n \in Replicas |-> {}]
  /\ offset = [n \in Replicas |-> 0] /\ offsetFile = [n \in Replicas |-> 0]
  /\ nonces = [n \in Replicas |-> {}] /\ banned = [n \in Replicas |-> {}]
  /\ seen = [n \in Replicas |-> {}] /\ packets = {}
  /\ quota \in SyncBudgets /\ told = [n \in Replicas |-> {}]

\* The handlers of a node's listener.
Handle(n) ==
  \E m \in packets : HandleRequest(n, m) \/ HandleAnswer(n, m) \/ HandleDrill(n, m)
                       \/ HandleHalves(n, m)

\* What is sent from outside.
Begin ==
  \E n, peer \in Replicas :
    n # peer /\ (RequestSync(n, peer)
                   \/ \E o \in Originators, r \in Drills : StartDrill(n, peer, o, r))

Next == Begin \/ \E n \in Replicas : Handle(n) \/ Pause(n) \/ Restart(n)

Spec == Init /\ [][Next]_vars

-----------------------------------------------------------------------------
(* Properties.                                                              *)

\* In whatever order entries come, each log has the events of an originator in their
\* order and without a gap, and an event that could follow is never left staged.
TypeOK ==
  \A n \in Replicas :
    /\ InOrder(log[n])
    /\ \A e \in staged[n] : e.seq > Cardinality(Numbers(log[n], e.orig)) + 1
    /\ offsetFile[n] < VectorSize + Cardinality(Originators)

\* The step in which a node answers a request with no entry at all: the one who asked
\* has all that the node has.
OwedNothing ==
  \A n \in Replicas : \A q \in seen'[n] \ seen[n] :
    q.kind = "request" /\ told'[n] = {} => ToSet(log[n]) \subseteq ToSet(log[q.from])

\* An answer without an entry says the truth, whatever has happened since the request
\* was made: nothing is left to send, also of originators its page did not cover.
NothingOwed == [][OwedNothing]_vars

\* A drill is left without an answer only when the one who asks has all of the range
\* itself: what a vector once told is not outdated, and a later one does not spoil it.
SuppressedHadAll ==
  \A q \in packets :
    q.kind = "drill" /\ IsSaturated(q.to, q.from, q.body.orig, q.body.range.end) =>
      q.body.range.start..q.body.range.end \subseteq Numbers(log[q.from], q.body.orig)

-----------------------------------------------------------------------------
(* What the documentation says, and the code does not do: see README.       *)

\* The step in which the answer to a drill is taken in: a half that differs and has
\* more than one number is drilled into.
TraversedFurther ==
  \A n \in Replicas : \A q \in seen'[n] \ seen[n] :
    q.kind = "halves" =>
      \A c \in q.body.children :
        c.range.start < c.range.end /\ MerkleHash(log[n], q.body.orig, c.range) # c.hash =>
          \E d \in packets' :
            d.kind = "drill" /\ d.from = n /\ d.to = q.from /\ d.body.range = c.range

\* The tree is traversed "level-by-level to isolate missing sequence numbers".
LevelByLevel == [][TraversedFurther]_vars
=============================================================================
