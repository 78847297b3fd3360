---------------------------- MODULE GossipRouter ----------------------------
(***************************************************************************)
(* The gossip router of every node (src/src/net/router/mod.rs) and the     *)
(* tasks around it in main.rs: the listener, the 30 second keepalive and   *)
(* the broadcast of published entities.  Nodes dial their seeds when they  *)
(* start, learn peers from the packets they receive, drop silent peers,    *)
(* and forward the gossip they accept to their other peers.                *)
(*                                                                         *)
(* Time is counted in keepalive intervals: a peer, or a seen message, has  *)
(* an age, the number of Ticks since it was refreshed.  The published      *)
(* entities are CA declarations, each bound to the key of its owner.       *)
(* GetPeers and its answer are left out: both refresh a peer as the ping   *)
(* sent with them does, and an answer only fills a list of addresses to    *)
(* dial that nothing reads.  So are bans, which only the answers to Merkle *)
(* drills lead to.                                                         *)
(***************************************************************************)
EXTENDS Integers, Sequences, FiniteSets

CONSTANTS
  Nodes,         \* the nodes, each at one address
  SeedsOf,       \* the addresses each node dials when it starts
  Payloads,      \* the CA declarations that may be published
  Owner,         \* the node whose key each of them is bound to
  TTL,           \* DEFAULT_GOSSIP_TTL
  PEER_TIMEOUT,  \* the age up to which a peer is active (90 s: 3)
  SEEN_MAX_AGE,  \* the age up to which a message is seen (3600 s: 120)
  PING_SEQS,     \* bound: ping numbers are counted modulo this
  Timely,        \* are packets delivered within an interval, and never lost?
  MaxStops,      \* bound: how often nodes stop
  MaxCommands,   \* bound: how many commands publish something
  MaxRecorded    \* bound: how many publications a node handles

VARIABLES
  up,         \* the nodes that run
  peers,      \* active_peers: for each node, peer to age
  seen,       \* seen_cache: for each node, message id to age
  due,        \* the nodes whose keepalive interval has elapsed
  pingSeq,    \* ping_seq
  published,  \* the CA table: what the broadcast task sends; on disk
  wakes,      \* wake-ups in the broadcast channel
  recorded,   \* the event log: the messages handled, with their flag; on disk
  net,        \* the packets in flight
  handled,    \* history: for each node, age of each message's last handling
  stops,      \* how many stops there were
  commands    \* how many publishing commands there were

bounds == <<stops, commands>>
vars == <<up, peers, seen, due, pingSeq, published, wakes, recorded, net, handled,
          bounds>>

Ping == "ping"

ASSUME RouterAssumption ==
  /\ IsFiniteSet(Nodes)
  /\ SeedsOf \in [Nodes -> SUBSET Nodes]
  /\ Owner \in [Payloads -> Nodes] /\ Ping \notin Payloads
  /\ TTL \in Nat \ {0} /\ PING_SEQS \in Nat \ {0}
  /\ PEER_TIMEOUT \in Nat /\ SEEN_MAX_AGE \in Nat
  /\ MaxStops \in Nat /\ MaxCommands \in Nat /\ MaxRecorded \in Nat
  /\ Timely \in BOOLEAN

-----------------------------------------------------------------------------
(* Messages and packets.                                                   *)

\* msg_id digests the originator, the number and the payload, not the ttl.
\* Publications carry a constant number.
PingId(n) == [orig |-> n, seq |-> pingSeq[n], payload |-> Ping]
PublicationId(n, p) == [orig |-> n, seq |-> 0, payload |-> p]
Ids == [orig : Nodes, seq : 0..(PING_SEQS - 1), payload : Payloads \cup {Ping}]

Message(id, ttl) == [id |-> id, ttl |-> ttl, signed |-> ttl]

\* from_bytes: the signature covers the ttl.
Verify(m) == m.ttl = m.signed

HandshakeInit(n, q) == [kind |-> "init", from |-> n, to |-> q]
HandshakeResponse(n, q) == [kind |-> "response", from |-> n, to |-> q]
Gossip(n, q, m) == [kind |-> "gossip", from |-> n, to |-> q, msg |-> m]

\* A table of ages: an entry refreshed, every entry grown older, and the
\* entries that are not too old.  (The history handled counts no further than
\* just over the window.)
Touch(table, k) ==
  [x \in DOMAIN table \cup {k} |-> IF x = k THEN 0 ELSE table[x]]
Older(table) == [x \in DOMAIN table |-> table[x] + 1]
OlderUpTo(table, max) ==
  [x \in DOMAIN table |-> IF table[x] > max THEN table[x] ELSE table[x] + 1]
Fresh(table, max) == [x \in {y \in DOMAIN table : table[y] <= max} |-> table[x]]
Empty == [x \in {} |-> 0]

\* broadcast: a message of its own to every active peer.  It is marked seen too,
\* which nothing observes: a node drops its own messages before it looks there.
Broadcast(n, m) == {Gossip(n, q, m) : q \in DOMAIN peers[n]}

\* The forward at the end of process_incoming_packet: one hop less, to every
\* peer but the one it came from, under the signature of its originator.
Forward(n, src, m, table) ==
  IF m.ttl > 1
  THEN {Gossip(n, q, [m EXCEPT !.ttl = @ - 1]) : q \in DOMAIN table \ {src}}
  ELSE {}

-----------------------------------------------------------------------------
(* process_incoming_packet: packet k is taken from the network, or a copy   *)
(* of it where the network may duplicate.                                   *)

Take(k, sent) ==
  \/ net' = (net \ {k}) \cup sent
  \/ ~Timely /\ net' = net \cup sent

ReceiveHandshakeInit(k) ==
  /\ k.kind = "init" /\ k.to \in up
  /\ IF k.from = k.to
     THEN Take(k, {}) /\ UNCHANGED peers
     ELSE /\ peers' = [peers EXCEPT ![k.to] = Touch(@, k.from)]
          /\ Take(k, {HandshakeResponse(k.to, k.from)})
  /\ UNCHANGED <<up, seen, due, pingSeq, published, wakes, recorded, handled, bounds>>

ReceiveHandshakeResponse(k) ==
  /\ k.kind = "response" /\ k.to \in up
  /\ peers' = [peers EXCEPT ![k.to] = Touch(@, k.from)]
  /\ Take(k, {})
  /\ UNCHANGED <<up, seen, due, pingSeq, published, wakes, recorded, handled, bounds>>

\* A packet that from_bytes rejects, or a node's own message come back.
Ignored(k) == ~Verify(k.msg) \/ k.msg.id.orig = k.to

ReceiveIgnored(k) ==
  /\ k.kind = "gossip" /\ k.to \in up
  /\ Ignored(k)
  /\ Take(k, {})
  /\ UNCHANGED <<up, peers, seen, due, pingSeq, published, wakes, recorded, handled, bounds>>

\* Mutant: a message that was seen does not refresh its sender.
PeersAfterUnseen(n, q, id) ==
  IF id \in DOMAIN seen[n] THEN peers[n] ELSE Touch(peers[n], q)

\* add_peer comes before the test of the seen cache.
PeersAfter(n, q, id) == Touch(peers[n], q)

ReceiveSeen(k) ==
  /\ k.kind = "gossip" /\ k.to \in up
  /\ ~Ignored(k)
  /\ k.msg.id \in DOMAIN seen[k.to]
  /\ peers' = [peers EXCEPT ![k.to] = PeersAfter(k.to, k.from, k.msg.id)]
  /\ Take(k, {})
  /\ UNCHANGED <<up, seen, due, pingSeq, published, wakes, recorded, handled, bounds>>

\* Mutant: the message is not entered in the seen cache.
MarkSeenNot(table, id) == table

MarkSeen(table, id) == Touch(table, id)

ReceivePing(k) ==
  /\ k.kind = "gossip" /\ k.to \in up
  /\ ~Ignored(k) /\ k.msg.id.payload = Ping
  /\ k.msg.id \notin DOMAIN seen[k.to]
  /\ peers' = [peers EXCEPT ![k.to] = PeersAfter(k.to, k.from, k.msg.id)]
  /\ seen' = [seen EXCEPT ![k.to] = MarkSeen(@, k.msg.id)]
  /\ Take(k, {})
  /\ UNCHANGED <<up, due, pingSeq, published, wakes, recorded, handled, bounds>>

\* handle_ca_declaration_packet: a declaration is stored only if it is bound to
\* the key of the message's originator; either way the message is recorded.
Bound(id) == Owner[id.payload] = id.orig

ReceivePublication(k) ==
  LET n == k.to
      id == k.msg.id
      table == PeersAfter(n, k.from, id)
  IN
  /\ k.kind = "gossip" /\ n \in up
  /\ ~Ignored(k) /\ id.payload # Ping
  /\ id \notin DOMAIN seen[n]
  /\ Len(recorded[n]) < MaxRecorded
  /\ peers' = [peers EXCEPT ![n] = table]
  /\ seen' = [seen EXCEPT ![n] = MarkSeen(@, id)]
  /\ recorded' = [recorded EXCEPT ![n] = Append(@, [id |-> id, bad |-> ~Bound(id)])]
  /\ published' = [published EXCEPT ![n] = IF Bound(id) THEN @ \cup {id.payload} ELSE @]
  /\ handled' = [handled EXCEPT ![n] = Touch(@, id)]
  /\ Take(k, Forward(n, k.from, k.msg, table))
  /\ UNCHANGED <<up, due, pingSeq, wakes, bounds>>

\* A packet that is lost, or that reaches an address nobody listens at.
Lose(k) ==
  /\ ~Timely \/ k.to \notin up
  /\ net' = net \ {k}
  /\ UNCHANGED <<up, peers, seen, due, pingSeq, published, wakes, recorded, handled, bounds>>

Receive(k) ==
  \/ ReceiveHandshakeInit(k) \/ ReceiveHandshakeResponse(k)
  \/ ReceiveIgnored(k) \/ ReceiveSeen(k)
  \/ ReceivePing(k) \/ ReceivePublication(k)

-----------------------------------------------------------------------------
(* The tasks of main.rs.                                                    *)

\* An interval elapses.  A node runs its keepalive before the next one does,
\* and a timely network has then delivered what was sent.
Tick ==
  /\ due = {}
  /\ Timely => net = {}
  /\ due' = up
  /\ peers' = [n \in Nodes |-> Older(peers[n])]
  /\ seen' = [n \in Nodes |-> Older(seen[n])]
  /\ handled' = [n \in Nodes |-> OlderUpTo(handled[n], SEEN_MAX_AGE)]
  /\ UNCHANGED <<up, pingSeq, published, wakes, recorded, net, bounds>>

\* Mutant: nothing is dropped.
ActivePeersAll(table) == table

\* Mutant: a peer that timed out is given another chance.
ActivePeersRenewed(table) ==
  [q \in DOMAIN table |-> IF table[q] > PEER_TIMEOUT THEN 0 ELSE table[q]]

\* prune_inactive_peers and prune_seen_cache.
ActivePeers(table) == Fresh(table, PEER_TIMEOUT)
SeenEntries(table) == Fresh(table, SEEN_MAX_AGE)

KeepAlive(n) ==
  /\ n \in due
  /\ due' = due \ {n}
  /\ pingSeq' = [pingSeq EXCEPT ![n] = (@ + 1) % PING_SEQS]
  /\ net' = net \cup Broadcast(n, Message([PingId(n) EXCEPT !.seq = pingSeq'[n]], 1))
  /\ peers' = [peers EXCEPT ![n] = ActivePeers(@)]
  /\ seen' = [seen EXCEPT ![n] = SeenEntries(@)]
  /\ UNCHANGED <<up, published, wakes, recorded, handled, bounds>>

\* Mutant: the hop is counted before the message is sent.
PublicationsHopFirst(n) ==
  UNION {Broadcast(n, [Message(PublicationId(n, p), TTL) EXCEPT !.ttl = @ - 1]) :
           p \in published[n]}

\* broadcast_published_pki_entities: every declaration of the CA table, whoever
\* owns it, in messages of this node.
Publications(n) ==
  UNION {Broadcast(n, Message(PublicationId(n, p), TTL)) : p \in published[n]}

\* PublishCa and BroadcastCa over IPC: stored, then the broadcast task is woken.
Publish(n, p) ==
  /\ n \in up /\ Owner[p] = n
  /\ commands < MaxCommands
  /\ commands' = commands + 1
  /\ published' = [published EXCEPT ![n] = @ \cup {p}]
  /\ wakes' = [wakes EXCEPT ![n] = @ + 1]
  /\ UNCHANGED <<up, peers, seen, due, pingSeq, recorded, net, handled, stops>>

BroadcastTask(n) ==
  /\ wakes[n] > 0
  /\ wakes' = [wakes EXCEPT ![n] = @ - 1]
  /\ net' = net \cup Publications(n)
  /\ UNCHANGED <<up, peers, seen, due, pingSeq, published, recorded, handled, bounds>>

\* The process ends: the router's tables are lost.
Stop(n) ==
  /\ n \in up
  /\ stops < MaxStops
  /\ stops' = stops + 1
  /\ up' = up \ {n}
  /\ peers' = [peers EXCEPT ![n] = Empty]
  /\ seen' = [seen EXCEPT ![n] = Empty]
  /\ handled' = [handled EXCEPT ![n] = Empty]
  /\ due' = due \ {n}
  /\ pingSeq' = [pingSeq EXCEPT ![n] = 0]
  /\ wakes' = [wakes EXCEPT ![n] = 0]
  /\ UNCHANGED <<published, recorded, net, commands>>

\* main: the first interval elapses at once; the seeds become peers and are
\* dialled; then what the node has published is broadcast.
Start(n) ==
  /\ n \notin up
  /\ up' = up \cup {n}
  /\ due' = due \cup {n}
  /\ peers' = [peers EXCEPT ![n] = [q \in SeedsOf[n] |-> 0]]
  /\ net' = net \cup {HandshakeInit(n, q) : q \in SeedsOf[n]}
                \cup {Gossip(n, q, Message(PublicationId(n, p), TTL)) :
                        q \in SeedsOf[n], p \in published[n]}
  /\ UNCHANGED <<seen, pingSeq, published, wakes, recorded, handled, bounds>>

Init ==
  /\ up = {}
  /\ peers = [n \in Nodes |-> Empty]
  /\ seen = [n \in Nodes |-> Empty]
  /\ due = {}
  /\ pingSeq = [n \in Nodes |-> 0]
  /\ published = [n \in Nodes |-> {}]
  /\ wakes = [n \in Nodes |-> 0]
  /\ recorded = [n \in Nodes |-> <<>>]
  /\ net = {}
  /\ handled = [n \in Nodes |-> Empty]
  /\ stops = 0 /\ commands = 0

Next ==
  \/ \E k \in net : Receive(k) \/ Lose(k)
  \/ Tick
  \/ \E n \in Nodes : KeepAlive(n) \/ BroadcastTask(n) \/ Stop(n) \/ Start(n)
  \/ \E n \in Nodes, p \in Payloads : Publish(n, p)

Spec == Init /\ [][Next]_vars

\* The tasks of a node that runs are scheduled, packets get where they are sent
\* or are lost, and time passes.  Nobody has to stop, start or publish.
Fairness ==
  /\ WF_vars(Tick)
  /\ \A n \in Nodes :
        /\ WF_vars(KeepAlive(n))
        /\ WF_vars(BroadcastTask(n))
        /\ \A q \in Nodes :
              WF_vars(\E k \in net : k.from = q /\ k.to = n /\ (Receive(k) \/ Lose(k)))

FairSpec == Spec /\ Fairness

-----------------------------------------------------------------------------
(* Properties.                                                             *)

Ages(max) == 0..(max + 1)

\* A node that is down has lost its tables and its wake-ups; no entry outlives its
\* timeout by more than the interval until the next keepalive; packets carry messages
\* whose ttl was never raised.
TypeOK ==
  /\ up \subseteq Nodes /\ due \subseteq up
  /\ \A n \in Nodes :
        /\ DOMAIN peers[n] \subseteq Nodes
        /\ \A q \in DOMAIN peers[n] : peers[n][q] \in Ages(PEER_TIMEOUT)
        /\ DOMAIN seen[n] \subseteq Ids
        /\ \A id \in DOMAIN seen[n] : seen[n][id] \in Ages(SEEN_MAX_AGE)
        /\ pingSeq[n] \in 0..(PING_SEQS - 1)
        /\ published[n] \subseteq Payloads
        /\ wakes[n] \in 0..MaxCommands
        /\ recorded[n] \in Seq([id : Ids, bad : BOOLEAN])
        /\ n \notin up => peers[n] = Empty /\ seen[n] = Empty /\ wakes[n] = 0
  /\ \A k \in net :
        /\ k.from \in Nodes /\ k.to \in Nodes
        /\ k.kind = "gossip" =>
             /\ k.msg \in [id : Ids, ttl : 1..TTL, signed : 1..TTL]
             /\ k.msg.ttl <= k.msg.signed

HandlesOnce ==
  \A n \in Nodes :
    Len(recorded'[n]) > Len(recorded[n]) =>
      LET id == recorded'[n][Len(recorded'[n])].id IN
      id \in DOMAIN handled[n] => handled[n][id] > SEEN_MAX_AGE

\* A node never handles a message twice within the hour it keeps it for, however
\* often the message is sent, duplicated or forwarded to it, and whenever the
\* seen cache is pruned.
HandledOncePerWindow == [][HandlesOnce]_vars

Connected(n, q) == q \in DOMAIN peers[n] /\ n \in DOMAIN peers[q]

\* Once two nodes stay up, and one still holds the other for a peer, each soon has
\* the other in its table and keeps it there, on a timely network: the keepalive
\* goes out before the table is pruned, so that a peer that came back is told of
\* this node in time, and any packet refreshes its sender, a seen one too (after a
\* restart the ping numbers repeat).
StayConnected ==
  \A n, q \in Nodes : n # q =>
    []([]({n, q} \subseteq up) /\ q \in DOMAIN peers[n] => <>[]Connected(n, q))

\* A node that stays down disappears from every table, and so does a node's own
\* address that it dialled for a seed.
DeadPeerForgotten ==
  \A n, q \in Nodes :
    (n \in up /\ (q \notin up \/ q = n)
       ~> q \notin DOMAIN peers[n] \/ n \notin up \/ (q \in up /\ q # n))

Handled(n, id) == \E i \in DOMAIN recorded[n] : recorded[n][i].id = id

\* What a node has published and is about to broadcast is handled by each of its
\* peers, unless one of the two stops or the peer is dropped first.
PublicationDelivered ==
  \A n, q \in Nodes, p \in Payloads : n # q =>
    ({n, q} \subseteq up /\ wakes[n] > 0 /\ p \in published[n] /\ q \in DOMAIN peers[n]
       ~> \/ Handled(q, PublicationId(n, p))
          \/ ~({n, q} \subseteq up) \/ q \notin DOMAIN peers[n])

-----------------------------------------------------------------------------
(* What the documentation says, and the code does not do: see README.      *)

\* NET-02: a publication reaches every node that is connected to its originator
\* over at most TTL hops and stays so.
Joined(n, q) == {n, q} \subseteq up /\ Connected(n, q)
NetworkWide ==
  \A n, q, r \in Nodes, p \in Payloads : Cardinality({n, q, r}) = 3 /\ TTL > 1 =>
    (Joined(n, q) /\ Joined(q, r) /\ wakes[n] > 0 /\ p \in published[n]
       ~> Handled(r, PublicationId(n, p)) \/ ~Joined(n, q) \/ ~Joined(q, r))
=============================================================================
