------------------------- MODULE GossipRouterProofs -------------------------
(***************************************************************************)
(* Theorems about GossipRouter, for any network, timeouts and bounds, and  *)
(* whether or not packets are lost.                                        *)
(*                                                                         *)
(* Why a message is handled once: as long as the last handling is no older *)
(* than the window, the message is in the seen cache with no greater age,  *)
(* and the pruning, which goes by that age, leaves it there.               *)
(***************************************************************************)
EXTENDS GossipRouter, TLAPS

-----------------------------------------------------------------------------
(* The inductive invariant.                                                 *)

Shapes ==
  /\ DOMAIN peers = Nodes /\ DOMAIN seen = Nodes /\ DOMAIN pingSeq = Nodes
  /\ DOMAIN published = Nodes /\ DOMAIN wakes = Nodes /\ DOMAIN recorded = Nodes
  /\ DOMAIN handled = Nodes

\* Only a node whose keepalive is due holds an entry beyond its timeout.
Pruned ==
  \A n \in up \ due :
    /\ \A q \in DOMAIN peers[n] : peers[n][q] <= PEER_TIMEOUT
    /\ \A id \in DOMAIN seen[n] : seen[n][id] <= SEEN_MAX_AGE

\* There is a command for each wake-up.
WakesCounted == commands \in 0..MaxCommands /\ \A n \in Nodes : wakes[n] <= commands

\* What was handled within the window is in the seen cache, at most as old.
WindowKept ==
  \A n \in Nodes : \A id \in DOMAIN handled[n] :
    /\ handled[n][id] \in Nat
    /\ handled[n][id] <= SEEN_MAX_AGE =>
         id \in DOMAIN seen[n] /\ seen[n][id] <= handled[n][id]

IInv == TypeOK /\ Shapes /\ Pruned /\ WakesCounted /\ WindowKept

\* The parts of the type invariant that single actions disturb.
PeersOK(up_, table, n) ==
  /\ DOMAIN table \subseteq Nodes
  /\ \A q \in DOMAIN table : table[q] \in Ages(PEER_TIMEOUT)
  /\ n \notin up_ => table = Empty

SeenOK(up_, table, n) ==
  /\ DOMAIN table \subseteq Ids
  /\ \A id \in DOMAIN table : table[id] \in Ages(SEEN_MAX_AGE)
  /\ n \notin up_ => table = Empty

PacketOK(k) ==
  /\ k.from \in Nodes /\ k.to \in Nodes
  /\ k.kind = "gossip" =>
       /\ k.msg \in [id : Ids, ttl : 1..TTL, signed : 1..TTL]
       /\ k.msg.ttl <= k.msg.signed

LEMMA TypeParts ==
  TypeOK <=>
    /\ up \subseteq Nodes /\ due \subseteq up
    /\ \A n \in Nodes :
         /\ PeersOK(up, peers[n], n) /\ SeenOK(up, seen[n], n)
         /\ pingSeq[n] \in 0..(PING_SEQS - 1) /\ published[n] \subseteq Payloads
         /\ wakes[n] \in 0..MaxCommands /\ (n \notin up => wakes[n] = 0)
         /\ recorded[n] \in Seq([id : Ids, bad : BOOLEAN])
    /\ \A k \in net : PacketOK(k)
  BY DEF TypeOK, PeersOK, SeenOK, PacketOK

-----------------------------------------------------------------------------
(* Tables and packets.                                                      *)

\* A refreshed entry has age 0; the others are as they were.
LEMMA Touched ==
  ASSUME NEW table, NEW k
  PROVE  /\ DOMAIN Touch(table, k) = DOMAIN table \cup {k}
         /\ Touch(table, k)[k] = 0
         /\ \A x \in DOMAIN table \ {k} : Touch(table, k)[x] = table[x]
  BY DEF Touch

\* Pruning leaves the entries that are not too old.
LEMMA Pruning ==
  ASSUME NEW table, NEW max
  PROVE  /\ DOMAIN Fresh(table, max) = {x \in DOMAIN table : table[x] <= max}
         /\ \A x \in DOMAIN Fresh(table, max) : Fresh(table, max)[x] = table[x]
  BY DEF Fresh

LEMMA EmptyTable == DOMAIN Empty = {} /\ Older(Empty) = Empty /\ \A m : Fresh(Empty, m) = Empty
  BY DEF Empty, Older, Fresh

\* What an original message carries.
LEMMA MessageOK ==
  ASSUME NEW n \in Nodes, NEW q \in Nodes, NEW id \in Ids, NEW ttl \in 1..TTL
  PROVE  PacketOK(Gossip(n, q, Message(id, ttl)))
  BY RouterAssumption DEF PacketOK, Gossip, Message

LEMMA PublicationIdOK ==
  ASSUME NEW n \in Nodes, NEW p \in Payloads
  PROVE  PublicationId(n, p) \in Ids
  BY RouterAssumption DEF PublicationId, Ids

\* A forwarded message has fewer hops to go, and is still what it was.
LEMMA ForwardOK ==
  ASSUME NEW n \in Nodes, NEW k, k.kind = "gossip", PacketOK(k), NEW table, DOMAIN table \subseteq Nodes,
         NEW f \in Forward(n, k.from, k.msg, table)
  PROVE  PacketOK(f)
<1>1. k.msg.ttl > 1 /\ k.msg \in [id : Ids, ttl : 1..TTL, signed : 1..TTL]
      /\ k.msg.ttl <= k.msg.signed
  BY DEF Forward, PacketOK
<1>2. PICK q \in DOMAIN table : f = Gossip(n, q, [k.msg EXCEPT !.ttl = @ - 1])
  BY DEF Forward
<1>3. k.msg.ttl - 1 \in 1..TTL /\ k.msg.ttl - 1 <= k.msg.signed
  BY <1>1, RouterAssumption
<1> DEFINE m == [k.msg EXCEPT !.ttl = @ - 1]
<1>4. m \in [id : Ids, ttl : 1..TTL, signed : 1..TTL] /\ m.ttl <= m.signed
  BY <1>1, <1>3
<1>5. QED BY <1>2, <1>4 DEF PacketOK, Gossip

\* Taking a packet leaves only packets that were there, and those sent.
LEMMA Taking ==
  ASSUME NEW k, NEW S, Take(k, S)
  PROVE  net' \subseteq net \cup S
  BY DEF Take

-----------------------------------------------------------------------------
(* Every action keeps the invariant.                                        *)

LEMMA InitIInv == Init => IInv
<1> SUFFICES ASSUME Init PROVE IInv
  OBVIOUS
<1>1. /\ up = {} /\ due = {} /\ net = {} /\ commands = 0
      /\ \A n \in Nodes : /\ peers[n] = Empty /\ seen[n] = Empty /\ pingSeq[n] = 0
                          /\ published[n] = {} /\ wakes[n] = 0 /\ recorded[n] = <<>>
                          /\ handled[n] = Empty
  BY DEF Init
<1>2. Shapes
  BY DEF Init, Shapes
<1>3. TypeOK
  <2>1. \A n \in Nodes : PeersOK(up, peers[n], n) /\ SeenOK(up, seen[n], n)
    BY <1>1, EmptyTable DEF PeersOK, SeenOK
  <2>2. 0 \in 0..(PING_SEQS - 1) /\ 0 \in 0..MaxCommands
    BY RouterAssumption
  <2>3. \A S : <<>> \in Seq(S)
    OBVIOUS
  <2>4. QED BY <1>1, <2>1, <2>2, <2>3, TypeParts
<1>4. Pruned /\ WakesCounted /\ WindowKept
  BY <1>1, EmptyTable, RouterAssumption DEF Pruned, WakesCounted, WindowKept
<1>5. QED BY <1>2, <1>3, <1>4 DEF IInv

\* The age of a table's entries after one of them is refreshed: none has grown,
\* and no limit is broken.
LEMMA TouchedAges ==
  ASSUME NEW table, NEW max \in Nat, NEW old \in Nat, NEW new,
         NEW k, new = Touch(table, k),
         \A x \in DOMAIN table : table[x] \in 0..old,
         \A x \in DOMAIN table : table[x] <= max
  PROVE  \A x \in DOMAIN new : new[x] \in 0..old /\ new[x] <= max
<1>1. /\ DOMAIN new = DOMAIN table \cup {k} /\ new[k] = 0
      /\ \A x \in DOMAIN table \ {k} : new[x] = table[x]
  BY Touched
<1>2. QED BY ONLY <1>1, 0 \in 0..old, 0 <= max,
                  \A x \in DOMAIN table : table[x] \in 0..old,
                  \A x \in DOMAIN table : table[x] <= max

\* A peer of a node that runs is refreshed.
LEMMA TouchedPeers ==
  ASSUME IInv, NEW n \in up, NEW q \in Nodes,
         peers' = [peers EXCEPT ![n] = Touch(@, q)]
  PROVE  /\ DOMAIN peers' = Nodes
         /\ \A x \in Nodes : PeersOK(up, peers'[x], x)
         /\ \A x \in up \ due : \A y \in DOMAIN peers'[x] : peers'[x][y] <= PEER_TIMEOUT
<1>1. /\ up \subseteq Nodes /\ DOMAIN peers = Nodes
      /\ \A x \in Nodes : PeersOK(up, peers[x], x)
      /\ \A x \in up \ due : \A y \in DOMAIN peers[x] : peers[x][y] <= PEER_TIMEOUT
  BY TypeParts DEF IInv, Shapes, Pruned
<1>2. peers'[n] = Touch(peers[n], q) /\ \A x \in Nodes \ {n} : peers'[x] = peers[x]
  BY <1>1
<1> DEFINE t == peers[n]
<1>3. DOMAIN Touch(t, q) = DOMAIN t \cup {q}
  BY Touched
<1>4. /\ DOMAIN t \subseteq Nodes /\ \A x \in DOMAIN t : t[x] \in 0..(PEER_TIMEOUT + 1)
      /\ n \in Nodes
  BY <1>1 DEF PeersOK, Ages
<1>5. \A x \in DOMAIN Touch(t, q) : Touch(t, q)[x] \in 0..(PEER_TIMEOUT + 1)
  BY <1>4, TouchedAges, RouterAssumption, \A x \in DOMAIN t : t[x] <= PEER_TIMEOUT + 1
<1>6. PeersOK(up, Touch(t, q), n)
  BY <1>3, <1>4, <1>5 DEF PeersOK, Ages
<1>7. ASSUME n \notin due
      PROVE  \A y \in DOMAIN Touch(t, q) : Touch(t, q)[y] <= PEER_TIMEOUT
  <2>1. \A x \in DOMAIN t : t[x] <= PEER_TIMEOUT
    BY <1>1, <1>7
  <2>2. QED BY <2>1, <1>4, TouchedAges, RouterAssumption
<1>8. QED BY <1>1, <1>2, <1>6, <1>7

\* A message is marked seen by a node that runs.
LEMMA TouchedSeen ==
  ASSUME IInv, NEW n \in up, NEW id \in Ids,
         seen' = [seen EXCEPT ![n] = Touch(@, id)]
  PROVE  /\ DOMAIN seen' = Nodes
         /\ \A x \in Nodes : SeenOK(up, seen'[x], x)
         /\ \A x \in up \ due : \A y \in DOMAIN seen'[x] : seen'[x][y] <= SEEN_MAX_AGE
         /\ id \in DOMAIN seen'[n] /\ seen'[n][id] = 0
         /\ \A x \in Nodes : \A y \in DOMAIN seen[x] :
              y \in DOMAIN seen'[x] /\ seen'[x][y] <= seen[x][y]
<1>1. /\ up \subseteq Nodes /\ DOMAIN seen = Nodes
      /\ \A x \in Nodes : SeenOK(up, seen[x], x)
      /\ \A x \in up \ due : \A y \in DOMAIN seen[x] : seen[x][y] <= SEEN_MAX_AGE
  BY TypeParts DEF IInv, Shapes, Pruned
<1>2. seen'[n] = Touch(seen[n], id) /\ \A x \in Nodes \ {n} : seen'[x] = seen[x]
  BY <1>1
<1> DEFINE t == seen[n]
<1>3. /\ DOMAIN Touch(t, id) = DOMAIN t \cup {id} /\ Touch(t, id)[id] = 0
      /\ \A x \in DOMAIN t \ {id} : Touch(t, id)[x] = t[x]
  BY Touched
<1>4. /\ DOMAIN t \subseteq Ids /\ \A x \in DOMAIN t : t[x] \in 0..(SEEN_MAX_AGE + 1)
      /\ n \in Nodes
  BY <1>1 DEF SeenOK, Ages
<1>5. \A x \in DOMAIN Touch(t, id) : Touch(t, id)[x] \in 0..(SEEN_MAX_AGE + 1)
  BY <1>4, TouchedAges, RouterAssumption, \A x \in DOMAIN t : t[x] <= SEEN_MAX_AGE + 1
<1>6. SeenOK(up, Touch(t, id), n)
  BY <1>3, <1>4, <1>5 DEF SeenOK, Ages
<1>7. ASSUME n \notin due
      PROVE  \A y \in DOMAIN Touch(t, id) : Touch(t, id)[y] <= SEEN_MAX_AGE
  <2>1. \A x \in DOMAIN t : t[x] <= SEEN_MAX_AGE
    BY <1>1, <1>7
  <2>2. QED BY <2>1, <1>4, TouchedAges, RouterAssumption
<1>8. \A y \in DOMAIN t : y \in DOMAIN Touch(t, id) /\ Touch(t, id)[y] <= t[y]
  BY <1>3, <1>4
<1>9. \A x \in Nodes : \A y \in DOMAIN seen[x] : seen[x][y] <= seen[x][y]
  BY <1>1, RouterAssumption DEF SeenOK, Ages
<1>10. QED BY <1>1, <1>2, <1>3, <1>6, <1>7, <1>8, <1>9

\* The parts of the invariant, put together.
LEMMA Together ==
  ASSUME up' \subseteq Nodes /\ due' \subseteq up', Shapes', Pruned', WakesCounted', WindowKept',
         \A x \in Nodes : PeersOK(up', peers'[x], x) /\ SeenOK(up', seen'[x], x),
         \A x \in Nodes :
           /\ pingSeq'[x] \in 0..(PING_SEQS - 1) /\ published'[x] \subseteq Payloads
           /\ wakes'[x] \in 0..MaxCommands /\ (x \notin up' => wakes'[x] = 0)
           /\ recorded'[x] \in Seq([id : Ids, bad : BOOLEAN]),
         \A p \in net' : PacketOK(p)
  PROVE  IInv'
  BY DEF IInv, TypeOK, PeersOK, SeenOK, PacketOK

\* Steps that only take packets and send good ones.
LEMMA OnlyPackets ==
  ASSUME IInv, NEW S, \A s \in S : PacketOK(s), net' \subseteq net \cup S,
         UNCHANGED <<up, peers, seen, due, pingSeq, published, recorded, handled>>,
         UNCHANGED commands, DOMAIN wakes' = Nodes,
         \A n \in Nodes : wakes'[n] \in Nat /\ wakes'[n] <= wakes[n]
  PROVE  IInv'
<1>1. TypeOK /\ Shapes /\ Pruned /\ WakesCounted /\ WindowKept
  BY DEF IInv
<1>2. \A p \in net' : PacketOK(p)
  BY <1>1, TypeParts
<1>3. \A n \in Nodes : wakes[n] \in 0..MaxCommands /\ wakes[n] <= commands /\ (n \notin up => wakes[n] = 0)
  BY <1>1 DEF TypeOK, WakesCounted
<1>4. commands \in 0..MaxCommands
  BY <1>1 DEF WakesCounted
<1>5. \A n \in Nodes : wakes'[n] \in 0..MaxCommands /\ wakes'[n] <= commands /\ (n \notin up => wakes'[n] = 0)
  BY <1>3, <1>4, RouterAssumption
<1>6. WakesCounted'
  BY <1>4, <1>5 DEF WakesCounted
<1>7. QED BY <1>1, <1>2, <1>5, <1>6, TypeParts, Together DEF Shapes, Pruned, WindowKept

\* Steps that refresh a peer and take a packet.
LEMMA PeerRefreshed ==
  ASSUME IInv, NEW n \in up, NEW q \in Nodes, NEW S, net' \subseteq net \cup S,
         \A s \in S : PacketOK(s),
         peers' = [peers EXCEPT ![n] = Touch(@, q)],
         UNCHANGED <<up, seen, due, pingSeq, published, wakes, recorded, handled, bounds>>
  PROVE  IInv'
<1>1. TypeOK /\ Shapes /\ Pruned /\ WakesCounted /\ WindowKept
  BY DEF IInv
<1>2. /\ DOMAIN peers' = Nodes
      /\ \A x \in Nodes : PeersOK(up, peers'[x], x)
      /\ \A x \in up \ due : \A y \in DOMAIN peers'[x] : peers'[x][y] <= PEER_TIMEOUT
  BY TouchedPeers
<1>3. \A p \in net' : PacketOK(p)
  BY <1>1, TypeParts
<1>4. Shapes' /\ WakesCounted' /\ WindowKept' /\ Pruned'
  BY <1>1, <1>2 DEF Shapes, WakesCounted, WindowKept, Pruned, bounds
<1>5. QED BY <1>1, <1>2, <1>3, <1>4, TypeParts, Together

LEMMA HandshakeIIInv == ASSUME IInv, NEW k \in net, ReceiveHandshakeInit(k) PROVE IInv'
<1>1. k.kind = "init" /\ k.to \in up /\ PacketOK(k)
  BY TypeParts DEF ReceiveHandshakeInit, IInv
<1>2. CASE k.from = k.to
  <2> DEFINE S == {}
  <2>1. net' \subseteq net \cup S /\ UNCHANGED peers /\ \A s \in S : PacketOK(s)
    BY <1>2, Taking DEF ReceiveHandshakeInit
  <2>2. DOMAIN wakes = Nodes /\ \A n \in Nodes : wakes[n] \in Nat
    BY TypeParts DEF IInv, Shapes
  <2>3. UNCHANGED <<up, peers, seen, due, pingSeq, published, recorded, handled>>
        /\ UNCHANGED <<wakes, commands>>
    BY <2>1 DEF ReceiveHandshakeInit, bounds
  <2>4. \A n \in Nodes : wakes'[n] \in Nat /\ wakes'[n] <= wakes[n]
    BY <2>2, <2>3
  <2> HIDE DEF S
  <2>5. QED BY <2>1, <2>2, <2>3, <2>4, OnlyPackets
<1>3. CASE k.from # k.to
  <2> DEFINE S == {HandshakeResponse(k.to, k.from)}
  <2>1. net' \subseteq net \cup S /\ peers' = [peers EXCEPT ![k.to] = Touch(@, k.from)]
    BY <1>3, Taking DEF ReceiveHandshakeInit
  <2>2. \A s \in S : PacketOK(s)
    BY <1>1 DEF PacketOK, HandshakeResponse
  <2>3. UNCHANGED <<up, seen, due, pingSeq, published, wakes, recorded, handled, bounds>>
    BY DEF ReceiveHandshakeInit
  <2>4. k.from \in Nodes
    BY <1>1 DEF PacketOK
  <2> HIDE DEF S
  <2>5. QED BY <1>1, <2>1, <2>2, <2>3, <2>4, PeerRefreshed
<1>4. QED BY <1>2, <1>3

LEMMA HandshakeResponseIInv ==
  ASSUME IInv, NEW k \in net, ReceiveHandshakeResponse(k) \/ ReceiveSeen(k) PROVE IInv'
<1> DEFINE S == {}
<1>1. /\ k.to \in up /\ k.from \in Nodes /\ net' \subseteq net \cup S
      /\ \A s \in S : PacketOK(s)
  BY TypeParts, Taking DEF ReceiveHandshakeResponse, ReceiveSeen, IInv, PacketOK
<1>2. /\ peers' = [peers EXCEPT ![k.to] = Touch(@, k.from)]
      /\ UNCHANGED <<up, seen, due, pingSeq, published, wakes, recorded, handled, bounds>>
  <2>1. CASE ReceiveHandshakeResponse(k)
    BY <2>1 DEF ReceiveHandshakeResponse
  <2>2. CASE ReceiveSeen(k)
    BY <2>2 DEF ReceiveSeen, PeersAfter, IInv, Shapes
  <2>3. QED BY <2>1, <2>2
<1> HIDE DEF S
<1>3. QED BY <1>1, <1>2, PeerRefreshed

LEMMA IgnoredIInv ==
  ASSUME IInv, NEW k \in net, ReceiveIgnored(k) \/ Lose(k) PROVE IInv'
<1> DEFINE S == {}
<1>1. /\ net' \subseteq net \cup S /\ \A s \in S : PacketOK(s)
      /\ UNCHANGED <<up, peers, seen, due, pingSeq, published, recorded, handled>>
      /\ UNCHANGED <<wakes, commands>>
  BY Taking DEF ReceiveIgnored, Lose, bounds
<1>2. DOMAIN wakes = Nodes /\ \A n \in Nodes : wakes[n] \in Nat
  BY TypeParts DEF IInv, Shapes
<1>3. \A n \in Nodes : wakes'[n] \in Nat /\ wakes'[n] <= wakes[n]
  BY <1>1, <1>2
<1> HIDE DEF S
<1>4. QED BY <1>1, <1>2, <1>3, OnlyPackets

LEMMA PingIInv == ASSUME IInv, NEW k \in net, ReceivePing(k) PROVE IInv'
<1> DEFINE n == k.to
           id == k.msg.id
<1>1. TypeOK /\ Shapes /\ Pruned /\ WakesCounted /\ WindowKept
  BY DEF IInv
<1>2. n \in up /\ k.from \in Nodes /\ id \in Ids /\ net' \subseteq net \cup {}
  BY <1>1, TypeParts, Taking DEF ReceivePing, PacketOK
<1>3. /\ peers' = [peers EXCEPT ![n] = Touch(@, k.from)]
      /\ seen' = [seen EXCEPT ![n] = Touch(@, id)]
      /\ UNCHANGED <<up, due, pingSeq, published, wakes, recorded, handled, bounds>>
  BY <1>1 DEF ReceivePing, PeersAfter, MarkSeen, Shapes
<1> HIDE DEF n, id
<1>4. /\ DOMAIN peers' = Nodes
      /\ \A x \in Nodes : PeersOK(up, peers'[x], x)
      /\ \A x \in up \ due : \A y \in DOMAIN peers'[x] : peers'[x][y] <= PEER_TIMEOUT
  BY <1>2, <1>3, TouchedPeers
<1>5. /\ DOMAIN seen' = Nodes
      /\ \A x \in Nodes : SeenOK(up, seen'[x], x)
      /\ \A x \in up \ due : \A y \in DOMAIN seen'[x] : seen'[x][y] <= SEEN_MAX_AGE
      /\ \A x \in Nodes : \A y \in DOMAIN seen[x] :
           y \in DOMAIN seen'[x] /\ seen'[x][y] <= seen[x][y]
  BY <1>2, <1>3, TouchedSeen
<1>6. Shapes' /\ WakesCounted' /\ Pruned'
  BY <1>1, <1>3, <1>4, <1>5 DEF Shapes, WakesCounted, Pruned, bounds
<1>7. WindowKept'
  <2> SUFFICES ASSUME NEW x \in Nodes, NEW y \in DOMAIN handled[x], handled[x][y] <= SEEN_MAX_AGE
               PROVE  y \in DOMAIN seen'[x] /\ seen'[x][y] <= handled[x][y]
    BY <1>1, <1>3 DEF WindowKept
  <2>1. y \in DOMAIN seen[x] /\ seen[x][y] <= handled[x][y] /\ handled[x][y] \in Nat
    BY <1>1 DEF WindowKept
  <2>2. y \in DOMAIN seen'[x] /\ seen'[x][y] <= seen[x][y]
    BY <1>5, <2>1
  <2>3. seen[x][y] \in Int /\ seen'[x][y] \in Int
    BY <1>1, <1>5, <2>1, <2>2, TypeParts, RouterAssumption DEF SeenOK, Ages
  <2>4. QED BY <2>1, <2>2, <2>3
<1>8. \A p \in net' : PacketOK(p)
  BY <1>1, <1>2, TypeParts
<1>9. QED BY <1>1, <1>3, <1>4, <1>5, <1>6, <1>7, <1>8, TypeParts, Together

LEMMA PublicationIInv == ASSUME IInv, NEW k \in net, ReceivePublication(k) PROVE IInv'
<1> DEFINE n == k.to
           id == k.msg.id
           table == Touch(peers[n], k.from)
           S == Forward(n, k.from, k.msg, table)
<1>1. TypeOK /\ Shapes /\ Pruned /\ WakesCounted /\ WindowKept
  BY DEF IInv
<1>2. n \in up /\ up \subseteq Nodes /\ k.kind = "gossip" /\ PacketOK(k)
  BY <1>1, TypeParts DEF ReceivePublication
<1>3. n \in Nodes /\ k.from \in Nodes /\ id \in Ids
  BY <1>2 DEF PacketOK
<1>4. /\ peers' = [peers EXCEPT ![n] = Touch(@, k.from)]
      /\ seen' = [seen EXCEPT ![n] = Touch(@, id)]
      /\ recorded' = [recorded EXCEPT ![n] = Append(@, [id |-> id, bad |-> ~Bound(id)])]
      /\ published' = [published EXCEPT ![n] = IF Bound(id) THEN @ \cup {id.payload} ELSE @]
      /\ handled' = [handled EXCEPT ![n] = Touch(@, id)]
      /\ net' \subseteq net \cup S
      /\ id.payload # Ping
      /\ UNCHANGED <<up, due, pingSeq, wakes, bounds>>
  BY <1>1, <1>3, Taking DEF ReceivePublication, PeersAfter, MarkSeen, Shapes
<1>5. DOMAIN table \subseteq Nodes
  <2> DEFINE t == peers[n]
  <2>1. DOMAIN Touch(t, k.from) = DOMAIN t \cup {k.from}
    BY Touched
  <2>2. DOMAIN t \subseteq Nodes
    BY <1>1, <1>3, TypeParts DEF PeersOK
  <2>3. QED BY <2>1, <2>2, <1>3
<1>6. \A s \in S : PacketOK(s)
  <2> HIDE DEF table
  <2>1. QED BY <1>2, <1>3, <1>5, ForwardOK
<1>7. id.payload \in Payloads /\ Bound(id) \in BOOLEAN
  BY <1>3, <1>4 DEF Ids, Bound
<1> HIDE DEF n, id, S
<1>8. /\ DOMAIN peers' = Nodes
      /\ \A x \in Nodes : PeersOK(up, peers'[x], x)
      /\ \A x \in up \ due : \A y \in DOMAIN peers'[x] : peers'[x][y] <= PEER_TIMEOUT
  BY <1>2, <1>3, <1>4, TouchedPeers
<1>9. /\ DOMAIN seen' = Nodes
      /\ \A x \in Nodes : SeenOK(up, seen'[x], x)
      /\ \A x \in up \ due : \A y \in DOMAIN seen'[x] : seen'[x][y] <= SEEN_MAX_AGE
      /\ id \in DOMAIN seen'[n] /\ seen'[n][id] = 0
      /\ \A x \in Nodes : \A y \in DOMAIN seen[x] :
           y \in DOMAIN seen'[x] /\ seen'[x][y] <= seen[x][y]
  BY <1>2, <1>3, <1>4, TouchedSeen
<1>10. Shapes' /\ WakesCounted' /\ Pruned'
  BY <1>1, <1>4, <1>8, <1>9 DEF Shapes, WakesCounted, Pruned, bounds
<1>11. /\ \A x \in Nodes \ {n} : handled'[x] = handled[x]
       /\ DOMAIN handled'[n] = DOMAIN handled[n] \cup {id} /\ handled'[n][id] = 0
       /\ \A y \in DOMAIN handled[n] \ {id} : handled'[n][y] = handled[n][y]
  <2> DEFINE t == handled[n]
  <2>1. /\ DOMAIN Touch(t, id) = DOMAIN t \cup {id} /\ Touch(t, id)[id] = 0
        /\ \A y \in DOMAIN t \ {id} : Touch(t, id)[y] = t[y]
    BY Touched
  <2>2. handled'[n] = Touch(t, id) /\ \A x \in Nodes \ {n} : handled'[x] = handled[x]
    BY <1>1, <1>3, <1>4 DEF Shapes
  <2>3. QED BY ONLY <2>1, <2>2
<1>12. ASSUME NEW x \in Nodes, NEW y \in DOMAIN handled[x], handled'[x][y] = handled[x][y]
       PROVE  /\ handled'[x][y] \in Nat
              /\ handled'[x][y] <= SEEN_MAX_AGE =>
                   y \in DOMAIN seen'[x] /\ seen'[x][y] <= handled'[x][y]
  <2>1. handled[x][y] \in Nat
    BY <1>1 DEF WindowKept
  <2> SUFFICES ASSUME handled[x][y] <= SEEN_MAX_AGE
               PROVE  y \in DOMAIN seen'[x] /\ seen'[x][y] <= handled[x][y]
    BY <2>1, <1>12
  <2>2. y \in DOMAIN seen[x] /\ seen[x][y] <= handled[x][y]
    BY <1>1 DEF WindowKept
  <2>3. y \in DOMAIN seen'[x] /\ seen'[x][y] <= seen[x][y]
    BY <1>9, <2>2
  <2>4. seen[x][y] \in Int /\ seen'[x][y] \in Int
    BY <1>1, <1>9, <2>2, <2>3, TypeParts, RouterAssumption DEF SeenOK, Ages
  <2>5. QED BY <2>1, <2>2, <2>3, <2>4
<1>13. WindowKept'
  <2> SUFFICES ASSUME NEW x \in Nodes, NEW y \in DOMAIN handled'[x]
               PROVE  /\ handled'[x][y] \in Nat
                      /\ handled'[x][y] <= SEEN_MAX_AGE =>
                           y \in DOMAIN seen'[x] /\ seen'[x][y] <= handled'[x][y]
    BY DEF WindowKept
  <2>1. CASE x = n /\ y = id
    BY <2>1, <1>9, <1>11
  <2>2. CASE ~(x = n /\ y = id)
    BY <2>2, <1>11, <1>12
  <2>3. QED BY <2>1, <2>2
<1>14. \A p \in net' : PacketOK(p)
  BY <1>1, <1>4, <1>6, TypeParts
<1>15. \A x \in Nodes : published'[x] \subseteq Payloads /\ recorded'[x] \in Seq([id : Ids, bad : BOOLEAN])
  <2> DEFINE e == [id |-> id, bad |-> ~Bound(id)]
             R == [id : Ids, bad : BOOLEAN]
  <2>1. e \in R
    BY <1>3, <1>7
  <2>2. recorded[n] \in Seq(R) /\ published[n] \subseteq Payloads
    BY <1>1, <1>3, TypeParts
  <2> HIDE DEF e
  <2>3. Append(recorded[n], e) \in Seq(R)
    BY <2>1, <2>2
  <2>4. recorded'[n] = Append(recorded[n], e) /\ \A x \in Nodes \ {n} : recorded'[x] = recorded[x]
    BY <1>1, <1>3, <1>4 DEF Shapes, e
  <2>5. published'[n] \subseteq Payloads /\ \A x \in Nodes \ {n} : published'[x] = published[x]
    BY <1>1, <1>3, <1>4, <1>7, <2>2 DEF Shapes
  <2>6. QED BY <1>1, <2>3, <2>4, <2>5, TypeParts
<1>16. QED
  BY <1>1, <1>4, <1>8, <1>9, <1>10, <1>13, <1>14, <1>15, TypeParts, Together

LEMMA TickIInv == ASSUME IInv, Tick PROVE IInv'
<1>1. TypeOK /\ Shapes /\ Pruned /\ WakesCounted /\ WindowKept
  BY DEF IInv
<1>2. /\ due = {} /\ due' = up /\ up \subseteq Nodes
      /\ peers' = [n \in Nodes |-> Older(peers[n])]
      /\ seen' = [n \in Nodes |-> Older(seen[n])]
      /\ handled' = [n \in Nodes |-> OlderUpTo(handled[n], SEEN_MAX_AGE)]
      /\ UNCHANGED <<up, pingSeq, published, wakes, recorded, net, bounds>>
  BY <1>1, TypeParts DEF Tick
<1>3. \A n \in Nodes : PeersOK(up, peers'[n], n)
  <2> SUFFICES ASSUME NEW n \in Nodes PROVE PeersOK(up, Older(peers[n]), n)
    BY <1>2
  <2>1. CASE n \in up
    <3>1. \A q \in DOMAIN peers[n] : peers[n][q] \in 0..(PEER_TIMEOUT + 1) /\ peers[n][q] <= PEER_TIMEOUT
      BY <1>1, <1>2, <2>1, TypeParts DEF Pruned, PeersOK, Ages
    <3>2. \A q \in DOMAIN peers[n] : peers[n][q] + 1 \in 0..(PEER_TIMEOUT + 1)
      BY <3>1, RouterAssumption
    <3>3. DOMAIN peers[n] \subseteq Nodes
      BY <1>1, TypeParts DEF PeersOK
    <3>4. QED BY <2>1, <3>2, <3>3 DEF PeersOK, Ages, Older
  <2>2. CASE n \notin up
    BY <1>1, <2>2, TypeParts, EmptyTable DEF PeersOK
  <2>3. QED BY <2>1, <2>2
<1>4. \A n \in Nodes : SeenOK(up, seen'[n], n)
  <2> SUFFICES ASSUME NEW n \in Nodes PROVE SeenOK(up, Older(seen[n]), n)
    BY <1>2
  <2>1. CASE n \in up
    <3>1. \A q \in DOMAIN seen[n] : seen[n][q] \in 0..(SEEN_MAX_AGE + 1) /\ seen[n][q] <= SEEN_MAX_AGE
      BY <1>1, <1>2, <2>1, TypeParts DEF Pruned, SeenOK, Ages
    <3>2. \A q \in DOMAIN seen[n] : seen[n][q] + 1 \in 0..(SEEN_MAX_AGE + 1)
      BY <3>1, RouterAssumption
    <3>3. DOMAIN seen[n] \subseteq Ids
      BY <1>1, TypeParts DEF SeenOK
    <3>4. QED BY <2>1, <3>2, <3>3 DEF SeenOK, Ages, Older
  <2>2. CASE n \notin up
    BY <1>1, <2>2, TypeParts, EmptyTable DEF SeenOK
  <2>3. QED BY <2>1, <2>2
<1>5. Shapes' /\ Pruned' /\ WakesCounted'
  BY <1>1, <1>2 DEF Shapes, Pruned, WakesCounted, bounds
<1>6. WindowKept'
  <2> SUFFICES ASSUME NEW n \in Nodes, NEW id \in DOMAIN handled'[n]
               PROVE  /\ handled'[n][id] \in Nat
                      /\ handled'[n][id] <= SEEN_MAX_AGE =>
                           id \in DOMAIN seen'[n] /\ seen'[n][id] <= handled'[n][id]
    BY DEF WindowKept
  <2>1. /\ id \in DOMAIN handled[n]
        /\ handled'[n][id] =
             IF handled[n][id] > SEEN_MAX_AGE THEN handled[n][id] ELSE handled[n][id] + 1
    BY <1>2 DEF OlderUpTo
  <2>2. /\ handled[n][id] \in Nat
        /\ handled[n][id] <= SEEN_MAX_AGE =>
             id \in DOMAIN seen[n] /\ seen[n][id] <= handled[n][id]
    BY <1>1, <2>1 DEF WindowKept
  <2>3. \A x \in DOMAIN seen[n] : x \in DOMAIN seen'[n] /\ seen'[n][x] = seen[n][x] + 1
    BY <1>2 DEF Older
  <2>4. id \in DOMAIN seen[n] => seen[n][id] \in Int
    BY <1>1, TypeParts DEF SeenOK, Ages
  <2>5. QED BY <2>1, <2>2, <2>3, <2>4, RouterAssumption
<1>7. QED BY <1>1, <1>2, <1>3, <1>4, <1>5, <1>6, TypeParts, Together

LEMMA PublishIInv == ASSUME IInv, NEW n \in Nodes, NEW p \in Payloads, Publish(n, p) PROVE IInv'
<1>1. TypeOK /\ Shapes /\ Pruned /\ WakesCounted /\ WindowKept
  BY DEF IInv
<1>2. /\ commands' = commands + 1 /\ commands < MaxCommands /\ n \in up
      /\ wakes'[n] = wakes[n] + 1 /\ published'[n] = published[n] \cup {p}
      /\ DOMAIN wakes' = Nodes /\ DOMAIN published' = Nodes
      /\ \A x \in Nodes \ {n} : wakes'[x] = wakes[x] /\ published'[x] = published[x]
      /\ UNCHANGED <<up, peers, seen, due, pingSeq, recorded, net, handled, stops>>
  BY <1>1 DEF Publish, Shapes
<1>3. \A x \in Nodes : wakes[x] \in 0..MaxCommands /\ wakes[x] <= commands /\ commands \in 0..MaxCommands
  BY <1>1, TypeParts DEF WakesCounted
<1>4. \A x \in Nodes : wakes'[x] \in 0..MaxCommands /\ wakes'[x] <= commands' /\ commands' \in 0..MaxCommands
  BY <1>2, <1>3, RouterAssumption
<1>5. WakesCounted'
  BY <1>4 DEF WakesCounted
<1>6. \A x \in Nodes : published'[x] \subseteq Payloads
  BY <1>1, <1>2, TypeParts
<1>7. Shapes' /\ Pruned' /\ WindowKept'
  BY <1>1, <1>2 DEF Shapes, Pruned, WindowKept
<1>8. \A x \in Nodes : x \notin up => wakes'[x] = 0
  BY <1>1, <1>2, TypeParts
<1>9. QED BY <1>1, <1>2, <1>4, <1>5, <1>6, <1>7, <1>8, TypeParts, Together

LEMMA BroadcastIInv == ASSUME IInv, NEW n \in Nodes, BroadcastTask(n) PROVE IInv'
<1> DEFINE S == Publications(n)
<1>1. TypeOK /\ Shapes /\ Pruned /\ WakesCounted /\ WindowKept
  BY DEF IInv
<1>2. \A s \in S : PacketOK(s)
  <2> SUFFICES ASSUME NEW s \in S PROVE PacketOK(s)
    OBVIOUS
  <2>1. PICK p \in published[n] : s \in Broadcast(n, Message(PublicationId(n, p), TTL))
    BY DEF Publications
  <2>2. PICK q \in DOMAIN peers[n] : s = Gossip(n, q, Message(PublicationId(n, p), TTL))
    BY <2>1 DEF Broadcast
  <2>3. p \in Payloads /\ q \in Nodes
    BY <1>1, TypeParts DEF PeersOK
  <2>4. PublicationId(n, p) \in Ids
    BY <2>3, PublicationIdOK
  <2>5. TTL \in 1..TTL
    BY RouterAssumption
  <2>6. QED BY <2>2, <2>3, <2>4, <2>5, MessageOK
<1> HIDE DEF S
<1>3. /\ wakes[n] > 0 /\ wakes' = [wakes EXCEPT ![n] = @ - 1] /\ net' \subseteq net \cup S
      /\ UNCHANGED <<up, peers, seen, due, pingSeq, published, recorded, handled>>
      /\ UNCHANGED commands
  BY DEF BroadcastTask, S, bounds
<1>4. DOMAIN wakes = Nodes /\ \A x \in Nodes : wakes[x] \in Nat
  BY <1>1, TypeParts DEF Shapes
<1>5. DOMAIN wakes' = Nodes /\ \A x \in Nodes : wakes'[x] \in Nat /\ wakes'[x] <= wakes[x]
  BY <1>3, <1>4
<1>6. QED BY <1>2, <1>3, <1>5, OnlyPackets

LEMMA StopIInv == ASSUME IInv, NEW n \in Nodes, Stop(n) PROVE IInv'
<1>1. TypeOK /\ Shapes /\ Pruned /\ WakesCounted /\ WindowKept
  BY DEF IInv
<1>2. /\ up' = up \ {n} /\ due' = due \ {n} /\ UNCHANGED <<published, recorded, net, commands>>
      /\ peers'[n] = Empty /\ seen'[n] = Empty /\ handled'[n] = Empty
      /\ pingSeq'[n] = 0 /\ wakes'[n] = 0
      /\ \A x \in Nodes \ {n} :
           /\ peers'[x] = peers[x] /\ seen'[x] = seen[x] /\ handled'[x] = handled[x]
           /\ pingSeq'[x] = pingSeq[x] /\ wakes'[x] = wakes[x]
  BY <1>1 DEF Stop, Shapes
<1>3. Shapes'
  BY <1>1 DEF Stop, Shapes
<1>4. up \subseteq Nodes /\ due \subseteq up
  BY <1>1, TypeParts
<1>5. Pruned'
  BY <1>1, <1>2, <1>4 DEF Pruned
<1>6. WakesCounted'
  BY <1>1, <1>2 DEF WakesCounted
<1>7. WindowKept'
  BY <1>1, <1>2, EmptyTable DEF WindowKept
<1>8. \A x \in Nodes : PeersOK(up', peers'[x], x) /\ SeenOK(up', seen'[x], x)
  BY <1>1, <1>2, TypeParts, EmptyTable DEF PeersOK, SeenOK
<1>9. 0 \in 0..(PING_SEQS - 1) /\ 0 \in 0..MaxCommands
  BY RouterAssumption
<1>10. QED BY <1>1, <1>2, <1>3, <1>4, <1>5, <1>6, <1>7, <1>8, <1>9, TypeParts, Together

LEMMA StartIInv == ASSUME IInv, NEW n \in Nodes, Start(n) PROVE IInv'
<1>1. TypeOK /\ Shapes /\ Pruned /\ WakesCounted /\ WindowKept
  BY DEF IInv
<1>2. /\ n \notin up /\ up' = up \cup {n} /\ due' = due \cup {n}
      /\ DOMAIN peers' = Nodes
      /\ peers'[n] = [q \in SeedsOf[n] |-> 0] /\ \A x \in Nodes \ {n} : peers'[x] = peers[x]
      /\ UNCHANGED <<seen, pingSeq, published, wakes, recorded, handled, bounds>>
  BY <1>1 DEF Start, Shapes
<1>3. SeedsOf[n] \subseteq Nodes /\ up \subseteq Nodes /\ due \subseteq up
  BY <1>1, TypeParts, RouterAssumption
<1>4. Shapes' /\ WakesCounted' /\ WindowKept' /\ Pruned'
  BY <1>1, <1>2, <1>3 DEF Shapes, WakesCounted, WindowKept, Pruned, bounds
<1>5. PeersOK(up', peers'[n], n)
  BY <1>2, <1>3, RouterAssumption DEF PeersOK, Ages
<1>6. \A x \in Nodes : PeersOK(up', peers'[x], x) /\ SeenOK(up', seen'[x], x)
  BY <1>1, <1>2, <1>5, TypeParts DEF PeersOK, SeenOK
<1>7. \A k \in net' : PacketOK(k)
  <2> SUFFICES ASSUME NEW k \in net' PROVE PacketOK(k)
    OBVIOUS
  <2>1. CASE k \in net
    BY <1>1, <2>1, TypeParts
  <2>2. CASE \E q \in SeedsOf[n] : k = HandshakeInit(n, q)
    BY <1>3, <2>2 DEF HandshakeInit, PacketOK
  <2>3. CASE \E q \in SeedsOf[n], p \in published[n] :
               k = Gossip(n, q, Message(PublicationId(n, p), TTL))
    <3>1. PICK q \in SeedsOf[n], p \in published[n] :
            k = Gossip(n, q, Message(PublicationId(n, p), TTL))
      BY <2>3
    <3>2. q \in Nodes /\ p \in Payloads
      BY <1>1, <1>3, TypeParts
    <3>3. PublicationId(n, p) \in Ids
      BY <3>2, PublicationIdOK
    <3>4. TTL \in 1..TTL
      BY RouterAssumption
    <3>5. QED BY <3>1, <3>2, <3>3, <3>4, MessageOK
  <2>4. QED BY <2>1, <2>2, <2>3 DEF Start
<1>8. QED BY <1>1, <1>2, <1>3, <1>4, <1>6, <1>7, TypeParts, Together

LEMMA KeepAliveIInv == ASSUME IInv, NEW n \in Nodes, KeepAlive(n) PROVE IInv'
<1> DEFINE m == Message([PingId(n) EXCEPT !.seq = pingSeq'[n]], 1)
           S == Broadcast(n, m)
<1>1. TypeOK /\ Shapes /\ Pruned /\ WakesCounted /\ WindowKept
  BY DEF IInv
<1>2. /\ due' = due \ {n} /\ net' = net \cup S
      /\ pingSeq'[n] = (pingSeq[n] + 1) % PING_SEQS
      /\ peers'[n] = Fresh(peers[n], PEER_TIMEOUT) /\ seen'[n] = Fresh(seen[n], SEEN_MAX_AGE)
      /\ \A x \in Nodes \ {n} :
           peers'[x] = peers[x] /\ seen'[x] = seen[x] /\ pingSeq'[x] = pingSeq[x]
      /\ UNCHANGED <<up, published, wakes, recorded, handled, bounds>>
  BY <1>1 DEF KeepAlive, ActivePeers, SeenEntries, Shapes
<1>3. Shapes'
  BY <1>1, <1>2 DEF KeepAlive, Shapes
<1>4. up \subseteq Nodes /\ due \subseteq up
  BY <1>1, TypeParts
<1>5. pingSeq'[n] \in 0..(PING_SEQS - 1)
  <2>1. pingSeq[n] \in Nat /\ PING_SEQS \in Nat \ {0}
    BY <1>1, TypeParts, RouterAssumption
  <2>2. QED BY <1>2, <2>1
<1>6. \A s \in S : PacketOK(s)
  <2>1. [PingId(n) EXCEPT !.seq = pingSeq'[n]] \in Ids
    BY <1>5 DEF PingId, Ids
  <2>2. 1 \in 1..TTL
    BY RouterAssumption
  <2>3. DOMAIN peers[n] \subseteq Nodes
    BY <1>1, TypeParts DEF PeersOK
  <2>4. QED BY <2>1, <2>2, <2>3, MessageOK DEF Broadcast
<1> DEFINE ptab == peers[n]
           stab == seen[n]
<1>7. /\ DOMAIN peers'[n] = {q \in DOMAIN ptab : ptab[q] <= PEER_TIMEOUT}
      /\ \A q \in DOMAIN peers'[n] : peers'[n][q] = ptab[q]
      /\ DOMAIN seen'[n] = {id \in DOMAIN stab : stab[id] <= SEEN_MAX_AGE}
      /\ \A id \in DOMAIN seen'[n] : seen'[n][id] = stab[id]
  <2>1. /\ DOMAIN Fresh(ptab, PEER_TIMEOUT) = {q \in DOMAIN ptab : ptab[q] <= PEER_TIMEOUT}
        /\ \A q \in DOMAIN Fresh(ptab, PEER_TIMEOUT) : Fresh(ptab, PEER_TIMEOUT)[q] = ptab[q]
    BY Pruning
  <2>2. /\ DOMAIN Fresh(stab, SEEN_MAX_AGE) = {id \in DOMAIN stab : stab[id] <= SEEN_MAX_AGE}
        /\ \A id \in DOMAIN Fresh(stab, SEEN_MAX_AGE) : Fresh(stab, SEEN_MAX_AGE)[id] = stab[id]
    BY Pruning
  <2>3. peers'[n] = Fresh(ptab, PEER_TIMEOUT) /\ seen'[n] = Fresh(stab, SEEN_MAX_AGE)
    BY <1>2
  <2>4. QED BY ONLY <2>1, <2>2, <2>3
<1> HIDE DEF S, m
<1>8. PeersOK(up, peers'[n], n) /\ SeenOK(up, seen'[n], n)
  <2>1. PeersOK(up, peers[n], n) /\ SeenOK(up, seen[n], n) /\ n \in up
    BY <1>1, <1>4, TypeParts DEF KeepAlive
  <2>2. QED BY <1>7, <2>1 DEF PeersOK, SeenOK
<1>9. \A x \in Nodes : PeersOK(up', peers'[x], x) /\ SeenOK(up', seen'[x], x)
  BY <1>1, <1>2, <1>8, TypeParts
<1>10. Pruned'
  <2> SUFFICES ASSUME NEW x \in up \ (due \ {n})
               PROVE  /\ \A q \in DOMAIN peers'[x] : peers'[x][q] <= PEER_TIMEOUT
                      /\ \A id \in DOMAIN seen'[x] : seen'[x][id] <= SEEN_MAX_AGE
    BY <1>2 DEF Pruned
  <2>1. CASE x = n
    BY <1>7, <2>1
  <2>2. CASE x # n
    BY <1>1, <1>2, <1>4, <2>2 DEF Pruned
  <2>3. QED BY <2>1, <2>2
<1>11. WindowKept'
  <2> SUFFICES ASSUME NEW x \in Nodes, NEW id \in DOMAIN handled[x], handled[x][id] <= SEEN_MAX_AGE
               PROVE  id \in DOMAIN seen'[x] /\ seen'[x][id] <= handled[x][id]
    BY <1>1, <1>2 DEF WindowKept
  <2>1. id \in DOMAIN seen[x] /\ seen[x][id] <= handled[x][id] /\ handled[x][id] \in Nat
    BY <1>1 DEF WindowKept
  <2>2. CASE x = n
    <3>1. stab[id] \in Int /\ id \in DOMAIN stab /\ stab[id] <= handled[n][id]
      BY <1>1, <2>1, <2>2, TypeParts, RouterAssumption DEF SeenOK, Ages
    <3>2. stab[id] <= SEEN_MAX_AGE
      BY <2>1, <2>2, <3>1, RouterAssumption
    <3>3. QED BY <1>7, <2>2, <3>1, <3>2
  <2>3. CASE x # n
    BY <1>2, <2>1, <2>3
  <2>4. QED BY <2>2, <2>3
<1>12. \A p \in net' : PacketOK(p)
  BY <1>1, <1>2, <1>6, TypeParts
<1>13. WakesCounted'
  BY <1>1, <1>2 DEF WakesCounted, bounds
<1>14. QED BY <1>1, <1>2, <1>3, <1>4, <1>5, <1>9, <1>10, <1>11, <1>12, <1>13, TypeParts, Together

LEMMA StepIInv == IInv /\ [Next]_vars => IInv'
<1> SUFFICES ASSUME IInv, [Next]_vars PROVE IInv'
  OBVIOUS
<1>1. CASE \E k \in net : Receive(k) \/ Lose(k)
  BY <1>1, HandshakeIIInv, HandshakeResponseIInv, IgnoredIInv, PingIInv, PublicationIInv DEF Receive
<1>2. CASE Tick
  BY <1>2, TickIInv
<1>3. CASE \E n \in Nodes : KeepAlive(n) \/ BroadcastTask(n) \/ Stop(n) \/ Start(n)
  BY <1>3, KeepAliveIInv, BroadcastIInv, StopIInv, StartIInv
<1>4. CASE \E n \in Nodes, p \in Payloads : Publish(n, p)
  BY <1>4, PublishIInv
<1>5. CASE UNCHANGED vars
  BY <1>5 DEF vars, bounds, IInv, TypeOK, Shapes, Pruned, WakesCounted, WindowKept
<1>6. QED BY <1>1, <1>2, <1>3, <1>4, <1>5 DEF Next

-----------------------------------------------------------------------------
(* The theorems.                                                            *)

LEMMA Invariance == Spec => []IInv
<1>1. QED BY InitIInv, StepIInv, PTL DEF Spec

\* What the router keeps stays well formed: the tables of a node that is down are
\* empty, no entry outlives its timeout by more than an interval, there are never
\* more wake-ups than commands, and no forward raises the ttl of a message.
THEOREM RouterTyped == Spec => []TypeOK
<1>1. IInv => TypeOK
  BY DEF IInv
<1>2. QED BY <1>1, Invariance, PTL

LEMMA StepHandlesOnce == IInv /\ [Next]_vars => HandlesOnce
<1> SUFFICES ASSUME IInv, [Next]_vars, NEW n \in Nodes, Len(recorded'[n]) > Len(recorded[n]),
                    recorded'[n][Len(recorded'[n])].id \in DOMAIN handled[n]
             PROVE  handled[n][recorded'[n][Len(recorded'[n])].id] > SEEN_MAX_AGE
  BY DEF HandlesOnce
<1>1. recorded[n] \in Seq([id : Ids, bad : BOOLEAN])
  BY TypeParts DEF IInv
<1>2. recorded'[n] # recorded[n]
  BY <1>1
<1>3. PICK k \in net : ReceivePublication(k)
  <2>1. recorded' # recorded
    BY <1>2
  <2>2. ASSUME NEW k \in net, Receive(k) \/ Lose(k) PROVE ReceivePublication(k)
    BY <2>1, <2>2 DEF Receive, Lose, ReceiveHandshakeInit, ReceiveHandshakeResponse,
       ReceiveIgnored, ReceiveSeen, ReceivePing
  <2>3. ~Tick
    BY <2>1 DEF Tick
  <2>4. ASSUME NEW x \in Nodes PROVE ~(KeepAlive(x) \/ BroadcastTask(x) \/ Stop(x) \/ Start(x))
    BY <2>1 DEF KeepAlive, BroadcastTask, Stop, Start
  <2>5. ASSUME NEW x \in Nodes, NEW p \in Payloads PROVE ~Publish(x, p)
    BY <2>1 DEF Publish
  <2>6. ~UNCHANGED vars
    BY <2>1 DEF vars
  <2>7. QED BY <2>2, <2>3, <2>4, <2>5, <2>6 DEF Next
<1> DEFINE id == k.msg.id
           e == [id |-> id, bad |-> ~Bound(id)]
<1>4. /\ id \notin DOMAIN seen[k.to]
      /\ recorded' = [recorded EXCEPT ![k.to] = Append(@, e)]
      /\ DOMAIN recorded = Nodes
  BY <1>3 DEF ReceivePublication, IInv, Shapes
<1> HIDE DEF e
<1>5. n = k.to /\ recorded'[n] = Append(recorded[n], e)
  BY <1>2, <1>4
<1>6. recorded'[n][Len(recorded'[n])] = e
  BY <1>1, <1>5
<1>7. recorded'[n][Len(recorded'[n])].id = id
  BY <1>6 DEF e
<1>8. /\ id \in DOMAIN handled[n] /\ id \notin DOMAIN seen[n]
      /\ handled[n][id] \in Nat
      /\ handled[n][id] <= SEEN_MAX_AGE => id \in DOMAIN seen[n]
  BY <1>4, <1>5, <1>7 DEF IInv, WindowKept
<1>9. QED BY <1>7, <1>8, RouterAssumption

\* A node handles a message once within the window it keeps it for, on any
\* network, however packets are lost, duplicated, reordered or forwarded in
\* circles, and whatever nodes stop and start meanwhile.
THEOREM MessagesHandledOnce == Spec => HandledOncePerWindow
<1>1. IInv /\ [Next]_vars => [HandlesOnce]_vars
  BY StepHandlesOnce
<1>2. QED BY <1>1, Invariance, PTL DEF Spec, HandledOncePerWindow
=============================================================================
