----------------------------- MODULE Authority -----------------------------
(***************************************************************************)
(* What a certificate authority declares, revokes and purges, and what the *)
(* other nodes come to hold of it: the commands of its operator            *)
(* (net/ipc/handler/{ca,purge,crl}), the subtables of declarations, purges,*)
(* chains and revocation lists (storage/db/subtables), the task that sends *)
(* them again and again and the handlers that receive them                 *)
(* (net/router/broadcast/mod.rs).                                          *)
(*                                                                         *)
(* Purges form a chain with a proof of work, whose difficulty grows with   *)
(* the purges in force.  Commands run concurrently: a purge is mined       *)
(* between the reading of the chain and the insertion, and a revocation    *)
(* list is built between the reading of the old one and the insertion.     *)
(*                                                                         *)
(* A table changes under its lock, and its file is written from a copy     *)
(* after the lock is released: writers overtake each other, and the owner's*)
(* process may end before the file is written.                             *)
(*                                                                         *)
(* There is one authority.  A purge stands for its own hash: prev is the   *)
(* purge before it.  Puzzles, the owner's signatures and the DER of the    *)
(* certificates are taken as sound.  Only the owner is ever restarted.     *)
(***************************************************************************)
EXTENDS Integers, FiniteSets

CONSTANTS
  Owner,        \* the node whose key and name make the identifier of the authority
  Peers,        \* the other nodes
  Outsider,     \* a client that sends the chains of the certificates it was issued
  Domains,      \* the domains commands name
  Permitted,    \* those within the permitted subtrees of the authority
  Ttls,         \* the times to live commands ask for; zero is one of them
  Strikes,      \* whether purges come with the evidence of a strike
  Lists,        \* the serial numbers IssueCrl commands ask for
  Commands,     \* the IPC connections of the operator
  BASE,         \* BASE_POW_DIFFICULTY
  UNILATERAL,   \* UNILATERAL_PURGE_PENALTY_BITS
  CertTtl,      \* the ttl of the offer certificates are issued under
  Before,       \* what the authority may be at the start: "unknown", or "public" already
  MaxTime,      \* bound: the last reading of the clock
  Budgets       \* bound: how much there is of each kind: purges, commands on certificates
                \* and lists, commands on offers, strikes and restarts

VARIABLES
  now,       \* the time of day
  ca,        \* ca_store of each node: "unknown", "draft" or "public"
  purges,    \* purge_store of each node
  chains,    \* chain_store of each node
  crl,       \* crl_store of each node
  disk,      \* the owner's domain_purges.json, cert_chains.json and crls.json
  busy,      \* what each connection is in the middle of
  listener,  \* what the owner's listener is in the middle of
  commands,  \* how many commands there were
  left,      \* how much there may still be of each kind
  sent,      \* the network: what may be on its way though nobody holds it any more
  flagged,   \* the originators of the bullshit events each node has recorded
  raced      \* history: the files that two writers have been at

stores == <<purges, chains, crl, disk>>
vars == <<now, ca, stores, busy, listener, commands, left, sent, flagged, raced>>

Nodes == {Owner} \cup Peers

\* What the composition assumes of the constants.
AuthorityAssumption ==
  /\ Owner \notin Peers /\ Outsider \notin {Owner} \cup Peers
  /\ IsFiniteSet(Peers) /\ IsFiniteSet(Commands)
  /\ Budgets \subseteq [purges : Nat, certs : Nat, offers : Nat, strikes : Nat, restarts : Nat]
  /\ Before \subseteq {"unknown", "draft", "public"}
  /\ Strikes \subseteq BOOLEAN
  /\ Permitted \subseteq Domains /\ Ttls \subseteq Nat
  /\ {BASE, UNILATERAL, CertTtl, MaxTime} \subseteq Nat

NoPurge == [seq |-> 0]
NoCrl == [number |-> 0, serials |-> {}]
Idle == [op |-> "idle"]

\* compute_ca_id: of the keys there are, only the owner's makes the identifier.
IsOwner(key) == key = Owner

\* is_domain_permitted, of an intermediate authority.
IsPermitted(d) == d \in Permitted

-----------------------------------------------------------------------------
(* The chain of purges.                                                     *)

\* floor(log2(n)): how often 1 can be doubled without passing n.
FloorLog2(n) == Cardinality({k \in 1..n : 2^k <= n})

\* count_active_unexpired_purges_for_ca.
Active(held, t) == {p \in held : p.expires > t}

\* calculate_required_difficulty.
Required(held, t, strike) ==
  BASE + 2 * FloorLog2(Cardinality(Active(held, t)) + 1) + IF strike THEN 0 ELSE UNILATERAL

\* get_latest_purge_for_ca.
Latest(held) ==
  IF held = {} THEN NoPurge ELSE CHOOSE p \in held : \A q \in held : q.seq <= p.seq

\* Mutant: the chain is not looked at again under the lock.
InsertableUnchecked(p, held) == p.time < p.expires

\* insert_purge, its checks under the lock.
Insertable(p, held) ==
  /\ p.seq = Latest(held).seq + 1
  /\ p.prev = Latest(held)
  /\ held # {} => p.time >= Latest(held).time
  /\ p.time < p.expires

\* Mutant: a replica does not look at the number or the link.
ValidAnywhere(p, held, from) ==
  IsOwner(from) /\ IsPermitted(p.domain) /\ p.time < p.expires

\* validate_against_ca_and_chain.
Valid(p, held, from) ==
  /\ IsOwner(from)
  /\ IsPermitted(p.domain)
  /\ Insertable(p, held)
  /\ p.difficulty >= Required(held, p.time, p.strike)

\* Every purge follows from those before it and cost what they required.
IsPurgeChain(held) ==
  /\ {p.seq : p \in held} = 1..Cardinality(held)
  /\ \A p \in held :
       LET before == {q \in held : q.seq < p.seq} IN
       /\ p.prev = Latest(before)
       /\ \A q \in before : q.time <= p.time
       /\ p.difficulty = Required(before, p.time, p.strike)

-----------------------------------------------------------------------------
(* The commands of the operator.                                            *)

\* A connection starts on a command.
Begins(c, kind) ==
  /\ busy[c] = Idle
  /\ left[kind] > 0
  /\ left' = [left EXCEPT ![kind] = @ - 1]
  /\ commands' = commands + 1

Becomes(c, work) == busy' = [busy EXCEPT ![c] = work]

\* A connection, or the listener, has a table's copy and has yet to write its file.
Writing(file) ==
  \/ \E c \in Commands : busy[c].op = "write" /\ busy[c].file = file
  \/ listener.op = "write" /\ listener.file = file

\* Mutant: the copy is taken before the record is in.
ExportedBefore(old, new) == old

\* export_map: the copy of the table, taken under the lock, when the record is in.
Exported(old, new) == new

\* A write of a table's copy, and what its connection does after it.
Write(file, copy, then) == [op |-> "write", file |-> file, copy |-> copy, then |-> then]

Races(file) == raced' = raced \cup IF Writing(file) THEN {file} ELSE {}

\* DomainPurgeRecord::new, from what the command has read of the chain.
NewPurge(d, ttl, strike) ==
  [seq |-> Latest(purges[Owner]).seq + 1, prev |-> Latest(purges[Owner]),
   domain |-> d, time |-> now, expires |-> now + ttl, strike |-> strike,
   difficulty |-> Required(purges[Owner], now, strike)]

\* handle_purge_domain reads the chain and starts on the puzzle.
StartPurge(c, d, ttl, strike) ==
  /\ Begins(c, "purges")
  /\ ca[Owner] = "public"
  /\ IsPermitted(d)
  /\ ttl > 0
  /\ Becomes(c, [op |-> "purge", purge |-> NewPurge(d, ttl, strike)])
  /\ UNCHANGED <<now, ca, stores, listener, sent, flagged, raced>>

\* insert_purge succeeds in memory.
FinishPurge(c) ==
  LET p == busy[c].purge IN
  /\ busy[c].op = "purge"
  /\ Insertable(p, purges[Owner])
  /\ purges' = [purges EXCEPT ![Owner] = @ \cup {p}]
  /\ Becomes(c, Write("purges", Exported(purges[Owner], purges'[Owner]),
                      [op |-> "purged", domain |-> p.domain]))
  /\ Races("purges")
  /\ UNCHANGED <<now, ca, chains, crl, disk, listener, commands, left, sent, flagged>>

\* Another purge was faster.
RefusePurge(c) ==
  /\ busy[c].op = "purge"
  /\ ~Insertable(busy[c].purge, purges[Owner])
  /\ Becomes(c, Idle)
  /\ UNCHANGED <<now, ca, stores, listener, commands, left, sent, flagged, raced>>

\* A command writes the copy it has taken.
WriteFile(c) ==
  /\ busy[c].op = "write"
  /\ disk' = [disk EXCEPT ![busy[c].file] = busy[c].copy]
  /\ Becomes(c, busy[c].then)
  /\ UNCHANGED <<now, ca, purges, chains, crl, listener, commands, left, sent, flagged, raced>>

\* The serial numbers of the chains the owner has of a domain.
SerialsOf(d) == {k.serial : k \in {x \in chains[Owner] : x.domain = d}}

\* Once a purge is recorded, a new revocation list is made of the certificates of the
\* domain, if there are any.
RevokePurged(c) ==
  LET serials == SerialsOf(busy[c].domain) IN
  /\ busy[c].op = "purged"
  /\ Becomes(c, IF serials = {} THEN Idle ELSE [op |-> "list", serials |-> serials])
  /\ UNCHANGED <<now, ca, stores, listener, commands, left, sent, flagged, raced>>

\* handle_revoke_cert: the serial numbers of the list there is, and one more.
StartRevoke(c, s) ==
  /\ Begins(c, "certs")
  /\ ca[Owner] = "public"
  /\ Becomes(c, [op |-> "list", serials |-> crl[Owner].serials \cup {s}])
  /\ UNCHANGED <<now, ca, stores, listener, sent, flagged, raced>>

\* handle_issue_crl with a list that replaces the one there is.
StartIssue(c, list) ==
  /\ Begins(c, "certs")
  /\ ca[Owner] = "public"
  /\ Becomes(c, [op |-> "list", serials |-> list])
  /\ UNCHANGED <<now, ca, stores, listener, sent, flagged, raced>>

\* build_crl: a list of its own, which takes nothing over from the one before.
NewList(number, serials) == [number |-> number, serials |-> serials]

\* handle_issue_crl takes the next number and builds the list.
NumberList(c) ==
  /\ busy[c].op = "list"
  /\ Becomes(c, [op |-> "crl", list |-> NewList(crl[Owner].number + 1, busy[c].serials)])
  /\ UNCHANGED <<now, ca, stores, listener, commands, left, sent, flagged, raced>>

\* Mutant: the last list wins, whatever its number.
TakesAny(old, new) == TRUE

\* insert_crl refuses a list with a smaller number, not one with the same.
Takes(old, new) == new.number >= old.number

FinishList(c) ==
  /\ busy[c].op = "crl"
  /\ Takes(crl[Owner], busy[c].list)
  /\ crl' = [crl EXCEPT ![Owner] = busy[c].list]
  /\ Becomes(c, Write("crl", Exported(crl[Owner], crl'[Owner]), Idle))
  /\ Races("crl")
  /\ UNCHANGED <<now, ca, purges, chains, disk, listener, commands, left, sent, flagged>>

\* A list that is refused is an error of RevokeCert, and is ignored by PurgeDomain.
RefuseList(c) ==
  /\ busy[c].op = "crl"
  /\ ~Takes(crl[Owner], busy[c].list)
  /\ Becomes(c, Idle)
  /\ UNCHANGED <<now, ca, stores, listener, commands, left, sent, flagged, raced>>

\* is_domain_purged_by_ca and is_domain_purged, the same where there is one authority.
IsPurged(n, d) == \E p \in Active(purges[n], now) : p.domain = d

\* is_domain_blocked_by_purge_policy.
Blocked(n, d) == IsPurged(n, d)

\* A certificate of the command with this number, and the message of its chain.
Certificate(d, s) == [domain |-> d, serial |-> s, until |-> now + CertTtl]
Message(kind, from, body) == [kind |-> kind, from |-> from, body |-> body]

\* handle_generate_domain_cert answers with a certificate, which is stored nowhere;
\* the client that asked for it sends its chain to the network.
GenerateCert(c, d) ==
  /\ Begins(c, "certs")
  /\ ca[Owner] # "unknown"
  /\ IsPermitted(d) /\ ~Blocked(Owner, d)
  /\ sent' = sent \cup {Message("chain", Outsider, Certificate(d, commands'))}
  /\ UNCHANGED <<now, ca, stores, busy, listener, flagged, raced>>

-----------------------------------------------------------------------------
(* Broadcast and reception.                                                 *)

\* broadcast_published_pki_entities sends all a node has, its own or not, and
\* signs it with its own key.
Outgoing(n) ==
  (IF ca[n] = "public" THEN {Message("ca", n, [status |-> "public"])} ELSE {})
    \cup {Message("chain", n, k) : k \in chains[n]}
    \cup {Message("purge", n, p) : p \in purges[n]}

\* The lists are recorded as they are sent, for a later one takes their place; what
\* Outgoing holds is taken back by nothing but a restart, and may be on its way at any
\* time.
BroadcastCrl(n) ==
  /\ crl[n] # NoCrl
  /\ Message("crl", n, crl[n]) \notin sent
  /\ sent' = sent \cup {Message("crl", n, crl[n])}
  /\ UNCHANGED <<now, ca, stores, busy, listener, commands, left, flagged, raced>>

InFlight == sent \cup UNION {Outgoing(n) : n \in Nodes}

\* A packet of another node arrives: at any time, in any order, or never.  Its message
\* may have come before: the seen cache, which would drop it, forgets a message after
\* an hour (prune_seen_cache), and the task sends it again.  The listener takes one
\* packet after the other.
Arrives(n, m) == m \in InFlight /\ m.from # n /\ (n = Owner => listener = Idle)

Flag(n, bad, from) ==
  flagged' = IF bad THEN [flagged EXCEPT ![n] = @ \cup {from}] ELSE flagged

\* handle_ca_declaration_packet: the identifier is that of the owner's key.
ReceiveCa(n, m) ==
  /\ m.kind = "ca" /\ Arrives(n, m)
  /\ Flag(n, ~IsOwner(m.from), m.from)
  /\ ca' = IF IsOwner(m.from) THEN [ca EXCEPT ![n] = "public"] ELSE ca
  /\ UNCHANGED <<now, stores, busy, listener, commands, left, sent, raced>>

\* CertificateChain::validate: below an authority the node knows, and not expired.
ChainValid(n, k) == ca[n] # "unknown" /\ now <= k.until

\* The owner's listener writes the file of the table it has changed; the peers are not
\* restarted, and their files left out.
Listens(n, write) == listener' = IF n = Owner THEN write ELSE listener

\* handle_cert_chain_packet: whoever sends it, a chain that is not valid is dropped
\* without a record.
ReceiveChain(n, m) ==
  /\ m.kind = "chain" /\ Arrives(n, m)
  /\ ChainValid(n, m.body)
  /\ chains' = [chains EXCEPT ![n] = @ \cup {m.body}]
  /\ Listens(n, Write("chains", Exported(chains[n], chains'[n]), Idle))
  /\ UNCHANGED <<now, ca, purges, crl, disk, busy, commands, left, sent, flagged, raced>>

\* A list is signed with a key made for it, never with its originator's: where the
\* authority is known, and the signature therefore checked, it is refused.
SignatureSkipped(n) == ca[n] = "unknown"

\* handle_crl_broadcast_packet: a list that is refused leaves nothing behind.
ReceiveCrl(n, m) ==
  /\ m.kind = "crl" /\ Arrives(n, m)
  /\ SignatureSkipped(n) /\ Takes(crl[n], m.body)
  /\ crl' = [crl EXCEPT ![n] = m.body]
  /\ Listens(n, Write("crl", Exported(crl[n], crl'[n]), Idle))
  /\ IF n = Owner THEN Races("crl") ELSE UNCHANGED raced
  /\ UNCHANGED <<now, ca, purges, chains, disk, busy, commands, left, sent, flagged>>

\* Mutant: a purge of an unknown authority is taken.
AcceptableUnknown(n, m) == Valid(m.body, purges[n], m.from)

Acceptable(n, m) == ca[n] = "public" /\ Valid(m.body, purges[n], m.from)

\* handle_domain_purge_packet, whose checks insert_purge makes once more.
ReceivePurge(n, m) ==
  /\ m.kind = "purge" /\ Arrives(n, m)
  /\ Flag(n, ~Acceptable(n, m), m.from)
  /\ purges' = IF Acceptable(n, m) THEN [purges EXCEPT ![n] = @ \cup {m.body}] ELSE purges
  /\ UNCHANGED <<now, ca, chains, crl, disk, busy, listener, commands, left, sent, raced>>

Receive(n, m) ==
  ReceiveCa(n, m) \/ ReceiveChain(n, m) \/ ReceiveCrl(n, m) \/ ReceivePurge(n, m)

\* The owner's listener writes the copy it has taken.
ListenerWrites ==
  /\ listener.op = "write"
  /\ disk' = [disk EXCEPT ![listener.file] = listener.copy]
  /\ listener' = listener.then
  /\ UNCHANGED <<now, ca, purges, chains, crl, busy, commands, left, sent, flagged, raced>>

\* The tables of the owner when it is started again, a part of Rotation's Restart.  What
\* it no longer holds may still be on its way.
Reload ==
  /\ purges' = [purges EXCEPT ![Owner] = disk["purges"]]
  /\ chains' = [chains EXCEPT ![Owner] = disk["chains"]]
  /\ crl' = [crl EXCEPT ![Owner] = disk["crl"]]
  /\ listener' = Idle /\ raced' = {}
  /\ sent' = sent \cup (Outgoing(Owner) \ Outgoing(Owner)')
  /\ UNCHANGED <<now, disk, flagged>>

Tick ==
  /\ now < MaxTime
  /\ now' = now + 1
  /\ UNCHANGED <<ca, stores, busy, listener, commands, left, sent, flagged, raced>>

Init ==
  /\ now = 0
  /\ \E status \in Before : ca = [n \in Nodes |-> IF n = Owner THEN status ELSE "unknown"]
  /\ purges = [n \in Nodes |-> {}] /\ chains = [n \in Nodes |-> {}]
  /\ crl = [n \in Nodes |-> NoCrl]
  /\ disk = [purges |-> {}, chains |-> {}, crl |-> NoCrl]
  /\ busy = [c \in Commands |-> Idle] /\ listener = Idle
  /\ commands = 0 /\ left \in Budgets
  /\ sent = {} /\ raced = {}
  /\ flagged = [n \in Nodes |-> {}]

Operate(c) ==
  \/ \E d \in Domains, ttl \in Ttls, strike \in Strikes : StartPurge(c, d, ttl, strike)
  \/ FinishPurge(c) \/ RefusePurge(c) \/ WriteFile(c) \/ RevokePurged(c)
  \/ \E s \in {k.serial : k \in chains[Owner]} : StartRevoke(c, s)
  \/ \E list \in Lists : StartIssue(c, list)
  \/ NumberList(c) \/ FinishList(c) \/ RefuseList(c)
  \/ \E d \in Domains : GenerateCert(c, d)

Next ==
  \/ \E c \in Commands : Operate(c)
  \/ \E n \in Nodes : BroadcastCrl(n) \/ \E m \in InFlight : Receive(n, m)
  \/ ListenerWrites
  \/ Tick

Spec == Init /\ [][Next]_vars

-----------------------------------------------------------------------------
(* Properties.                                                              *)

\* A purge is for a domain the authority may speak of; a peer keeps purges only of an
\* authority that was published, and chains only of one it knows; it never sees a draft.
TypeOK ==
  /\ now \in 0..MaxTime /\ \E b \in Budgets : commands <= b.purges + b.certs + b.offers
  /\ \A n \in Nodes :
       /\ ca[n] \in {"unknown", "draft", "public"}
       /\ \A p \in purges[n] :
            p.domain \in Permitted /\ p.time \in 0..MaxTime /\ p.expires - p.time \in Ttls
       /\ \A k \in chains[n] : k.domain \in Permitted /\ k.serial \in 1..commands
       /\ crl[n].number \in 0..commands
       /\ flagged[n] \subseteq Nodes \ {n}
  /\ \A n \in Peers :
       /\ ca[n] # "draft"
       /\ purges[n] # {} => ca[n] = "public"
       /\ chains[n] # {} => ca[n] # "unknown"

\* However commands race, packets arrive and the owner is restarted, at every node and
\* in the file the purges are a chain without a gap, and each cost what those in force
\* at its time required, although insert_purge does not look at the price.
PurgesAreChains == IsPurgeChain(disk["purges"]) /\ \A n \in Nodes : IsPurgeChain(purges[n])

\* A file has what the table has, unless it has yet to be written or two writers have
\* been at it, who may have written their copies in the wrong order.
FilesFollow ==
  \A file \in DOMAIN disk :
    Writing(file) \/ file \in raced
      \/ disk[file] = [purges |-> purges, chains |-> chains, crl |-> crl][file][Owner]

\* The list was, or might have been, behind in its file when the owner was restarted.
LostList == left'.restarts < left.restarts /\ (Writing("crl") \/ "crl" \in raced)

NumbersKept == \A n \in Nodes : crl'[n].number >= crl[n].number \/ (n = Owner /\ LostList)

\* A node's list never gives way to one with a smaller number, whatever lists were
\* built meanwhile, but by a restart of the owner between a list and its file.
NumbersNeverFall == [][NumbersKept]_vars

-----------------------------------------------------------------------------
(* What the documentation says, and the code does not do: see README.       *)

\* "Emitting a bad-domain purge now automatically revokes all certificates previously
\* issued to that domain": what is on the list for a domain stays there as long as the
\* domain is purged, where no command asks for a list of its own choice.
PurgedStayRevoked ==
  [][\A k \in chains[Owner] :
       k.serial \in crl[Owner].serials \ crl'[Owner].serials => ~Blocked(Owner, k.domain)]_vars
=============================================================================
