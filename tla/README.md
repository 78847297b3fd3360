# Formal models of randbotd

This directory holds TLA+ specifications of the randbotd daemon, the TLC
configurations that check them on small instances, and proofs checked by TLAPS.
Paths below are relative to the repository. `PROJECT.json` gives, for each
definition that models code, the file and the lines it stands for.

To check a run: `tlc -workers 2 -config MCEventLog_sync.cfg MCEventLog.tla`.
To check the proofs of a module: `tlapm EventLogProofs.tla`; the modules with proofs are
those of section 4, and each checks in a few minutes.

## 1. The system

randbotd is one process (tokio, many tasks) that speaks UDP to its peers, TCP to
fetch certificates, and a local IPC socket to its command-line client. All of its
state is in one `Database`, whose tables are behind one lock each, and in one
`PeerRouter`.

| Component | Code | State | Operations | Modelled by |
|---|---|---|---|---|
| Event log | `storage/db/{mod,merkle}.rs`, `net/history.rs` | `event_log` and `event_log.jsonl`, `pending_unverified`, `merkle_cache` | `append_event`, `record_gossip_event`, drain, truth replacement, equivocation proof, Merkle hash of a range, `open` | `EventLog`, `Ledger`, `EventLogProofs` |
| Gossip router | `net/router/mod.rs`, `net/gossip.rs`, `net/handshake.rs`, tasks of `main.rs` | `active_peers`, `seen_cache`, `ping_seq`, the broadcast channel | handshake, `handle_packet`, forward, ping, prune, start, stop | `GossipRouter` |
| Broadcast | `net/router/broadcast/` | none of its own | one handler per payload; the task that re-sends what the node published | declarations in `GossipRouter`, votes in `VoteChain`, purges, lists and chains in `Authority`, custodians in `CustodianSwarm` |
| Votes | `crypto/vote/mod.rs`, `subtables/vote_subtable.rs`, `ipc/handler/vote.rs`, `broadcast/vote.rs` | `vote_store` and its file | cast (read, proof of work, insert), receive, re-send, load | `VoteChain` |
| CA declarations | `subtables/ca_subtable.rs`, `ipc/handler/ca/` | `ca_store` and its file | publish, receive, re-send, list active | as payloads in `GossipRouter`, status in `Authority`, catalogue hash in `Rotation` |
| Purge | `pki/purge/`, `subtables/purge_subtable.rs`, `ipc/handler/purge.rs` | purge chain and its file | propose (read, proof of work, insert), receive; issues a CRL | `Authority`, `Replicated` |
| Certificates, CRLs | `subtables/cert_subtable.rs`, `pki/{crl,chain}.rs`, `ipc/handler/crl.rs` | certificate chains, one CRL per issuer | issue, revoke, store, receive, check a chain | `Authority` |
| Rotation, strikes | `pki/rotation/`, `subtables/rotation_subtable.rs`, `ipc/handler/rotation.rs` | rotation history, strikes, offers | rotate, import a rotation, strike | `Rotation` |
| Offers, catalogue | `pki/catalog/`, `subtables/offer_subtable.rs` | offers and the catalogue hash of a CA | publish, re-key, hash | `Rotation` |
| Custodian swarm | `broadcast/custodian.rs`, `pki/swarm/`, `subtables/custodian_subtable.rs` | pending contracts, challenges, members and their file | petition, challenge, mock certificate, fetch and verify, join, remove, policy | `CustodianSwarm` |
| Anti-entropy | `net/router/{sync,anti_spam}.rs`, `storage/db/{sync,merkle}.rs` | pending nonces, saturation map, bans, `sync_offset` | range vectors, range request and answer, Merkle drill, bans | `AntiEntropy` |
| Clustering, reputation | `crypto/vote/{cluster,ponderation,lazy,consensus}` | cluster index, its worker and queue, scores | index a vote, rate a voter, punish its cluster, rebuild at open | `Reputation` |
| Phonebook | `net/phonebook.rs` | known addresses with key, role and score | upsert, score, load, dial list | `Reputation`; the seeds, as a constant, in `GossipRouter` |
| Proof engine | `proof/`, `ipc/handler/proof.rs` | none: the client keeps the challenge | challenge, detect the network, try its channels | `DomainProof` |
| TCP relay | `net/router/tcp/` | none | answer one request, fetch a certificate | the fetch, in `CustodianSwarm` |
| Frames, NAT | `net/{frame,nat}.rs` | none | encode, map a port | the network of each model |
| Certificates' layout | `pki/cert/` | none | build and parse DER | not modelled: data layout |
| Cryptography | `crypto/{identity,agility,gutenberg,pow}.rs` | keys | sign, verify, mine | symbolic |
| IPC, CLI, configuration | `net/ipc/mod.rs`, `cli/`, `config.rs` | none | dispatch one request to one handler | handlers, with their component |

How they interact. The UDP listener handles one packet at a time: the router
verifies it, filters it through the seen cache, hands it to a broadcast handler,
which changes a table and records the event in the log, and forwards it. Each IPC
request runs on a task of its own and changes the same tables; it then wakes the
broadcast task. A timer task pings the peers and prunes the tables, another task
re-sends what the node has published. An answer to a range request goes to
`append_event`, as does nothing else.

The listener awaits each handler: while one of them waits for a TCP answer or does a
job of reputation, no other packet is taken up, but IPC commands, timers and the
background worker go on. This is what `Daemon` composes.

### What is hard in it

* **Order and repetition.** Datagrams are lost, doubled and reordered. The log has
  a staging buffer for what comes too early, the vote chain has none.
* **Faulty originators.** An originator may sign two events for one number, or one
  with a broken link; a relay may set or clear the local flag.
* **Interleavings.** Votes, purges, CRLs and rotations are planned first, worked on for a
  long time, and inserted later; files are written from copies, after the lock is released.
* **Crashes and restarts.** Staging, cache, seen cache and peer table are in memory
  only; tables are rewritten as a whole; a torn table is read as an empty one.
* **Waiting with what was read.** A contract and its nonce are read, a certificate is
  fetched, a member is inserted; a score is read in one lock scope and written in
  another; a domain is classified and then looked up for half a minute.
* **Several files.** A rotation changes offers, declaration, strikes and history one
  after the other; the process may end between any two.
* **Time.** Peers live 90 s, seen entries an hour, the keep-alive has a period of
  30 s, and the difficulty of a vote depends on a sliding window.

Every hazard we found is listed with its line in `PROJECT.json`, each with the
properties that would catch it, or with the reason why none does yet.

### What makes each component correct

* Event log: chains have no gap or repetition; nothing but a flagged entry is ever
  replaced, and only by the linked truth; an honest originator is never flagged nor
  accused; a cached hash is the hash of the log; a restart keeps the ledger.
* Router: a message is handled once per life of its seen entry; live peers stay
  connected; dead ones are forgotten; a publication reaches the peers.
* Votes: every store is a chain in which each flip was paid for; a number is used
  once; a vote that comes in order is accepted.
* Anti-entropy: an answer without entries is the truth; an unanswered drill was
  not needed; a drill goes down the tree until the missing numbers are found.
* Purges and revocation: purges form one chain, of which each node holds a beginning; the
  number of a list never falls; a revoked certificate stays revoked; the files follow
  the tables.
* Rotation: proofs form one chain and share no key; the declared catalogue is that of the
  offers; keys agree with the proofs, on the disk too; strikes are cleared only by a
  complete rotation.
* Swarm: each member the owner admits within the terms it was challenged under, and by the
  answer to the challenge in force; never more members than the target; the file follows.
* Reputation: index and votes agree, under whatever spelling; two ways to compute a side
  agree; who was silenced weighs nothing.
* Domain proofs: what proves was served to this challenge; what is served all along
  is found.

## 2. The modules

| Module | What it is |
|---|---|
| `EventLog` | the log of one node, with its environment of delivering peers |
| `Ledger` | what that log promises about honest originators, abstractly |
| `GossipRouter` | routers, their timer tasks, a network, stops and starts |
| `VoteChain` | a voter with concurrent commands, replicas, files |
| `Authority` | an authority's declaration, purges, certificates and revocation lists, and what its peers hold of them |
| `Replicated` | a log that one writes and others copy, abstractly: what purges promise |
| `Rotation` | offers, key rotations, strikes, and the three files they are in |
| `Pki` | `Authority` and `Rotation` together: they share declaration and connections |
| `CustodianSwarm` | an owner and its custodians: delegation in four steps, commands, the file |
| `AntiEntropy` | two logs that are compared and completed |
| `Reputation` | the index, the scores and the phonebook of a node that receives votes |
| `DomainProof` | challenges, and the live check of a domain that changes meanwhile |
| `Daemon` | the four above in one process, with one listener |
| `MC*` | constants for TLC |
| `EventLogProofs`, `VoteChainProofs`, `GossipRouterProofs`, `PkiProofs`, `RotationProofs` | theorems about `EventLog`, `VoteChain`, `GossipRouter`, and about `Pki`: its authority, its offers |
| `DaemonProofs`, `ExchangeProofs` | theorems about `Daemon`: its domain proofs and its swarm; its synchronisation and its ratings, and the whole |
| `LinkedRecords` | lemmas about numbered records that name their predecessors, for votes and for purges |

Some definitions are preceded by one marked *Mutant*. It is the same operation
with a plausible mistake; nothing in the specification uses it. Putting it in the place of
the definition below it must make the named property fail (`mutants` in
`PROJECT.json`), which shows that the property depends on the code.

### EventLog

`log` is `event_log`, `disk` the file, `pending` the staging buffers, `cache` the
Merkle cache. `append_event` holds the write lock from its first read to its write to
the file, so it is one action, `AppendEvent`, with a disjunct for each of its
outcomes:

* `Stage`: the number is ahead; the entry waits, if there is room.
* `Extend`: the number is the expected one; the entry is flagged if its link is
  broken, appended, and the drain loop promotes what was staged behind it. The length
  of the promoted run and its flags are determined by the buffer; the quantifiers
  `\E n`, `\E bad` only name them, which keeps recursion out of the module.
* `Equivocate`: the number is taken by an entry of another hash; the incoming entry
  replaces a flagged one if it links, and a proof is appended in any case.
* `Discard`: nothing changes.

`RecordGossipEvent` is the entry for gossip frames: no link, no sequence check, no
clearing of the cache. `ComputeMerkle` fills the cache; the hash of a range is
the sequence of the hashes of its entries, which `InOrder` picks out of the log without
recursion. `Stop` and `Open` are the end
of the process and `Database::open`, which refuses a file with an entry that does not
verify. Signatures are checked before an action is taken; the constants
`Deliverable` and `Frames` hold what has a valid signature, and the assumption
`EventLogAssumption` says just that.

Two kinds of originators are told apart. `SyncedOnly(o)`: no gossip frame of `o` is
recorded, so its chain comes by synchronisation alone, and `o` signs no entry of the payload
type of a proof. `Honest(o)`: in addition it signed one
entry per number, linked, and relays did not flag it. The numbers in gossip frames
are constant per type of payload (`3` to `6`), so an originator whose
frames are recorded has no chain in this log to speak of; this is the
code's design. An entry of a proof's payload type that comes by synchronisation is left
out by the look-ups of the next number, the predecessor and the existing entry
(`storage/db/mod.rs:301-326`), but is appended like any other: it can be appended again and
again, and what is drained behind it links to the entry before it. The model delivers such
entries (`Recorded` and `Deliverable` have both kinds); the properties about gaps and links are
stated for originators that sign none.

### Ledger

For each honest originator, a prefix of its chain that only grows. `LedgerRefined`
in `EventLog` instantiates it with the part of the *file* that belongs to the originator,
so stopping and opening are stuttering steps, and a drain of any length is one `Learn`.

### GossipRouter

`peers` and `seen` map to ages, counted in keep-alive intervals. `Tick` makes
everything older and marks the keep-alive of every running node as due; `KeepAlive`
pings the table and then prunes both tables, in the order of the code; a restarted
node has empty tables and dials its seeds. A packet is handled by the one
`Receive*` action that fits it:

* `ReceiveHandshakeInit`, `ReceiveHandshakeResponse`: the peer enters the table.
* `ReceiveIgnored`: the signature does not verify, or the message is the node's own.
* `ReceiveSeen`: a duplicate; the sender's entry is renewed, nothing else.
* `ReceivePing`, `ReceivePublication`: marked as seen, handled, recorded, forwarded
  with a smaller ttl.

A message carries the ttl it was signed with (`signed`) and the ttl it has now; it
verifies only if they are equal. This is how `gossip.rs` builds the signed bytes.
`Publish` is the IPC command, `BroadcastTask` the task it wakes, which re-sends all
CAs the node knows, under its own key.

With `Timely`, packets arrive within one interval and are not lost (`Tick` waits for
them); otherwise they may be delayed, doubled (a packet received may stay in the
network) and lost. Ping numbers are taken modulo `PING_SEQS` to keep the state space
finite.

### VoteChain

One voter, its commands, its replicas. A vote has its predecessor as `prev` (in the
code: its hash) and the difficulty of its proof of work. `StartCast` reads the
store and begins to mine; `FinishCast`, `RepeatCast` and `RefuseCast` are the three
outcomes of `insert_vote`. The insert ends with the release of the lock, having a
snapshot in `writing`, and `Write` puts the snapshot in the file. `Broadcast` sends
the active votes; what was sent can be delivered at any time. `ReceiveAccepted` and
`ReceiveFlagged` are `handle_vote_packet`; `Forget` is the pruning of the seen cache
after an hour; `Restart` reads the file, or an empty table when the write was cut.

`IsChain` is a reference definition, written independently of `Validate`: it looks at
a whole set of votes and at what each of them should have been.

### Authority, Replicated

`busy` holds what each IPC connection is in the middle of, so that commands interleave
where the code releases its locks: `StartPurge` reads the chain and begins to mine,
`FinishPurge` or `RefusePurge` is `insert_purge`; the list a purge causes, or
`RevokeCert`, or `IssueCrl`, is numbered by `NumberList` and inserted by `FinishList`.
Each insert leaves its connection with a copy of the table (`Write`, `Exported`), which
`WriteFile` puts into `disk` later; the owner's listener does the same for what it receives
(`ListenerWrites`). `raced` remembers which files two writers have been at, for then
the older copy may be the last. `Outgoing` is what the broadcast task sends again and again, so
packets need no multiset: what is in it may arrive at any time, in any order, and again. Lists
replace each other and are kept in `sent`, as is what the owner loses by a restart (`Reload`): it
was sent before, and may come back. `ReceivePurge`, `ReceiveChain`, `ReceiveCrl` and
`ReceiveCa` are the branches of the dispatch. `IsPurgeChain` is a reference definition
of the chain and of the price of each purge; `Valid` is the code's.

`Replicated` is a log with a writer that adds a record (`Write`), saves a beginning of the log
(`Save`) and falls back to it (`Stop`), and copies that take the next of the records there ever
were (`Copy`); `PurgesReplicated` (in `Pki`) instantiates it with the owner's purges, the file of
the owner, the purges of all messages, and the peers' purges as the copies. After a
restart the owner may write another record under a number that a copy has: the copies are
beginnings of what was written, not all of the same log.

### Rotation, Pki

Each command is a sequence of steps, one for each lock scope or file write, in
`busy[c].op`: an offer is inserted, its catalogue hashed, declared, written; a rotation
reads the clock and makes its keys (`StartRotation`), looks up the last proof (`MakeProof`),
inserts its own, installs the keys, and writes offers and history, clearing the
strikes in between. `PublishCa` changes the declaration, and `WriteCa` its file.
`Restart` may come between any two and reads back the files.
`ProofsAreChains` also says that no two proofs share a key, and that the keys of a proof are
younger than those of every proof before it unless rotations overlapped (`Younger`), which
no insertion checks: it follows from when keys are made. Of two rotations at once, the
one that made its keys first may look up the other's proof and be the second of the chain;
only the times are checked then (`Follows`). `trouble` remembers whether commands
overlapped and whether a command was cut. The peers take proofs by `ImportProof`, in any
order; no node sends them.

`Pki` shares `ca`, `busy`, `commands` and `left` between the two, so that a purge, an
offer and a rotation run at once, and its `Restart` is that of both: the tables, the
declaration and the offers come back from their files, whatever these hold.

### CustodianSwarm

A contract arrives, is checked against policy, declaration and the size of the swarm
(`Acceptable`), and is staged or challenged with a new nonce. A worker with the offer
makes a mock certificate and sends a proof. `StartFetch` reads the contract, the time
and the nonce; the listener then waits (`listener`), and `Admit` inserts the member
with what was read. Between the two, commands change policy and declaration, remove
members, time passes, the worker restarts and loses its certificates. `Confirm` writes
the file and sends the activation. `terms` and `raced` are history.

An activation is handled by every node alike and is checked against the key of its
originator only (`broadcast/custodian.rs:452`). So `Elsewhere` has what other keys may sign,
`ActivateElsewhere` sends it, and it enters the table of a worker (`ReceiveActivation`) as well as
the owner's (`HearActivation`). `Heard` are the records of that kind; the properties about
members are about the others, those the owner admitted, and say so.

### AntiEntropy

An entry of an honest originator is its owner and its number: `EventLog` is about the
others. `Vector` is a page of originators, in the order of their keys (`Place`), from a
moving offset, `Offer` the entries
that are sent for a vector (one, as two never fit a packet), `HandleHalves` the drill
with its nonces and bans. The code makes a nonce pending only
while it handles the answer to a drill whose nonce was pending (`net/router/sync.rs:190`, `:236`);
a session that is begun from outside (`StartDrill`) has none, so `HandleHalves` bans
whoever answers, and the rest of it is never reached. Every message has the sequence number 1, so the seen cache
tells messages apart by sender and payload, and so does the model. `Pause` is more than
an hour of nothing, after which bans and seen entries are gone. `told` is history: what
the last answer of a node to a request held.

### Reputation

A vote is inserted with its index entry (`Accept`), then the voter is rated: `Rate` is
everything `compute_and_update_voter_ponderation` reads, `Write` what it writes and the
job it hands to the worker, or does itself when the queue is full. A penalty is read and
written in two lock scopes (`ReadScore`, `WriteScore`). What a score is made of is left
open: it is 0 for headless voters and equivocators and any of `Scored` otherwise, since the
properties tell no more apart. A key may have several entries in the phonebook, with different
scores, and a look-up returns any of them, as the order of a hash map does.

The vote table keeps a domain as it was written; the index, and every look-up by domain,
cleans it (`trim`, lower case). `Domains` are spellings, `Clean` cleans them, `Names` are the
clean ones: votes of a voter on two spellings are two active votes, and one entry of the index,
that of the later. At a start the index is filled from the vote file in no order
(`Filled`). Similarity looks at the first `SAMPLE` common domains. The instance has `GATE` 1,
`K0` 0 and `SAMPLE` 1 instead of 3, 5 and 64, as so many common domains are out of reach.

### DomainProof

`check.step` is where `verify_active_domain_control` is: the two resolvers, then the
channels of the network that was detected. Each look-up is an action, and `Change` may
come between any two: the operator publishes an answer, a server fails, the domain
stops resolving. `always` and `ever` are history: on which channels the answer could
be had throughout the check, and at some time in it. The daemon keeps no challenge: a client hands
one back, and may have written it (`Compose`), its end included. `Whole` says what DNS does to a
record of 273 characters: it is two character-strings, and neither is the record.

### Daemon

The variables of the parts are disjoint; what they share is the process. `ListenerFree`
guards everything the parts receive, and `Restart` ends and starts all of them at once.
`Scenarios` bounds which of the parts are busy in one behaviour.

## 3. The runs

| Run | Module and configuration | Distinct states | What it shows |
|---|---|---|---|
| `eventlog_sync` | `MCEventLog_sync.cfg` | 861,087 | all properties of the log, for chains that come by synchronisation, with gossip frames and an entry of a proof's payload type of a third originator |
| `router_timely` | `MCGossipRouter_timely.cfg` | 67,011 | connection, pruning and delivery (liveness) |
| `router_lossy` | `MCGossipRouter_lossy.cfg` | 355,000 | no double handling on a bad network |
| `votes_chains` | `MCVoteChain_chains.cfg` | 244,179 | races, loss, restarts of votes |
| `pki` | `MCPki_whole.cfg` | 660,529 | purges, lists, declarations, offers and rotations that race, replicate and are cut short, with their files |
| `daemon` | `MCDaemon_whole.cfg` | 250,408 | delegations, synchronisation, ratings and domain proofs in one process |
| `eventlog_proofs`, `eventlog_reopen`, `router_netwide`, `votes_redelivery`, `votes_disk`, `pki_revoked` | each with its cfg | | one documented statement each that the code does not keep: see 6 |

What the properties say:

* `SyncedChainGapFree`, `StagedAhead`: order of delivery, full buffers, truth
  replacement and restarts never leave a gap, a repetition, or an entry in the buffer
  that should have been promoted.
* `HonestNeverAccused`: no combination of the above flags, replaces or accuses an
  honest originator.
* `HonestCacheFresh`: a cached hash is never older than the log.
* `UnflaggedIsLinked`: of the entries an action adds, only those that link to their
  predecessor are without flag.
* `OnlyTruthReplaces`: a line of the file stays, or is replaced by the truth.
* `LedgerRefined`: the refinement of `Ledger`.
* `StayConnected`: two nodes that run for ever, one of which knows the other, end up
  in each other's table and stay there, through the race of ping and prune.
* `DeadPeerForgotten`: a peer that stopped leaves the table; so does the node itself,
  when it is its own seed.
* `PublicationDelivered`: what was published is recorded by every peer at some time,
  unless one of the two stops or the connection ends.
* `HandledOncePerWindow`: between two handlings of one message the seen entry has
  expired or the node has restarted.
* `StoresAreChains`, `OneVotePerNumber`, `InOrderAccepted`: concurrent commands,
  re-delivery, forgotten seen entries and torn files do not break a chain, do not
  make the voter issue two votes of one number (unless a restart lost a vote), and do
  not make a replica refuse a vote that comes in order.
* `PurgesAreChains`, `PurgesReplicated`: racing purges, packets in any order and restarts from an
  older file leave one chain, paid for, at every node and in the file; the copies only
  grow, by what the owner wrote.
* `NumbersNeverFall`: no race of revocations puts an older list in the place of a newer; only
  a restart does, between a list and its file or after a race of two writers.
* `FilesFollow`: the files of purges, chains and lists are their tables, once nobody is
  writing, unless two writers have been at one.
* `ProofsAreChains`, `CatalogAgrees`, `KeysAgree`, `ProofNeverAhead`, `StrikesStand`: what a
  rotation touches stays consistent, in memory where nothing overlapped, on the disk
  wherever the process ended; strikes do not go away otherwise.
* `WithinTerms`, `AnsweredLatest`: a member that the owner admitted met a policy its contract
  was challenged under, was in time, and answered the challenge in force, although the owner
  waits between reading and inserting. What other keys' activations told of is the exception.
* `FileFollows`: the file of the swarm is the swarm once nothing is being written,
  unless a removal overlapped another writer (then it need not be: see 6).
* `NothingOwed`: an answer without an entry means that there is none to send: who asked has all
  that the one who answers has.
* `SuppressedHadAll`: a drill that gets no answer came from a node that had the range.
* `IndexFollows`, `SilencedWeighsNothing`, `TrustAndConsensusAgree`: the index tells the last
  vote on a domain under any of its spellings (until a restart), a voter rated to nothing stays so against the
  penalties and ratings around it, and trust and consensus name the same side.
* `ProvedWasServed`, `SteadyAnswerFound`: whatever changes while a domain is looked up.

### Bounds, and why they are enough

* Log: three originators, one honest with a chain of four, one faulty with a broken
  link and a valid entry for one number, one that broadcasts a frame, which
  peers also relay flagged, and signs an entry of a proof's payload type. Two staging slots, so the buffer can be
  full while the honest chain needs it. `MaxLog` 5 lets a proof and
  a replacement follow each other. The network may deliver
  every entry any number of times.
* Router: two nodes, one stop and start, one publication; the time-outs are one
  or two intervals instead of 3 and 120, which makes expiry come at any moment of the
  exchange. The seed in `router_timely` also dials itself. Three nodes in
  `router_netwide`, the least number with two hops. `MaxRecorded` stops deliveries
  of publications that were recorded often enough.
* Votes: two commands, one replica, two domains, three casts after two votes of the
  past, so that flips raise the difficulty up to the limit (`BASE` 12, `MAX_DIFFICULTY` 17
  instead of 256 bits); two times and a window of 0, so that a vote leaves the window;
  one fault, a forgotten seen entry or a restart of any node at any point.
  The two commands are symmetric, and no liveness is checked in that run.
* Authority and offers: one peer, two domains of which one is permitted, times to live
  of 0 and 1, two connections. The budgets count purges, commands on certificates and lists,
  commands on offers, strikes and restarts: three purges and a restart; a purge beside two
  lists or certificates, or one of them and a restart; two of them and a restart, so that a list is
  lost between table and file; one of them, an offer and a restart; two offers or rotations, a
  strike and a restart; a purge, an offer and a strike. Two commands are
  the least that race, three the least for a second list or a third purge.
* Swarm: two workers, two shares and windows on either side of the policies' limits,
  a policy with a target of one. Two contracts in one wave, or one contract challenged
  twice with up to two commands and ticks around the fetch; one activation that another key signs
  beside a delegation, with a removal and a restart.
* Synchronisation: two nodes, two originators, pages of one originator, a buffer of one
  staged entry; each node has something the other lacks. Two sessions of either kind
  at once; drills of two and four numbers, so halves are drilled again.
* Ratings: two voters and the node's own key, one voter with two addresses; three spellings
  of two domains; a queue of one job; up to two votes from nothing, or one more where two
  voters have two each and agree on the domain that the sample has, so an opinion may change,
  and a penalty, a rating and an exposure fall together. `Scored` is one score low enough to
  cause a penalty.
* Domains: one of each kind, two challenges (one stale), one that the client wrote, three changes
  during a check.
* `Together`: a little of each part, with a restart in the middle of all.

Deadlock is checked in the runs of the log, the router and the votes. In `pki` and
`daemon` it is not: with the commands of a behaviour used up and no packet sent, the
system rests.

### Fairness

Only `GossipRouter` states some: weakly fair are the passing of time, the keep-alive
and the broadcast task of a node, and the reception *or loss* of the packets between
two nodes. The first three are tokio tasks that wait for an interval or a channel and
hold no lock across it; the listener is a loop that takes one datagram at a time. No
fairness is assumed for stopping, starting or publishing, nor that a packet
is received rather than lost: in the timely runs loss is excluded by the constant,
not by fairness.

`Authority` states none. Whether every purge arrives in the end does not follow from what the
code schedules: the broadcast task is woken by commands only (`main.rs:327`), sends the purges in
the order of a hash map (`purge_subtable.rs:162`), and one that comes before the purge it
follows is refused and then dropped by the seen cache for an hour. The models let packets
come at any time, or never.

## 4. The proofs

TLC checks the instances of section 3. TLAPS checks the theorems below for every value
of the constants: any number of nodes, connections, commands, entries, restarts, any
bound. A theorem here states the property of the run of the same name.

| Module | Theorem | Property |
|---|---|---|
| `EventLogProofs` | `TypeCorrect` | `TypeOK` |
| | `SyncedChainsHaveNoGap` | `SyncedChainGapFree` |
| | `StagedIsAhead` | `StagedAhead` |
| | `HonestIsNeverAccused` | `HonestNeverAccused` |
| | `HonestCacheStaysFresh` | `HonestCacheFresh` |
| | `UnflaggedEventsAreLinked` | `UnflaggedIsLinked` |
| | `OnlyTruthReplacesLines` | `OnlyTruthReplaces` |
| | `LogImplementsLedger` | `LedgerRefined` |
| `VoteChainProofs` | `VotesTyped` | `TypeOK` |
| | `StoresStayChains` | `StoresAreChains` |
| | `NumbersIssuedOnce` | `OneVotePerNumber` |
| | `InOrderIsAccepted` | `InOrderAccepted` |
| `GossipRouterProofs` | `RouterTyped` | `TypeOK` |
| | `MessagesHandledOnce` | `HandledOncePerWindow` |
| `PkiProofs` | `AuthorityTyped` | `TypeOK` |
| | `PurgesStayChains` | `PurgesAreChains` |
| | `ListNumbersRise` | `NumbersNeverFall` |
| | `PurgesAreReplicated` | `PurgesReplicated` |
| | `FilesFollowTables` | `FilesFollow` |
| `RotationProofs` | `ProofsStayChains` | `ProofsAreChains` |
| | `CatalogStaysDeclared` | `CatalogAgrees` |
| | `KeysStayAgreed` | `KeysAgree` |
| | `ProofsNeverAhead` | `ProofNeverAhead` |
| | `StrikesClearedRightly` | `StrikesStand` |
| `DaemonProofs` | `CheckProvesWhatWasServed` | `ProvedWasServed` |
| | `CheckFindsSteadyAnswer` | `SteadyAnswerFound` |
| | `MembersAreWithinTerms` | `WithinTerms` |
| | `FileFollowsSwarm` | `FileFollows` |
| | `MembersAnsweredLatest` | `AnsweredLatest` |
| `ExchangeProofs` | `SuppressedDrillsHadAll` | `SuppressedHadAll` |
| | `NothingIsOwed` | `NothingOwed` |
| | `IndexFollowsVotes` | `IndexFollows` |
| | `SilencedStaySilent` | `SilencedWeighsNothing` |
| | `TrustSidesWithConsensus` | `TrustAndConsensusAgree` |
| | `NodeTypeOK` | `TypeOK` |

So every safety property that a run checks is proved, invariants and action properties,
with both refinements; hardly any of them is inductive as it stands.

### What is assumed

Only the named assumptions of the modules, which TLC evaluates on every run:

* `EventLogAssumption`: delivered entries and frames have valid signatures, positive
  numbers and the fields of an entry, of either kind; `MAX_STAGED_EVENTS` is at least 1.
* `VoteAssumption`: replicas are finite and not the voter, times and bounds are natural.
  `PastAssumption`: the votes from before the behaviour are a chain of this voter,
  within the largest difficulty, as `insert_vote` leaves them.
* `RouterAssumption`: nodes are finite, seeds are nodes, time-outs are natural numbers.
* `PkiAssumption`: owner, peers and outsider differ, peers and connections are finite, the
  owner may speak of known domains only, the budgets count commands and restarts, the declaration
  from before the behaviour has one of the three states there are, and offers have numbers.
* `DaemonAssumption`: the two nodes differ, each part is given one of its budgets, and the
  assumptions of the parts: `SwarmAssumption` (owner and workers differ, shares are
  percentages, windows and policies numbers, as in `CustodianPolicy`, and other keys' activations
  name workers and no share), `AntiEntropyAssumption`
  (keys are ordered as numbers are and finitely many, the logs at the start have the events of
  each originator from 1 on without a gap, as `append_event` leaves them, ranges to drill into
  have more than one number), `ReputationAssumption` (finitely many voters and spellings, cleaning
  a clean spelling changes nothing, the node's own key is in no phonebook entry, scores are within
  100, the constants of the index have their ranges) and
  `ProofAssumption` (budgets and a time to live).

### EventLog

A gap-free log after a stop and an opening needs a gap-free *file*; a gap-free log after
a drain needs the staged entries to be ahead and to carry their own number; an honest
originator is not accused only if its chain in the log has no gap, for then a delivered
entry with a known number equals the logged one. The inductive invariant puts them together:

    IInv == TypeOK /\ MemoryIsFile /\ FileGapFree /\ FileHonest
              /\ StagingFinite /\ StagedAhead

`MemoryIsFile` says that a running node's log is its file and that a stopped node holds
nothing. Two lemmas say what the long actions leave: `ExtendAppends` (a run of
consecutive numbers, each linked or flagged, and as it was signed if the originator is
honest) and `EquivocateAppends` (the log, perhaps the truth in the place of a flagged
entry, and the proof; never of an honest originator). From these follow the steps of
the invariant, the two action properties, and `SameOwn`: no action but its own `Extend` touches
an honest originator's entries, so that neither its cached hash (`CacheStep`, with
`NoCacheWhenDown`) nor its part of the file changes. For the refinement, `NumberIsRank`
shows by a bijection that the position of an event in its originator's part is its number;
hence the part is a prefix of the signed chain, and `Extend` is a `Learn` of any length.

### VoteChain

`insert_vote` tests a vote's predecessor and that it costs enough, not that it costs what
it should. What makes the stores chains is that a vote names the vote before it, which
names the one before, so that there is only one chain it can follow (`SameLastSameChain` of
`LinkedRecords`): the one its price was computed from. The invariant says so of the
stores, files and snapshots, of what is being mined and of what was sent:

    IInv == Shapes /\ KeptEverywhere /\ CastRooted /\ SentRooted /\ SeenKnown /\ SentStored

`SentStored` is that, unless a restart lost votes, what was sent is in the voter's store;
with it two votes of one number are two votes of one chain.

### GossipRouter

    IInv == TypeOK /\ Shapes /\ Pruned /\ WakesCounted /\ WindowKept

`WindowKept` relates the history of what was handled to the seen cache: what was handled
within the window is in it, and no older there than since the handling. A handler only
runs for what is not in the cache; `Pruned` says that only a node whose keep-alive is due
holds an entry beyond its time, which is why the prune never takes one early.

### Pki

    IInv == Framed /\ Chained /\ Listed /\ Following /\ Learned

`Framed` is the shape of the state. `Chained` says that whatever holds purges holds a chain: each
node, the file, and each copy that a connection has yet to write, of which those of the owner
are beginnings of its table; and that a purge under way was planned on a chain that its
predecessor determines. Since a restart may take the owner back, a peer's chain need not be a
beginning of the owner's: what carries the proof is again `SameLastSameChain`, one chain for one
last purge, as for votes. `Listed` bounds
the numbers of lists, in memory, in the file and under way, by the commands there were: each
number was taken by one, and those that may still make one are counted. `Following` says where a
file can differ from its table, and `Learned` what peers know of the authority. The
refinement of `Replicated` follows from `Chained`: `FinishPurge` is a `Write`, the write of a
copy a `Save`, a restart a `Stop`, an accepted purge a `Copy`.

The properties of offers add, to `Framed`,

    OfferInv == Framed /\ Recorded /\ Flow /\ Rises /\ Keyed /\ Catalogued

`Recorded` says that there is a set of all the proofs there ever were, no two of which share a
key, that every history, on the disk and in copies too, is a chain of proofs of this set in the
order of their times, and that the keys of a rotation that has yet to make its proof are no
other's. `Rises` is that keys rise along them while no commands on offers have
overlapped. `Flow` is the heart: while no two commands on offers have
overlapped, at most one connection is in the middle of one, and what it is in the
middle of (`FlowOf`) tells exactly how memory and disk differ; in between they agree. Hence a
restart at any point reads back offers that are not behind the proofs, and strikes are
cleared only by a rotation that names every activated offer. `Keyed` and
`Catalogued` say the same of keys and the declared hash where no command was cut short.

### Daemon

A step of `Daemon` is a step of one part and leaves the variables of the others alone, except
a restart, which is a step of all; so each part has its own invariant of the whole
specification (`ProofInv`, `SwarmInv`, `SyncInv`, `VoteInv`), whose step is proved from the
part's own `Next` or from its variables being unchanged.

    ProofInv == ProofTypeOK /\ OnlyOffered /\ Tracked /\ PathSeen
                  /\ ProvedWasServed /\ SteadyAnswerFound

`Tracked` says that the history is right: what is noted as there all along still is, and what
is there is noted. `PathSeen` says what a check must have met to have come to each
step, which is the order of the look-ups in `verify_active_domain_control`.

    SwarmInv == SwarmTypeOK /\ WaitingOK /\ (each of the owner's tables is Sound)
                  /\ ToldOK /\ WritesOK

The owner's tables are the members in memory, in the file, and in every write under way. That
each of them is `Sound` is what a restart in the middle of a write needs. `WaitingOK`
relates what the listener holds while it fetches a certificate to the challenges: whatever
replaces a challenge is itself handled by the listener, which is busy. That is why a
member has answered the latest one.

    SyncInv == SyncTypeOK /\ ToldTrue /\ LogsInOrder /\ PagesOK

`ToldTrue` says
that the vectors under way, and what was taken down from them, never tell more than their
senders have, as logs only grow. It has one exception, which the attempt to prove it
without showed: the request for a single number, with which a drill ends, names
this number as known, so for the number 1 a node notes what the other lacks. No drill
is suppressed by that, since drills are for ranges of two numbers or more. `LogsInOrder` needs
that the numbers of an originator in its log are 1 to n (`NumbersInOrder`, by the least place
at which they are not) and that the run of staged events behind an entry ends (`BehindExists`, by
pigeonholes).

    VoteInv == VoteTypeOK /\ IndexFollows /\ SilenceInv /\ FinesOK

`SilenceInv` adds to the property that a penalty already read for a voter of weight zero
leaves it there; that is what happens between the two lock scopes of a penalty. `FinesOK` is that those
under punishment have votes, from the index, which is why an index that lags
behind would show here. For `TrustAndConsensusAgree` the weights are sums over any number of
voters: `SumsExist` shows that the fold of the module over a finite set is one, and natural, by the
smallest size of a set for which it would not be. What remains is an inequality about rounded
division (`RoundedSide`). The proof found the property false as it was first stated: the score is in
hundredths, so with weights of more than 10000 together it may be 50.00 although the
consensus takes a side. The instance is too small for that; the property now says so.

### What is only model-checked

Liveness: `StayConnected`, `DeadPeerForgotten`, `PublicationDelivered`.
Fairness and ENABLED are outside the prover.

What a recursive definition computes for every input would need induction over data,
which the prover cannot instantiate. The modules therefore have no recursion: a drain is
the run it promotes, a logarithm the number of powers below, a range of the log is
ordered by counting positions. Where a proof needs an induction it takes the least
counterexample, for which the library has a theorem about well-founded orders.


## 5. What is not modelled

The components without a module in section 1, and of the modelled ones:

* a write of a file that fails or is cut short (except the vote file), and the rewrite
  of the log after a replacement as separate writes;
* address announcements and the table of public addresses;
* time-stamps of packets, clocks that jump back (ages never wrap);
* the search for a nonce;
* purges of identities, which form no chain, and broadcasts of offers;
* the path checks and extensions of X.509, and the content of a capability proof;
* the rating of authorities, a statistic over the tables; and the arithmetic of a voter's score
  (volume, alignment, pace, affinity, concentration): it is any of a set, but for what voids it;
* restarts of an authority's peers, and their files;
* faulty originators in `AntiEntropy`, and a Merkle cache that is stale there (the log of
  a node with gossip frames may have one);
* `SetSeekingCustodians` as a read and a later write of the whole declaration, by which
  it can undo what an offer command set in between;
* the command-line client, packaging, configuration, NAT, framing.

## 6. Where the code and its documents disagree

Six runs end in a counterexample. Each states what a document or a comment says:

* `eventlog_proofs`: the hash that decides about equivocation covers the local flag,
  so an event that arrives with two flags is "double-signed"
  (`docs/changelog/1.x.x/1.1.x/1.1.5.md:12`, `storage/db/mod.rs:364`).
* `eventlog_reopen`: the proof is stored with a signature that does not cover it, and
  `Database::open` then refuses the file (`1.1.5.md:14`, `storage/db/mod.rs:416` and
  `:102`).
* `router_netwide`: a forwarded message has another ttl than the signed one, so it
  ends after one hop (`FUNCTIONALITIES.md:23`, `net/router/mod.rs:427`).
* `votes_redelivery`: a vote delivered twice flags its voter
  (`docs/specs/reputation/01_rep03_behavioral_ponderation_formula.md:85`,
  `broadcast/vote.rs:58`).
* `votes_disk`: the older of two snapshots may be written last
  (`subtables/vote_subtable.rs:21` and `:130`).
* `pki_revoked`: the list that a purge issues holds the certificates of its domain alone,
  and what was revoked before is valid again
  (`docs/changelog/4.x.x/4.0.x/4.0.0.md:11`, `ipc/handler/purge.rs:239`).

Other disagreements are stated as definitions of the modules, at their end, and TLC
refutes each on the instance of its module; no run is kept for them:

* `SwarmWithinTarget` (`CustodianSwarm`): the target size is the "maximum active worker
  count" (`3.7.0.md:84`), but is looked at when a contract comes, not when its worker
  joins: two contracts of one wave exceed a target of one.
* `LevelByLevel` (`AntiEntropy`): the tree is traversed "level-by-level to isolate missing
  sequence numbers" (`1.1.1.md:21`), but a nonce is made pending only behind the check that it
  is pending, so the first answer to a drill bans its sender and nothing is traversed
  (`net/router/sync.rs:190` and `:236`).
* `IndexOfActiveVotes` (`Reputation`): the index maps domains "to active voter decisions"
  (`crypto/vote/cluster/mod.rs:33`), but at a start the votes are fed to it in the order of a hash
  map, and any vote of a voter on a domain may be the last (`storage/db/mod.rs:131`).
* `EquivocatorWeighsNothing` (`Reputation`): equivocation "permanently zeros voting weight"
  (`ponderation.rs:147`), but a handshake makes a new entry with score 50
  (`phonebook.rs:116`), which lasts until the voter is rated again.
* `TxtProves` (`DomainProof`): control is proved "via DNS TXT" (`FUNCTIONALITIES.md:40`), but
  the record has 273 characters, a character-string of DNS at most 255, and
  `proof/dns.rs:228` makes a record of each; only a record handed in by the client is
  ever verified.
* `HandshakeFirst` (`DomainProof`): "Handshake first, Quad9 second" (the same line), but
  `resolve_network_type` asks upstream first.

And without a definition: behind the nonce check, for the number it has isolated a node asks with
a vector that names it as known (`net/router/sync.rs:216`), so this entry is the one that would not
come; a job that finds the queue full is done at once, ahead of the
older ones (`storage/db/mod.rs:186`), where `04_rep07` promises strict order; a domain with
a revoked and a valid chain is taken from the active ones (`ca_rating/mod.rs:148`) against
its comment; removals write the file of the swarm after the lock is released, so that
of two writers the older may be the last (`custodian_subtable.rs:71`), which `FileFollows`
excepts.

## 7. Plan

Every component whose behaviour is its own is modelled, and the safety properties of all runs
are proved. What is left:

1. An abstract specification of the swarm (who may be a member, from which answer) and of
   the votes (a register that a voter moves for a price), with their refinements.
2. A model of one subtable's load, insert and write as the abstraction the subtables
   share, with torn files.
3. `SetSeekingCustodians` as a read and a later write, and the log with a stale Merkle cache
   in `AntiEntropy`.

Modules meant for proofs use no RECURSIVE operators. Runs are kept below five minutes
on two cores.
