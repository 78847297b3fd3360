--------------------------- MODULE CustodianSwarm ---------------------------
(***************************************************************************)
(* How an authority recruits custodians: the four steps of the delegation  *)
(* (net/router/broadcast/custodian.rs, pki/swarm), the operator's commands *)
(* (net/ipc/handler/custodian.rs), the fetch of the mock certificate       *)
(* (net/router/tcp) and the table with its file                            *)
(* (storage/db/subtables/custodian_subtable.rs).                           *)
(*                                                                         *)
(* The listener of a node handles one packet after the other: while it     *)
(* waits for a mock certificate, no packet is handled, but the operator's  *)
(* commands run, each on a task of its own, and time passes.               *)
(*                                                                         *)
(* A contract stands for its hash, and so does a mock certificate, of      *)
(* which the nonce in its name is kept.  Signatures are taken as sound.    *)
(* Contracts are carried to the network by a client: the command that      *)
(* signs one gives it back and sends nothing.                              *)
(***************************************************************************)
EXTENDS Integers, FiniteSets

CONSTANTS
  Owner,     \* the node of the authority
  Workers,   \* the other nodes
  Capable,   \* those with a published authority that covers the owner's networks
  Stocked,   \* those whose offer table has the offer the challenge names
  Shares,    \* the work shares contracts ask for
  Windows,   \* how long contracts are valid
  Policies,  \* the policies the operator may configure
  Elsewhere, \* the activations that other keys than the owner's may sign
  Budgets    \* bounds: how many contracts, challenges, activations elsewhere, commands,
             \* restarts and ticks there are

VARIABLES
  now,        \* the time of day
  seeking,    \* seeking_custodians of the declaration
  policy,     \* policy_store of the owner
  pending,    \* pending_contracts of the owner's router
  challenges, \* pending_challenges: the nonce of a contract
  listener,   \* what the owner's listener waits for
  swarm,      \* custodian_store of each node
  file,       \* custodians.json of the owner
  removals,   \* the copies that removals are still to write to the file
  mocks,      \* mock_cert_store of each worker
  net,        \* every message sent, for it may come late and again
  left,       \* how much there may still be of each kind
  terms,      \* history: the policies under which a contract was challenged
  raced       \* history: has a removal overlapped another writer of the file?

vars == <<now, seeking, policy, pending, challenges, listener, swarm, file, removals, mocks, net,
          left, terms, raced>>
network == <<pending, challenges, mocks, net, terms>>
settings == <<seeking, policy>>

Nodes == {Owner} \cup Workers

SwarmAssumption ==
  /\ Owner \notin Workers /\ Capable \subseteq Workers /\ Stocked \subseteq Workers
  /\ Shares \subseteq 0..100 /\ Windows \subseteq Nat \ {0}
  /\ \A p \in Policies : p.share \in Nat /\ p.ttl \in Nat /\ p.size \in Nat /\ p.auto \in BOOLEAN
  /\ \A r \in Elsewhere :
       /\ r.worker \in Workers /\ r.at \in Nat
       /\ r = [worker |-> r.worker, share |-> 0, at |-> r.at, contract |-> r.contract,
               cert |-> r.cert]
  /\ Budgets \subseteq [contracts : Nat, challenges : Nat, elsewhere : Nat, commands : Nat,
                       restarts : Nat, ticks : Nat]

Free == [op |-> "free"]

Spend(kind) == left[kind] > 0 /\ left' = [left EXCEPT ![kind] = @ - 1]
Message(kind, body) == [kind |-> kind, body |-> body]
Send(kind, body) == net' = net \cup {Message(kind, body)}
Arrived(kind) == {m.body : m \in {x \in net : x.kind = kind}}

-----------------------------------------------------------------------------
(* The operators' commands.                                                 *)

\* CustodianContract::new: a share within 100 and an end after the beginning.
NewContract(w, share, window) ==
  [worker |-> w, share |-> share, created |-> now, until |-> now + window]

\* handle PublishCustodianContract, and the client that sends what it answers.
PublishContract(w, share, window) ==
  /\ Spend("contracts")
  /\ Send("contract", NewContract(w, share, window))
  /\ UNCHANGED <<now, settings, pending, challenges, listener, swarm, file, removals, mocks, terms,
                 raced>>

\* ConfigureCustodianPolicy, with its file.
Configure(p) ==
  /\ p # policy
  /\ Spend("commands")
  /\ policy' = p
  /\ UNCHANGED <<now, seeking, network, listener, swarm, file, removals, raced>>

\* SetSeekingCustodians.
SetSeeking(wanted) ==
  /\ wanted # seeking
  /\ Spend("commands")
  /\ seeking' = wanted
  /\ UNCHANGED <<now, policy, network, listener, swarm, file, removals, raced>>

Without(members, w) == {r \in members : r.worker # w}

\* Mutant: the copy for the file is made before the worker is taken out.
RemovalCopyEarly(members, w) == members

\* remove_custodian makes the copy for the file under the lock.
RemovalCopy(members, w) == Without(members, w)

\* A second writer of the file is under way.
Writers == Cardinality(removals) + IF listener.op = "write" THEN 1 ELSE 0

\* RemoveCustodian of a member.
Remove(w) ==
  /\ \E r \in swarm[Owner] : r.worker = w
  /\ Spend("commands")
  /\ swarm' = [swarm EXCEPT ![Owner] = Without(@, w)]
  /\ removals' = removals \cup {RemovalCopy(swarm[Owner], w)}
  /\ raced' = (raced \/ Writers > 0)
  /\ UNCHANGED <<now, settings, network, listener, file>>

\* The file is written when the lock has been released.
WriteRemoval(members) ==
  /\ members \in removals
  /\ file' = members
  /\ removals' = removals \ {members}
  /\ UNCHANGED <<now, settings, network, listener, swarm, left, raced>>

-----------------------------------------------------------------------------
(* The four steps.                                                          *)

\* CustodianContract::is_expired, and the check of verify_against_contract.
Expired(k, t) == t > k.until

\* Mutant: the window of the commitment is not looked at.
AcceptableShort(k) ==
  /\ ~Expired(k, now)
  /\ seeking
  /\ k.worker \in Capable
  /\ k.share <= policy.share
  /\ Cardinality(swarm[Owner]) < policy.size

\* handle_custodian_contract_packet: what it drops in silence otherwise.
Acceptable(k) ==
  /\ ~Expired(k, now)
  /\ seeking
  /\ k.worker \in Capable
  /\ k.share <= policy.share
  /\ Cardinality(swarm[Owner]) < policy.size
  /\ k.until - k.created >= policy.ttl

\* Step 1: a contract is staged for a review that no command makes...
StageContract(k) ==
  /\ listener = Free /\ k \in Arrived("contract") /\ Acceptable(k)
  /\ ~policy.auto
  /\ pending' = pending \cup {k}
  /\ UNCHANGED <<now, settings, challenges, listener, swarm, file, removals, mocks, net, left,
                 terms, raced>>

\* ...or, step 2, challenged with a new nonce, which takes the place of a former one.
ChallengeWorker(k) ==
  /\ listener = Free /\ k \in Arrived("contract") /\ Acceptable(k)
  /\ policy.auto
  /\ Spend("challenges")
  /\ pending' = pending \cup {k}
  /\ challenges' = {c \in challenges : c.contract # k}
                     \cup {[contract |-> k, nonce |-> left.challenges]}
  /\ terms' = terms \cup {[contract |-> k, policy |-> policy]}
  /\ Send("request", [contract |-> k, nonce |-> left.challenges])
  /\ UNCHANGED <<now, settings, listener, swarm, file, removals, mocks, raced>>

\* build_mock_capability_certificate, with the nonce in the name.
MockCertificate(w, nonce) == [worker |-> w, nonce |-> nonce]

\* Step 3, handle_custodian_delegation_req_packet: a worker that has the offer stores
\* a mock certificate and sends its hash.
AnswerChallenge(w, request) ==
  LET cert == MockCertificate(w, request.nonce) IN
  /\ request \in Arrived("request")
  /\ request.contract.worker = w
  /\ w \in Stocked
  /\ mocks' = [mocks EXCEPT ![w] = @ \cup {cert}]
  /\ Send("proof", [worker |-> w, contract |-> request.contract, cert |-> cert])
  /\ UNCHANGED <<now, settings, pending, challenges, listener, swarm, file, removals, left, terms,
                 raced>>

\* Step 4, handle_ca_capabilities_proof_packet: the contract, the time and the nonce
\* are read, and then the listener waits for the mock certificate.
StartFetch(proof) ==
  /\ listener = Free
  /\ proof \in Arrived("proof")
  /\ proof.contract \in pending
  /\ ~Expired(proof.contract, now)
  /\ \E c \in challenges :
       /\ c.contract = proof.contract
       /\ listener' = [op |-> "fetch", proof |-> proof, at |-> now, nonce |-> c.nonce]
  /\ UNCHANGED <<now, settings, network, swarm, file, removals, left, raced>>

\* fetch_mock_cert gives up after its three attempts, or verification fails.
DropProof ==
  /\ listener.op = "fetch"
  /\ listener' = Free
  /\ UNCHANGED <<now, settings, network, swarm, file, removals, left, raced>>

\* Mutant: any certificate will do.
VerifiesAny(cert, nonce) == TRUE

\* verify_mock_capability_certificate.
Verifies(cert, nonce) == cert.nonce = nonce

\* verify_against_contract, of the confirmation the owner is about to sign.
Confirms(proof, at) ==
  proof.worker = proof.contract.worker /\ ~Expired(proof.contract, at)

\* Mutant: insert_custodian_record keeps the worker's former record.
InsertedTwice(members, r) == members \cup {r}

\* insert_custodian_record, in memory.
Inserted(members, r) == Without(members, r.worker) \cup {r}

\* What the worker's TCP server answers with: a certificate it holds in memory.
Served(proof) == proof.cert \in mocks[proof.worker]

\* The listener puts a record into the owner's table, with the file and what is to be sent
\* still to come.
Insert(r, sends) ==
  /\ swarm' = [swarm EXCEPT ![Owner] = Inserted(@, r)]
  /\ listener' = [op |-> "write", members |-> swarm'[Owner], sends |-> sends]
  /\ raced' = (raced \/ removals # {})
  /\ UNCHANGED <<now, settings, network, file, removals, left>>

\* The worker becomes a member: neither the contract, nor the policy, nor the size of
\* the swarm is looked at again.
Admit ==
  LET proof == listener.proof
      r == [worker |-> proof.worker, share |-> proof.contract.share, at |-> listener.at,
            contract |-> proof.contract, cert |-> proof.cert]
  IN
  /\ listener.op = "fetch"
  /\ Served(proof)
  /\ Verifies(proof.cert, listener.nonce)
  /\ Confirms(proof, listener.at)
  /\ Insert(r, {Message("activation", r)})

\* The file is written, and the activation of a worker that was admitted is sent.
Confirm ==
  /\ listener.op = "write"
  /\ file' = listener.members
  /\ net' = net \cup listener.sends
  /\ listener' = Free
  /\ UNCHANGED <<now, settings, pending, challenges, swarm, removals, mocks, left, terms, raced>>

\* What an activation tells of a member: its share is not in it.
Told(r) == [r EXCEPT !.share = 0]

\* Another key than the owner's signs an activation.
ActivateElsewhere(r) ==
  /\ Spend("elsewhere")
  /\ Send("elsewhere", r)
  /\ UNCHANGED <<now, settings, pending, challenges, listener, swarm, file, removals, mocks,
                 terms, raced>>

\* What others than the owner have told of members.
Heard == {Told(r) : r \in Arrived("elsewhere")}

\* handle_swarm_activation_packet: the signature has to be that of the packet's originator,
\* whoever that is, and nothing else is asked.
ReceiveActivation(w, r) ==
  /\ r \in Arrived("activation") \cup Arrived("elsewhere")
  /\ swarm' = [swarm EXCEPT ![w] = Inserted(@, Told(r))]
  /\ UNCHANGED <<now, settings, network, listener, file, removals, left, raced>>

\* The same handler at the owner, which process_incoming spares its own packets only.
HearActivation(r) ==
  /\ listener = Free
  /\ r \in Arrived("elsewhere")
  /\ Insert(Told(r), {})

-----------------------------------------------------------------------------

Tick ==
  /\ Spend("ticks")
  /\ now' = now + 1
  /\ UNCHANGED <<settings, network, listener, swarm, file, removals, raced>>

\* The owner's process ends and starts again; what its router held is gone.
RestartOwner ==
  /\ Spend("restarts")
  /\ pending' = {} /\ challenges' = {} /\ listener' = Free /\ removals' = {}
  /\ swarm' = [swarm EXCEPT ![Owner] = file]
  /\ UNCHANGED <<now, settings, file, mocks, net, terms, raced>>

\* A worker's mock certificates are in memory only.
RestartWorker(w) ==
  /\ Spend("restarts")
  /\ mocks' = [mocks EXCEPT ![w] = {}]
  /\ UNCHANGED <<now, settings, pending, challenges, listener, swarm, file, removals, net, terms,
                 raced>>

Init ==
  /\ now = 0
  /\ seeking = TRUE /\ policy \in Policies
  /\ pending = {} /\ challenges = {} /\ listener = Free
  /\ swarm = [n \in Nodes |-> {}] /\ file = {} /\ removals = {}
  /\ mocks = [w \in Workers |-> {}] /\ net = {}
  /\ left \in Budgets /\ terms = {} /\ raced = FALSE

\* What the owner's listener takes up, and what it has begun.
Receive ==
  \/ \E k \in Arrived("contract") : StageContract(k) \/ ChallengeWorker(k)
  \/ \E proof \in Arrived("proof") : StartFetch(proof)
  \/ \E r \in Arrived("elsewhere") : HearActivation(r)
Proceed == DropProof \/ Admit \/ Confirm

\* What goes on beside it: the other nodes, the operator, and time.
Beside ==
  \/ \E w \in Workers :
       \/ \E share \in Shares, window \in Windows : PublishContract(w, share, window)
       \/ Remove(w) \/ RestartWorker(w)
       \/ \E request \in Arrived("request") : AnswerChallenge(w, request)
       \/ \E r \in Arrived("activation") \cup Arrived("elsewhere") : ReceiveActivation(w, r)
  \/ \E r \in Elsewhere : ActivateElsewhere(r)
  \/ \E p \in Policies : Configure(p)
  \/ \E wanted \in BOOLEAN : SetSeeking(wanted)
  \/ \E members \in removals : WriteRemoval(members)
  \/ Tick

Next == Receive \/ Proceed \/ Beside \/ RestartOwner

Spec == Init /\ [][Next]_vars

-----------------------------------------------------------------------------
(* Properties.                                                              *)

\* However often activations and proofs come, a worker has one record in each table and
\* in the file, and a table holds only what some activation told.
TypeOK ==
  /\ \A members \in {swarm[n] : n \in Nodes} \cup {file} \cup removals :
       \A r, q \in members : r.worker = q.worker => r = q
  /\ \A w \in Workers : swarm[w] \subseteq {Told(r) : r \in Arrived("activation")} \cup Heard
  /\ \A c \in challenges : c.contract \in pending
  /\ listener.op = "fetch" => listener.proof.contract \in pending

\* Whatever is configured while a delegation is under way: the contract of a member that
\* the owner admitted met a policy it was challenged under, and was not over when the
\* member was activated.  Every other member is one that another key's activation told
\* of, and of which none of this holds.
WithinTerms ==
  \A r \in (swarm[Owner] \cup file) \ Heard :
    /\ r.at <= r.contract.until
    /\ \E t \in terms :
         /\ t.contract = r.contract /\ t.policy.auto
         /\ r.share <= t.policy.share
         /\ r.contract.until - r.contract.created >= t.policy.ttl

\* A worker that no other key activated becomes a member with the answer to the challenge
\* that is in force for its contract at that moment, although the owner reads the
\* challenge and then waits for the certificate: the answer to a challenge that was
\* replaced is worth nothing.
AnsweredLatest ==
  [][\A r \in (swarm'[Owner] \ swarm[Owner]) \ Heard :
       left'.restarts = left.restarts =>
         [contract |-> r.contract, nonce |-> r.cert.nonce] \in challenges]_vars

\* As long as no removal overlaps another writer, the file holds the swarm when no
\* write is under way, and a restart brings back who was a member.
FileFollows == ~raced /\ Writers = 0 => file = swarm[Owner]

-----------------------------------------------------------------------------
(* What the documentation says, and the code does not do: see README.       *)

\* "Maximum active worker count for this CA", under a policy that does not change.
SwarmWithinTarget == Cardinality(swarm[Owner]) <= policy.size
=============================================================================
