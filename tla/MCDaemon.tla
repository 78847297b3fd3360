------------------------------ MODULE MCDaemon ------------------------------
(***************************************************************************)
(* Small instances of Daemon: an owner with two workers, a peer with whom  *)
(* it synchronises, two voters, one of whom has two addresses, and a       *)
(* domain.                                                                 *)
(***************************************************************************)
EXTENDS Daemon, TLC

CONSTANTS owner, peer, w1, w2, none, ann, bob, me, a1, a2, b1

\* The swarm: a strict policy, a lax one, and one that leaves contracts to the operator.
MCWorkers == {w1, w2}
MCShares == {10, 40}
MCWindows == {1, 2}
Policy(share, ttl, size, auto) == [share |-> share, ttl |-> ttl, size |-> size, auto |-> auto]
Strict == Policy(30, 2, 1, TRUE)
Manual == Policy(50, 1, 2, FALSE)
MCPolicies == {Strict, Manual}
\* What another key may sign: that a worker was activated, under no contract of anyone.
MCElsewhere ==
  {[worker |-> w, share |-> 0, at |-> 9, contract |-> none, cert |-> none] : w \in MCWorkers}
Limits(k, c, o, r, t) ==
  [contracts |-> k, challenges |-> c, elsewhere |-> 0, commands |-> o, restarts |-> r,
   ticks |-> t]

\* The logs: each node lacks something of the other.
MCOriginators == {1, 2}
Log(k, l) ==
  [i \in 1..(k + l) |-> [orig |-> IF i <= k THEN 1 ELSE 2, seq |-> IF i <= k THEN i ELSE i - k]]
Ahead == owner :> Log(3, 1) @@ peer :> Log(0, 1)
Crossed == owner :> Log(2, 0) @@ peer :> Log(1, 2)
MCStarts == {Ahead, Crossed}
MCDrills == {[start |-> 1, end |-> 2], [start |-> 1, end |-> 4]}
Quota(r, d, p, s) == [requests |-> r, drills |-> d, pauses |-> p, restarts |-> s]

\* The votes.
MCVoters == {ann, bob, me}
\* The first domain has a spelling of its own.
MCDomains == 1..3
MCClean == <<1, 2, 1>>
MCScored == {20}
MCHomes == ann :> {a1, a2} @@ bob :> {b1} @@ me :> {}
Vote(d, a) == [domain |-> d, action |-> a]
NoBallots == ann :> <<>> @@ bob :> <<>> @@ me :> <<>>
\* Two who agree on the first domain only, which is all that the sample has.
Agreed == ann :> <<Vote(3, "tw"), Vote(2, "tw")>> @@ bob :> <<Vote(2, "utw"), Vote(1, "tw")>>
            @@ me :> <<>>
MCBallots == {NoBallots, Agreed}
Credit(v, f, g, r) == [votes |-> v, faults |-> f, greetings |-> g, restarts |-> r]

\* The domains, by the backends they need.
Effort(n, s, i, k, c, t) ==
  [name |-> n, support |-> s, challenges |-> i, edits |-> 0, checks |-> k, changes |-> c,
   ticks |-> t]
MCEnds == {0, 2}
NoProofs == Effort("plain", {}, 0, 0, 0, 0)

Looked(l, q, c, p, lg, e) ==
  [left |-> l, quota |-> q, credit |-> c, policy |-> p, log |-> lg, votes |-> NoBallots,
   effort |-> e]
Scenario(l, q, c, p, lg) == Looked(l, q, c, p, lg, NoProofs)
NoSwarm == Limits(0, 0, 0, 0, 0)
NoSync == Quota(0, 0, 0, 0)
NoVotes == Credit(0, 0, 0, 0)

\* Two contracts in the same wave; one contract challenged again, with commands between
\* the steps, or a restart; a member removed while the file is written; a
\* worker that another key activates as well.
Delegations ==
  {Scenario(l, NoSync, NoVotes, Strict, Ahead) :
     l \in {Limits(2, 2, 0, 0, 1), Limits(1, 2, 1, 0, 2), Limits(1, 1, 2, 0, 2)}}
  \cup {Scenario(Limits(1, 2, 1, 0, 2), NoSync, NoVotes, Manual, Ahead)}
  \cup {Scenario([Limits(1, 1, 1, 1, 0) EXCEPT !.elsewhere = 1], NoSync, NoVotes, Strict,
                 Ahead)}
\* Two sessions of either kind, forgetting what was seen, and the peer restarting.
Sessions ==
  {Scenario(NoSwarm, q, NoVotes, Strict, l) :
     q \in {Quota(2, 0, 0, 0), Quota(1, 1, 1, 0), Quota(2, 1, 0, 0), Quota(0, 1, 1, 0),
            Quota(1, 0, 0, 1)},
     l \in MCStarts}
\* Votes with handshakes and equivocations; one vote more where two voters agree.
Ratings ==
  {Scenario(NoSwarm, NoSync, c, Strict, Ahead) :
     c \in {Credit(2, 0, 1, 0), Credit(2, 1, 1, 0), Credit(1, 2, 2, 0)}}
  \cup {[Scenario(NoSwarm, NoSync, Credit(1, 1, 1, 0), Strict, Ahead) EXCEPT !.votes = Agreed]}
\* One challenge, checked twice, two of which one is stale, and one that the client wrote;
\* domains of every network.
Proofs ==
  {Looked(NoSwarm, NoSync, NoVotes, Strict, Ahead, e) :
     e \in {Effort("plain", {"hns"}, 1, 1, 3, 0), Effort("plain", {}, 1, 2, 1, 1),
            Effort("onion", {"tor"}, 2, 1, 3, 0), Effort("onion", {}, 1, 1, 0, 0),
            Effort("i2p", {"i2p"}, 2, 1, 2, 0),
            [Effort("onion", {"tor"}, 1, 1, 2, 1) EXCEPT !.edits = 1]}}
\* All together, and a restart in the middle of each.
Together ==
  {Scenario(Limits(1, 1, 0, 0, 0), Quota(1, 0, 0, 0), Credit(1, 0, 0, 0), Strict, Crossed),
   Scenario(Limits(1, 2, 0, 1, 1), Quota(0, 0, 0, 1), Credit(0, 0, 0, 1), Strict, Ahead),
   Scenario(Limits(0, 0, 0, 1, 0), Quota(1, 0, 0, 1), Credit(0, 0, 0, 1), Strict, Ahead),
   Scenario(Limits(0, 0, 0, 1, 0), Quota(0, 0, 0, 1), Credit(2, 0, 0, 1), Strict, Ahead),
   Looked(Limits(0, 0, 0, 1, 0), Quota(0, 0, 0, 1), Credit(0, 0, 0, 1), Strict, Ahead,
          Effort("plain", {"hns"}, 1, 2, 1, 0))}
MCScenarios == Delegations \cup Sessions \cup Ratings \cup Proofs \cup Together

MCBudgets == {s.left : s \in MCScenarios}
MCSyncBudgets == {s.quota : s \in MCScenarios}
MCVoteBudgets == {s.credit : s \in MCScenarios}
MCProofBudgets == {s.effort : s \in MCScenarios}
Symmetry == Permutations(MCWorkers) \cup Permutations({a1, a2})
=============================================================================
