------------------------------- MODULE Daemon -------------------------------
(***************************************************************************)
(* One node at four of its tasks: it is the owner of an authority that     *)
(* recruits custodians, it synchronises its log with another node, it      *)
(* rates those whose votes it receives, and it looks up domains for its    *)
(* clients.  What comes from the network for the first three goes through  *)
(* one listener (main.rs), which awaits the handler of a packet before it  *)
(* takes up the next: while it waits for a mock certificate, or does the   *)
(* job of a worker whose queue is full, the others wait.  A domain is      *)
(* looked up on the task of its client.  When the process ends, it ends    *)
(* for all four.                                                           *)
(***************************************************************************)
EXTENDS Integers, FiniteSets, Sequences

CONSTANTS
  Owner, Workers, Capable, Stocked, Shares, Windows, Policies, Elsewhere, Budgets,
  Peer, Originators, Starts, MAX_STAGED_EVENTS, VectorSize, Drills, SyncBudgets,
  Voters, Self, Domains, Clean, Homes, Scored, GATE, K0, SAMPLE, THRESHOLD, QueueSize,
  Ballots, VoteBudgets,
  Lifetime, Ends, ProofBudgets,
  Scenarios  \* bounds: which limits of the four parts go together

VARIABLES
  now, seeking, policy, pending, challenges, listener, swarm, file, removals, mocks, net, left,
  terms, raced,
  log, staged, offset, offsetFile, saturated, nonces, banned, seen, packets, quota, told,
  votes, index, book, exposed, task, queue, credit, silenced, reopened,
  time, issued, site, check, effort

S == INSTANCE CustodianSwarm
E == INSTANCE AntiEntropy WITH Replicas <- {Owner, Peer}
R == INSTANCE Reputation
P == INSTANCE DomainProof

swarmVars == <<now, seeking, policy, pending, challenges, listener, swarm, file, removals, mocks,
               net, left, terms, raced>>
syncVars == <<log, staged, offset, offsetFile, saturated, nonces, banned, seen, packets, quota,
              told>>
voteVars == <<votes, index, book, exposed, task, queue, credit, silenced, reopened>>
proofVars == <<time, issued, site, check, effort>>
vars == <<swarmVars, syncVars, voteVars, proofVars>>

ASSUME DaemonAssumption ==
  /\ S!SwarmAssumption /\ E!AntiEntropyAssumption
  /\ R!ReputationAssumption /\ P!ProofAssumption
  /\ Peer # Owner
  /\ \A s \in Scenarios :
       /\ s.left \in Budgets /\ s.quota \in SyncBudgets /\ s.credit \in VoteBudgets
       /\ s.effort \in ProofBudgets

-----------------------------------------------------------------------------

\* The loop of main.rs awaits process_incoming_packet.
ListenerFree == listener = S!Free /\ task["listener"] = R!Idle

\* The process of the node ends, and starts again.
Restart == S!RestartOwner /\ E!Restart(Owner) /\ R!Reopen /\ P!Restart

Swarm ==
  /\ (ListenerFree /\ S!Receive) \/ S!Proceed \/ S!Beside
  /\ UNCHANGED <<syncVars, voteVars, proofVars>>

Synchronisation ==
  /\ (ListenerFree /\ E!Handle(Owner)) \/ E!Handle(Peer) \/ E!Begin
       \/ E!Restart(Peer) \/ \E n \in {Owner, Peer} : E!Pause(n)
  /\ UNCHANGED <<swarmVars, voteVars, proofVars>>

Rating ==
  /\ (ListenerFree /\ R!Receive) \/ R!Work
  /\ UNCHANGED <<swarmVars, syncVars, proofVars>>

Proving == P!Next /\ UNCHANGED <<swarmVars, syncVars, voteVars>>

Init ==
  /\ S!Init /\ E!Init /\ R!Init /\ P!Init
  /\ [left |-> left, quota |-> quota, credit |-> credit, policy |-> policy, log |-> log,
      votes |-> votes, effort |-> effort] \in Scenarios

Next == Swarm \/ Synchronisation \/ Rating \/ Proving \/ Restart

Spec == Init /\ [][Next]_vars

-----------------------------------------------------------------------------
(* What a run checks of the parts, each property stated where its part is.  *)

TypeOK == S!TypeOK /\ E!TypeOK /\ R!TypeOK
WithinTerms == S!WithinTerms
FileFollows == S!FileFollows
AnsweredLatest == S!AnsweredLatest
NothingOwed == E!NothingOwed
SuppressedHadAll == E!SuppressedHadAll
IndexFollows == R!IndexFollows
SilencedWeighsNothing == R!SilencedWeighsNothing
TrustAndConsensusAgree == R!TrustAndConsensusAgree
ProvedWasServed == P!ProvedWasServed
SteadyAnswerFound == P!SteadyAnswerFound
=============================================================================
