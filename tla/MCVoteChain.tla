---------------------------- MODULE MCVoteChain ----------------------------
(***************************************************************************)
(* Small instances of VoteChain: one voter, one replica, two domains.      *)
(***************************************************************************)
EXTENDS VoteChain, TLC

CONSTANTS alice, bob, c1, c2, apple, zebra, tw, utw

MCReplicas == {bob}
MCDomains == {apple, zebra}
OneCommand == {c1}
TwoCommands == {c1, c2}
Symmetry == Permutations(TwoCommands)
OneAction == {tw}
MCTimes == 0..1
OneTime == {0}

\* No vote yet, or two votes on one domain.
NoPast == {}
First == NewVote({}, apple, tw, 0)
MCPast == {First, NewVote({First}, apple, tw, 0)}
=============================================================================
