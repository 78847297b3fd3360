------------------------------- MODULE MCPki -------------------------------
(***************************************************************************)
(* Small instances of Pki: an authority and one peer.                      *)
(***************************************************************************)
EXTENDS Pki, TLC

CONSTANTS ada, ben, client, c1, c2, apple, zebra, none

MCPeers == {ben}
MCDomains == {apple, zebra}
OneDomain == {apple}
MCTtls == {0, 1}
OneTtl == {1}
MCBefore == {"unknown", "public"}
Public == {"public"}
Unilateral == {FALSE}
NoLists == {}
EmptyList == {{}}
MCCommands == {c1, c2}
OneCommand == {c1}
NoOffers == {}
OneOffer == {0}
MCOffers == {0, 1}
Budget(p, c, o, s, r) ==
  [purges |-> p, certs |-> c, offers |-> o, strikes |-> s, restarts |-> r]
\* Purges that race, and lose their file; a purge between lists that race; lists, offers
\* and rotations that are cut short by a restart.
MCBudgets == {Budget(3, 0, 0, 0, 1), Budget(1, 2, 0, 0, 0), Budget(1, 1, 0, 0, 1),
              Budget(0, 2, 0, 0, 1), Budget(0, 1, 1, 0, 1), Budget(0, 0, 2, 1, 1),
              Budget(1, 0, 1, 1, 0)}
AuthorityOnly == {Budget(2, 2, 0, 0, 0)}
Symmetry == Permutations(MCCommands)
=============================================================================
