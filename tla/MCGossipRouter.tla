--------------------------- MODULE MCGossipRouter ---------------------------
(***************************************************************************)
(* Small instances of GossipRouter: a seed that also dials itself, and one *)
(* or two nodes that dial the seed and do not know of each other.          *)
(***************************************************************************)
EXTENDS GossipRouter

CONSTANTS seed, a, b, ca

Pair == {seed, a}
Star == {seed, a, b}
PairSeeds == [n \in Pair |-> {seed}]

\* A seed that knows no seed.
PlainStarSeeds == [n \in Star |-> {seed} \ {n}]

PlainPairSeeds == [n \in Pair |-> {seed} \ {n}]
MCPayloads == {ca}
MCOwner == [p \in MCPayloads |-> a]
=============================================================================
