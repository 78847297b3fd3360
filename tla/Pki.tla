-------------------------------- MODULE Pki --------------------------------
(***************************************************************************)
(* An authority with its offers: Authority and Rotation share the          *)
(* declaration of the authority, whose status both kinds of commands       *)
(* depend on and whose catalogue offers and rotations set, and the         *)
(* connections and the number of the commands.                             *)
(***************************************************************************)
EXTENDS Integers, FiniteSets, Sequences

CONSTANTS
  Owner, Peers, Outsider, Domains, Permitted, Ttls, Strikes, Lists, Commands, BASE, UNILATERAL,
  CertTtl, NoCatalog, Before, MaxTime, Budgets, OfferIds, PublishedBefore

VARIABLES
  now, ca, declared, caFile, purges, chains, crl, disk, busy, listener, commands, left, sent,
  flagged, raced, offers, offersFile, history, historyFile, strikes, trouble

vars == <<now, ca, declared, caFile, purges, chains, crl, disk, busy, listener, commands, left,
          sent, flagged, raced, offers, offersFile, history, historyFile, strikes, trouble>>

A == INSTANCE Authority
R == INSTANCE Rotation

ASSUME PkiAssumption == A!AuthorityAssumption /\ R!RotationAssumption

Init == A!Init /\ R!InitOwn

\* The owner's process ends, wherever its commands and its listener are, and is started
\* again from its files.
Restart == R!Restart /\ A!Reload

Next ==
  \/ A!Next
     /\ UNCHANGED <<declared, caFile, offers, offersFile, history, historyFile, strikes, trouble>>
  \/ R!Next
     /\ UNCHANGED <<purges, chains, crl, disk, listener, sent, flagged, raced>>
  \/ Restart

Spec == Init /\ [][Next]_vars

-----------------------------------------------------------------------------
(* What a run checks of the two parts together.                             *)

\* The parts' properties, each stated where its part is.
TypeOK == A!TypeOK
PurgesAreChains == A!PurgesAreChains
NumbersNeverFall == A!NumbersNeverFall
FilesFollow == A!FilesFollow
PurgedStayRevoked == A!PurgedStayRevoked
ProofsAreChains == R!ProofsAreChains
CatalogAgrees == R!CatalogAgrees
KeysAgree == R!KeysAgree
ProofNeverAhead == R!ProofNeverAhead
StrikesStand == R!StrikesStand

\* The purges the owner ever held.
Written == {m.body : m \in {x \in A!InFlight : x.kind = "purge" /\ x.from = Owner}}

\* "Prevents purge omission, state fork equivocation, and out-of-order execution": the
\* owner's purges are a log to which one is added at a time, its file is a beginning of
\* the log, to which a restart takes it back, and each peer's copy only grows by a purge
\* that the owner held and that follows the copy's last one.
Log == INSTANCE Replicated
  WITH NoRecord <- A!NoPurge, log <- purges[Owner], saved <- disk["purges"],
       written <- Written, copies <- [n \in Peers |-> purges[n]]
PurgesReplicated == Log!Spec
=============================================================================
