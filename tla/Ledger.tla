------------------------------- MODULE Ledger -------------------------------
(***************************************************************************)
(* What a replica of the event log promises about an honest originator:    *)
(* its ledger is a prefix of the chain the originator signed, and it only  *)
(* grows.  The changelog 1.1.1 calls it "Per-Originator Monotonic          *)
(* Validation".  EventLog is shown to implement it.                        *)
(***************************************************************************)
EXTENDS Integers, Sequences

CONSTANTS
  Members,  \* the honest originators
  Signed    \* every event they have signed, one for each sequence number

VARIABLE ledger  \* for each member, its events this replica has, in order

Init == ledger = [o \in Members |-> <<>>]

\* A delivery extends one ledger with the events that come next in the chain.
Learn(o) ==
  /\ Len(ledger'[o]) > Len(ledger[o])
  /\ SubSeq(ledger'[o], 1, Len(ledger[o])) = ledger[o]
  /\ \A s \in 1..Len(ledger'[o]) :
        ledger'[o][s] \in Signed /\ ledger'[o][s].orig = o /\ ledger'[o][s].seq = s
  /\ \A m \in Members \ {o} : ledger'[m] = ledger[m]
  /\ DOMAIN ledger' = Members

Next == \E o \in Members : Learn(o)

Spec == Init /\ [][Next]_ledger
=============================================================================
