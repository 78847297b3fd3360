----------------------------- MODULE Replicated -----------------------------
(***************************************************************************)
(* A log that one node writes and others copy: each record has the number  *)
(* after that of the record before it, and names that record.  The writer  *)
(* adds one at a time, saves a beginning of its log now and then, and falls*)
(* back to what it saved when it stops; a copy takes a record that was     *)
(* written once and follows its own last one, though the writer may have   *)
(* lost it meanwhile.  Authority's purges are shown to implement it.       *)
(***************************************************************************)
EXTENDS Integers, FiniteSets

CONSTANTS
  Peers,     \* the nodes that copy
  NoRecord   \* what the first record names, numbered 0

VARIABLES
  log,      \* the writer's records
  saved,    \* the beginning of the log that a stop does not take away
  written,  \* all the records there ever were
  copies    \* those of each node

vars == <<log, saved, written, copies>>

Init == log = {} /\ saved = {} /\ written = {} /\ copies = [n \in Peers |-> {}]

\* The record with the highest number.
Newest(held) ==
  IF held = {} THEN NoRecord ELSE CHOOSE x \in held : \A y \in held : y.seq <= x.seq

Follows(x, held) == x.seq = Newest(held).seq + 1 /\ x.prev = Newest(held)

\* The writer adds the next record.
Write ==
  /\ \E x \in log' : /\ log' = log \cup {x} /\ Follows(x, log)
                     /\ written' = written \cup {x}
  /\ UNCHANGED <<saved, copies>>

\* It saves the log up to one of its records.
Save ==
  /\ \E n \in 0..Cardinality(log) : saved' = {x \in log : x.seq <= n}
  /\ UNCHANGED <<log, written, copies>>

\* It stops, and starts again with what was saved.
Stop == log' = saved /\ UNCHANGED <<saved, written, copies>>

\* A node takes the next record after those it has.
Copy(n) ==
  /\ \E x \in written : /\ Follows(x, copies[n])
                         /\ copies' = [copies EXCEPT ![n] = @ \cup {x}]
  /\ UNCHANGED <<log, saved, written>>

Next == Write \/ Save \/ Stop \/ \E n \in Peers : Copy(n)

Spec == Init /\ [][Next]_vars
=============================================================================
