----------------------------- MODULE MCEventLog -----------------------------
(***************************************************************************)
(* Small instances of EventLog: an honest originator that signs a chain of *)
(* four events, a faulty one, and a chatty one that broadcasts frames and  *)
(* signs an entry of the payload type of a proof.                          *)
(***************************************************************************)
EXTENDS EventLog

CONSTANTS honest, faulty, chatty, p1, p2

Chained(o, s, prev, p) ==
  [orig |-> o, seq |-> s, prev |-> prev, kind |-> "event", payload |-> p,
   sig |-> <<"chain", o, s, prev, "event", p>>, bad |-> FALSE]

h1 == Chained(honest, 1, ZeroHash, p1)
h2 == Chained(honest, 2, Hash(h1), p1)
h3 == Chained(honest, 3, Hash(h2), p1)
h4 == Chained(honest, 4, Hash(h3), p1)

\* The faulty originator signs b1, then three events for sequence 2: x2 has a
\* broken link, t2 and u2 the right one; t3 follows t2.
b1 == Chained(faulty, 1, ZeroHash, p1)
x2 == Chained(faulty, 2, ZeroHash, p1)
t2 == Chained(faulty, 2, Hash(b1), p2)
u2 == Chained(faulty, 2, Hash(b1), p1)
t3 == Chained(faulty, 3, Hash(t2), p1)

\* A gossip frame of a chatty originator, and how a peer relays its record.
Frame(o, s, p) ==
  [orig |-> o, seq |-> s, kind |-> "event", payload |-> p,
   sig |-> <<"frame", o, s, "event", p>>]
g3 == Frame(chatty, 3, p1)
r3 == Recorded(g3, FALSE)

\* Its own entry with the payload type of a proof, for the first number: however
\* often it is appended, the number stays the one expected.
q1 == [orig |-> chatty, seq |-> 1, prev |-> ZeroHash, kind |-> "proof", payload |-> p1,
       sig |-> <<"chain", chatty, 1, ZeroHash, "proof", p1>>, bad |-> FALSE]

MCOriginators == {honest, faulty}
AllOriginators == {honest, faulty, chatty}
MCRanges == {[start |-> 1, end |-> 3]}

LongChain == {h1, h2, h3, h4}
Forked == {b1, x2, t2, u2, t3}
SyncDeliverable == LongChain \cup Forked
\* Fewer faulty events, and the chatty originator's: its frame as a peer that has
\* flagged it relays it, and the proof of nothing.
MixedDeliverable == LongChain \cup {b1, x2, t2} \cup {q1, Flag(r3, TRUE)}
NoFrames == {}
OneFrame == {g3}
=============================================================================
