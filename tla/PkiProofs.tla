------------------------------ MODULE PkiProofs ------------------------------
(***************************************************************************)
(* Theorems about Pki's purges, revocation lists and their files, for any  *)
(* number of peers, connections, commands and restarts, and any times and  *)
(* prices.  (RotationProofs has those about its offers and rotations.)     *)
(*                                                                         *)
(* Why the purges of every node are a chain: a purge under way, or on its  *)
(* way, was priced for the chain its owner held when its command began, and*)
(* names the last purge of that chain; the last purge of a chain determines*)
(* the chain, so that a purge that fits the end of one is followed by what *)
(* it was priced for, even if the owner has lost it meanwhile.             *)
(***************************************************************************)
EXTENDS Pki, LinkedRecords

-----------------------------------------------------------------------------
(* The parts share the operators of the modules they are made of.           *)

LEMMA SameCardinality == \A S : A!Cardinality(S) = Cardinality(S)
  BY DEF A!Cardinality, Cardinality

LEMMA SameFinite == \A S : A!IsFiniteSet(S) = IsFiniteSet(S)
  BY DEF A!IsFiniteSet, IsFiniteSet

LEMMA LogCardinality == \A S : Log!Cardinality(S) = Cardinality(S)
  BY DEF Log!Cardinality, Cardinality

LEMMA SameNames == A!Nodes = R!Nodes /\ A!Idle = R!Idle
  BY DEF A!Nodes, R!Nodes, A!Idle, R!Idle

-----------------------------------------------------------------------------
(* What connections are in the middle of, and what commands are left.       *)

Statuses == {"unknown", "draft", "public"}
AuthorityOps == {"purge", "write", "purged", "list", "crl"}
Kinds == [purges : Nat, certs : Nat, offers : Nat, strikes : Nat, restarts : Nat]

Shapes ==
  /\ DOMAIN ca = A!Nodes /\ DOMAIN purges = A!Nodes /\ DOMAIN chains = A!Nodes
  /\ DOMAIN crl = A!Nodes /\ DOMAIN flagged = A!Nodes /\ DOMAIN busy = Commands
  /\ DOMAIN disk = {"purges", "chains", "crl"}

\* What a rotation does after its offers are persisted.
Rest(w) ==
  /\ w.op \in {"clear", "writeProofs"}
  /\ w = [op |-> w.op, proofs |-> w.proofs, then |-> A!Idle]

WorkOK(w) ==
  /\ w.op \in {"idle"} \cup AuthorityOps \cup {"publishCa"} \cup R!OfferOps
  /\ w.op = "idle" => w = A!Idle
  /\ w.op = "write" =>
       /\ w.file \in {"purges", "crl"}
       /\ w.then = A!Idle \/ w.then = [op |-> "purged", domain |-> w.then.domain]
  /\ w.op \in {"publishCa", "writeCa"} =>
       /\ w.file.status \in Statuses
       /\ w.then = A!Idle \/ w.then = [op |-> "snapshot", then |-> A!Idle]
  /\ w.op \in {"snapshot", "writeOffers"} => w.then = A!Idle \/ Rest(w.then)
  /\ w.op \in {"clear", "writeProofs"} => Rest(w)

WorksOK == \A c \in Commands : WorkOK(busy[c])

\* The owner's listener writes chains and lists, and does nothing after.
ListenerOK ==
  \/ listener = A!Idle
  \/ /\ listener.op = "write" /\ listener.file \in {"chains", "crl"}
     /\ listener.then = A!Idle

StatusOK == caFile.status \in Statuses /\ \A n \in A!Nodes : ca[n] \in Statuses

\* What there was at the start has been spent on commands, or is left.
Counted ==
  /\ left \in Kinds
  /\ commands \in Nat
  /\ \E b \in Budgets :
       commands + left.purges + left.certs + left.offers <= b.purges + b.certs + b.offers

\* Lists and the clients' chains are recorded when they are sent, and what the owner
\* holds when it is lost.
SentKinds ==
  \A m \in sent : \/ m.kind = "chain" /\ m.from \in {Outsider, Owner}
                  \/ m.kind = "crl" /\ m.from \in A!Nodes
                  \/ m.kind \in {"ca", "purge"} /\ m.from = Owner

Framed ==
  /\ Shapes /\ WorksOK /\ ListenerOK /\ StatusOK /\ Counted /\ SentKinds
  /\ now \in 0..MaxTime

LEMMA Assumptions ==
  /\ Owner \notin Peers /\ Outsider \notin {Owner} \cup Peers
  /\ IsFiniteSet(Peers) /\ IsFiniteSet(Commands)
  /\ Budgets \subseteq Kinds
  /\ Before \subseteq {"unknown", "draft", "public"} /\ Strikes \subseteq BOOLEAN
  /\ Permitted \subseteq Domains /\ Ttls \subseteq Nat
  /\ BASE \in Nat /\ UNILATERAL \in Nat /\ CertTtl \in Nat /\ MaxTime \in Nat
  /\ PublishedBefore \subseteq OfferIds /\ OfferIds \subseteq Nat
  BY PkiAssumption, SameFinite DEF A!AuthorityAssumption, R!RotationAssumption, Kinds

\* The work of a connection changes.
LEMMA WorkTaken ==
  ASSUME Framed, NEW c \in Commands, NEW w, A!Becomes(c, w) \/ R!Becomes(c, w)
  PROVE  /\ DOMAIN busy' = Commands /\ busy'[c] = w
         /\ \A d \in Commands \ {c} : busy'[d] = busy[d]
  BY DEF Framed, Shapes, A!Becomes, R!Becomes

LEMMA WorksTaken ==
  ASSUME Framed, NEW c \in Commands, DOMAIN busy' = Commands, WorkOK(busy'[c]),
         \A d \in Commands \ {c} : busy'[d] = busy[d]
  PROVE  WorksOK'
  BY DEF Framed, WorksOK

\* The works of the authority's part.
LEMMA AuthorityWorks ==
  /\ \A p : WorkOK([op |-> "purge", purge |-> p])
  /\ \A copy, d : WorkOK(A!Write("purges", copy, [op |-> "purged", domain |-> d]))
  /\ \A d : WorkOK([op |-> "purged", domain |-> d])
  /\ \A list : WorkOK([op |-> "list", serials |-> list])
  /\ \A list : WorkOK([op |-> "crl", list |-> list])
  /\ \A copy : WorkOK(A!Write("crl", copy, A!Idle))
  /\ WorkOK(A!Idle)
<1>1. \A p : WorkOK([op |-> "purge", purge |-> p])
  BY DEF WorkOK, AuthorityOps, A!Idle
<1>2. \A copy, d : WorkOK(A!Write("purges", copy, [op |-> "purged", domain |-> d]))
  BY DEF WorkOK, AuthorityOps, A!Write
<1>3. \A d : WorkOK([op |-> "purged", domain |-> d])
  BY DEF WorkOK, AuthorityOps, A!Idle
<1>4. \A list : WorkOK([op |-> "list", serials |-> list]) /\ WorkOK([op |-> "crl", list |-> list])
  BY DEF WorkOK, AuthorityOps, A!Idle
<1>5. \A copy : WorkOK(A!Write("crl", copy, A!Idle))
  BY DEF WorkOK, AuthorityOps, A!Write
<1>6. WorkOK(A!Idle)
  BY DEF WorkOK, A!Idle
<1>7. QED BY <1>1, <1>2, <1>3, <1>4, <1>5, <1>6

\* What is done after a file is written.
LEMMA AfterWrite ==
  ASSUME NEW w, WorkOK(w), w.op = "write"
  PROVE  /\ w.file \in {"purges", "crl"} /\ WorkOK(w.then)
         /\ w.then.op \in {"idle", "purged"}
<1>1. w.file \in {"purges", "crl"}
      /\ (w.then = A!Idle \/ w.then = [op |-> "purged", domain |-> w.then.domain])
  BY DEF WorkOK
<1>2. CASE w.then = A!Idle
  <2>1. w.then.op = "idle"
    BY <1>2 DEF A!Idle
  <2>2. QED BY <1>1, <1>2, <2>1, AuthorityWorks
<1>3. CASE w.then = [op |-> "purged", domain |-> w.then.domain]
  <2>1. w.then.op = "purged"
    BY <1>3
  <2>2. WorkOK([op |-> "purged", domain |-> w.then.domain])
    BY AuthorityWorks
  <2>3. QED BY <1>1, <1>3, <2>1, <2>2
<1>4. QED BY <1>1, <1>2, <1>3

LEMMA InitFramed == Init => Framed
<1> SUFFICES ASSUME Init PROVE Framed
  OBVIOUS
<1>1. PICK status \in Before : ca = [n \in A!Nodes |-> IF n = Owner THEN status ELSE "unknown"]
  BY DEF Init, A!Init
<1>2. Shapes
  BY <1>1 DEF Init, A!Init, Shapes
<1>3. WorksOK /\ ListenerOK
  BY DEF Init, A!Init, WorksOK, WorkOK, ListenerOK, A!Idle, R!OfferOps
<1>4. StatusOK
  BY <1>1, Assumptions DEF Init, R!InitOwn, StatusOK, Statuses, A!Nodes
<1>5. Counted
  <2>1. left \in Budgets /\ commands = 0
    BY DEF Init, A!Init
  <2>2. left \in Kinds
    BY <2>1, Assumptions
  <2>3. commands + left.purges + left.certs + left.offers <= left.purges + left.certs + left.offers
    BY <2>1, <2>2 DEF Kinds
  <2>4. QED BY <2>1, <2>2, <2>3 DEF Counted
<1>6. SentKinds /\ now \in 0..MaxTime
  BY Assumptions DEF Init, A!Init, SentKinds
<1>7. QED BY <1>2, <1>3, <1>4, <1>5, <1>6 DEF Framed

\* A command begins: what there was of its kind is less by one.
Spent ==
  /\ commands' = commands + 1
  /\ \/ left.purges > 0 /\ left' = [left EXCEPT !.purges = @ - 1]
     \/ left.certs > 0 /\ left' = [left EXCEPT !.certs = @ - 1]
     \/ left.offers > 0 /\ left' = [left EXCEPT !.offers = @ - 1]

LEMMA CountedBegin ==
  ASSUME Counted, Spent
  PROVE  Counted'
<1>1. PICK b \in Budgets :
        commands + left.purges + left.certs + left.offers <= b.purges + b.certs + b.offers
  BY DEF Counted
<1>2. b.purges \in Nat /\ b.certs \in Nat /\ b.offers \in Nat
  BY Assumptions DEF Kinds
<1>3. left \in Kinds /\ commands \in Nat
  BY DEF Counted
<1>4. left' \in Kinds
  BY <1>3 DEF Spent, Kinds
<1>5. commands' + left'.purges + left'.certs + left'.offers
        = commands + left.purges + left.certs + left.offers
  BY <1>3, <1>4 DEF Spent, Kinds
<1>6. commands' \in Nat
  BY <1>3 DEF Spent
<1>7. QED BY <1>1, <1>4, <1>5, <1>6 DEF Counted

LEMMA BeginsSpent ==
  /\ \A c : A!Begins(c, "purges") \/ A!Begins(c, "certs") => Spent
  /\ \A c : R!Begins(c) => Spent
  BY DEF A!Begins, R!Begins, Spent

\* A step of a command of the authority's part.
LEMMA AuthorityOperates ==
  ASSUME Framed, NEW c \in Commands, A!Operate(c)
  PROVE  /\ DOMAIN busy' = Commands /\ WorkOK(busy'[c])
         /\ \A d \in Commands \ {c} : busy'[d] = busy[d]
         /\ UNCHANGED <<ca, now, chains, flagged, listener>>
         /\ UNCHANGED <<commands, left>> \/ Spent
         /\ DOMAIN purges' = DOMAIN purges /\ DOMAIN crl' = DOMAIN crl
         /\ DOMAIN disk' = DOMAIN disk
         /\ \A m \in sent' : m \in sent \/ (m.kind = "chain" /\ m.from = Outsider)
<1>1. WorkOK(busy[c]) /\ DOMAIN busy = Commands
  BY DEF Framed, WorksOK, Shapes
<1>2. CASE \E d \in Domains, ttl \in Ttls, strike \in Strikes : A!StartPurge(c, d, ttl, strike)
  <2>1. PICK w : A!Becomes(c, w) /\ WorkOK(w)
    BY <1>2, AuthorityWorks DEF A!StartPurge
  <2>2. Spent
    BY <1>2, BeginsSpent DEF A!StartPurge
  <2>3. UNCHANGED <<now, ca, purges, chains, crl, disk, listener, sent, flagged>>
    BY <1>2 DEF A!StartPurge, A!stores
  <2>4. QED BY <2>1, <2>2, <2>3, WorkTaken
<1>3. CASE A!FinishPurge(c)
  <2>1. PICK w : A!Becomes(c, w) /\ WorkOK(w)
    BY <1>3, AuthorityWorks DEF A!FinishPurge
  <2>2. UNCHANGED <<now, ca, chains, crl, disk, listener, commands, left, sent, flagged>>
        /\ DOMAIN purges' = DOMAIN purges
    BY <1>3 DEF A!FinishPurge
  <2>3. QED BY <2>1, <2>2, WorkTaken
<1>4. CASE A!RefusePurge(c) \/ A!RefuseList(c)
  <2>1. A!Becomes(c, A!Idle)
        /\ UNCHANGED <<now, ca, purges, chains, crl, disk, listener, commands, left, sent, flagged>>
    BY <1>4 DEF A!RefusePurge, A!RefuseList, A!stores
  <2>2. QED BY <2>1, WorkTaken, AuthorityWorks
<1>5. CASE A!WriteFile(c)
  <2>1. A!Becomes(c, busy[c].then) /\ WorkOK(busy[c].then)
    BY <1>1, <1>5, AfterWrite DEF A!WriteFile
  <2>2. UNCHANGED <<now, ca, purges, chains, crl, listener, commands, left, sent, flagged>>
        /\ DOMAIN disk' = DOMAIN disk
    BY <1>5 DEF A!WriteFile
  <2>3. QED BY <2>1, <2>2, WorkTaken
<1>6. CASE A!RevokePurged(c)
  <2>1. PICK w : A!Becomes(c, w) /\ WorkOK(w)
    BY <1>6, AuthorityWorks DEF A!RevokePurged
  <2>2. UNCHANGED <<now, ca, purges, chains, crl, disk, listener, commands, left, sent, flagged>>
    BY <1>6 DEF A!RevokePurged, A!stores
  <2>3. QED BY <2>1, <2>2, WorkTaken
<1>7. ASSUME NEW s, A!StartRevoke(c, s) \/ A!StartIssue(c, s)
      PROVE  /\ \E w : A!Becomes(c, w) /\ WorkOK(w)
             /\ Spent
             /\ UNCHANGED <<now, ca, purges, chains, crl, disk, listener, sent, flagged>>
  BY <1>7, AuthorityWorks, BeginsSpent DEF A!StartRevoke, A!StartIssue, A!stores
<1>8. CASE \/ \E s \in {k.serial : k \in chains[Owner]} : A!StartRevoke(c, s)
           \/ \E list \in Lists : A!StartIssue(c, list)
  BY <1>7, <1>8, WorkTaken
<1>9. CASE A!NumberList(c)
  <2>1. PICK w : A!Becomes(c, w) /\ WorkOK(w)
    BY <1>9, AuthorityWorks DEF A!NumberList
  <2>2. UNCHANGED <<now, ca, purges, chains, crl, disk, listener, commands, left, sent, flagged>>
    BY <1>9 DEF A!NumberList, A!stores
  <2>3. QED BY <2>1, <2>2, WorkTaken
<1>10. CASE A!FinishList(c)
  <2>1. PICK w : A!Becomes(c, w) /\ WorkOK(w)
    BY <1>10, AuthorityWorks DEF A!FinishList
  <2>2. UNCHANGED <<now, ca, purges, chains, disk, listener, commands, left, sent, flagged>>
        /\ DOMAIN crl' = DOMAIN crl
    BY <1>10 DEF A!FinishList
  <2>3. QED BY <2>1, <2>2, WorkTaken
<1>11. CASE \E d \in Domains : A!GenerateCert(c, d)
  <2>1. PICK d \in Domains : A!GenerateCert(c, d)
    BY <1>11
  <2>2. Spent /\ UNCHANGED <<now, ca, purges, chains, crl, disk, busy, listener, flagged>>
        /\ sent' = sent \cup {A!Message("chain", Outsider, A!Certificate(d, commands'))}
    BY <2>1, BeginsSpent DEF A!GenerateCert, A!stores
  <2>3. \A m \in sent' : m \in sent \/ (m.kind = "chain" /\ m.from = Outsider)
    BY <2>2 DEF A!Message
  <2>4. QED BY <1>1, <2>2, <2>3
<1>12. QED
  BY <1>2, <1>3, <1>4, <1>5, <1>6, <1>8, <1>9, <1>10, <1>11 DEF A!Operate

\* A step of the authority's part.
LEMMA AuthorityFramed ==
  ASSUME Framed, A!Next, UNCHANGED caFile
  PROVE  Framed' /\ commands' >= commands
<1>1. /\ Shapes /\ WorksOK /\ ListenerOK /\ StatusOK /\ Counted /\ SentKinds
      /\ now \in 0..MaxTime /\ commands \in Nat
  BY DEF Framed, Counted
<1>2. CASE \E c \in Commands : A!Operate(c)
  <2>1. PICK c \in Commands : A!Operate(c)
    BY <1>2
  <2>2. WorksOK' /\ DOMAIN busy' = Commands
    BY <2>1, AuthorityOperates, WorksTaken
  <2>3. Counted' /\ commands' >= commands
    BY <1>1, <2>1, AuthorityOperates, CountedBegin DEF Counted, Spent
  <2>4. Shapes'
    BY <1>1, <2>1, <2>2, AuthorityOperates DEF Shapes
  <2>5. StatusOK' /\ SentKinds' /\ ListenerOK' /\ now' \in 0..MaxTime
    BY <1>1, <2>1, AuthorityOperates DEF StatusOK, SentKinds, ListenerOK
  <2>6. QED BY <2>2, <2>3, <2>4, <2>5 DEF Framed
<1>3. CASE \E n \in A!Nodes : A!BroadcastCrl(n)
  <2>1. PICK n \in A!Nodes : A!BroadcastCrl(n)
    BY <1>3
  <2>2. UNCHANGED <<now, ca, purges, chains, crl, disk, busy, listener, commands, left, flagged>>
        /\ sent' = sent \cup {A!Message("crl", n, crl[n])}
    BY <2>1 DEF A!BroadcastCrl, A!stores
  <2>3. SentKinds'
    BY <1>1, <2>2 DEF SentKinds, A!Message
  <2>4. QED BY <1>1, <2>2, <2>3 DEF Framed, Shapes, WorksOK, ListenerOK, StatusOK, Counted
<1>4. CASE \E n \in A!Nodes, m \in A!InFlight : A!Receive(n, m)
  <2>1. PICK n \in A!Nodes, m \in A!InFlight : A!Receive(n, m)
    BY <1>4
  <2>2. UNCHANGED <<now, busy, commands, left, sent, disk>>
    BY <2>1 DEF A!Receive, A!ReceiveCa, A!ReceiveChain, A!ReceiveCrl, A!ReceivePurge, A!stores
  <2>3. ca' = ca \/ ca' = [ca EXCEPT ![n] = "public"]
    BY <2>1 DEF A!Receive, A!ReceiveCa, A!ReceiveChain, A!ReceiveCrl, A!ReceivePurge
  <2>4. Shapes'
    <3>1. DOMAIN purges' = DOMAIN purges /\ DOMAIN chains' = DOMAIN chains
          /\ DOMAIN crl' = DOMAIN crl /\ DOMAIN flagged' = DOMAIN flagged
      BY <1>1, <2>1 DEF Shapes, A!Receive, A!ReceiveCa, A!ReceiveChain, A!ReceiveCrl,
         A!ReceivePurge, A!Flag, A!stores
    <3>2. QED BY <1>1, <2>2, <2>3, <3>1 DEF Shapes
  <2>5. StatusOK'
    BY <1>1, <2>1, <2>3 DEF StatusOK, Statuses, Shapes
  <2>6. ListenerOK'
    <3>1. CASE UNCHANGED listener
      BY <1>1, <3>1 DEF ListenerOK
    <3>2. CASE \E file \in {"chains", "crl"} : \E copy : listener' = A!Write(file, copy, A!Idle)
      BY <3>2 DEF ListenerOK, A!Write
    <3>3. QED
      BY <2>1, <3>1, <3>2 DEF A!Receive, A!ReceiveCa, A!ReceiveChain, A!ReceiveCrl,
         A!ReceivePurge, A!Listens
  <2>7. QED BY <1>1, <2>2, <2>4, <2>5, <2>6 DEF Framed, WorksOK, Counted, SentKinds
<1>5. CASE A!ListenerWrites
  <2>1. UNCHANGED <<now, ca, purges, chains, crl, busy, commands, left, sent, flagged>>
        /\ DOMAIN disk' = DOMAIN disk
    BY <1>5 DEF A!ListenerWrites
  <2>2. ListenerOK'
    BY <1>1, <1>5 DEF A!ListenerWrites, ListenerOK, A!Idle
  <2>3. QED BY <1>1, <2>1, <2>2 DEF Framed, Shapes, WorksOK, StatusOK, Counted, SentKinds
<1>6. CASE A!Tick
  <2>1. UNCHANGED <<ca, purges, chains, crl, disk, busy, listener, commands, left, sent, flagged>>
        /\ now' \in 0..MaxTime
    BY <1>1, <1>6, Assumptions DEF A!Tick, A!stores
  <2>2. QED BY <1>1, <2>1 DEF Framed, Shapes, WorksOK, ListenerOK, StatusOK, Counted, SentKinds
<1>7. QED BY <1>2, <1>3, <1>4, <1>5, <1>6 DEF A!Next

\* The works of the part of the offers.
LEMMA OfferWorks ==
  /\ \A s \in Statuses : \A k :
       /\ WorkOK([op |-> "publishCa", file |-> [status |-> s, catalog |-> k], then |-> A!Idle])
       /\ WorkOK([op |-> "writeCa", file |-> [status |-> s, catalog |-> k],
                  then |-> [op |-> "snapshot", then |-> A!Idle]])
  /\ \A i, draft : WorkOK([op |-> "offer", id |-> i, draft |-> draft])
  /\ \A k : WorkOK([op |-> "declare", catalog |-> k])
  /\ \A k, t : WorkOK([op |-> "keys", keys |-> k, time |-> t])
  /\ \A p : WorkOK([op |-> "proof", proof |-> p])
  /\ \A p, s : WorkOK([op |-> "install", proof |-> p, proofs |-> s])
  /\ WorkOK(R!Idle)
<1>1. \A s \in Statuses : \A k :
        WorkOK([op |-> "publishCa", file |-> [status |-> s, catalog |-> k], then |-> A!Idle])
  BY DEF WorkOK, R!OfferOps, A!Idle
<1>2. \A s \in Statuses : \A k :
        WorkOK([op |-> "writeCa", file |-> [status |-> s, catalog |-> k],
                then |-> [op |-> "snapshot", then |-> A!Idle]])
  BY DEF WorkOK, R!OfferOps, A!Idle
<1>3. /\ \A i, draft : WorkOK([op |-> "offer", id |-> i, draft |-> draft])
      /\ \A k : WorkOK([op |-> "declare", catalog |-> k])
      /\ \A k, t : WorkOK([op |-> "keys", keys |-> k, time |-> t])
      /\ \A p : WorkOK([op |-> "proof", proof |-> p])
      /\ \A p, s : WorkOK([op |-> "install", proof |-> p, proofs |-> s])
  BY DEF WorkOK, R!OfferOps, A!Idle
<1>4. WorkOK(R!Idle)
  BY AuthorityWorks, SameNames
<1>5. QED BY <1>1, <1>2, <1>3, <1>4

LEMMA RestWorks ==
  ASSUME NEW w, w = A!Idle \/ Rest(w)
  PROVE  /\ WorkOK(w) /\ w.op \in {"idle", "clear", "writeProofs"}
         /\ WorkOK([op |-> "snapshot", then |-> w])
         /\ \A held : WorkOK([op |-> "writeOffers", offers |-> held, then |-> w])
<1>1. w.op \in {"idle", "clear", "writeProofs"}
  BY DEF Rest, A!Idle
<1>2. WorkOK(w)
  BY <1>1 DEF WorkOK, R!OfferOps, Rest, A!Idle
<1>3. WorkOK([op |-> "snapshot", then |-> w])
  BY DEF WorkOK, R!OfferOps
<1>4. \A held : WorkOK([op |-> "writeOffers", offers |-> held, then |-> w])
  BY DEF WorkOK, R!OfferOps
<1>5. QED BY <1>1, <1>2, <1>3, <1>4

LEMMA RestShapes ==
  /\ \A s : Rest([op |-> "clear", proofs |-> s, then |-> A!Idle])
  /\ \A s : Rest([op |-> "writeProofs", proofs |-> s, then |-> A!Idle])
  /\ \A w : Rest(w) => [w EXCEPT !.op = "writeProofs"]
                         = [op |-> "writeProofs", proofs |-> w.proofs, then |-> A!Idle]
  BY DEF Rest

\* What is done after the declaration is written.
LEMMA AfterWriteCa ==
  ASSUME NEW w, WorkOK(w), w.op \in {"publishCa", "writeCa"}
  PROVE  WorkOK(w.then) /\ w.then.op \in {"idle", "snapshot"} /\ w.file.status \in Statuses
<1>1. w.file.status \in Statuses
      /\ (w.then = A!Idle \/ w.then = [op |-> "snapshot", then |-> A!Idle])
  BY DEF WorkOK
<1>2. CASE w.then = A!Idle
  <2>1. w.then.op = "idle"
    BY <1>2 DEF A!Idle
  <2>2. QED BY <1>1, <1>2, <2>1, AuthorityWorks
<1>3. CASE w.then = [op |-> "snapshot", then |-> A!Idle]
  <2>1. WorkOK([op |-> "snapshot", then |-> A!Idle])
    BY RestWorks
  <2>2. w.then.op = "snapshot"
    BY <1>3
  <2>3. QED BY <1>1, <1>3, <2>1, <2>2
<1>4. QED BY <1>1, <1>2, <1>3

\* A step of the part of the offers: it takes nothing of the authority's.
OfferStep == R!Next /\ UNCHANGED <<purges, chains, crl, disk, listener, sent, flagged, raced>>

OfferWork(w) == w.op \in {"idle", "publishCa"} \cup R!OfferOps

LEMMA OfferOperates ==
  ASSUME Framed, NEW c \in Commands, R!Operate(c)
  PROVE  /\ DOMAIN busy' = Commands /\ WorkOK(busy'[c])
         /\ \A d \in Commands \ {c} : busy'[d] = busy[d]
         /\ OfferWork(busy[c]) /\ OfferWork(busy'[c])
         /\ DOMAIN ca' = A!Nodes /\ ca'[Owner] \in Statuses /\ \A n \in Peers : ca'[n] = ca[n]
         /\ caFile'.status \in Statuses
         /\ UNCHANGED <<commands, left>> \/ Spent
         /\ UNCHANGED now
<1>1. /\ Shapes /\ WorksOK /\ StatusOK /\ Owner \in A!Nodes
      /\ ca[Owner] \in Statuses /\ WorkOK(busy[c])
  BY DEF Framed, StatusOK, A!Nodes, WorksOK
<1>2. CASE \E status \in {"draft", "public"} : R!PublishCa(c, status)
  <2>1. PICK status \in {"draft", "public"} : R!PublishCa(c, status)
    BY <1>2
  <2>2. ca' = [ca EXCEPT ![Owner] = R!Status(ca[Owner], status)]
    BY <2>1 DEF R!PublishCa
  <2>3. /\ DOMAIN ca' = A!Nodes /\ ca'[Owner] \in Statuses
        /\ \A n \in Peers : ca'[n] = ca[n]
    BY <1>1, <2>2, Assumptions DEF Shapes, R!Status, Statuses, A!Nodes
  <2> DEFINE w == [op |-> "publishCa", file |-> [status |-> ca'[Owner], catalog |-> declared],
                   then |-> A!Idle]
  <2>4. R!Becomes(c, w) /\ w.op = "publishCa"
    BY <2>1, SameNames DEF R!PublishCa, R!Declaration
  <2>5. Spent /\ UNCHANGED <<now, caFile>> /\ busy[c] = A!Idle
    BY <2>1, BeginsSpent, SameNames DEF R!PublishCa, R!files, R!Begins
  <2>6. WorkOK(w)
    BY <2>3, OfferWorks
  <2> HIDE DEF w
  <2>7. OfferWork(busy[c]) /\ OfferWork(w)
    BY <2>4, <2>5 DEF OfferWork, A!Idle
  <2>8. QED BY <1>1, <2>3, <2>4, <2>5, <2>6, <2>7, WorkTaken DEF StatusOK
<1>3. ASSUME NEW w, R!Becomes(c, w), WorkOK(w), OfferWork(w), OfferWork(busy[c]),
             UNCHANGED <<ca, now>>, caFile' = caFile \/ caFile'.status \in Statuses,
             UNCHANGED <<commands, left>> \/ Spent
      PROVE  /\ DOMAIN busy' = Commands /\ WorkOK(busy'[c])
             /\ \A d \in Commands \ {c} : busy'[d] = busy[d]
             /\ OfferWork(busy[c]) /\ OfferWork(busy'[c])
             /\ DOMAIN ca' = A!Nodes /\ ca'[Owner] \in Statuses /\ \A n \in Peers : ca'[n] = ca[n]
             /\ caFile'.status \in Statuses
             /\ UNCHANGED <<commands, left>> \/ Spent
             /\ UNCHANGED now
  BY <1>1, <1>3, WorkTaken DEF Shapes, StatusOK
<1>4. CASE \E i \in OfferIds, draft \in BOOLEAN : R!StartOffer(c, i, draft)
  <2>1. PICK w : R!Becomes(c, w) /\ WorkOK(w) /\ OfferWork(w)
    BY <1>4, OfferWorks DEF R!StartOffer, OfferWork, R!OfferOps
  <2>2. Spent /\ UNCHANGED <<ca, now, caFile>> /\ busy[c].op = "idle"
    BY <1>4, BeginsSpent DEF R!StartOffer, R!files, R!Begins, R!Idle
  <2>3. QED BY <1>3, <2>1, <2>2 DEF OfferWork
<1>5. CASE R!InsertOffer(c)
  <2>1. PICK w : R!Becomes(c, w) /\ WorkOK(w) /\ OfferWork(w)
    BY <1>5, OfferWorks DEF R!InsertOffer, OfferWork, R!OfferOps
  <2>2. UNCHANGED <<ca, now, caFile, commands, left>> /\ OfferWork(busy[c])
    BY <1>5 DEF R!InsertOffer, R!files, OfferWork, R!OfferOps
  <2>3. QED BY <1>3, <2>1, <2>2
<1>6. CASE R!DeclareCatalog(c)
  <2> DEFINE w == [op |-> "writeCa", file |-> [status |-> ca[Owner], catalog |-> declared'],
                   then |-> [op |-> "snapshot", then |-> A!Idle]]
  <2>1. R!Becomes(c, w) /\ w.op = "writeCa"
    BY <1>6, SameNames DEF R!DeclareCatalog, R!Declaration
  <2>2. WorkOK(w)
    BY <1>1, OfferWorks
  <2> HIDE DEF w
  <2>3. OfferWork(w) /\ UNCHANGED <<ca, now, caFile, commands, left>> /\ OfferWork(busy[c])
    BY <1>6, <2>1 DEF R!DeclareCatalog, R!files, OfferWork, R!OfferOps
  <2>4. QED BY <1>3, <2>1, <2>2, <2>3
<1>7. CASE R!WriteCa(c)
  <2>1. /\ WorkOK(busy[c].then) /\ busy[c].then.op \in {"idle", "snapshot"}
        /\ busy[c].file.status \in Statuses /\ caFile' = busy[c].file
        /\ R!Becomes(c, busy[c].then)
    BY <1>1, <1>7, AfterWriteCa DEF R!WriteCa
  <2>2. UNCHANGED <<ca, now, commands, left>> /\ OfferWork(busy[c])
    BY <1>7 DEF R!WriteCa, OfferWork, R!OfferOps
  <2>3. QED BY <1>3, <2>1, <2>2 DEF OfferWork, R!OfferOps
<1>8. CASE R!SnapshotOffers(c)
  <2>1. WorkOK([op |-> "writeOffers", offers |-> offers, then |-> busy[c].then])
    BY <1>1, <1>8, RestWorks DEF R!SnapshotOffers, WorkOK
  <2>2. PICK w : R!Becomes(c, w) /\ WorkOK(w) /\ OfferWork(w)
    BY <1>8, <2>1 DEF R!SnapshotOffers, OfferWork, R!OfferOps
  <2>3. UNCHANGED <<ca, now, caFile, commands, left>> /\ OfferWork(busy[c])
    BY <1>8 DEF R!SnapshotOffers, R!own, R!files, OfferWork, R!OfferOps
  <2>4. QED BY <1>3, <2>2, <2>3
<1>9. CASE R!WriteOffers(c)
  <2>1. busy[c].then = A!Idle \/ Rest(busy[c].then)
    BY <1>1, <1>9 DEF R!WriteOffers, WorkOK
  <2>2. WorkOK(busy[c].then) /\ OfferWork(busy[c].then) /\ R!Becomes(c, busy[c].then)
    BY <1>9, <2>1, RestWorks DEF OfferWork, R!OfferOps, R!WriteOffers
  <2>3. UNCHANGED <<ca, now, caFile, commands, left>> /\ OfferWork(busy[c])
    BY <1>9 DEF R!WriteOffers, OfferWork, R!OfferOps
  <2>4. QED BY <1>3, <2>2, <2>3
<1>10. CASE \E ids \in SUBSET OfferIds : R!StartRotation(c, ids)
  <2>1. PICK w : R!Becomes(c, w) /\ WorkOK(w) /\ OfferWork(w)
    BY <1>10, OfferWorks DEF R!StartRotation, OfferWork, R!OfferOps
  <2>2. Spent /\ UNCHANGED <<ca, now, caFile>> /\ busy[c].op = "idle"
    BY <1>10, BeginsSpent DEF R!StartRotation, R!files, R!Begins, R!Idle
  <2>3. QED BY <1>3, <2>1, <2>2 DEF OfferWork
<1>11. CASE R!MakeProof(c)
  <2>1. PICK w : R!Becomes(c, w) /\ WorkOK(w) /\ OfferWork(w)
    BY <1>11, OfferWorks DEF R!MakeProof, OfferWork, R!OfferOps
  <2>2. UNCHANGED <<ca, now, caFile, commands, left>> /\ OfferWork(busy[c])
    BY <1>11 DEF R!MakeProof, R!own, R!files, OfferWork, R!OfferOps
  <2>3. QED BY <1>3, <2>1, <2>2
<1>12. CASE R!InsertProof(c)
  <2>1. PICK w : R!Becomes(c, w) /\ WorkOK(w) /\ OfferWork(w)
    BY <1>12, OfferWorks DEF R!InsertProof, OfferWork, R!OfferOps
  <2>2. UNCHANGED <<ca, now, caFile, commands, left>> /\ OfferWork(busy[c])
    BY <1>12 DEF R!InsertProof, R!files, OfferWork, R!OfferOps
  <2>3. QED BY <1>3, <2>1, <2>2
<1>13. CASE R!RefuseProof(c)
  <2>1. R!Becomes(c, R!Idle) /\ WorkOK(R!Idle) /\ OfferWork(R!Idle)
    BY <1>13, OfferWorks DEF R!RefuseProof, OfferWork, R!Idle
  <2>2. UNCHANGED <<ca, now, caFile, commands, left>> /\ OfferWork(busy[c])
    BY <1>13 DEF R!RefuseProof, R!own, R!files, OfferWork, R!OfferOps
  <2>3. QED BY <1>3, <2>1, <2>2
<1>14. CASE R!InstallKeys(c)
  <2>1. PICK w : R!Becomes(c, [op |-> "snapshot", then |-> w]) /\ Rest(w)
    <3> DEFINE s == busy[c].proofs
               rest == [op |-> "writeProofs", proofs |-> s, then |-> R!Idle]
    <3>1. [rest EXCEPT !.op = "clear"] = [op |-> "clear", proofs |-> s, then |-> R!Idle]
      OBVIOUS
    <3>2. Rest(rest) /\ Rest([rest EXCEPT !.op = "clear"])
      BY <3>1, RestShapes, SameNames
    <3>3. R!Becomes(c, [op |-> "snapshot", then |-> rest])
          \/ R!Becomes(c, [op |-> "snapshot", then |-> [rest EXCEPT !.op = "clear"]])
      BY <1>14 DEF R!InstallKeys, R!AfterInstall
    <3>4. QED BY <3>2, <3>3
  <2>2. WorkOK([op |-> "snapshot", then |-> w]) /\ OfferWork([op |-> "snapshot", then |-> w])
    BY <2>1, RestWorks DEF OfferWork, R!OfferOps
  <2>3. UNCHANGED <<ca, now, caFile, commands, left>> /\ OfferWork(busy[c])
    BY <1>14 DEF R!InstallKeys, R!files, OfferWork, R!OfferOps
  <2>4. QED BY <1>3, <2>1, <2>2, <2>3
<1>15. CASE R!ClearStrikes(c)
  <2>1. Rest(busy[c])
    BY <1>1, <1>15 DEF R!ClearStrikes, WorkOK
  <2>2. Rest([busy[c] EXCEPT !.op = "writeProofs"])
    BY <2>1, RestShapes
  <2>3. WorkOK([busy[c] EXCEPT !.op = "writeProofs"])
        /\ OfferWork([busy[c] EXCEPT !.op = "writeProofs"])
    BY <2>2, RestWorks DEF OfferWork, Rest, R!OfferOps
  <2>4. UNCHANGED <<ca, now, caFile, commands, left>> /\ OfferWork(busy[c])
        /\ R!Becomes(c, [busy[c] EXCEPT !.op = "writeProofs"])
    BY <1>15 DEF R!ClearStrikes, R!files, OfferWork, R!OfferOps
  <2>5. QED BY <1>3, <2>3, <2>4
<1>16. CASE R!WriteProofs(c)
  <2>1. busy[c].then = A!Idle
    BY <1>1, <1>16 DEF R!WriteProofs, WorkOK, Rest
  <2>2. WorkOK(busy[c].then) /\ OfferWork(busy[c].then) /\ R!Becomes(c, busy[c].then)
    BY <1>16, <2>1, AuthorityWorks DEF OfferWork, A!Idle, R!WriteProofs
  <2>3. UNCHANGED <<ca, now, caFile, commands, left>> /\ OfferWork(busy[c])
    BY <1>16 DEF R!WriteProofs, OfferWork, R!OfferOps
  <2>4. QED BY <1>3, <2>2, <2>3
<1>17. QED
  BY <1>2, <1>4, <1>5, <1>6, <1>7, <1>8, <1>9, <1>10, <1>11, <1>12, <1>13, <1>14, <1>15, <1>16
  DEF R!Operate

LEMMA OfferFramed ==
  ASSUME Framed, OfferStep
  PROVE  /\ Framed'
         /\ \A n \in Peers : ca'[n] = ca[n]
         /\ commands' >= commands /\ UNCHANGED now
         /\ \A c \in Commands :
              \/ busy'[c] = busy[c]
              \/ busy[c].op \notin AuthorityOps /\ busy'[c].op \notin AuthorityOps
<1>1. /\ Shapes /\ WorksOK /\ ListenerOK /\ StatusOK /\ Counted /\ SentKinds
      /\ now \in 0..MaxTime /\ commands \in Nat
  BY DEF Framed, Counted
<1>2. R!Next /\ UNCHANGED <<purges, chains, crl, disk, listener, sent, flagged, raced>>
  BY DEF OfferStep
<1>3. CASE \E c \in Commands : R!Operate(c)
  <2>1. PICK c \in Commands : R!Operate(c)
    BY <1>3
  <2>2. WorksOK'
    BY <2>1, OfferOperates, WorksTaken
  <2>3. Counted' /\ commands' >= commands
    BY <1>1, <2>1, OfferOperates, CountedBegin DEF Counted, Spent
  <2>4. Shapes'
    BY <1>1, <1>2, <2>1, OfferOperates DEF Shapes
  <2>5. SentKinds' /\ ListenerOK' /\ UNCHANGED now
    BY <1>1, <1>2, <2>1, OfferOperates DEF SentKinds, ListenerOK
  <2>6. StatusOK'
    BY <1>1, <2>1, OfferOperates DEF StatusOK, A!Nodes
  <2>7. ASSUME NEW d \in Commands
        PROVE  \/ busy'[d] = busy[d]
               \/ busy[d].op \notin AuthorityOps /\ busy'[d].op \notin AuthorityOps
    <3>1. CASE d # c
      BY <2>1, <3>1, OfferOperates
    <3>2. CASE d = c
      BY <2>1, <3>2, OfferOperates DEF OfferWork, AuthorityOps, R!OfferOps
    <3>3. QED BY <3>1, <3>2
  <2>8. QED BY <1>1, <2>1, <2>2, <2>3, <2>4, <2>5, <2>6, <2>7, OfferOperates DEF Framed
<1>4. CASE R!Strike
  <2>1. left' \in Kinds /\ left'.purges = left.purges /\ left'.certs = left.certs
        /\ left'.offers = left.offers
    BY <1>1, <1>4 DEF R!Strike, Counted, Kinds
  <2>2. UNCHANGED <<now, ca, busy, commands, caFile>>
    BY <1>4 DEF R!Strike, R!files
  <2>3. Counted'
    BY <1>1, <2>1, <2>2 DEF Counted
  <2>4. QED BY <1>1, <1>2, <2>2, <2>3 DEF Framed, Shapes, WorksOK, ListenerOK, StatusOK, SentKinds
<1>5. CASE \E n \in Peers : \E k \in 1..Len(history[Owner]) : R!ImportProof(n, history[Owner][k])
  <2>1. UNCHANGED <<now, ca, busy, commands, left, caFile>>
    BY <1>5 DEF R!ImportProof, R!files
  <2>2. QED BY <1>1, <1>2, <2>1
        DEF Framed, Shapes, WorksOK, ListenerOK, StatusOK, Counted, SentKinds
<1>6. QED BY <1>2, <1>3, <1>4, <1>5 DEF R!Next

\* The owner's process is started again.
LEMMA Restarted ==
  ASSUME Framed, Restart
  PROVE  /\ purges' = [purges EXCEPT ![Owner] = disk["purges"]]
         /\ chains' = [chains EXCEPT ![Owner] = disk["chains"]]
         /\ crl' = [crl EXCEPT ![Owner] = disk["crl"]]
         /\ \A n \in Peers : /\ purges'[n] = purges[n] /\ chains'[n] = chains[n]
                             /\ crl'[n] = crl[n] /\ ca'[n] = ca[n]
         /\ purges'[Owner] = disk["purges"] /\ chains'[Owner] = disk["chains"]
         /\ crl'[Owner] = disk["crl"] /\ ca'[Owner] = caFile.status
         /\ \A c \in Commands : busy'[c] = A!Idle
         /\ DOMAIN busy' = Commands /\ DOMAIN ca' = A!Nodes
         /\ listener' = A!Idle /\ raced' = {}
         /\ sent' = sent \cup (A!Outgoing(Owner) \ A!Outgoing(Owner)')
         /\ UNCHANGED <<now, disk, flagged, commands, caFile>>
         /\ left' = [left EXCEPT !.restarts = @ - 1] /\ left.restarts > 0
<1>1. A!Reload /\ R!Restart /\ Owner \in A!Nodes /\ Owner \notin Peers /\ Peers \subseteq A!Nodes
  BY Assumptions DEF Restart, A!Nodes
<1>2. /\ purges' = [purges EXCEPT ![Owner] = disk["purges"]]
      /\ chains' = [chains EXCEPT ![Owner] = disk["chains"]]
      /\ crl' = [crl EXCEPT ![Owner] = disk["crl"]]
      /\ listener' = A!Idle /\ raced' = {}
      /\ sent' = sent \cup (A!Outgoing(Owner) \ A!Outgoing(Owner)')
      /\ UNCHANGED <<now, disk, flagged>>
  BY <1>1 DEF A!Reload
<1>3. /\ ca' = [ca EXCEPT ![Owner] = caFile.status] /\ busy' = [c \in Commands |-> A!Idle]
      /\ UNCHANGED <<commands, caFile>>
      /\ left' = [left EXCEPT !.restarts = @ - 1] /\ left.restarts > 0
  BY <1>1, SameNames DEF R!Restart, R!files
<1>4. /\ DOMAIN purges = A!Nodes /\ DOMAIN chains = A!Nodes /\ DOMAIN crl = A!Nodes
      /\ DOMAIN ca = A!Nodes
  BY DEF Framed, Shapes
<1>5. QED BY <1>1, <1>2, <1>3, <1>4

LEMMA RestartFramed ==
  ASSUME Framed, Restart
  PROVE  Framed'
<1>1. /\ Shapes /\ WorksOK /\ ListenerOK /\ StatusOK /\ Counted /\ SentKinds
      /\ now \in 0..MaxTime /\ commands \in Nat
  BY DEF Framed, Counted
<1>2. Shapes'
  BY <1>1, Restarted DEF Shapes
<1>3. WorksOK' /\ ListenerOK'
  BY Restarted, AuthorityWorks DEF WorksOK, ListenerOK
<1>4. StatusOK'
  BY <1>1, Restarted DEF StatusOK, A!Nodes
<1>5. Counted'
  <2>1. left' \in Kinds /\ left'.purges = left.purges /\ left'.certs = left.certs
        /\ left'.offers = left.offers /\ commands' = commands
    BY <1>1, Restarted DEF Counted, Kinds
  <2>2. QED BY <1>1, <2>1 DEF Counted
<1>6. SentKinds'
  <2>1. \A m \in A!Outgoing(Owner) : m.kind \in {"ca", "chain", "purge"} /\ m.from = Owner
    BY DEF A!Outgoing, A!Message
  <2>2. QED BY <1>1, <2>1, Restarted DEF SentKinds
<1>7. QED BY <1>1, <1>2, <1>3, <1>4, <1>5, <1>6, Restarted DEF Framed

-----------------------------------------------------------------------------
(* Chains of purges.                                                        *)

\* Every purge is no older than those before it, and cost what they required.
PricedRight(held) ==
  \A p \in held :
    /\ \A q \in Earlier(held, p) : q.time <= p.time
    /\ p.difficulty = A!Required(Earlier(held, p), p.time, p.strike)

\* What commands ask for.
PurgeOK(p) ==
  p.domain \in Permitted /\ p.time \in 0..MaxTime /\ p.expires - p.time \in Ttls

LatestIn(held) == LastIn(held, A!NoPurge)

LEMMA LatestIsLast == \A held : A!Latest(held) = LatestIn(held) /\ Log!Newest(held) = LatestIn(held)
  BY DEF A!Latest, Log!Newest, LatestIn, LastIn

LEMMA PurgeChainParts ==
  ASSUME NEW held
  PROVE  A!IsPurgeChain(held) <=> Linked(held, A!NoPurge) /\ PricedRight(held)
  BY SameCardinality, LatestIsLast
  DEF A!IsPurgeChain, Linked, Numbered, PricedRight, Earlier, LatestIn

\* A chain of purges that commands asked for.
Sound(held) ==
  IsFiniteSet(held) /\ A!IsPurgeChain(held) /\ \A p \in held : PurgeOK(p)

LEMMA NothingIsSound == Sound({})
<1>1. A!IsPurgeChain({})
  BY FS_EmptySet, SameCardinality, 1..0 = {} DEF A!IsPurgeChain
<1>2. QED BY <1>1, FS_EmptySet DEF Sound

LEMMA SoundIsLinked ==
  ASSUME NEW held, Sound(held)
  PROVE  /\ IsFiniteSet(held) /\ Linked(held, A!NoPurge) /\ Numbered(held) /\ PricedRight(held)
         /\ \A p \in held : p.time \in Int
         /\ Cardinality(held) \in Nat /\ \A p \in held : p.seq \in 1..Cardinality(held)
         /\ LatestIn(held).seq = Cardinality(held)
<1>1. IsFiniteSet(held) /\ Linked(held, A!NoPurge) /\ PricedRight(held)
      /\ \A p \in held : p.time \in Int
  BY PurgeChainParts DEF Sound, PurgeOK
<1>2. Numbered(held)
  BY <1>1 DEF Linked
<1>3. LatestIn(held).seq = Cardinality(held)
  BY <1>1, <1>2, LastCounts DEF LatestIn, A!NoPurge
<1>4. QED BY <1>1, <1>2, <1>3, NumberedRange

\* In a chain the last purge is the youngest.
LEMMA LatestIsYoungest ==
  ASSUME NEW held, Sound(held), held # {}
  PROVE  LatestIn(held) \in held /\ \A q \in held : q.time <= LatestIn(held).time
<1> DEFINE l == LatestIn(held)
<1>1. /\ IsFiniteSet(held) /\ Numbered(held) /\ PricedRight(held)
      /\ \A p \in held : p.time \in Int /\ p.seq \in 1..Cardinality(held)
      /\ Cardinality(held) \in Nat
  BY SoundIsLinked
<1>2. l \in held /\ l.seq = Cardinality(held)
  BY <1>1, LastIsHighest DEF LatestIn
<1> HIDE DEF l
<1>3. ASSUME NEW q \in held PROVE q.time <= l.time
  <2>1. CASE q = l
    BY <1>1, <1>2, <2>1
  <2>2. CASE q # l
    <3>1. q.seq # l.seq
      BY <1>1, <1>2, <2>2, NumberedUnique
    <3>2. q \in Earlier(held, l)
      BY <1>1, <1>2, <3>1 DEF Earlier
    <3>3. QED BY <1>1, <1>2, <3>2 DEF PricedRight
  <2>3. QED BY <2>1, <2>2
<1>4. QED BY <1>2, <1>3 DEF l

\* A purge was planned on a chain, for the price that chain required.
PlannedOn(p, before) ==
  /\ Sound(before)
  /\ p.seq = Cardinality(before) + 1 /\ p.prev = LatestIn(before)
  /\ p.difficulty = A!Required(before, p.time, p.strike)

Planned(p) == PurgeOK(p) /\ \E before : PlannedOn(p, before)

\* Each purge of a chain was planned on those before it.
LEMMA HeldIsPlanned ==
  ASSUME NEW held, Sound(held), NEW p \in held
  PROVE  Planned(p)
<1> DEFINE before == Earlier(held, p)
<1>1. IsFiniteSet(held) /\ Linked(held, A!NoPurge) /\ Numbered(held) /\ PricedRight(held)
      /\ p.seq \in 1..Cardinality(held) /\ Cardinality(held) \in Nat
      /\ \A q \in held : PurgeOK(q)
  BY SoundIsLinked DEF Sound
<1>2. /\ Linked(before, A!NoPurge) /\ p.prev = LastIn(before, A!NoPurge)
      /\ \A w \in before : Earlier(before, w) = Earlier(held, w)
  BY <1>1, EarlierLinked
<1>3. IsFiniteSet(before) /\ Cardinality(before) = p.seq - 1
  BY <1>1, EarlierNumbered
<1>4. before \subseteq held
  BY DEF Earlier
<1>5. p.difficulty = A!Required(before, p.time, p.strike)
  BY <1>1 DEF PricedRight
<1> HIDE DEF before
<1>6. PricedRight(before)
  BY <1>1, <1>2, <1>4 DEF PricedRight
<1>7. Sound(before)
  BY <1>1, <1>2, <1>3, <1>4, <1>6, PurgeChainParts DEF Sound
<1>8. p.seq = Cardinality(before) + 1
  BY <1>1, <1>3
<1>9. PlannedOn(p, before)
  BY <1>2, <1>5, <1>7, <1>8 DEF PlannedOn, LatestIn
<1>10. QED BY <1>1, <1>9 DEF Planned

\* A planned purge that fits the end of a chain was planned on it.
LEMMA FitsTheEnd ==
  ASSUME NEW held, Sound(held), NEW p, Planned(p), p.prev = LatestIn(held)
  PROVE  PlannedOn(p, held)
<1>1. PICK before : PlannedOn(p, before)
  BY DEF Planned
<1>2. IsFiniteSet(held) /\ Linked(held, A!NoPurge)
  BY SoundIsLinked
<1>3. IsFiniteSet(before) /\ Linked(before, A!NoPurge)
  BY <1>1, SoundIsLinked DEF PlannedOn
<1>4. LastIn(held, A!NoPurge) = LastIn(before, A!NoPurge)
  BY <1>1 DEF PlannedOn, LatestIn
<1>5. held = before
  BY <1>2, <1>3, <1>4, SameLastSameChain DEF A!NoPurge
<1>6. QED BY <1>1, <1>5

\* A planned purge that may be inserted makes the chain one longer.
LEMMA ChainGrows ==
  ASSUME NEW held, Sound(held), NEW p, Planned(p), A!Insertable(p, held)
  PROVE  Sound(held \cup {p}) /\ Log!Follows(p, held)
<1> DEFINE more == held \cup {p}
<1>1. /\ p.seq = LatestIn(held).seq + 1 /\ p.prev = LatestIn(held)
      /\ held # {} => p.time >= LatestIn(held).time
  BY LatestIsLast DEF A!Insertable
<1>2. /\ IsFiniteSet(held) /\ Linked(held, A!NoPurge) /\ Numbered(held) /\ PricedRight(held)
      /\ \A q \in held : q.time \in Int
      /\ Cardinality(held) \in Nat /\ LatestIn(held).seq = Cardinality(held)
  BY SoundIsLinked
<1>3. PlannedOn(p, held) /\ PurgeOK(p)
  BY <1>1, FitsTheEnd DEF Planned
<1>4. p.time \in Int
  BY <1>3 DEF PurgeOK
<1>5. ASSUME NEW q \in held PROVE q.time <= p.time
  <2>1. LatestIn(held) \in held /\ q.time <= LatestIn(held).time
    BY LatestIsYoungest
  <2>2. p.time >= LatestIn(held).time
    BY <1>1
  <2>3. q.time \in Int /\ LatestIn(held).time \in Int
    BY <1>2, <2>1
  <2>4. QED BY <1>4, <2>1, <2>2, <2>3
<1>6. p.seq = Cardinality(held) + 1
  BY <1>1, <1>2
<1>7. /\ IsFiniteSet(more) /\ Numbered(more)
      /\ Earlier(more, p) = held /\ \A w \in held : Earlier(more, w) = Earlier(held, w)
  BY <1>2, <1>6, NextNumbered
<1>8. Linked(more, A!NoPurge)
  BY <1>1, <1>2, <1>7 DEF Linked, LatestIn
<1>9. PricedRight(more)
  BY <1>2, <1>3, <1>5, <1>7 DEF PricedRight, PlannedOn
<1>10. Sound(more)
  BY <1>3, <1>7, <1>8, <1>9, PurgeChainParts DEF Sound
<1>11. Log!Follows(p, held)
  BY <1>1, LatestIsLast DEF Log!Follows
<1>12. QED BY <1>10, <1>11

\* A chain within a chain is its beginning.
LEMMA ChainWithin ==
  ASSUME NEW all, Sound(all), NEW held, Sound(held), held \subseteq all
  PROVE  /\ Cardinality(held) \in 0..Cardinality(all)
         /\ held = {x \in all : x.seq <= Cardinality(held)}
<1>1. /\ IsFiniteSet(all) /\ Numbered(all) /\ IsFiniteSet(held) /\ Numbered(held)
      /\ Cardinality(all) \in Nat /\ \A x \in all : x.seq \in 1..Cardinality(all)
      /\ Cardinality(held) \in Nat /\ \A x \in held : x.seq \in 1..Cardinality(held)
  BY SoundIsLinked
<1>2. Cardinality(held) <= Cardinality(all)
  BY <1>1, FS_Subset
<1>3. ASSUME NEW x \in all, x.seq <= Cardinality(held) PROVE x \in held
  <2>1. x.seq \in 1..Cardinality(held)
    BY <1>1, <1>3
  <2>2. PICK y \in held : y.seq = x.seq
    BY <1>1, <2>1, NumberedRange
  <2>3. QED BY <1>1, <2>2, NumberedUnique
<1>4. QED BY <1>1, <1>2, <1>3

\* What the owner has or may have of its purges elsewhere: its file, and the copies that
\* connections have yet to write.
CopiesOK ==
  /\ Sound(disk["purges"]) /\ disk["purges"] \subseteq purges[Owner]
  /\ \A c \in Commands :
       busy[c].op = "write" /\ busy[c].file = "purges" =>
         Sound(busy[c].copy) /\ busy[c].copy \subseteq purges[Owner]

\* Every purge that is under way, or on its way though its owner has lost it, was planned.
AllPlanned ==
  /\ \A c \in Commands : busy[c].op = "purge" => Planned(busy[c].purge)
  /\ \A m \in sent : m.kind = "purge" => Planned(m.body)

Chained == (\A n \in A!Nodes : Sound(purges[n])) /\ CopiesOK /\ AllPlanned

LEMMA InitChained == Init => Chained
<1> SUFFICES ASSUME Init PROVE Chained
  OBVIOUS
<1>1. (\A n \in A!Nodes : purges[n] = {}) /\ disk["purges"] = {} /\ sent = {}
  BY DEF Init, A!Init
<1>2. \A c \in Commands : busy[c].op = "idle"
  BY DEF Init, A!Init, A!Idle
<1>3. QED
  BY <1>1, <1>2, NothingIsSound DEF Chained, CopiesOK, AllPlanned

\* Steps that neither begin nor end a purge, nor write one.
PurgesLeft ==
  /\ UNCHANGED purges /\ disk'["purges"] = disk["purges"]
  /\ \A c \in Commands : busy'[c].op \in {"purge", "write"} =>
       \/ busy'[c] = busy[c]
       \/ busy'[c].op = "write" /\ busy'[c].file # "purges"
  /\ \A m \in sent' : m.kind = "purge" => m \in sent

LEMMA ChainedKept ==
  ASSUME Chained, PurgesLeft
  PROVE  Chained'
  BY DEF Chained, CopiesOK, AllPlanned, PurgesLeft

LEMMA StartPurgeChained ==
  ASSUME Framed, Chained, NEW c \in Commands, NEW d, NEW ttl \in Ttls, NEW strike,
         A!StartPurge(c, d, ttl, strike)
  PROVE  Chained' /\ UNCHANGED <<purges, disk, sent>>
<1> DEFINE all == purges[Owner]
           p == A!NewPurge(d, ttl, strike)
<1>1. UNCHANGED <<purges, disk, sent>> /\ A!IsPermitted(d)
      /\ busy'[c] = [op |-> "purge", purge |-> p]
      /\ \A x \in Commands \ {c} : busy'[x] = busy[x]
  BY WorkTaken DEF A!StartPurge, A!stores
<1>2. Sound(all)
  BY DEF Chained, A!Nodes
<1>3. LatestIn(all).seq = Cardinality(all) /\ Cardinality(all) \in Nat
  BY <1>2, SoundIsLinked
<1>4. /\ p.seq = Cardinality(all) + 1 /\ p.prev = LatestIn(all)
      /\ p.difficulty = A!Required(all, p.time, p.strike)
      /\ p.domain = d /\ p.time = now /\ p.expires = now + ttl
  BY <1>3, LatestIsLast DEF A!NewPurge
<1> HIDE DEF p
<1>5. PurgeOK(p)
  <2>1. now \in 0..MaxTime /\ ttl \in Nat
    BY Assumptions DEF Framed
  <2>2. (now + ttl) - now = ttl
    BY <2>1, Assumptions
  <2>3. QED BY <1>1, <1>4, <2>1, <2>2 DEF PurgeOK, A!IsPermitted
<1>6. PlannedOn(p, all)
  BY <1>2, <1>4 DEF PlannedOn
<1>7. Planned(p)
  BY <1>5, <1>6 DEF Planned
<1>8. AllPlanned'
  BY <1>1, <1>7 DEF Chained, AllPlanned
<1>9. CopiesOK'
  BY <1>1 DEF Chained, CopiesOK
<1>10. QED BY <1>1, <1>8, <1>9 DEF Chained

LEMMA FinishPurgeChained ==
  ASSUME Framed, Chained, NEW c \in Commands, A!FinishPurge(c)
  PROVE  /\ Chained' /\ UNCHANGED <<disk, sent>>
         /\ \A n \in Peers : purges'[n] = purges[n]
         /\ \E p : purges'[Owner] = purges[Owner] \cup {p} /\ Log!Follows(p, purges[Owner])
<1> DEFINE all == purges[Owner]
           p == busy[c].purge
<1>1. /\ Sound(all) /\ Planned(p) /\ A!Insertable(p, all)
      /\ UNCHANGED <<disk, sent>>
  BY DEF A!FinishPurge, Chained, A!Nodes, AllPlanned
<1>2. Sound(all \cup {p}) /\ Log!Follows(p, all)
  BY <1>1, ChainGrows
<1>3. /\ purges' = [purges EXCEPT ![Owner] = all \cup {p}]
      /\ DOMAIN purges = A!Nodes /\ Owner \in A!Nodes /\ Owner \notin Peers /\ Peers \subseteq A!Nodes
  BY Assumptions DEF A!FinishPurge, Framed, Shapes, A!Nodes
<1>4. purges'[Owner] = all \cup {p} /\ \A n \in A!Nodes \ {Owner} : purges'[n] = purges[n]
  BY <1>3
<1>5. busy'[c] = A!Write("purges", purges'[Owner], [op |-> "purged", domain |-> p.domain])
      /\ \A x \in Commands \ {c} : busy'[x] = busy[x]
  BY WorkTaken DEF A!FinishPurge, A!Exported
<1>6. busy'[c].op = "write" /\ busy'[c].copy = purges'[Owner]
  BY <1>5 DEF A!Write
<1> HIDE DEF p, all
<1>7. \A n \in A!Nodes : Sound(purges'[n])
  BY <1>2, <1>4 DEF Chained
<1>8. CopiesOK'
  <2>1. Sound(disk'["purges"]) /\ disk'["purges"] \subseteq purges'[Owner]
    BY <1>1, <1>4 DEF Chained, CopiesOK, all
  <2>2. ASSUME NEW x \in Commands, busy'[x].op = "write", busy'[x].file = "purges"
        PROVE  Sound(busy'[x].copy) /\ busy'[x].copy \subseteq purges'[Owner]
    <3>1. CASE x = c
      BY <1>2, <1>4, <1>6, <3>1
    <3>2. CASE x # c
      BY <1>4, <1>5, <2>2, <3>2 DEF Chained, CopiesOK, all
    <3>3. QED BY <3>1, <3>2
  <2>3. QED BY <2>1, <2>2 DEF CopiesOK
<1>9. AllPlanned'
  BY <1>1, <1>5, <1>6 DEF Chained, AllPlanned
<1>10. \A n \in Peers : purges'[n] = purges[n]
  BY <1>3, <1>4
<1>11. QED BY <1>1, <1>2, <1>4, <1>7, <1>8, <1>9, <1>10 DEF Chained, all

LEMMA WriteFileChained ==
  ASSUME Framed, Chained, NEW c \in Commands, A!WriteFile(c)
  PROVE  /\ Chained' /\ UNCHANGED <<purges, sent>>
         /\ \/ disk'["purges"] = disk["purges"]
            \/ Sound(disk'["purges"]) /\ disk'["purges"] \subseteq purges[Owner]
<1> DEFINE w == busy[c]
<1>1. /\ w.op = "write" /\ disk' = [disk EXCEPT ![w.file] = w.copy] /\ UNCHANGED <<purges, sent>>
      /\ busy'[c] = w.then /\ \A x \in Commands \ {c} : busy'[x] = busy[x]
      /\ WorkOK(w) /\ DOMAIN disk = {"purges", "chains", "crl"}
  BY WorkTaken DEF A!WriteFile, Framed, WorksOK, Shapes
<1>2. w.then.op \in {"idle", "purged"}
  BY <1>1, AfterWrite
<1>3. CASE w.file = "purges"
  <2>1. disk'["purges"] = w.copy /\ Sound(w.copy) /\ w.copy \subseteq purges[Owner]
    BY <1>1, <1>3 DEF Chained, CopiesOK
  <2>2. CopiesOK'
    BY <1>1, <1>2, <2>1 DEF Chained, CopiesOK
  <2>3. AllPlanned'
    BY <1>1, <1>2 DEF Chained, AllPlanned
  <2>4. QED BY <1>1, <2>1, <2>2, <2>3 DEF Chained
<1>4. CASE w.file # "purges"
  <2>1. disk'["purges"] = disk["purges"]
    BY <1>1, <1>4
  <2>2. PurgesLeft
    BY <1>1, <1>2, <2>1 DEF PurgesLeft
  <2>3. QED BY <1>1, <2>1, <2>2, ChainedKept
<1>5. QED BY <1>3, <1>4

\* The messages with purges.
LEMMA PurgeMessages ==
  ASSUME Framed, Chained, NEW n \in A!Nodes, NEW m, m.kind = "purge", A!Arrives(n, m),
         A!IsOwner(m.from)
  PROVE  n \in Peers /\ Planned(m.body)
<1>1. m.from = Owner /\ n \in Peers /\ m \in A!InFlight
  BY DEF A!IsOwner, A!Arrives, A!Nodes
<1>2. CASE m \in sent
  BY <1>1, <1>2 DEF Chained, AllPlanned
<1>3. CASE m \notin sent
  <2>1. PICK x \in A!Nodes : m \in A!Outgoing(x)
    BY <1>1, <1>3 DEF A!InFlight
  <2>2. PICK p \in purges[x] : m = A!Message("purge", x, p)
    BY <2>1 DEF A!Outgoing, A!Message
  <2>3. Planned(p) /\ m.body = p
    BY <2>2, HeldIsPlanned DEF Chained, A!Message
  <2>4. QED BY <1>1, <2>3
<1>4. QED BY <1>2, <1>3

LEMMA ReceivePurgeChained ==
  ASSUME Framed, Chained, NEW n \in A!Nodes, NEW m, A!ReceivePurge(n, m), A!Acceptable(n, m)
  PROVE  /\ Chained' /\ n \in Peers /\ ca[n] = "public" /\ UNCHANGED <<disk, sent>>
         /\ m \in A!InFlight /\ m.kind = "purge" /\ m.from = Owner
         /\ purges'[Owner] = purges[Owner] /\ purges'[n] = purges[n] \cup {m.body}
         /\ \A x \in Peers \ {n} : purges'[x] = purges[x]
         /\ Log!Follows(m.body, purges[n])
<1> DEFINE held == purges[n]
           p == m.body
<1>1. /\ A!Insertable(p, held) /\ ca[n] = "public" /\ A!IsOwner(m.from) /\ A!Arrives(n, m)
      /\ purges' = [purges EXCEPT ![n] = held \cup {p}] /\ UNCHANGED <<busy, disk, sent>>
      /\ m.kind = "purge"
  BY DEF A!ReceivePurge, A!Acceptable, A!Valid
<1>2. n \in Peers /\ Planned(p) /\ Sound(held)
  BY <1>1, PurgeMessages DEF Chained
<1>3. Sound(held \cup {p}) /\ Log!Follows(p, held)
  BY <1>1, <1>2, ChainGrows
<1>4. /\ purges'[n] = held \cup {p} /\ \A x \in A!Nodes \ {n} : purges'[x] = purges[x]
      /\ purges'[Owner] = purges[Owner]
  BY <1>1, <1>2, Assumptions DEF Framed, Shapes, A!Nodes
<1>5. Chained'
  <2>1. \A x \in A!Nodes : Sound(purges'[x])
    BY <1>3, <1>4 DEF Chained
  <2>2. CopiesOK' /\ AllPlanned'
    BY <1>1, <1>4 DEF Chained, CopiesOK, AllPlanned
  <2>3. QED BY <2>1, <2>2 DEF Chained
<1>6. \A x \in Peers \ {n} : purges'[x] = purges[x]
  BY <1>4 DEF A!Nodes
<1>7. QED BY <1>1, <1>2, <1>3, <1>4, <1>5, <1>6 DEF A!Arrives, A!IsOwner

\* The steps of the authority's part, as far as purges are concerned.
LEMMA PurgeSteps ==
  ASSUME Framed, A!Next
  PROVE  \/ PurgesLeft
         \/ \E c \in Commands, d \in Domains, ttl \in Ttls, strike \in Strikes :
              A!StartPurge(c, d, ttl, strike)
         \/ \E c \in Commands : A!FinishPurge(c) \/ A!WriteFile(c)
         \/ \E n \in A!Nodes, m \in A!InFlight : A!ReceivePurge(n, m) /\ A!Acceptable(n, m)
<1>1. ASSUME NEW c \in Commands, NEW w, A!Becomes(c, w), w.op # "purge",
             w.op = "write" => w.file # "purges", UNCHANGED <<purges, disk, sent>>
      PROVE  PurgesLeft
  BY <1>1, WorkTaken DEF PurgesLeft
<1>2. ASSUME NEW c \in Commands, A!RefusePurge(c) \/ A!RefuseList(c) PROVE PurgesLeft
  BY <1>1, <1>2 DEF A!RefusePurge, A!RefuseList, A!Idle, A!stores
<1>3. ASSUME NEW c \in Commands, NEW s, A!StartRevoke(c, s) \/ A!StartIssue(c, s) PROVE PurgesLeft
  BY <1>1, <1>3 DEF A!StartRevoke, A!StartIssue, A!stores
<1>4. ASSUME NEW c \in Commands, A!NumberList(c) PROVE PurgesLeft
  BY <1>1, <1>4 DEF A!NumberList, A!stores
<1>5. ASSUME NEW c \in Commands, A!FinishList(c) PROVE PurgesLeft
  BY <1>1, <1>5 DEF A!FinishList, A!Write
<1>6. ASSUME NEW c \in Commands, A!RevokePurged(c) PROVE PurgesLeft
  <2>1. PICK w : A!Becomes(c, w) /\ w.op \in {"idle", "list"}
    BY <1>6 DEF A!RevokePurged, A!Idle
  <2>2. QED BY <1>1, <1>6, <2>1 DEF A!RevokePurged, A!stores
<1>7. ASSUME NEW c, NEW d, A!GenerateCert(c, d) PROVE PurgesLeft
  BY <1>7 DEF A!GenerateCert, A!Message, A!stores, PurgesLeft
<1>8. ASSUME NEW n, A!BroadcastCrl(n) PROVE PurgesLeft
  BY <1>8 DEF A!BroadcastCrl, A!Message, A!stores, PurgesLeft
<1>9. ASSUME NEW n, NEW m, A!ReceiveCa(n, m) \/ A!ReceiveChain(n, m) \/ A!ReceiveCrl(n, m)
      PROVE  PurgesLeft
  BY <1>9 DEF A!ReceiveCa, A!ReceiveChain, A!ReceiveCrl, A!stores, PurgesLeft
<1>10. ASSUME NEW n, NEW m, A!ReceivePurge(n, m), ~A!Acceptable(n, m) PROVE PurgesLeft
  BY <1>10 DEF A!ReceivePurge, PurgesLeft
<1>11. ASSUME A!ListenerWrites PROVE PurgesLeft
  <2>1. listener.file \in {"chains", "crl"} /\ DOMAIN disk = {"purges", "chains", "crl"}
    BY <1>11 DEF A!ListenerWrites, Framed, ListenerOK, Shapes, A!Idle
  <2>2. disk' = [disk EXCEPT ![listener.file] = listener.copy] /\ UNCHANGED <<purges, busy, sent>>
    BY <1>11 DEF A!ListenerWrites
  <2>3. disk'["purges"] = disk["purges"]
    BY <2>1, <2>2
  <2>4. QED BY <2>2, <2>3 DEF PurgesLeft
<1>12. ASSUME A!Tick PROVE PurgesLeft
  BY <1>12 DEF A!Tick, A!stores, PurgesLeft
<1>13. ASSUME NEW c \in Commands, A!Operate(c)
       PROVE  \/ PurgesLeft
              \/ \E d \in Domains, ttl \in Ttls, strike \in Strikes : A!StartPurge(c, d, ttl, strike)
              \/ A!FinishPurge(c) \/ A!WriteFile(c)
  BY <1>13, <1>2, <1>3, <1>4, <1>5, <1>6, <1>7 DEF A!Operate
<1>14. ASSUME NEW n \in A!Nodes, NEW m, A!Receive(n, m)
       PROVE  PurgesLeft \/ (A!ReceivePurge(n, m) /\ A!Acceptable(n, m))
  BY <1>14, <1>9, <1>10 DEF A!Receive
<1>15. QED BY <1>8, <1>11, <1>12, <1>13, <1>14 DEF A!Next

LEMMA AuthorityChained ==
  ASSUME Framed, Chained, A!Next
  PROVE  Chained'
<1>1. CASE \E c \in Commands, d \in Domains, ttl \in Ttls, strike \in Strikes :
             A!StartPurge(c, d, ttl, strike)
  BY <1>1, StartPurgeChained
<1>2. CASE \E c \in Commands : A!FinishPurge(c) \/ A!WriteFile(c)
  BY <1>2, FinishPurgeChained, WriteFileChained
<1>3. CASE \E n \in A!Nodes, m \in A!InFlight : A!ReceivePurge(n, m) /\ A!Acceptable(n, m)
  BY <1>3, ReceivePurgeChained
<1>4. QED BY <1>1, <1>2, <1>3, PurgeSteps, ChainedKept

LEMMA OfferChained ==
  ASSUME Framed, Chained, OfferStep
  PROVE  Chained' /\ PurgesLeft
<1>1. /\ UNCHANGED <<purges, disk, sent>>
      /\ \A c \in Commands : busy'[c] = busy[c] \/ busy'[c].op \notin AuthorityOps
  BY OfferFramed DEF OfferStep
<1>2. PurgesLeft
  BY <1>1 DEF PurgesLeft, AuthorityOps
<1>3. QED BY <1>2, ChainedKept

LEMMA RestartChained ==
  ASSUME Framed, Chained, Restart
  PROVE  Chained'
<1>1. /\ Sound(disk["purges"]) /\ purges'[Owner] = disk["purges"] /\ UNCHANGED disk
      /\ \A n \in Peers : purges'[n] = purges[n]
      /\ \A c \in Commands : busy'[c].op = "idle"
      /\ sent' = sent \cup (A!Outgoing(Owner) \ A!Outgoing(Owner)')
  BY Restarted DEF Chained, CopiesOK, A!Idle
<1>2. \A n \in A!Nodes : Sound(purges'[n])
  BY <1>1 DEF Chained, A!Nodes
<1>3. CopiesOK'
  BY <1>1 DEF CopiesOK
<1>4. ASSUME NEW m \in A!Outgoing(Owner), m.kind = "purge" PROVE Planned(m.body)
  <2>1. PICK p \in purges[Owner] : m = A!Message("purge", Owner, p)
    BY <1>4 DEF A!Outgoing, A!Message
  <2>2. QED BY <2>1, HeldIsPlanned DEF Chained, A!Message, A!Nodes
<1>5. AllPlanned'
  BY <1>1, <1>4 DEF Chained, AllPlanned
<1>6. QED BY <1>2, <1>3, <1>5 DEF Chained

-----------------------------------------------------------------------------
(* The numbers of the revocation lists.                                     *)

\* The commands that may still make a list.
MakesList(w) ==
  \/ w.op \in {"purge", "purged", "list", "crl"}
  \/ w.op = "write" /\ w.then.op = "purged"

Listing == {c \in Commands : MakesList(busy[c])}

\* How many lists those before them can have made: it never falls, for each command
\* makes one at most.
Room == commands - Cardinality(Listing)

NumberOK(list) == list.number \in 0..Room

\* Each number was taken by a command, and commands that race take the same one.
Listed ==
  /\ Room \in Nat
  /\ \A n \in A!Nodes : NumberOK(crl[n])
  /\ NumberOK(disk["crl"])
  /\ \A m \in sent : m.kind = "crl" => NumberOK(m.body)
  /\ \A c \in Commands :
       /\ busy[c].op = "write" /\ busy[c].file = "crl" => NumberOK(busy[c].copy)
       /\ busy[c].op = "crl" => busy[c].list.number \in 1..(Room + 1)
  /\ listener.op = "write" /\ listener.file = "crl" => NumberOK(listener.copy)

LEMMA ListingFinite == IsFiniteSet(Listing) /\ Cardinality(Listing) \in Nat
<1>1. Listing \subseteq Commands
  BY DEF Listing
<1>2. QED BY <1>1, Assumptions, FS_Subset, FS_CardinalityType

LEMMA InitListed == Init => Listed
<1> SUFFICES ASSUME Init PROVE Listed
  OBVIOUS
<1>1. /\ commands = 0 /\ sent = {} /\ disk["crl"] = A!NoCrl /\ \A n \in A!Nodes : crl[n] = A!NoCrl
      /\ listener = A!Idle
  BY DEF Init, A!Init
<1>2. \A c \in Commands : busy[c].op = "idle"
  BY DEF Init, A!Init, A!Idle
<1>3. Cardinality(Listing) = 0
  BY <1>2, FS_EmptySet DEF Listing, MakesList
<1>4. QED BY <1>1, <1>2, <1>3 DEF Listed, NumberOK, Room, A!NoCrl, A!Idle

LEMMA OneMore ==
  ASSUME NEW m \in Nat, NEW n \in Nat, n >= m, NEW k \in 1..(m + 1)
  PROVE  k \in 1..(n + 1)
  OBVIOUS

\* There is as much room as before, or more.
LEMMA RoomKept ==
  ASSUME Framed, Listed, Room' \in Int, Room' >= Room
  PROVE  /\ Room \in Nat /\ Room' \in Nat
         /\ \A n \in A!Nodes : crl[n].number \in 0..Room'
         /\ disk["crl"].number \in 0..Room'
         /\ \A m \in sent : m.kind = "crl" => m.body.number \in 0..Room'
         /\ \A c \in Commands :
              /\ busy[c].op = "write" /\ busy[c].file = "crl" => busy[c].copy.number \in 0..Room'
              /\ busy[c].op = "crl" => busy[c].list.number \in 1..(Room' + 1)
         /\ listener.op = "write" /\ listener.file = "crl" => listener.copy.number \in 0..Room'
<1>1. Room \in Nat /\ Room' \in Nat
  BY DEF Listed
<1>2. \A k \in 0..Room : k \in 0..Room'
  BY <1>1
<1>3. \A k \in 1..(Room + 1) : k \in 1..(Room' + 1)
  BY <1>1, OneMore
<1>4. QED BY <1>1, <1>2, <1>3 DEF Listed, NumberOK

LEMMA RoomLess ==
  ASSUME Framed, commands' \in Nat, commands' >= commands, Listing' \subseteq Listing
  PROVE  Room' \in Int /\ Room' >= Room
<1>1. Cardinality(Listing') \in Nat /\ Cardinality(Listing') <= Cardinality(Listing)
      /\ Cardinality(Listing) \in Nat
  BY ListingFinite, FS_Subset, FS_CardinalityType
<1>2. commands \in Nat
  BY DEF Framed, Counted
<1>3. QED BY <1>1, <1>2 DEF Room

\* Steps that leave the lists alone, and begin no command on the authority.
ListsLeft ==
  /\ UNCHANGED crl /\ disk'["crl"] = disk["crl"]
  /\ \A m \in sent' : m \in sent \/ m.kind # "crl"
  /\ \A c \in Commands :
       \/ busy'[c] = busy[c]
       \/ busy'[c].op # "crl" /\ (busy'[c].op = "write" => busy'[c].file # "crl")
  /\ listener' = listener \/ listener'.op # "write" \/ listener'.file # "crl"

LEMMA ListedKept ==
  ASSUME Framed, Listed, ListsLeft, Room' \in Int, Room' >= Room
  PROVE  Listed' /\ A!NumbersKept
<1>1. A!NumbersKept
  <2>1. \A n \in A!Nodes : crl[n].number \in Int /\ crl'[n] = crl[n]
    BY DEF ListsLeft, Listed, NumberOK
  <2>2. QED BY <2>1 DEF A!NumbersKept
<1>2. /\ Room' \in Nat
      /\ \A n \in A!Nodes : crl'[n].number \in 0..Room'
      /\ disk'["crl"].number \in 0..Room'
      /\ \A m \in sent' : m.kind = "crl" => m.body.number \in 0..Room'
      /\ \A c \in Commands :
           /\ busy'[c].op = "write" /\ busy'[c].file = "crl" => busy'[c].copy.number \in 0..Room'
           /\ busy'[c].op = "crl" => busy'[c].list.number \in 1..(Room' + 1)
      /\ listener'.op = "write" /\ listener'.file = "crl" => listener'.copy.number \in 0..Room'
  <2>1. QED BY RoomKept DEF ListsLeft
<1>3. Listed'
  BY <1>2 DEF Listed, NumberOK
<1>4. QED BY <1>1, <1>3

\* A command on the authority begins.
LEMMA RoomBegins ==
  ASSUME Framed, NEW c \in Commands, busy[c] = A!Idle, MakesList(busy'[c]),
         \A d \in Commands \ {c} : busy'[d] = busy[d], commands' = commands + 1
  PROVE  Room' \in Int /\ Room' >= Room
<1>1. Listing' = Listing \cup {c} /\ c \notin Listing
  BY DEF Listing, MakesList, A!Idle
<1>2. Cardinality(Listing') = Cardinality(Listing) + 1 /\ Cardinality(Listing) \in Nat
  BY <1>1, ListingFinite, FS_AddElement
<1>3. commands \in Nat
  BY DEF Framed, Counted
<1>4. QED BY <1>2, <1>3 DEF Room

\* A command goes on, and is still to make its list, or has made it.
LEMMA RoomGoesOn ==
  ASSUME Framed, NEW c \in Commands, MakesList(busy'[c]) => MakesList(busy[c]),
         \A d \in Commands \ {c} : busy'[d] = busy[d], UNCHANGED commands
  PROVE  Room' \in Int /\ Room' >= Room
<1>1. Listing' \subseteq Listing
  BY DEF Listing
<1>2. commands' \in Nat /\ commands' >= commands
  BY DEF Framed, Counted
<1>3. QED BY <1>1, <1>2, RoomLess

LEMMA NumberListListed ==
  ASSUME Framed, Listed, NEW c \in Commands, A!NumberList(c)
  PROVE  Listed' /\ A!NumbersKept
<1> DEFINE number == crl[Owner].number + 1
<1>1. /\ busy'[c] = [op |-> "crl", list |-> [number |-> number, serials |-> busy[c].serials]]
      /\ \A d \in Commands \ {c} : busy'[d] = busy[d]
      /\ busy[c].op = "list" /\ UNCHANGED <<crl, disk, listener, commands, sent>>
  BY WorkTaken DEF A!NumberList, A!NewList, A!stores
<1>2. busy'[c].op = "crl" /\ busy'[c].list.number = number /\ MakesList(busy[c])
  BY <1>1 DEF MakesList
<1>3. Room' \in Int /\ Room' >= Room
  BY <1>1, <1>2, RoomGoesOn
<1>4. number \in 1..(Room + 1) /\ Room \in Nat
  BY DEF Listed, NumberOK, A!Nodes
<1> HIDE DEF number
<1>5. number \in 1..(Room' + 1)
  <2>1. Room' \in Nat
    BY <1>3, RoomKept
  <2>2. QED BY <1>3, <1>4, <2>1, OneMore
<1>6. \A d \in Commands : busy'[d].op = "crl" => busy'[d].list.number \in 1..(Room' + 1)
  BY <1>1, <1>2, <1>3, <1>5, RoomKept
<1>7. \A d \in Commands :
        busy'[d].op = "write" /\ busy'[d].file = "crl" => busy'[d].copy.number \in 0..Room'
  BY <1>1, <1>2, <1>3, RoomKept
<1>8. Listed'
  BY <1>1, <1>3, <1>6, <1>7, RoomKept DEF Listed, NumberOK
<1>9. A!NumbersKept
  <2>1. \A n \in A!Nodes : crl[n].number \in Int /\ crl'[n] = crl[n]
    BY <1>1 DEF Listed, NumberOK
  <2>2. QED BY <2>1 DEF A!NumbersKept
<1>10. QED BY <1>8, <1>9

LEMMA FinishListListed ==
  ASSUME Framed, Listed, NEW c \in Commands, A!FinishList(c)
  PROVE  Listed' /\ A!NumbersKept
<1> DEFINE list == busy[c].list
<1>1. /\ busy'[c] = A!Write("crl", crl'[Owner], A!Idle)
      /\ \A d \in Commands \ {c} : busy'[d] = busy[d]
      /\ busy[c].op = "crl" /\ UNCHANGED <<disk, listener, commands, sent>>
      /\ crl' = [crl EXCEPT ![Owner] = list] /\ list.number >= crl[Owner].number
  BY WorkTaken DEF A!FinishList, A!Exported, A!Takes
<1>2. busy'[c].op = "write" /\ busy'[c].copy = crl'[Owner] /\ busy'[c].then.op = "idle"
  BY <1>1 DEF A!Write, A!Idle
<1>3. Listing' = Listing \ {c} /\ c \in Listing
  BY <1>1, <1>2 DEF Listing, MakesList
<1>4. Room' = Room + 1
  <2>1. Cardinality(Listing') = Cardinality(Listing) - 1 /\ Cardinality(Listing) \in Nat
    BY <1>3, ListingFinite, FS_RemoveElement
  <2>2. commands' = commands /\ commands \in Nat
    BY <1>1 DEF Framed, Counted
  <2>3. QED BY <2>1, <2>2 DEF Room
<1>5. Room \in Nat /\ list.number \in 1..(Room + 1)
  BY <1>1 DEF Listed
<1>6. crl'[Owner] = list /\ \A n \in A!Nodes \ {Owner} : crl'[n] = crl[n]
  BY <1>1 DEF Framed, Shapes, A!Nodes
<1> HIDE DEF list
<1>7. list.number \in 0..Room' /\ Room' \in Int /\ Room' >= Room
  BY <1>4, <1>5
<1>8. \A n \in A!Nodes : crl'[n].number \in 0..Room'
  BY <1>6, <1>7, RoomKept
<1>9. ASSUME NEW d \in Commands
      PROVE  /\ busy'[d].op = "write" /\ busy'[d].file = "crl" => busy'[d].copy.number \in 0..Room'
             /\ busy'[d].op = "crl" => busy'[d].list.number \in 1..(Room' + 1)
  <2>1. CASE d = c
    BY <1>2, <1>6, <1>7, <2>1
  <2>2. CASE d # c
    BY <1>1, <1>7, <2>2, RoomKept
  <2>3. QED BY <2>1, <2>2
<1>10. Listed'
  BY <1>1, <1>7, <1>8, <1>9, RoomKept DEF Listed, NumberOK
<1>11. A!NumbersKept
  <2>1. \A n \in A!Nodes : crl[n].number \in Int
    BY DEF Listed, NumberOK
  <2>2. \A n \in A!Nodes : crl'[n].number >= crl[n].number
    BY <1>1, <1>6, <2>1
  <2>3. QED BY <2>2 DEF A!NumbersKept
<1>12. QED BY <1>10, <1>11

LEMMA ReceiveCrlListed ==
  ASSUME Framed, Listed, NEW n \in A!Nodes, NEW m \in A!InFlight, A!ReceiveCrl(n, m)
  PROVE  Listed' /\ A!NumbersKept
<1>1. m.kind = "crl" /\ m \in sent
  BY DEF A!ReceiveCrl, A!InFlight, A!Outgoing, A!Message
<1>2. /\ crl' = [crl EXCEPT ![n] = m.body] /\ m.body.number >= crl[n].number
      /\ UNCHANGED <<disk, busy, commands, sent>>
      /\ listener' = listener \/ listener' = A!Write("crl", crl'[n], A!Idle)
  BY DEF A!ReceiveCrl, A!Takes, A!Listens, A!Exported
<1>3. crl'[n] = m.body /\ \A x \in A!Nodes \ {n} : crl'[x] = crl[x]
  BY <1>2 DEF Framed, Shapes
<1>4. Room' = Room /\ Room \in Nat
  BY <1>2 DEF Room, Listing, Listed
<1>5. Room' \in Int /\ Room' >= Room
  BY <1>4
<1>6. m.body.number \in 0..Room'
  BY <1>1, <1>5, RoomKept
<1>7. \A x \in A!Nodes : crl'[x].number \in 0..Room'
  BY <1>3, <1>5, <1>6, RoomKept
<1>8. listener'.op = "write" /\ listener'.file = "crl" => listener'.copy.number \in 0..Room'
  <2>1. CASE listener' = listener
    BY <1>5, <2>1, RoomKept
  <2>2. CASE listener' = A!Write("crl", crl'[n], A!Idle)
    BY <1>3, <1>6, <2>2 DEF A!Write
  <2>3. QED BY <1>2, <2>1, <2>2
<1>9. Listed'
  BY <1>2, <1>5, <1>7, <1>8, RoomKept DEF Listed, NumberOK
<1>10. A!NumbersKept
  <2>1. \A x \in A!Nodes : crl[x].number \in Int
    BY DEF Listed, NumberOK
  <2>2. \A x \in A!Nodes : crl'[x].number >= crl[x].number
    BY <1>2, <1>3, <2>1
  <2>3. QED BY <2>2 DEF A!NumbersKept
<1>11. QED BY <1>9, <1>10

\* The list's file is written, by a connection or by the listener.
LEMMA WriteListed ==
  ASSUME Framed, Listed, UNCHANGED <<crl, sent>>, Room' \in Int, Room' >= Room,
         disk'["crl"] = disk["crl"] \/ disk'["crl"].number \in 0..Room,
         \A c \in Commands : busy'[c] = busy[c] \/ busy'[c].op \in {"idle", "purged"},
         listener' = listener \/ listener'.op # "write"
  PROVE  Listed' /\ A!NumbersKept
<1>1. Room \in Nat
  BY DEF Listed
<1>2. disk'["crl"].number \in 0..Room'
  BY <1>1, RoomKept
<1>3. \A c \in Commands :
        /\ busy'[c].op = "write" /\ busy'[c].file = "crl" => busy'[c].copy.number \in 0..Room'
        /\ busy'[c].op = "crl" => busy'[c].list.number \in 1..(Room' + 1)
  BY RoomKept
<1>4. Listed'
  BY <1>2, <1>3, RoomKept DEF Listed, NumberOK
<1>5. A!NumbersKept
  <2>1. \A n \in A!Nodes : crl[n].number \in Int /\ crl'[n] = crl[n]
    BY DEF Listed, NumberOK
  <2>2. QED BY <2>1 DEF A!NumbersKept
<1>6. QED BY <1>4, <1>5

LEMMA AuthorityListed ==
  ASSUME Framed, Listed, A!Next, UNCHANGED caFile
  PROVE  Listed' /\ A!NumbersKept
<1>1. commands \in Nat /\ commands' \in Nat
  BY AuthorityFramed DEF Framed, Counted
<1>2. CASE \E c \in Commands : A!Operate(c)
  <2>1. PICK c \in Commands : A!Operate(c)
    BY <1>2
  <2>2. ASSUME NEW w, A!Becomes(c, w), w.op # "crl", w.op = "write" => w.file # "crl",
               UNCHANGED <<crl, disk, sent, listener, commands>>,
               MakesList(w) => MakesList(busy[c])
        PROVE  Listed' /\ A!NumbersKept
    <3>1. busy'[c] = w /\ \A d \in Commands \ {c} : busy'[d] = busy[d]
      BY <2>2, WorkTaken
    <3>2. ListsLeft /\ Room' \in Int /\ Room' >= Room
      BY <2>2, <3>1, RoomGoesOn DEF ListsLeft
    <3>3. QED BY <3>2, ListedKept
  <2>3. ASSUME NEW w, A!Becomes(c, w), w.op \in {"purge", "list"}, busy[c] = A!Idle,
               UNCHANGED <<crl, disk, sent, listener>>, commands' = commands + 1
        PROVE  Listed' /\ A!NumbersKept
    <3>1. busy'[c] = w /\ \A d \in Commands \ {c} : busy'[d] = busy[d]
      BY <2>3, WorkTaken
    <3>2. ListsLeft /\ Room' \in Int /\ Room' >= Room
      BY <2>3, <3>1, RoomBegins DEF ListsLeft, MakesList
    <3>3. QED BY <3>2, ListedKept
  <2>4. CASE \E d \in Domains, ttl \in Ttls, strike \in Strikes : A!StartPurge(c, d, ttl, strike)
    BY <2>3, <2>4 DEF A!StartPurge, A!Begins, A!stores
  <2>5. CASE A!FinishPurge(c)
    <3>1. PICK w : A!Becomes(c, w) /\ w.op = "write" /\ w.file = "purges" /\ MakesList(busy[c])
      BY <2>5 DEF A!FinishPurge, A!Write, MakesList
    <3>2. QED BY <2>2, <2>5, <3>1 DEF A!FinishPurge
  <2>6. CASE A!RefusePurge(c) \/ A!RefuseList(c)
    BY <2>2, <2>6 DEF A!RefusePurge, A!RefuseList, A!Idle, A!stores, MakesList
  <2>7. CASE A!WriteFile(c)
    <3>1. /\ busy[c].op = "write" /\ A!Becomes(c, busy[c].then)
          /\ disk' = [disk EXCEPT ![busy[c].file] = busy[c].copy]
          /\ UNCHANGED <<crl, sent, listener, commands>>
      BY <2>7 DEF A!WriteFile
    <3>2. WorkOK(busy[c])
      BY DEF Framed, WorksOK
    <3>3. busy[c].then.op \in {"idle", "purged"}
      BY <3>1, <3>2, AfterWrite
    <3>4. busy'[c] = busy[c].then /\ \A d \in Commands \ {c} : busy'[d] = busy[d]
      BY <3>1, WorkTaken
    <3>5. Room' \in Int /\ Room' >= Room
      BY <3>1, <3>3, <3>4, RoomGoesOn DEF MakesList
    <3>6. disk'["crl"] = disk["crl"] \/ disk'["crl"].number \in 0..Room
      BY <3>1 DEF Listed, NumberOK, Framed, Shapes
    <3>7. QED BY <3>1, <3>3, <3>4, <3>5, <3>6, WriteListed
  <2>8. CASE A!RevokePurged(c)
    <3>1. PICK w : A!Becomes(c, w) /\ w.op \in {"idle", "list"} /\ MakesList(busy[c])
      BY <2>8 DEF A!RevokePurged, A!Idle, MakesList
    <3>2. QED BY <2>2, <2>8, <3>1 DEF A!RevokePurged, A!stores
  <2>9. CASE \E s \in {k.serial : k \in chains[Owner]} : A!StartRevoke(c, s)
    BY <2>3, <2>9 DEF A!StartRevoke, A!Begins, A!stores
  <2>10. CASE \E list \in Lists : A!StartIssue(c, list)
    BY <2>3, <2>10 DEF A!StartIssue, A!Begins, A!stores
  <2>11. CASE A!NumberList(c)
    BY <2>11, NumberListListed
  <2>12. CASE A!FinishList(c)
    BY <2>12, FinishListListed
  <2>13. CASE \E d \in Domains : A!GenerateCert(c, d)
    <3>1. UNCHANGED <<crl, disk, busy, listener>> /\ commands' = commands + 1
          /\ \A m \in sent' : m \in sent \/ m.kind # "crl"
      BY <2>13 DEF A!GenerateCert, A!Begins, A!Message, A!stores
    <3>2. ListsLeft /\ Room' \in Int /\ Room' >= Room
      BY <1>1, <3>1, RoomLess DEF ListsLeft, Listing
    <3>3. QED BY <3>2, ListedKept
  <2>14. QED
    BY <2>1, <2>4, <2>5, <2>6, <2>7, <2>8, <2>9, <2>10, <2>11, <2>12, <2>13 DEF A!Operate
<1>3. ASSUME UNCHANGED <<busy, commands>> PROVE Room' \in Int /\ Room' >= Room
  BY <1>1, <1>3, RoomLess DEF Listing
<1>4. CASE \E n \in A!Nodes : A!BroadcastCrl(n)
  <2>1. PICK n \in A!Nodes : A!BroadcastCrl(n)
    BY <1>4
  <2>2. /\ UNCHANGED <<crl, disk, busy, listener, commands>>
        /\ \A m \in sent' : m \in sent \/ m = A!Message("crl", n, crl[n])
    BY <2>1 DEF A!BroadcastCrl, A!stores
  <2>3. Room' \in Int /\ Room' >= Room
    BY <1>3, <2>2
  <2>4. \A m \in sent' : m.kind = "crl" => m.body.number \in 0..Room'
    BY <2>2, <2>3, RoomKept DEF A!Message
  <2>5. Listed'
    BY <2>2, <2>3, <2>4, RoomKept DEF Listed, NumberOK
  <2>6. A!NumbersKept
    <3>1. \A x \in A!Nodes : crl[x].number \in Int /\ crl'[x] = crl[x]
      BY <2>2 DEF Listed, NumberOK
    <3>2. QED BY <3>1 DEF A!NumbersKept
  <2>7. QED BY <2>5, <2>6
<1>5. CASE \E n \in A!Nodes, m \in A!InFlight : A!Receive(n, m)
  <2>1. PICK n \in A!Nodes, m \in A!InFlight : A!Receive(n, m)
    BY <1>5
  <2>2. CASE A!ReceiveCrl(n, m)
    BY <2>2, ReceiveCrlListed
  <2>3. CASE A!ReceiveCa(n, m) \/ A!ReceiveChain(n, m) \/ A!ReceivePurge(n, m)
    <3>1. UNCHANGED <<busy, crl, disk, commands, sent>>
          /\ (listener' = listener \/ listener'.op # "write" \/ listener'.file # "crl")
      BY <2>3 DEF A!ReceiveCa, A!ReceiveChain, A!ReceivePurge, A!stores, A!Listens, A!Write
    <3>2. ListsLeft
      BY <3>1 DEF ListsLeft
    <3>3. QED BY <1>3, <3>1, <3>2, ListedKept
  <2>4. QED BY <2>1, <2>2, <2>3 DEF A!Receive
<1>6. CASE A!ListenerWrites
  <2>1. /\ UNCHANGED <<busy, crl, commands, sent>> /\ listener.op = "write"
        /\ disk' = [disk EXCEPT ![listener.file] = listener.copy] /\ listener' = listener.then
    BY <1>6 DEF A!ListenerWrites
  <2>2. listener'.op # "write"
    BY <2>1 DEF Framed, ListenerOK, A!Idle
  <2>3. disk'["crl"] = disk["crl"] \/ disk'["crl"].number \in 0..Room
    BY <2>1 DEF Listed, NumberOK, Framed, Shapes
  <2>4. QED BY <1>3, <2>1, <2>2, <2>3, WriteListed
<1>7. CASE A!Tick
  <2>1. ListsLeft /\ UNCHANGED <<busy, commands>>
    BY <1>7 DEF A!Tick, A!stores, ListsLeft
  <2>2. QED BY <1>3, <2>1, ListedKept
<1>8. QED BY <1>2, <1>4, <1>5, <1>6, <1>7 DEF A!Next

LEMMA OfferListed ==
  ASSUME Framed, Listed, OfferStep
  PROVE  Listed' /\ A!NumbersKept
<1>1. /\ UNCHANGED <<crl, disk, listener, sent>> /\ commands' \in Nat /\ commands' >= commands
      /\ \A c \in Commands :
           \/ busy'[c] = busy[c]
           \/ busy[c].op \notin AuthorityOps /\ busy'[c].op \notin AuthorityOps
  BY OfferFramed DEF OfferStep, Framed, Counted
<1>2. Listing' \subseteq Listing
  BY <1>1 DEF Listing, MakesList, AuthorityOps
<1>3. ListsLeft
  BY <1>1 DEF ListsLeft, AuthorityOps
<1>4. QED BY <1>1, <1>2, <1>3, RoomLess, ListedKept

-----------------------------------------------------------------------------
(* The owner's files.                                                       *)

Tables == [purges |-> purges[Owner], chains |-> chains[Owner], crl |-> crl[Owner]]
FileNames == {"purges", "chains", "crl"}

\* Where no writers have raced, whatever is to be written is what the table has, and
\* what is not to be written is what the file has.
FollowingOf(file) ==
  \/ file \in raced
  \/ /\ \A c \in Commands :
          busy[c].op = "write" /\ busy[c].file = file => busy[c].copy = Tables[file]
     /\ listener.op = "write" /\ listener.file = file => listener.copy = Tables[file]
     /\ A!Writing(file) \/ disk[file] = Tables[file]

Following == \A file \in FileNames : FollowingOf(file)

LEMMA InitFollowing == Init => Following
<1> SUFFICES ASSUME Init PROVE Following
  OBVIOUS
<1>1. /\ purges[Owner] = {} /\ chains[Owner] = {} /\ crl[Owner] = A!NoCrl
      /\ disk = [purges |-> {}, chains |-> {}, crl |-> A!NoCrl]
      /\ listener = A!Idle /\ \A c \in Commands : busy[c] = A!Idle
  BY DEF Init, A!Init, A!Nodes
<1>2. \A file \in FileNames : disk[file] = Tables[file]
  BY <1>1 DEF Tables, FileNames
<1>3. QED BY <1>1, <1>2 DEF Following, FollowingOf, A!Idle

\* Steps that change no table of the owner's, no file, and no work that writes.
FilesLeft ==
  /\ UNCHANGED <<disk, listener, raced>> /\ UNCHANGED Tables
  /\ \A c \in Commands :
       \/ busy'[c] = busy[c]
       \/ busy[c].op # "write" /\ busy'[c].op # "write"

LEMMA FollowingKept ==
  ASSUME Following, FilesLeft
  PROVE  Following'
<1>1. \A file : A!Writing(file) => A!Writing(file)'
  BY DEF FilesLeft, A!Writing
<1>2. QED BY <1>1 DEF FilesLeft, Following, FollowingOf

\* A connection, or the listener, has changed a table, and is to write its file.
LEMMA WriterFollowing ==
  ASSUME Following, NEW file \in FileNames,
         \A f \in FileNames \ {file} : Tables'[f] = Tables[f], UNCHANGED disk,
         raced' = raced \cup (IF A!Writing(file) THEN {file} ELSE {}),
         \/ /\ UNCHANGED listener
            /\ \E c \in Commands :
                 /\ busy'[c] = A!Write(file, Tables'[file], busy'[c].then) /\ busy[c].op # "write"
                 /\ \A d \in Commands \ {c} : busy'[d] = busy[d]
         \/ /\ UNCHANGED busy
            /\ listener' = A!Write(file, Tables'[file], listener'.then) /\ listener.op # "write"
  PROVE  Following'
<1> SUFFICES ASSUME NEW f \in FileNames PROVE FollowingOf(f)'
  BY DEF Following
<1>1. FollowingOf(f)
  BY DEF Following
<1>2. /\ \A c \in Commands :
           \/ busy'[c] = busy[c]
           \/ /\ busy'[c].op = "write" /\ busy'[c].file = file /\ busy'[c].copy = Tables'[file]
              /\ busy[c].op # "write"
      /\ \/ listener' = listener
         \/ /\ listener'.op = "write" /\ listener'.file = file /\ listener'.copy = Tables'[file]
            /\ listener.op # "write"
      /\ A!Writing(file)'
  <2>1. CASE UNCHANGED listener
    <3>1. PICK c \in Commands :
            /\ busy'[c] = A!Write(file, Tables'[file], busy'[c].then) /\ busy[c].op # "write"
            /\ \A d \in Commands \ {c} : busy'[d] = busy[d]
      BY <2>1 DEF A!Write
    <3>2. busy'[c].op = "write" /\ busy'[c].file = file /\ busy'[c].copy = Tables'[file]
      BY <3>1 DEF A!Write
    <3>3. A!Writing(file)'
      BY <3>2 DEF A!Writing
    <3>4. QED BY <2>1, <3>1, <3>2, <3>3
  <2>2. CASE UNCHANGED busy /\ listener' # listener
    <3>1. /\ listener' = A!Write(file, Tables'[file], listener'.then) /\ listener.op # "write"
      BY <2>2
    <3>2. listener'.op = "write" /\ listener'.file = file /\ listener'.copy = Tables'[file]
      BY <3>1 DEF A!Write
    <3>3. A!Writing(file)'
      BY <3>2 DEF A!Writing
    <3>4. QED BY <2>2, <3>1, <3>2, <3>3
  <2>3. QED BY <2>1, <2>2
<1>3. CASE f = file
  <2>1. CASE A!Writing(file) \/ file \in raced
    BY <1>3, <2>1 DEF FollowingOf
  <2>2. CASE ~A!Writing(file)
    <3>1. /\ \A c \in Commands : ~(busy[c].op = "write" /\ busy[c].file = file)
          /\ ~(listener.op = "write" /\ listener.file = file)
      BY <2>2 DEF A!Writing
    <3>2. QED BY <1>2, <1>3, <3>1 DEF FollowingOf
  <2>3. QED BY <2>1, <2>2
<1>4. CASE f # file
  <2>1. Tables'[f] = Tables[f] /\ disk'[f] = disk[f]
    BY <1>4
  <2>2. A!Writing(f) => A!Writing(f)'
    BY <1>2, <1>4 DEF A!Writing
  <2>3. QED BY <1>1, <1>2, <1>4, <2>1, <2>2 DEF FollowingOf
<1>5. QED BY <1>3, <1>4

\* A file is written from a copy.
LEMMA WrittenFollowing ==
  ASSUME Following, UNCHANGED Tables, UNCHANGED raced, DOMAIN disk = FileNames,
         NEW file \in FileNames, NEW copy, disk' = [disk EXCEPT ![file] = copy],
         \/ /\ UNCHANGED listener
            /\ \E c \in Commands :
                 /\ busy[c].op = "write" /\ busy[c].file = file /\ busy[c].copy = copy
                 /\ busy'[c].op # "write" /\ \A d \in Commands \ {c} : busy'[d] = busy[d]
         \/ /\ UNCHANGED busy
            /\ listener.op = "write" /\ listener.file = file /\ listener.copy = copy
            /\ listener'.op # "write"
  PROVE  Following'
<1> SUFFICES ASSUME NEW f \in FileNames PROVE FollowingOf(f)'
  BY DEF Following
<1>1. FollowingOf(f)
  BY DEF Following
<1>2. /\ \A c \in Commands :
           \/ busy'[c] = busy[c]
           \/ /\ busy[c].op = "write" /\ busy[c].file = file /\ busy[c].copy = copy
              /\ busy'[c].op # "write"
      /\ \/ listener' = listener
         \/ /\ listener.op = "write" /\ listener.file = file /\ listener.copy = copy
            /\ listener'.op # "write"
  OBVIOUS
<1>3. Tables'[f] = Tables[f]
  OBVIOUS
<1>4. CASE f = file
  <2>1. disk'[f] = copy
    BY <1>4
  <2>2. f \in raced \/ copy = Tables[f]
    BY <1>1, <1>4 DEF FollowingOf
  <2>3. QED BY <1>1, <1>2, <1>3, <2>1, <2>2 DEF FollowingOf
<1>5. CASE f # file
  <2>1. disk'[f] = disk[f]
    BY <1>5
  <2>2. A!Writing(f) => A!Writing(f)'
    BY <1>2, <1>5 DEF A!Writing
  <2>3. QED BY <1>1, <1>2, <1>3, <2>1, <2>2 DEF FollowingOf
<1>6. QED BY <1>4, <1>5

\* A packet changes the owner's tables, if it is the owner's listener that takes it.
LEMMA ReceiveFollowing ==
  ASSUME Framed, Following, NEW n \in A!Nodes, NEW m \in A!InFlight, A!Receive(n, m)
  PROVE  Following'
<1>1. CASE A!ReceiveCa(n, m)
  BY <1>1, FollowingKept DEF A!ReceiveCa, A!stores, FilesLeft, Tables
<1>2. CASE A!ReceivePurge(n, m)
  <2>1. UNCHANGED <<chains, crl, disk, busy, listener, raced>>
    BY <1>2 DEF A!ReceivePurge
  <2>2. purges'[Owner] = purges[Owner]
    <3>1. CASE A!Acceptable(n, m)
      <4>1. n # Owner /\ purges' = [purges EXCEPT ![n] = @ \cup {m.body}]
        BY <1>2, <3>1 DEF A!ReceivePurge, A!Acceptable, A!Valid, A!IsOwner, A!Arrives
      <4>2. QED BY <4>1
    <3>2. CASE ~A!Acceptable(n, m)
      BY <1>2, <3>2 DEF A!ReceivePurge
    <3>3. QED BY <3>1, <3>2
  <2>3. QED BY <2>1, <2>2, FollowingKept DEF FilesLeft, Tables
<1>3. CASE A!ReceiveChain(n, m) /\ n # Owner
  <2>1. UNCHANGED <<purges, crl, disk, busy, listener, raced>> /\ chains'[Owner] = chains[Owner]
    BY <1>3 DEF A!ReceiveChain, A!Listens
  <2>2. QED BY <2>1, FollowingKept DEF FilesLeft, Tables
<1>4. CASE A!ReceiveChain(n, m) /\ n = Owner
  <2>1. /\ UNCHANGED <<purges, crl, disk, busy, raced>> /\ listener = A!Idle
        /\ listener' = A!Write("chains", chains'[Owner], A!Idle)
    BY <1>4 DEF A!ReceiveChain, A!Listens, A!Arrives, A!Exported
  <2>2. ~A!Writing("chains")
    <3>1. \A c \in Commands : WorkOK(busy[c])
      BY DEF Framed, WorksOK
    <3>2. \A c \in Commands : busy[c].op = "write" => busy[c].file \in {"purges", "crl"}
      BY <3>1, AfterWrite
    <3>3. QED BY <2>1, <3>2 DEF A!Writing, A!Idle
  <2>3. /\ Tables'["chains"] = chains'[Owner]
        /\ \A f \in FileNames \ {"chains"} : Tables'[f] = Tables[f]
    BY <2>1 DEF Tables, FileNames
  <2>4. listener' = A!Write("chains", Tables'["chains"], listener'.then) /\ listener.op # "write"
    BY <2>1, <2>3 DEF A!Write, A!Idle
  <2>5. raced' = raced \cup (IF A!Writing("chains") THEN {"chains"} ELSE {})
    BY <2>1, <2>2
  <2>6. "chains" \in FileNames
    BY DEF FileNames
  <2>7. QED BY <2>1, <2>3, <2>4, <2>5, <2>6, WriterFollowing
<1>5. CASE A!ReceiveCrl(n, m) /\ n # Owner
  <2>1. UNCHANGED <<purges, chains, disk, busy, listener, raced>> /\ crl'[Owner] = crl[Owner]
    BY <1>5 DEF A!ReceiveCrl, A!Listens
  <2>2. QED BY <2>1, FollowingKept DEF FilesLeft, Tables
<1>6. CASE A!ReceiveCrl(n, m) /\ n = Owner
  <2>1. /\ UNCHANGED <<purges, chains, disk, busy>> /\ listener = A!Idle
        /\ listener' = A!Write("crl", crl'[Owner], A!Idle)
        /\ raced' = raced \cup (IF A!Writing("crl") THEN {"crl"} ELSE {})
    BY <1>6 DEF A!ReceiveCrl, A!Listens, A!Arrives, A!Exported, A!Races
  <2>2. Tables'["crl"] = crl'[Owner] /\ \A f \in FileNames \ {"crl"} : Tables'[f] = Tables[f]
    BY <2>1 DEF Tables, FileNames
  <2>3. listener' = A!Write("crl", Tables'["crl"], listener'.then) /\ listener.op # "write"
    BY <2>1, <2>2 DEF A!Write, A!Idle
  <2>4. "crl" \in FileNames
    BY DEF FileNames
  <2>5. QED BY <2>1, <2>2, <2>3, <2>4, WriterFollowing
<1>7. QED BY <1>1, <1>2, <1>3, <1>4, <1>5, <1>6 DEF A!Receive

LEMMA OperateFollowing ==
  ASSUME Framed, Following, NEW c \in Commands, A!Operate(c)
  PROVE  Following'
<1>1. ASSUME NEW w, A!Becomes(c, w), w.op # "write", busy[c].op # "write",
             UNCHANGED <<purges, chains, crl, disk, listener, raced>>
      PROVE  Following'
  <2>1. busy'[c] = w /\ \A d \in Commands \ {c} : busy'[d] = busy[d]
    BY <1>1, WorkTaken
  <2>2. FilesLeft
    BY <1>1, <2>1 DEF FilesLeft, Tables
  <2>3. QED BY <2>2, FollowingKept
<1>2. CASE \E d \in Domains, ttl \in Ttls, strike \in Strikes : A!StartPurge(c, d, ttl, strike)
  BY <1>1, <1>2 DEF A!StartPurge, A!Begins, A!Idle, A!stores
<1>3. CASE A!RefusePurge(c) \/ A!RefuseList(c)
  BY <1>1, <1>3 DEF A!RefusePurge, A!RefuseList, A!Idle, A!stores
<1>4. CASE \/ \E s \in {k.serial : k \in chains[Owner]} : A!StartRevoke(c, s)
           \/ \E list \in Lists : A!StartIssue(c, list)
  <2>1. ASSUME NEW s, A!StartRevoke(c, s) \/ A!StartIssue(c, s)
        PROVE  Following'
    <3>1. PICK w : A!Becomes(c, w) /\ w.op = "list"
      BY <2>1 DEF A!StartRevoke, A!StartIssue
    <3>2. busy[c].op # "write" /\ UNCHANGED <<purges, chains, crl, disk, listener, raced>>
      BY <2>1 DEF A!StartRevoke, A!StartIssue, A!Begins, A!Idle, A!stores
    <3>3. QED BY <1>1, <3>1, <3>2
  <2>2. QED BY <1>4, <2>1
<1>5. CASE A!RevokePurged(c)
  <2>1. PICK w : A!Becomes(c, w) /\ w.op \in {"idle", "list"}
    BY <1>5 DEF A!RevokePurged, A!Idle
  <2>2. QED BY <1>1, <1>5, <2>1 DEF A!RevokePurged, A!stores
<1>6. CASE A!NumberList(c)
  BY <1>1, <1>6 DEF A!NumberList, A!stores
<1>7. CASE \E d \in Domains : A!GenerateCert(c, d)
  BY <1>7, FollowingKept DEF A!GenerateCert, A!stores, FilesLeft, Tables
<1>8. CASE A!FinishPurge(c)
  <2>1. /\ busy'[c] = A!Write("purges", purges'[Owner], [op |-> "purged", domain |-> busy[c].purge.domain])
        /\ \A d \in Commands \ {c} : busy'[d] = busy[d]
        /\ busy[c].op # "write" /\ UNCHANGED <<chains, crl, disk, listener>>
        /\ raced' = raced \cup (IF A!Writing("purges") THEN {"purges"} ELSE {})
    BY <1>8, WorkTaken DEF A!FinishPurge, A!Exported, A!Races
  <2>2. Tables'["purges"] = purges'[Owner] /\ \A f \in FileNames \ {"purges"} : Tables'[f] = Tables[f]
    BY <2>1 DEF Tables, FileNames
  <2>3. busy'[c] = A!Write("purges", Tables'["purges"], busy'[c].then)
    BY <2>1, <2>2 DEF A!Write
  <2>4. "purges" \in FileNames
    BY DEF FileNames
  <2>5. QED BY <2>1, <2>2, <2>3, <2>4, WriterFollowing
<1>9. CASE A!FinishList(c)
  <2>1. /\ busy'[c] = A!Write("crl", crl'[Owner], A!Idle)
        /\ \A d \in Commands \ {c} : busy'[d] = busy[d]
        /\ busy[c].op # "write" /\ UNCHANGED <<purges, chains, disk, listener>>
        /\ raced' = raced \cup (IF A!Writing("crl") THEN {"crl"} ELSE {})
    BY <1>9, WorkTaken DEF A!FinishList, A!Exported, A!Races
  <2>2. Tables'["crl"] = crl'[Owner] /\ \A f \in FileNames \ {"crl"} : Tables'[f] = Tables[f]
    BY <2>1 DEF Tables, FileNames
  <2>3. busy'[c] = A!Write("crl", Tables'["crl"], busy'[c].then)
    BY <2>1, <2>2 DEF A!Write
  <2>4. "crl" \in FileNames
    BY DEF FileNames
  <2>5. QED BY <2>1, <2>2, <2>3, <2>4, WriterFollowing
<1>10. CASE A!WriteFile(c)
  <2>1. /\ busy[c].op = "write" /\ disk' = [disk EXCEPT ![busy[c].file] = busy[c].copy]
        /\ UNCHANGED <<purges, chains, crl, listener, raced>> /\ WorkOK(busy[c])
        /\ busy'[c] = busy[c].then /\ \A d \in Commands \ {c} : busy'[d] = busy[d]
        /\ DOMAIN disk = FileNames
    BY <1>10, WorkTaken DEF A!WriteFile, Framed, WorksOK, Shapes, FileNames
  <2>2. busy[c].file \in FileNames /\ busy'[c].op # "write"
    BY <2>1, AfterWrite DEF FileNames
  <2>3. UNCHANGED Tables
    BY <2>1 DEF Tables
  <2>4. QED BY <2>1, <2>2, <2>3, WrittenFollowing
<1>11. QED
  BY <1>2, <1>3, <1>4, <1>5, <1>6, <1>7, <1>8, <1>9, <1>10 DEF A!Operate

LEMMA AuthorityFollowing ==
  ASSUME Framed, Following, A!Next
  PROVE  Following'
<1>1. CASE \E n \in A!Nodes : A!BroadcastCrl(n)
  BY <1>1, FollowingKept DEF A!BroadcastCrl, A!stores, FilesLeft, Tables
<1>2. CASE A!Tick
  BY <1>2, FollowingKept DEF A!Tick, A!stores, FilesLeft, Tables
<1>3. CASE A!ListenerWrites
  <2>1. /\ listener.op = "write" /\ disk' = [disk EXCEPT ![listener.file] = listener.copy]
        /\ UNCHANGED <<purges, chains, crl, busy, raced>> /\ listener' = listener.then
        /\ listener.file \in FileNames /\ DOMAIN disk = FileNames /\ listener.then = A!Idle
    BY <1>3 DEF A!ListenerWrites, Framed, ListenerOK, Shapes, FileNames, A!Idle
  <2>2. UNCHANGED Tables /\ listener'.op # "write"
    BY <2>1 DEF Tables, A!Idle
  <2>3. QED BY <2>1, <2>2, WrittenFollowing
<1>4. QED BY <1>1, <1>2, <1>3, OperateFollowing, ReceiveFollowing DEF A!Next

LEMMA OfferFollowing ==
  ASSUME Framed, Following, OfferStep
  PROVE  Following'
<1>1. /\ UNCHANGED <<purges, chains, crl, disk, listener, raced>>
      /\ \A c \in Commands :
           \/ busy'[c] = busy[c]
           \/ busy[c].op \notin AuthorityOps /\ busy'[c].op \notin AuthorityOps
  BY OfferFramed DEF OfferStep
<1>2. FilesLeft
  BY <1>1 DEF FilesLeft, Tables, AuthorityOps
<1>3. QED BY <1>2, FollowingKept

LEMMA RestartFollowing ==
  ASSUME Framed, Following, Restart
  PROVE  Following'
<1>1. /\ purges'[Owner] = disk["purges"] /\ chains'[Owner] = disk["chains"]
      /\ crl'[Owner] = disk["crl"] /\ UNCHANGED disk
      /\ listener' = A!Idle /\ \A c \in Commands : busy'[c] = A!Idle
  BY Restarted
<1>2. \A file \in FileNames : disk'[file] = Tables'[file]
  BY <1>1 DEF Tables, FileNames
<1>3. QED BY <1>1, <1>2 DEF Following, FollowingOf, A!Idle

\* A restart takes the owner back to the list in its file: an older one only where the
\* list had yet to be written, or writers had raced.
LEMMA RestartListed ==
  ASSUME Framed, Listed, Following, Restart
  PROVE  Listed' /\ A!NumbersKept
<1>1. /\ crl'[Owner] = disk["crl"] /\ \A n \in Peers : crl'[n] = crl[n]
      /\ listener' = A!Idle /\ \A c \in Commands : busy'[c] = A!Idle
      /\ sent' = sent \cup (A!Outgoing(Owner) \ A!Outgoing(Owner)')
      /\ UNCHANGED <<disk, commands>>
      /\ left' = [left EXCEPT !.restarts = @ - 1] /\ left.restarts > 0
  BY Restarted
<1>2. Room' \in Int /\ Room' >= Room
  <2>1. Listing' \subseteq Listing
    BY <1>1 DEF Listing, MakesList, A!Idle
  <2>2. commands' \in Nat /\ commands' >= commands
    BY <1>1 DEF Framed, Counted
  <2>3. QED BY <2>1, <2>2, RoomLess
<1>3. \A n \in A!Nodes : crl'[n].number \in 0..Room'
  BY <1>1, <1>2, RoomKept DEF A!Nodes
<1>4. \A m \in sent' : m.kind = "crl" => m \in sent
  BY <1>1 DEF A!Outgoing, A!Message
<1>5. Listed'
  BY <1>1, <1>2, <1>3, <1>4, RoomKept DEF Listed, NumberOK, A!Idle
<1>6. A!NumbersKept
  <2>1. ASSUME NEW n \in Peers PROVE crl'[n].number >= crl[n].number
    BY <1>1 DEF Listed, NumberOK, A!Nodes
  <2>2. left'.restarts < left.restarts
    BY <1>1 DEF Framed, Counted, Kinds
  <2>3. CASE A!Writing("crl") \/ "crl" \in raced
    BY <2>1, <2>2, <2>3 DEF A!NumbersKept, A!LostList, A!Nodes
  <2>4. CASE ~(A!Writing("crl") \/ "crl" \in raced)
    <3>1. disk["crl"] = crl[Owner]
      BY <2>4 DEF Following, FollowingOf, FileNames, Tables
    <3>2. crl'[Owner].number >= crl[Owner].number
      BY <1>1, <3>1 DEF Listed, NumberOK
    <3>3. QED BY <2>1, <3>2 DEF A!NumbersKept, A!Nodes
  <2>5. QED BY <2>3, <2>4
<1>7. QED BY <1>5, <1>6


-----------------------------------------------------------------------------
(* What the nodes hold of the authority.                                    *)

CertificateOK(k, upto) == k.domain \in Permitted /\ k.serial \in 1..upto

\* A peer holds nothing of an authority that was not published, and certificates were
\* given out for domains the authority may speak of.
Learned ==
  /\ \A n \in A!Nodes : \A k \in chains[n] : CertificateOK(k, commands)
  /\ \A k \in disk["chains"] : CertificateOK(k, commands)
  /\ listener.op = "write" /\ listener.file = "chains" =>
       \A k \in listener.copy : CertificateOK(k, commands)
  /\ \A m \in sent : m.kind = "chain" => CertificateOK(m.body, commands)
  /\ \A n \in A!Nodes : flagged[n] \subseteq A!Nodes \ {n}
  /\ \A n \in Peers :
       /\ ca[n] # "draft"
       /\ purges[n] # {} => ca[n] = "public"
       /\ chains[n] # {} => ca[n] # "unknown"

LEMMA InitLearned == Init => Learned
<1> SUFFICES ASSUME Init PROVE Learned
  OBVIOUS
<1>1. /\ \A n \in A!Nodes : purges[n] = {} /\ chains[n] = {} /\ flagged[n] = {}
      /\ \A n \in Peers : ca[n] = "unknown" /\ n \in A!Nodes
      /\ disk["chains"] = {} /\ listener.op = "idle" /\ sent = {}
  BY Assumptions DEF Init, A!Init, A!Nodes, A!Idle
<1>2. QED BY <1>1 DEF Learned

LEMMA LearnedKept ==
  ASSUME Framed, Learned, commands' \in Nat, commands' >= commands,
         UNCHANGED <<chains, flagged>>, \A n \in Peers : purges'[n] = purges[n] /\ ca'[n] = ca[n],
         disk'["chains"] = disk["chains"] \/ \A k \in disk'["chains"] : CertificateOK(k, commands),
         listener' = listener \/ listener'.op # "write" \/ listener'.file # "chains",
         \A m \in sent' : \/ m \in sent \/ m.kind # "chain"
                          \/ CertificateOK(m.body, commands')
  PROVE  Learned'
<1>1. commands \in Nat
  BY DEF Framed, Counted
<1>2. \A k : CertificateOK(k, commands) => CertificateOK(k, commands')
  BY <1>1 DEF CertificateOK
<1>3. QED BY <1>2 DEF Learned

LEMMA FlagLearned ==
  ASSUME Framed, Learned, NEW n \in A!Nodes, NEW m \in A!InFlight, m.kind \in {"ca", "purge"},
         m.from # n, NEW bad, A!Flag(n, bad, m.from)
  PROVE  \A x \in A!Nodes : flagged'[x] \subseteq A!Nodes \ {x}
<1>1. m.from \in A!Nodes
  <2>1. CASE m \in sent
    BY <2>1 DEF Framed, SentKinds, A!Nodes
  <2>2. CASE m \notin sent
    BY <2>2 DEF A!InFlight, A!Outgoing, A!Message
  <2>3. QED BY <2>1, <2>2
<1>2. QED BY <1>1 DEF A!Flag, Learned, Framed, Shapes

LEMMA ReceiveChainLearned ==
  ASSUME Framed, Learned, NEW n \in A!Nodes, NEW m \in A!InFlight, A!ReceiveChain(n, m)
  PROVE  Learned'
<1>1. /\ UNCHANGED <<ca, purges, disk, commands, sent, flagged>> /\ m.kind = "chain"
      /\ ca[n] # "unknown" /\ chains' = [chains EXCEPT ![n] = chains[n] \cup {m.body}]
      /\ listener' = IF n = Owner THEN A!Write("chains", chains'[n], A!Idle) ELSE listener
  BY DEF A!ReceiveChain, A!Listens, A!Exported, A!ChainValid
<1>2. CertificateOK(m.body, commands)
  <2>1. CASE m \in sent
    BY <1>1, <2>1 DEF Learned
  <2>2. CASE m \notin sent
    BY <1>1, <2>2 DEF A!InFlight, A!Outgoing, A!Message, Learned
  <2>3. QED BY <2>1, <2>2
<1>3. chains'[n] = chains[n] \cup {m.body} /\ \A x \in A!Nodes \ {n} : chains'[x] = chains[x]
  BY <1>1 DEF Framed, Shapes
<1>4. \A x \in A!Nodes : \A k \in chains'[x] : CertificateOK(k, commands)
  BY <1>2, <1>3 DEF Learned
<1>5. \A x \in Peers : chains'[x] # {} => ca[x] # "unknown"
  BY <1>1, <1>3 DEF Learned, A!Nodes
<1>6. listener'.op = "write" /\ listener'.file = "chains" =>
        \A k \in listener'.copy : CertificateOK(k, commands)
  <2>1. CASE n = Owner
    <3>1. listener'.copy = chains'[n]
      BY <1>1, <2>1 DEF A!Write
    <3>2. QED BY <1>4, <3>1
  <2>2. CASE n # Owner
    BY <1>1, <2>2 DEF Learned
  <2>3. QED BY <2>1, <2>2
<1>7. QED BY <1>1, <1>4, <1>5, <1>6 DEF Learned

LEMMA ReceiveLearned ==
  ASSUME Framed, Chained, Learned, NEW n \in A!Nodes, NEW m \in A!InFlight, A!Receive(n, m)
  PROVE  Learned'
<1>1. CASE A!ReceiveCa(n, m)
  <2>1. \A x \in A!Nodes : flagged'[x] \subseteq A!Nodes \ {x}
    BY <1>1, FlagLearned DEF A!ReceiveCa, A!Arrives
  <2>2. \A x \in Peers : ca'[x] = ca[x] \/ ca'[x] = "public"
    BY <1>1 DEF A!ReceiveCa, Framed, Shapes, A!Nodes
  <2>3. UNCHANGED <<purges, chains, disk, listener, commands, sent>>
    BY <1>1 DEF A!ReceiveCa, A!stores
  <2>4. QED BY <2>1, <2>2, <2>3 DEF Learned
<1>2. CASE A!ReceiveCrl(n, m)
  <2>1. UNCHANGED <<ca, purges, chains, disk, commands, sent, flagged>>
        /\ (listener' = listener \/ listener'.file # "chains")
    BY <1>2 DEF A!ReceiveCrl, A!Listens, A!Write
  <2>2. QED BY <2>1 DEF Learned
<1>3. CASE A!ReceivePurge(n, m)
  <2>1. \A x \in A!Nodes : flagged'[x] \subseteq A!Nodes \ {x}
    BY <1>3, FlagLearned DEF A!ReceivePurge, A!Arrives
  <2>2. UNCHANGED <<ca, chains, disk, listener, commands, sent>>
    BY <1>3 DEF A!ReceivePurge
  <2>3. \A x \in Peers : purges'[x] # {} => ca[x] = "public"
    <3>1. CASE A!Acceptable(n, m)
      BY <1>3, <3>1, ReceivePurgeChained DEF Learned
    <3>2. CASE ~A!Acceptable(n, m)
      BY <1>3, <3>2 DEF A!ReceivePurge, Learned
    <3>3. QED BY <3>1, <3>2
  <2>4. QED BY <2>1, <2>2, <2>3 DEF Learned
<1>4. QED BY <1>1, <1>2, <1>3, ReceiveChainLearned DEF A!Receive

LEMMA AuthorityLearned ==
  ASSUME Framed, Chained, Learned, A!Next, UNCHANGED caFile
  PROVE  Learned'
<1>1. commands \in Nat /\ commands' \in Nat /\ commands' >= commands
  BY AuthorityFramed DEF Framed, Counted
<1>2. CASE \E c \in Commands : A!Operate(c)
  <2>1. PICK c \in Commands : A!Operate(c)
    BY <1>2
  <2>2. UNCHANGED <<ca, chains, flagged, listener>>
    BY <2>1, AuthorityOperates
  <2>3. \A n \in Peers : purges'[n] = purges[n]
    <3>1. CASE A!FinishPurge(c)
      BY <2>1, <3>1, FinishPurgeChained
    <3>2. CASE ~A!FinishPurge(c)
      BY <2>1, <3>2
      DEF A!Operate, A!StartPurge, A!RefusePurge, A!WriteFile, A!RevokePurged, A!StartRevoke,
          A!StartIssue, A!NumberList, A!FinishList, A!RefuseList, A!GenerateCert, A!stores
    <3>3. QED BY <3>1, <3>2
  <2>4. disk'["chains"] = disk["chains"]
    <3>1. CASE A!WriteFile(c)
      <4>1. busy[c].file \in {"purges", "crl"} /\ disk' = [disk EXCEPT ![busy[c].file] = busy[c].copy]
        BY <3>1, AfterWrite DEF A!WriteFile, Framed, WorksOK
      <4>2. QED BY <4>1 DEF Framed, Shapes
    <3>2. CASE ~A!WriteFile(c)
      BY <2>1, <3>2
      DEF A!Operate, A!StartPurge, A!RefusePurge, A!FinishPurge, A!RevokePurged, A!StartRevoke,
          A!StartIssue, A!NumberList, A!FinishList, A!RefuseList, A!GenerateCert, A!stores
    <3>3. QED BY <3>1, <3>2
  <2>5. \A m \in sent' : m \in sent \/ m.kind # "chain" \/ CertificateOK(m.body, commands')
    <3>1. CASE \E d \in Domains : A!GenerateCert(c, d)
      <4>1. PICK d \in Domains : A!GenerateCert(c, d)
        BY <3>1
      <4> DEFINE k == A!Certificate(d, commands')
      <4>2. k.domain = d /\ k.serial = commands'
        BY DEF A!Certificate
      <4>3. /\ d \in Permitted /\ commands' = commands + 1
            /\ sent' = sent \cup {A!Message("chain", Outsider, k)}
        BY <4>1 DEF A!GenerateCert, A!Begins, A!IsPermitted
      <4> HIDE DEF k
      <4>4. CertificateOK(k, commands')
        BY <1>1, <4>2, <4>3 DEF CertificateOK
      <4>5. QED BY <4>3, <4>4 DEF A!Message
    <3>2. CASE ~\E d \in Domains : A!GenerateCert(c, d)
      BY <2>1, <3>2
      DEF A!Operate, A!StartPurge, A!FinishPurge, A!RefusePurge, A!WriteFile, A!RevokePurged,
          A!StartRevoke, A!StartIssue, A!NumberList, A!FinishList, A!RefuseList
    <3>3. QED BY <3>1, <3>2
  <2>6. QED BY <1>1, <2>2, <2>3, <2>4, <2>5, LearnedKept
<1>3. CASE \E n \in A!Nodes : A!BroadcastCrl(n)
  <2>1. /\ UNCHANGED <<ca, purges, chains, disk, listener, commands, flagged>>
        /\ \A m \in sent' : m \in sent \/ m.kind # "chain"
    BY <1>3 DEF A!BroadcastCrl, A!Message, A!stores
  <2>2. QED BY <1>1, <2>1, LearnedKept
<1>4. CASE \E n \in A!Nodes, m \in A!InFlight : A!Receive(n, m)
  BY <1>4, ReceiveLearned
<1>5. CASE A!ListenerWrites
  <2>1. /\ UNCHANGED <<ca, purges, chains, commands, sent, flagged>> /\ listener.op = "write"
        /\ disk' = [disk EXCEPT ![listener.file] = listener.copy] /\ listener' = listener.then
        /\ listener.then = A!Idle
    BY <1>5 DEF A!ListenerWrites, Framed, ListenerOK, A!Idle
  <2>2. disk'["chains"] = disk["chains"] \/ \A k \in disk'["chains"] : CertificateOK(k, commands)
    BY <2>1 DEF Learned, Framed, Shapes
  <2>3. listener'.op # "write"
    BY <2>1 DEF A!Idle
  <2>4. QED BY <1>1, <2>1, <2>2, <2>3, LearnedKept
<1>6. CASE A!Tick
  BY <1>6 DEF A!Tick, A!stores, Learned
<1>7. QED BY <1>2, <1>3, <1>4, <1>5, <1>6 DEF A!Next

LEMMA OfferLearned ==
  ASSUME Framed, Learned, OfferStep
  PROVE  Learned'
<1>1. /\ UNCHANGED <<purges, chains, disk, listener, sent, flagged>>
      /\ commands' \in Nat /\ commands' >= commands
      /\ \A n \in Peers : ca'[n] = ca[n]
  BY OfferFramed DEF OfferStep, Framed, Counted
<1>2. QED BY <1>1, LearnedKept

LEMMA RestartLearned ==
  ASSUME Framed, Learned, Restart
  PROVE  Learned'
<1>1. /\ chains'[Owner] = disk["chains"] /\ listener'.op = "idle"
      /\ \A n \in Peers : purges'[n] = purges[n] /\ chains'[n] = chains[n] /\ ca'[n] = ca[n]
      /\ sent' = sent \cup (A!Outgoing(Owner) \ A!Outgoing(Owner)')
      /\ UNCHANGED <<disk, flagged, commands>>
  BY Restarted DEF A!Idle
<1>2. \A n \in A!Nodes : \A k \in chains'[n] : CertificateOK(k, commands)
  BY <1>1 DEF Learned, A!Nodes
<1>3. \A m \in A!Outgoing(Owner) : m.kind = "chain" => CertificateOK(m.body, commands)
  BY DEF A!Outgoing, A!Message, Learned, A!Nodes
<1>4. QED BY <1>1, <1>2, <1>3 DEF Learned

-----------------------------------------------------------------------------
(* The inductive invariant, and the theorems.                               *)

IInv == Framed /\ Chained /\ Listed /\ Following /\ Learned

LEMMA InitIInv == Init => IInv
  BY InitFramed, InitChained, InitListed, InitFollowing, InitLearned DEF IInv

LEMMA StepIInv ==
  ASSUME IInv, [Next]_vars
  PROVE  IInv' /\ A!NumbersKept
<1>1. Framed /\ Chained /\ Listed /\ Following /\ Learned
  BY DEF IInv
<1>2. CASE /\ A!Next
           /\ UNCHANGED <<declared, caFile, offers, offersFile, history, historyFile, strikes, trouble>>
  BY <1>1, <1>2, AuthorityFramed, AuthorityChained, AuthorityListed, AuthorityFollowing,
     AuthorityLearned DEF IInv
<1>3. CASE R!Next /\ UNCHANGED <<purges, chains, crl, disk, listener, sent, flagged, raced>>
  <2>1. OfferStep
    BY <1>3 DEF OfferStep
  <2>2. QED
    BY <1>1, <2>1, OfferFramed, OfferChained, OfferListed, OfferFollowing, OfferLearned DEF IInv
<1>4. CASE Restart
  BY <1>1, <1>4, RestartFramed, RestartChained, RestartListed, RestartFollowing, RestartLearned
  DEF IInv
<1>5. CASE UNCHANGED vars
  <2>1. Framed' /\ Learned'
    BY <1>1, <1>5 DEF vars, Framed, Shapes, WorksOK, ListenerOK, StatusOK, Counted, SentKinds, Learned
  <2>2. Chained'
    BY <1>1, <1>5, ChainedKept DEF vars, PurgesLeft
  <2>3. FilesLeft
    BY <1>5 DEF vars, FilesLeft, Tables
  <2>4. Following'
    BY <1>1, <2>3, FollowingKept
  <2>5. ListsLeft /\ Room' \in Int /\ Room' >= Room
    BY <1>1, <1>5 DEF vars, ListsLeft, Listed, Room, Listing
  <2>6. QED BY <1>1, <2>1, <2>2, <2>4, <2>5, ListedKept DEF IInv
<1>6. QED BY <1>2, <1>3, <1>4, <1>5 DEF Next

LEMMA Invariance == Spec => []IInv
<1>1. IInv /\ [Next]_vars => IInv'
  BY StepIInv
<1>2. QED BY <1>1, InitIInv, PTL DEF Spec

\* However many commands there are, however they race and wherever the owner's process
\* ends, what the nodes hold of the authority is well formed: peers hold purges and chains
\* only of an authority they know as published, and there are never more list numbers, or
\* serial numbers, than commands.
THEOREM AuthorityTyped == Spec => []TypeOK
<1>1. IInv => TypeOK
  <2> SUFFICES ASSUME IInv PROVE TypeOK
    OBVIOUS
  <2>1. Framed /\ Chained /\ Listed /\ Learned
    BY DEF IInv
  <2>2. \E b \in Budgets : commands <= b.purges + b.certs + b.offers
    <3>1. PICK b \in Budgets :
            commands + left.purges + left.certs + left.offers <= b.purges + b.certs + b.offers
      BY <2>1 DEF Framed, Counted
    <3>2. /\ commands \in Nat /\ left.purges \in Nat /\ left.certs \in Nat /\ left.offers \in Nat
          /\ b.purges \in Nat /\ b.certs \in Nat /\ b.offers \in Nat
      BY <2>1, Assumptions DEF Framed, Counted, Kinds
    <3>3. QED BY <3>1, <3>2
  <2>3. \A n \in A!Nodes : \A p \in purges[n] : PurgeOK(p)
    BY <2>1 DEF Chained, Sound
  <2>4. \A n \in A!Nodes : crl[n].number \in 0..commands
    <3>1. Room \in Nat /\ Cardinality(Listing) \in Nat /\ commands \in Nat
          /\ \A n \in A!Nodes : crl[n].number \in 0..Room
      BY <2>1, ListingFinite DEF Listed, NumberOK, Framed, Counted
    <3>2. Room <= commands
      BY <3>1 DEF Room
    <3>3. QED BY <3>1, <3>2
  <2>5. QED BY <2>1, <2>2, <2>3, <2>4
    DEF TypeOK, A!TypeOK, Framed, StatusOK, Statuses, Learned, CertificateOK, PurgeOK
<1>2. QED BY <1>1, Invariance, PTL

\* Whatever the number of peers, connections and restarts, however commands race, and
\* packets are lost, repeated and reordered: at every node, and in the owner's file, the
\* purges are a chain without a gap, each of which cost what those in force at its time
\* required.
THEOREM PurgesStayChains == Spec => []PurgesAreChains
<1>1. IInv => PurgesAreChains
  BY DEF IInv, Chained, CopiesOK, Sound, PurgesAreChains, A!PurgesAreChains
<1>2. QED BY <1>1, Invariance, PTL

\* Whatever commands, packets and restarts there are, each of the owner's files has what
\* its table has, unless its writer has yet to write it or writers have raced.
THEOREM FilesFollowTables == Spec => []FilesFollow
<1>1. IInv => FilesFollow
  <2> SUFFICES ASSUME IInv PROVE FilesFollow
    OBVIOUS
  <2>1. Following /\ DOMAIN disk = FileNames
    BY DEF IInv, Framed, Shapes, FileNames
  <2>2. ASSUME NEW file \in FileNames
        PROVE  [purges |-> purges, chains |-> chains, crl |-> crl][file][Owner] = Tables[file]
    BY <2>2 DEF FileNames, Tables
  <2>3. QED BY <2>1, <2>2 DEF Following, FollowingOf, FilesFollow, A!FilesFollow
<1>2. QED BY <1>1, Invariance, PTL

\* No node's revocation list gives way to one with a smaller number, unless the owner is
\* restarted when its list has yet to be written, or two writers have raced.
THEOREM ListNumbersRise == Spec => NumbersNeverFall
<1>1. IInv /\ [Next]_vars => [A!NumbersKept]_A!vars
  BY StepIInv
<1>2. QED BY <1>1, Invariance, PTL DEF Spec, NumbersNeverFall, A!NumbersNeverFall

-----------------------------------------------------------------------------
(* The replicated log.                                                      *)

\* The owner's purges that are on their way though nobody may hold them any more.
Lost == {m.body : m \in {x \in sent : x.kind = "purge" /\ x.from = Owner}}

LEMMA WrittenParts ==
  Written = purges[Owner] \cup Lost /\ Written' = purges'[Owner] \cup Lost'
<1>1. Written = purges[Owner] \cup Lost
  <2>1. ASSUME NEW m \in A!InFlight, m.kind = "purge", m.from = Owner
        PROVE  m.body \in purges[Owner] \cup Lost
    BY <2>1 DEF A!InFlight, A!Outgoing, A!Message, Lost
  <2>2. ASSUME NEW p \in purges[Owner] PROVE p \in Written
    <3>1. A!Message("purge", Owner, p) \in A!InFlight
      BY DEF A!InFlight, A!Outgoing, A!Nodes
    <3>2. QED BY <3>1 DEF Written, A!Message
  <2>3. Lost \subseteq Written
    BY DEF Lost, Written, A!InFlight
  <2>4. QED BY <2>1, <2>2, <2>3 DEF Written
<1>2. Written' = purges'[Owner] \cup Lost'
  <2>1. ASSUME NEW m \in A!InFlight', m.kind = "purge", m.from = Owner
        PROVE  m.body \in purges'[Owner] \cup Lost'
    BY <2>1 DEF A!InFlight, A!Outgoing, A!Message, Lost
  <2>2. ASSUME NEW p \in purges'[Owner] PROVE p \in Written'
    <3>1. A!Message("purge", Owner, p) \in A!InFlight'
      BY DEF A!InFlight, A!Outgoing, A!Nodes
    <3>2. QED BY <3>1 DEF Written, A!Message
  <2>3. Lost' \subseteq Written'
    BY DEF Lost, Written, A!InFlight
  <2>4. QED BY <2>1, <2>2, <2>3 DEF Written
<1>3. QED BY <1>1, <1>2

\* What was sent stays so.
LEMMA SentGrows == A!Next \/ OfferStep \/ Restart => sent \subseteq sent'
<1>1. A!Next => sent \subseteq sent'
  <2>1. \A c \in Commands : A!Operate(c) => sent \subseteq sent'
    BY DEF A!Operate, A!StartPurge, A!FinishPurge, A!RefusePurge, A!WriteFile, A!RevokePurged,
       A!StartRevoke, A!StartIssue, A!NumberList, A!FinishList, A!RefuseList, A!GenerateCert
  <2>2. \A n, m : A!Receive(n, m) => sent \subseteq sent'
    BY DEF A!Receive, A!ReceiveCa, A!ReceiveChain, A!ReceiveCrl, A!ReceivePurge
  <2>3. QED BY <2>1, <2>2 DEF A!Next, A!BroadcastCrl, A!ListenerWrites, A!Tick
<1>2. QED BY <1>1 DEF OfferStep, Restart, A!Reload

Copies == [n \in Peers |-> purges[n]]

LEMMA LeftStutters ==
  ASSUME Framed, PurgesLeft, sent \subseteq sent'
  PROVE  UNCHANGED Log!vars
<1>1. Lost' = Lost
  BY DEF PurgesLeft, Lost
<1>2. QED BY <1>1, WrittenParts DEF PurgesLeft, Log!vars

LEMMA FinishWrites ==
  ASSUME Framed, Chained, NEW c \in Commands, A!FinishPurge(c)
  PROVE  Log!Write
<1>1. UNCHANGED <<disk, sent>> /\ \A n \in Peers : purges'[n] = purges[n]
  BY FinishPurgeChained
<1>2. PICK p : purges'[Owner] = purges[Owner] \cup {p} /\ Log!Follows(p, purges[Owner])
  BY FinishPurgeChained
<1>3. Written' = Written \cup {p}
  BY <1>1, <1>2, WrittenParts DEF Lost
<1>4. Copies' = Copies
  BY <1>1 DEF Copies
<1>5. p \in purges'[Owner]
  BY <1>2
<1>6. QED BY <1>1, <1>2, <1>3, <1>4, <1>5 DEF Log!Write, Copies

LEMMA WriteSaves ==
  ASSUME Framed, Chained, NEW c \in Commands, A!WriteFile(c)
  PROVE  [Log!Next]_Log!vars
<1>1. /\ UNCHANGED <<purges, sent>>
      /\ \/ disk'["purges"] = disk["purges"]
         \/ Sound(disk'["purges"]) /\ disk'["purges"] \subseteq purges[Owner]
  BY WriteFileChained
<1>2. UNCHANGED Written
  BY <1>1, WrittenParts DEF Lost
<1>3. CASE disk'["purges"] = disk["purges"]
  BY <1>1, <1>2, <1>3 DEF Log!vars
<1>4. CASE Sound(disk'["purges"]) /\ disk'["purges"] \subseteq purges[Owner]
  <2> DEFINE n == Cardinality(disk'["purges"])
  <2>1. Sound(purges[Owner])
    BY DEF Chained, A!Nodes
  <2>2. n \in 0..Cardinality(purges[Owner]) /\ disk'["purges"] = {x \in purges[Owner] : x.seq <= n}
    BY <1>4, <2>1, ChainWithin
  <2> HIDE DEF n
  <2>3. n \in 0..Log!Cardinality(purges[Owner])
    BY <2>2, LogCardinality
  <2>4. Copies' = Copies
    BY <1>1 DEF Copies
  <2>5. Log!Save
    BY <1>1, <1>2, <2>2, <2>3, <2>4 DEF Log!Save, Copies
  <2>6. QED BY <2>5 DEF Log!Next
<1>5. QED BY <1>1, <1>3, <1>4

LEMMA ReceiveCopies ==
  ASSUME Framed, Chained, NEW n \in A!Nodes, NEW m, A!ReceivePurge(n, m), A!Acceptable(n, m)
  PROVE  n \in Peers /\ Log!Copy(n)
<1>1. /\ n \in Peers /\ UNCHANGED <<disk, sent>> /\ m \in A!InFlight
      /\ m.kind = "purge" /\ m.from = Owner
      /\ purges'[Owner] = purges[Owner] /\ purges'[n] = purges[n] \cup {m.body}
      /\ \A x \in Peers \ {n} : purges'[x] = purges[x]
      /\ Log!Follows(m.body, purges[n])
  BY ReceivePurgeChained
<1>2. m.body \in Written
  BY <1>1 DEF Written
<1>3. UNCHANGED Written
  BY <1>1, WrittenParts DEF Lost
<1>4. Copies' = [Copies EXCEPT ![n] = @ \cup {m.body}]
  <2> DEFINE more == [x \in Peers |-> IF x = n THEN purges[n] \cup {m.body} ELSE purges[x]]
  <2>1. Copies' = [x \in Peers |-> purges'[x]]
    BY DEF Copies
  <2>2. Copies' = more
    BY <1>1, <2>1
  <2>3. [Copies EXCEPT ![n] = @ \cup {m.body}] = more
    BY <1>1 DEF Copies
  <2>4. QED BY <2>2, <2>3
<1>5. Log!Follows(m.body, Copies[n])
  BY <1>1 DEF Copies
<1>6. QED BY <1>1, <1>2, <1>3, <1>4, <1>5 DEF Log!Copy, Copies

LEMMA RestartStops ==
  ASSUME Framed, Chained, Restart
  PROVE  Log!Stop
<1>1. /\ purges'[Owner] = disk["purges"] /\ UNCHANGED disk /\ disk["purges"] \subseteq purges[Owner]
      /\ \A n \in Peers : purges'[n] = purges[n]
      /\ sent' = sent \cup (A!Outgoing(Owner) \ A!Outgoing(Owner)')
  BY Restarted DEF Chained, CopiesOK
<1>2. Lost' = Lost \cup (purges[Owner] \ purges'[Owner])
  <2>1. ASSUME NEW p \in purges[Owner], p \notin purges'[Owner] PROVE p \in Lost'
    <3> DEFINE m == A!Message("purge", Owner, p)
    <3>1. m \in A!Outgoing(Owner) /\ m.kind = "purge" /\ m.from = Owner /\ m.body = p
      BY DEF A!Outgoing, A!Message
    <3>2. m \notin A!Outgoing(Owner)'
      BY <2>1 DEF A!Outgoing, A!Message
    <3>3. m \in sent'
      BY <1>1, <3>1, <3>2
    <3> HIDE DEF m
    <3>4. QED BY <3>1, <3>3 DEF Lost
  <2>2. ASSUME NEW m \in A!Outgoing(Owner), m \notin A!Outgoing(Owner)', m.kind = "purge"
        PROVE  m.body \in purges[Owner] \ purges'[Owner]
    BY <2>2 DEF A!Outgoing, A!Message
  <2>3. QED BY <1>1, <2>1, <2>2 DEF Lost
<1>3. UNCHANGED Written
  BY <1>1, <1>2, WrittenParts
<1>4. Copies' = Copies
  BY <1>1 DEF Copies
<1>5. QED BY <1>1, <1>3, <1>4 DEF Log!Stop, Copies

\* The purges are a replicated log, whatever races, packets and restarts there are: the
\* owner's is extended by one purge at a time, and taken back to what its file has by a
\* restart; what a peer holds is extended only by a purge the owner held, that follows
\* the last one the peer has.
THEOREM PurgesAreReplicated == Spec => PurgesReplicated
<1>1. Init => Log!Init
  <2> SUFFICES ASSUME Init PROVE Log!Init
    OBVIOUS
  <2>1. (\A n \in A!Nodes : purges[n] = {}) /\ disk["purges"] = {} /\ sent = {}
    BY DEF Init, A!Init
  <2>2. Written = {}
    BY <2>1, WrittenParts DEF Lost, A!Nodes
  <2>3. Copies = [n \in Peers |-> {}]
    BY <2>1 DEF Copies, A!Nodes
  <2>4. QED BY <2>1, <2>2, <2>3 DEF Log!Init, Copies, A!Nodes
<1>2. IInv /\ [Next]_vars => [Log!Next]_Log!vars
  <2> SUFFICES ASSUME IInv, [Next]_vars PROVE [Log!Next]_Log!vars
    OBVIOUS
  <2>1. Framed /\ Chained
    BY DEF IInv
  <2>2. CASE PurgesLeft /\ sent \subseteq sent'
    BY <2>1, <2>2, LeftStutters
  <2>3. CASE A!Next
    <3>1. sent \subseteq sent'
      BY <2>3, SentGrows
    <3>2. CASE \E c \in Commands, d \in Domains, ttl \in Ttls, strike \in Strikes :
                 A!StartPurge(c, d, ttl, strike)
      <4>1. UNCHANGED <<purges, disk, sent>>
        BY <2>1, <3>2, StartPurgeChained
      <4>2. UNCHANGED Written
        BY <4>1, WrittenParts DEF Lost
      <4>3. QED BY <4>1, <4>2 DEF Log!vars
    <3>3. CASE \E c \in Commands : A!FinishPurge(c)
      BY <2>1, <3>3, FinishWrites DEF Log!Next
    <3>4. CASE \E c \in Commands : A!WriteFile(c)
      BY <2>1, <3>4, WriteSaves
    <3>5. CASE \E n \in A!Nodes, m \in A!InFlight : A!ReceivePurge(n, m) /\ A!Acceptable(n, m)
      BY <2>1, <3>5, ReceiveCopies DEF Log!Next
    <3>6. QED BY <2>1, <2>2, <2>3, <3>1, <3>2, <3>3, <3>4, <3>5, PurgeSteps
  <2>4. CASE OfferStep
    BY <2>1, <2>2, <2>4, OfferChained, SentGrows
  <2>5. CASE Restart
    BY <2>1, <2>5, RestartStops DEF Log!Next
  <2>6. CASE UNCHANGED vars
    <3>1. PurgesLeft /\ sent \subseteq sent'
      BY <2>6 DEF vars, PurgesLeft
    <3>2. QED BY <2>2, <3>1
  <2>7. QED BY <2>3, <2>4, <2>5, <2>6 DEF Next, OfferStep
<1>3. QED BY <1>1, <1>2, Invariance, PTL DEF Spec, PurgesReplicated, Log!Spec
=============================================================================
