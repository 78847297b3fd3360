---------------------------- MODULE RotationProofs ----------------------------
(***************************************************************************)
(* Theorems about Pki's offers, rotations and strikes, for any offers and  *)
(* any number of connections, commands, strikes and restarts.              *)
(*                                                                         *)
(* The keys of a proof are made by one command, before its number and the  *)
(* proof before it are known: there is a set of proofs, no two of which    *)
(* have keys of the same command, that has all that are held, saved or     *)
(* carried, whatever overlaps and is lost.                                 *)
(*                                                                         *)
(* The commands on offers write several files one after the other.  As     *)
(* long as no two of them overlap, one connection at a time is in the      *)
(* middle of one, and what it is in the middle of tells how memory and     *)
(* disk differ: that is Flow.                                              *)
(***************************************************************************)
EXTENDS PkiProofs, SequenceTheorems

-----------------------------------------------------------------------------
(* Histories of proofs.                                                     *)

IsProofs(s) == s \in Seq({s[k] : k \in DOMAIN s})

IsProofChain(s) ==
  \A k \in 1..Len(s) : /\ s[k].seq = k
                       /\ s[k].prev = IF k = 1 THEN R!NoProof ELSE s[k - 1]
                       /\ \A j \in 1..(k - 1) : s[j].time <= s[k].time

\* The number of the command that made a rotation's keys.
KeyOf(keys) == keys[CHOOSE i \in DOMAIN keys : TRUE]

KeysOK(keys, upto) ==
  /\ DOMAIN keys # {} /\ DOMAIN keys \subseteq OfferIds
  /\ KeyOf(keys) \in 1..upto /\ \A i \in DOMAIN keys : keys[i] = KeyOf(keys)

\* A proof gives some offers a key, the number of a command so far.
ProofOK(p, upto) == p.seq \in Nat \ {0} /\ p.time \in Nat /\ KeysOK(p.keys, upto)

\* A history of some of the proofs there ever were.
HistoryOK(s, all) ==
  /\ IsProofs(s) /\ IsProofChain(s)
  /\ \A k \in 1..Len(s) : s[k] \in all

LEMMA ProofsExtended ==
  ASSUME NEW s, IsProofs(s), NEW p
  PROVE  /\ IsProofs(Append(s, p)) /\ Append(s, p) # <<>>
         /\ Len(s) \in Nat /\ Len(Append(s, p)) = Len(s) + 1
         /\ \A k \in 1..Len(s) : Append(s, p)[k] = s[k]
         /\ Append(s, p)[Len(s) + 1] = p
         /\ R!Last(Append(s, p)) = p
<1> DEFINE S == {s[k] : k \in DOMAIN s}
           t == Append(s, p)
           T == {t[k] : k \in DOMAIN t}
<1>1. s \in Seq(S)
  BY DEF IsProofs
<1>2. Len(s) \in Nat /\ DOMAIN s = 1..Len(s)
  BY <1>1
<1>3. s \in Seq(S \cup {p})
  BY <1>1, <1>2
<1>4. /\ t \in Seq(S \cup {p}) /\ Len(t) = Len(s) + 1 /\ DOMAIN t = 1..(Len(s) + 1)
      /\ \A k \in 1..Len(s) : t[k] = s[k]
      /\ t[Len(s) + 1] = p
  BY <1>3
<1> HIDE DEF t
<1>5. t \in Seq(T)
  BY <1>4
<1>6. t # <<>>
  BY <1>2, <1>4
<1>7. QED BY <1>2, <1>4, <1>5, <1>6 DEF IsProofs, R!Last, t

\* The last proof of a history.
LEMMA LastProof ==
  ASSUME NEW all, NEW s, HistoryOK(s, all)
  PROVE  /\ Len(s) \in Nat
         /\ s = <<>> => Len(s) = 0 /\ R!Last(s) = R!NoProof
         /\ s # <<>> => /\ Len(s) \in 1..Len(s) /\ R!Last(s) = s[Len(s)]
                        /\ R!Last(s) \in all
         /\ R!Last(s).seq = Len(s)
<1>1. Len(s) \in Nat /\ (s = <<>> <=> Len(s) = 0)
  BY DEF HistoryOK, IsProofs
<1>2. CASE s = <<>>
  BY <1>1, <1>2 DEF R!Last, R!NoProof
<1>3. CASE s # <<>>
  <2>1. Len(s) \in 1..Len(s)
    BY <1>1, <1>3
  <2>2. QED BY <1>1, <1>3, <2>1 DEF R!Last, HistoryOK, IsProofChain
<1>4. QED BY <1>2, <1>3

\* A proof that follows a history makes it one longer.
LEMMA HistoryGrows ==
  ASSUME NEW upto, NEW all, \A q \in all : ProofOK(q, upto), NEW s, HistoryOK(s, all),
         NEW p \in all, R!Follows(p, s)
  PROVE  HistoryOK(Append(s, p), all) /\ p.seq = Len(s) + 1
<1> DEFINE t == Append(s, p)
<1>1. /\ IsProofs(t) /\ Len(s) \in Nat /\ Len(t) = Len(s) + 1
      /\ \A k \in 1..Len(s) : t[k] = s[k]
      /\ t[Len(s) + 1] = p
  BY ProofsExtended DEF HistoryOK
<1>2. p.seq = Len(s) + 1 /\ p.prev = IF Len(s) = 0 THEN R!NoProof ELSE s[Len(s)]
  BY LastProof DEF R!Follows
<1> HIDE DEF t
<1>3. ASSUME NEW j \in 1..Len(s) PROVE s[j].time <= p.time
  <2>1. Len(s) \in 1..Len(s) /\ s # <<>> /\ R!Last(s) = s[Len(s)]
    BY <1>1, LastProof
  <2>2. /\ s[Len(s)].time <= p.time /\ s[Len(s)].time \in Nat /\ s[j].time \in Nat
        /\ p.time \in Nat
    BY <2>1 DEF R!Follows, HistoryOK, ProofOK
  <2>3. j = Len(s) \/ s[j].time <= s[Len(s)].time
    BY <1>1, <2>1 DEF HistoryOK, IsProofChain
  <2>4. QED BY <2>2, <2>3
<1>4. ASSUME NEW k \in 1..Len(t)
      PROVE  /\ t[k].seq = k /\ t[k].prev = IF k = 1 THEN R!NoProof ELSE t[k - 1]
             /\ \A j \in 1..(k - 1) : t[j].time <= t[k].time
             /\ t[k] \in all
  <2>1. CASE k = Len(s) + 1
    <3>1. k - 1 = Len(s) /\ t[k] = p /\ \A j \in 1..(k - 1) : t[j] = s[j]
      BY <1>1, <2>1
    <3>2. p.prev = IF k = 1 THEN R!NoProof ELSE t[k - 1]
      BY <1>1, <1>2, <3>1
    <3>3. QED BY <1>2, <1>3, <2>1, <3>1, <3>2
  <2>2. CASE k \in 1..Len(s)
    <3>1. t[k] = s[k] /\ (k # 1 => k - 1 \in 1..Len(s)) /\ \A j \in 1..(k - 1) : j \in 1..Len(s)
      BY <1>1, <2>2
    <3>2. QED BY <1>1, <2>2, <3>1 DEF HistoryOK, IsProofChain
  <2>3. QED BY <1>1, <2>1, <2>2
<1>5. QED BY <1>1, <1>2, <1>4 DEF HistoryOK, IsProofChain, t

-----------------------------------------------------------------------------
(* What is well formed, whatever overlaps.                                  *)

HeldOK(held, upto) ==
  held \in [OfferIds -> [key : 0..upto, draft : BOOLEAN] \cup {R!NoOffer}]

CarriesOK(w, all, upto) ==
  /\ w.op = "offer" => w.id \in OfferIds /\ w.draft \in BOOLEAN
  /\ w.op = "publishCa" => w.then = A!Idle
  /\ w.op = "writeCa" => w.then = [op |-> "snapshot", then |-> A!Idle]
  /\ w.op = "keys" => KeysOK(w.keys, upto) /\ w.time \in Nat
  /\ w.op \in {"proof", "install"} => w.proof \in all
  /\ w.op \in {"install", "clear", "writeProofs"} => HistoryOK(w.proofs, all)
  /\ w.op = "writeOffers" => HeldOK(w.offers, upto)
  /\ w.op \in {"snapshot", "writeOffers"} /\ w.then.op \in {"clear", "writeProofs"} =>
       HistoryOK(w.then.proofs, all)

\* No two proofs there ever were have keys of the same command, and the keys of a proof
\* that is yet to be made are no other's.
Apart(all) ==
  /\ \A p, q \in all : KeyOf(p.keys) = KeyOf(q.keys) => p = q
  /\ \A c \in Commands : busy[c].op = "keys" =>
       /\ \A p \in all : KeyOf(p.keys) # KeyOf(busy[c].keys)
       /\ \A d \in Commands \ {c} :
            busy[d].op = "keys" => KeyOf(busy[d].keys) # KeyOf(busy[c].keys)

RecordedIn(all) ==
  /\ \A p \in all : ProofOK(p, commands)
  /\ Apart(all)
  /\ DOMAIN history = A!Nodes
  /\ \A n \in A!Nodes : HistoryOK(history[n], all)
  /\ HistoryOK(historyFile, all)
  /\ HeldOK(offers, commands) /\ HeldOK(offersFile, commands)
  /\ \A c \in Commands : CarriesOK(busy[c], all, commands)
  /\ strikes \in Nat

Recorded == \E all : RecordedIn(all)

\* What is well formed stays so as the commands are counted.
LEMMA StillOK ==
  ASSUME NEW upto \in Nat, NEW more \in Nat, upto <= more
  PROVE  /\ \A p : ProofOK(p, upto) => ProofOK(p, more)
         /\ \A held : HeldOK(held, upto) => HeldOK(held, more)
         /\ \A w, all : CarriesOK(w, all, upto) => CarriesOK(w, all, more)
<1>1. \A keys : KeysOK(keys, upto) => KeysOK(keys, more)
  BY DEF KeysOK
<1>2. \A p : ProofOK(p, upto) => ProofOK(p, more)
  BY <1>1 DEF ProofOK
<1>3. \A held : HeldOK(held, upto) => HeldOK(held, more)
  <2>1. [key : 0..upto, draft : BOOLEAN] \subseteq [key : 0..more, draft : BOOLEAN]
    OBVIOUS
  <2>2. QED BY <2>1 DEF HeldOK
<1>4. \A w, all : CarriesOK(w, all, upto) => CarriesOK(w, all, more)
  BY <1>1, <1>3 DEF CarriesOK
<1>5. QED BY <1>2, <1>3, <1>4

\* It stays so when another proof is made.
LEMMA MoreProofs ==
  ASSUME NEW all, NEW more, all \subseteq more
  PROVE  /\ \A s : HistoryOK(s, all) => HistoryOK(s, more)
         /\ \A w, upto : CarriesOK(w, all, upto) => CarriesOK(w, more, upto)
<1>1. \A s : HistoryOK(s, all) => HistoryOK(s, more)
  BY DEF HistoryOK
<1>2. QED BY <1>1 DEF CarriesOK

LEMMA EmptyHistory == \A all : HistoryOK(<<>>, all)
<1>1. IsProofs(<<>>) /\ Len(<<>>) = 0 /\ 1..0 = {}
  BY DEF IsProofs
<1>2. QED BY <1>1 DEF HistoryOK, IsProofChain

LEMMA InitRecorded == Init => Recorded
<1> SUFFICES ASSUME Init PROVE RecordedIn({})
  BY DEF Recorded
<1>1. history = [n \in A!Nodes |-> <<>>] /\ historyFile = <<>> /\ commands = 0 /\ strikes = 0
  BY DEF Init, A!Init, R!InitOwn, A!Nodes, R!Nodes
<1>2. HeldOK(offers, 0) /\ offersFile = offers
  BY DEF Init, R!InitOwn, HeldOK
<1>3. \A c \in Commands : CarriesOK(busy[c], {}, 0) /\ busy[c].op # "keys"
  BY DEF Init, A!Init, A!Idle, CarriesOK
<1>4. QED BY <1>1, <1>2, <1>3, EmptyHistory DEF RecordedIn, Apart

\* What the authority's part does to what the two share.
LEMMA AuthorityShared ==
  ASSUME Framed, A!Next
  PROVE  /\ commands \in Nat /\ commands' \in Nat /\ commands' >= commands
         /\ left'.restarts = left.restarts
         /\ \A c \in Commands :
              \/ busy'[c] = busy[c]
              \/ /\ busy[c].op \in {"idle"} \cup AuthorityOps
                 /\ busy'[c].op \in {"idle"} \cup AuthorityOps
<1>1. commands \in Nat /\ left \in Kinds
  BY DEF Framed, Counted
<1>2. ASSUME NEW c \in Commands, A!Operate(c)
      PROVE  /\ busy[c].op \in {"idle"} \cup AuthorityOps
             /\ UNCHANGED busy \/ \E w : A!Becomes(c, w) /\ w.op \in {"idle"} \cup AuthorityOps
  <2>1. CASE \E d \in Domains, ttl \in Ttls, strike \in Strikes : A!StartPurge(c, d, ttl, strike)
    BY <2>1 DEF A!StartPurge, A!Begins, A!Idle, AuthorityOps
  <2>2. CASE A!FinishPurge(c)
    BY <2>2 DEF A!FinishPurge, A!Write, AuthorityOps
  <2>3. CASE A!RefusePurge(c) \/ A!RefuseList(c)
    BY <2>3 DEF A!RefusePurge, A!RefuseList, AuthorityOps, A!Idle
  <2>4. CASE A!WriteFile(c)
    <3>1. busy[c].then.op \in {"idle", "purged"}
      BY <2>4, AfterWrite DEF A!WriteFile, Framed, WorksOK
    <3>2. QED BY <2>4, <3>1 DEF A!WriteFile, AuthorityOps
  <2>5. CASE A!RevokePurged(c)
    BY <2>5 DEF A!RevokePurged, AuthorityOps, A!Idle
  <2>6. CASE \E s \in {k.serial : k \in chains[Owner]} : A!StartRevoke(c, s)
    BY <2>6 DEF A!StartRevoke, A!Begins, A!Idle, AuthorityOps
  <2>7. CASE \E list \in Lists : A!StartIssue(c, list)
    BY <2>7 DEF A!StartIssue, A!Begins, A!Idle, AuthorityOps
  <2>8. CASE A!NumberList(c)
    BY <2>8 DEF A!NumberList, AuthorityOps
  <2>9. CASE A!FinishList(c)
    BY <2>9 DEF A!FinishList, A!Write, AuthorityOps
  <2>10. CASE \E d \in Domains : A!GenerateCert(c, d)
    BY <2>10 DEF A!GenerateCert, A!Begins, A!Idle
  <2>11. QED
    BY <1>2, <2>1, <2>2, <2>3, <2>4, <2>5, <2>6, <2>7, <2>8, <2>9, <2>10 DEF A!Operate
<1>3. CASE \E c \in Commands : A!Operate(c)
  <2>1. PICK c \in Commands : A!Operate(c)
    BY <1>3
  <2>2. commands' \in Nat /\ commands' >= commands /\ left'.restarts = left.restarts
    BY <1>1, <2>1, AuthorityOperates DEF Spent, Kinds
  <2>3. CASE UNCHANGED busy
    BY <1>1, <2>2, <2>3
  <2>4. CASE ~UNCHANGED busy
    <3>1. PICK w : A!Becomes(c, w) /\ w.op \in {"idle"} \cup AuthorityOps
      BY <1>2, <2>1, <2>4
    <3>2. busy'[c] = w /\ \A d \in Commands \ {c} : busy'[d] = busy[d]
      BY <3>1, WorkTaken
    <3>3. QED BY <1>1, <1>2, <2>1, <2>2, <3>1, <3>2
  <2>5. QED BY <2>3, <2>4
<1>4. CASE ~\E c \in Commands : A!Operate(c)
  <2>1. UNCHANGED <<busy, commands, left>>
    BY <1>4 DEF A!Next, A!BroadcastCrl, A!Tick, A!Receive, A!ReceiveCa, A!ReceiveChain,
       A!ReceiveCrl, A!ReceivePurge, A!ListenerWrites
  <2>2. QED BY <1>1, <2>1
<1>5. QED BY <1>3, <1>4

\* No keys are made.
LEMMA ApartKept ==
  ASSUME NEW all, Apart(all), \A c \in Commands : busy'[c] = busy[c] \/ busy'[c].op # "keys"
  PROVE  Apart(all)'
  BY DEF Apart

\* Nothing that is kept, or carried, changes, but work may be given up.
LEMMA RecordedKept ==
  ASSUME Framed, NEW all, RecordedIn(all), commands' \in Nat, commands' >= commands,
         UNCHANGED <<history, historyFile, offers, offersFile>>, strikes' \in Nat, Apart(all)',
         \A c \in Commands : busy'[c] = busy[c] \/ CarriesOK(busy'[c], all, commands')
  PROVE  RecordedIn(all)'
<1>1. commands \in Nat
  BY DEF Framed, Counted
<1>2. \A c \in Commands : CarriesOK(busy'[c], all, commands')
  BY <1>1, StillOK DEF RecordedIn
<1>3. (\A p \in all : ProofOK(p, commands')) /\ HeldOK(offers', commands')
      /\ HeldOK(offersFile', commands')
  BY <1>1, StillOK DEF RecordedIn
<1>4. QED BY <1>1, <1>2, <1>3 DEF RecordedIn

\* The work of one connection changes, and memory or disk with it.
LEMMA RecordedMoves ==
  ASSUME Framed, NEW all, RecordedIn(all), NEW c \in Commands, NEW w, R!Becomes(c, w),
         CarriesOK(w, all, commands), w.op # "keys",
         UNCHANGED commands, strikes' \in Nat,
         HeldOK(offers', commands), HeldOK(offersFile', commands), HistoryOK(historyFile', all),
         \/ UNCHANGED history
         \/ \E s : history' = [history EXCEPT ![Owner] = s] /\ HistoryOK(s, all)
  PROVE  RecordedIn(all)'
<1>1. \A d \in Commands : /\ CarriesOK(busy'[d], all, commands)
                          /\ busy'[d] = busy[d] \/ busy'[d].op # "keys"
  BY WorkTaken DEF RecordedIn
<1>2. DOMAIN history' = A!Nodes /\ \A n \in A!Nodes : HistoryOK(history'[n], all)
  BY DEF RecordedIn, A!Nodes
<1>3. Apart(all)'
  BY <1>1, ApartKept DEF RecordedIn
<1>4. QED BY <1>1, <1>2, <1>3 DEF RecordedIn

LEMMA CarriedWorks ==
  ASSUME NEW upto, NEW all
  PROVE  /\ \A i \in OfferIds, draft \in BOOLEAN :
              CarriesOK([op |-> "offer", id |-> i, draft |-> draft], all, upto)
         /\ \A k : CarriesOK([op |-> "declare", catalog |-> k], all, upto)
         /\ \A k : CarriesOK([op |-> "publishCa", file |-> k, then |-> A!Idle], all, upto)
         /\ \A k : CarriesOK([op |-> "writeCa", file |-> k,
                              then |-> [op |-> "snapshot", then |-> A!Idle]], all, upto)
         /\ \A p \in all : CarriesOK([op |-> "proof", proof |-> p], all, upto)
         /\ \A p \in all : \A s : HistoryOK(s, all) =>
              CarriesOK([op |-> "install", proof |-> p, proofs |-> s], all, upto)
         /\ \A s : HistoryOK(s, all) =>
              /\ CarriesOK([op |-> "clear", proofs |-> s, then |-> R!Idle], all, upto)
              /\ CarriesOK([op |-> "writeProofs", proofs |-> s, then |-> R!Idle], all, upto)
         /\ CarriesOK(R!Idle, all, upto)
  BY DEF CarriesOK, R!Idle

LEMMA CarriedRest ==
  ASSUME NEW upto, NEW all, NEW w, w = A!Idle \/ (Rest(w) /\ HistoryOK(w.proofs, all))
  PROVE  /\ CarriesOK(w, all, upto)
         /\ CarriesOK([op |-> "snapshot", then |-> w], all, upto)
         /\ \A held : HeldOK(held, upto) =>
              CarriesOK([op |-> "writeOffers", offers |-> held, then |-> w], all, upto)
<1>1. w.op \in {"idle", "clear", "writeProofs"} /\ (w.op # "idle" => HistoryOK(w.proofs, all))
  BY DEF Rest, A!Idle
<1>2. QED BY <1>1 DEF CarriesOK

\* What a command carries on with after its offers are written.
LEMMA ThenCarried ==
  ASSUME NEW upto, NEW all, NEW w, WorkOK(w), CarriesOK(w, all, upto),
         w.op \in {"snapshot", "writeOffers"}
  PROVE  w.then = A!Idle \/ (Rest(w.then) /\ HistoryOK(w.then.proofs, all))
  BY DEF WorkOK, CarriesOK, Rest

\* The keys of a proof are put in the offers it names.
Installed(held, proof) ==
  [i \in OfferIds |->
     IF i \in DOMAIN proof.keys \cap {j \in OfferIds : held[j] # R!NoOffer}
     THEN [held[i] EXCEPT !.key = proof.keys[i]] ELSE held[i]]

LEMMA InstalledOK ==
  ASSUME NEW upto, NEW held, HeldOK(held, upto), NEW proof, ProofOK(proof, upto)
  PROVE  HeldOK(Installed(held, proof), upto)
<1> DEFINE new == Installed(held, proof)
           Offer == [key : 0..upto, draft : BOOLEAN]
<1>1. ASSUME NEW i \in OfferIds PROVE new[i] \in Offer \cup {R!NoOffer}
  <2>1. held[i] \in Offer \cup {R!NoOffer}
    BY DEF HeldOK
  <2>2. CASE i \in DOMAIN proof.keys /\ held[i] # R!NoOffer
    <3>1. held[i] \in Offer /\ proof.keys[i] \in 1..upto
      BY <2>1, <2>2 DEF ProofOK, KeysOK
    <3>2. proof.keys[i] \in 0..upto
      BY <3>1
    <3>3. new[i] = [held[i] EXCEPT !.key = proof.keys[i]]
      BY <2>2 DEF Installed
    <3>4. QED BY <3>1, <3>2, <3>3
  <2>3. CASE ~(i \in DOMAIN proof.keys /\ held[i] # R!NoOffer)
    BY <2>1, <2>3 DEF Installed
  <2>4. QED BY <2>2, <2>3
<1>2. new = [i \in OfferIds |-> new[i]]
  BY DEF Installed
<1>3. QED BY <1>1, <1>2 DEF HeldOK

\* The keys that a command makes are of its number.
LEMMA NewKeys ==
  ASSUME NEW upto \in Nat, NEW ids, ids # {}, ids \subseteq OfferIds
  PROVE  /\ KeysOK([i \in ids |-> upto + 1], upto + 1)
         /\ KeyOf([i \in ids |-> upto + 1]) = upto + 1
<1> DEFINE keys == [i \in ids |-> upto + 1]
<1>1. DOMAIN keys = ids /\ \A i \in ids : keys[i] = upto + 1
  OBVIOUS
<1> HIDE DEF keys
<1>2. (CHOOSE i \in DOMAIN keys : TRUE) \in ids
  BY <1>1
<1>3. KeyOf(keys) = upto + 1
  BY <1>1, <1>2 DEF KeyOf
<1>4. upto + 1 \in 1..(upto + 1)
  OBVIOUS
<1>5. QED BY <1>1, <1>3, <1>4 DEF KeysOK, keys

\* They are no other's.
LEMMA ApartBegins ==
  ASSUME Framed, NEW all, RecordedIn(all), NEW c \in Commands, NEW w, R!Becomes(c, w),
         w.op = "keys", KeyOf(w.keys) = commands + 1
  PROVE  Apart(all)'
<1>1. commands \in Nat /\ \A k \in 1..commands : k # commands + 1
  BY DEF Framed, Counted
<1>2. \A p \in all : KeyOf(p.keys) \in 1..commands
  BY DEF RecordedIn, ProofOK, KeysOK
<1>3. \A d \in Commands : busy[d].op = "keys" => KeyOf(busy[d].keys) \in 1..commands
  BY DEF RecordedIn, CarriesOK, KeysOK
<1>4. busy'[c] = w /\ \A d \in Commands \ {c} : busy'[d] = busy[d]
  BY WorkTaken
<1>5. Apart(all)
  BY DEF RecordedIn
<1>6. ASSUME NEW d \in Commands, busy'[d].op = "keys"
      PROVE  /\ \A p \in all : KeyOf(p.keys) # KeyOf(busy'[d].keys)
             /\ \A e \in Commands \ {d} :
                  busy'[e].op = "keys" => KeyOf(busy'[e].keys) # KeyOf(busy'[d].keys)
  <2>1. CASE d = c
    <3>1. KeyOf(busy'[d].keys) = commands + 1
      BY <1>4, <2>1
    <3>2. \A e \in Commands \ {d} : busy'[e] = busy[e]
      BY <1>4, <2>1
    <3>3. QED BY <1>1, <1>2, <1>3, <3>1, <3>2
  <2>2. CASE d # c
    <3>1. busy'[d] = busy[d] /\ busy[d].op = "keys" /\ KeyOf(busy'[d].keys) \in 1..commands
      BY <1>3, <1>4, <1>6, <2>2
    <3>2. \A p \in all : KeyOf(p.keys) # KeyOf(busy[d].keys)
      BY <1>5, <3>1 DEF Apart
    <3>3. ASSUME NEW e \in Commands \ {d}, busy'[e].op = "keys"
          PROVE  KeyOf(busy'[e].keys) # KeyOf(busy'[d].keys)
      <4>1. CASE e = c
        <5>1. KeyOf(busy'[e].keys) = commands + 1
          BY <1>4, <4>1
        <5>2. QED BY <1>1, <3>1, <5>1
      <4>2. CASE e # c
        <5>1. busy'[e] = busy[e]
          BY <1>4, <4>2
        <5>2. QED BY <1>5, <3>1, <3>3, <5>1 DEF Apart
      <4>3. QED BY <4>1, <4>2
    <3>4. QED BY <3>1, <3>2, <3>3
  <2>3. QED BY <2>1, <2>2
<1>7. \A p, q \in all : KeyOf(p.keys) = KeyOf(q.keys) => p = q
  BY <1>5 DEF Apart
<1>8. QED BY <1>6, <1>7 DEF Apart

\* A proof is made of the keys that are carried.
LEMMA ApartMade ==
  ASSUME Framed, NEW all, Apart(all), NEW c \in Commands, busy[c].op = "keys",
         NEW p, p.keys = busy[c].keys, NEW w, R!Becomes(c, w), w.op # "keys"
  PROVE  Apart(all \cup {p})'
<1>1. busy'[c] = w /\ \A d \in Commands \ {c} : busy'[d] = busy[d]
  BY WorkTaken
<1>2. /\ \A q, r \in all : KeyOf(q.keys) = KeyOf(r.keys) => q = r
      /\ \A q \in all : KeyOf(q.keys) # KeyOf(p.keys)
  BY DEF Apart
<1>3. \A q, r \in all \cup {p} : KeyOf(q.keys) = KeyOf(r.keys) => q = r
  BY <1>2
<1>4. ASSUME NEW d \in Commands, busy'[d].op = "keys"
      PROVE  /\ \A q \in all \cup {p} : KeyOf(q.keys) # KeyOf(busy'[d].keys)
             /\ \A e \in Commands \ {d} :
                  busy'[e].op = "keys" => KeyOf(busy'[e].keys) # KeyOf(busy'[d].keys)
  <2>1. d # c /\ busy'[d] = busy[d]
    BY <1>1, <1>4
  <2>2. KeyOf(p.keys) # KeyOf(busy[d].keys)
    BY <1>4, <2>1 DEF Apart
  <2>3. \A q \in all : KeyOf(q.keys) # KeyOf(busy[d].keys)
    BY <1>4, <2>1 DEF Apart
  <2>4. ASSUME NEW e \in Commands \ {d}, busy'[e].op = "keys"
        PROVE  KeyOf(busy'[e].keys) # KeyOf(busy'[d].keys)
    <3>1. busy'[e] = busy[e]
      BY <1>1, <2>4
    <3>2. QED BY <1>4, <2>1, <2>4, <3>1 DEF Apart
  <2>5. QED BY <2>1, <2>2, <2>3, <2>4
<1>5. QED BY <1>3, <1>4 DEF Apart

\* The proof that a rotation makes is one more.
LEMMA ProofMade ==
  ASSUME Framed, NEW all, RecordedIn(all), NEW c \in Commands, R!MakeProof(c)
  PROVE  Recorded'
<1>0. PICK p : p = R!NewProof(R!Last(history[Owner]), busy[c].keys, busy[c].time)
  OBVIOUS
<1> DEFINE w == [op |-> "proof", proof |-> p]
<1>1. /\ CarriesOK(busy[c], all, commands) /\ busy[c].op = "keys"
      /\ R!Becomes(c, w) /\ UNCHANGED <<commands, history, historyFile, offers, offersFile, strikes>>
  BY <1>0 DEF RecordedIn, R!MakeProof, R!own, R!files
<1>2. p.keys = busy[c].keys /\ p.time = busy[c].time
      /\ p.seq = R!Last(history[Owner]).seq + 1
  BY <1>0 DEF R!NewProof
<1>3. w.op = "proof" /\ w.proof = p
  OBVIOUS
<1> HIDE DEF w
<1>4. HistoryOK(history[Owner], all)
  BY DEF RecordedIn, A!Nodes
<1>5. R!Last(history[Owner]).seq \in Nat
  BY <1>4, LastProof
<1>6. ProofOK(p, commands)
  BY <1>1, <1>2, <1>5 DEF CarriesOK, ProofOK
<1>7. PICK more : more = all \cup {p}
  OBVIOUS
<1>8. all \subseteq more /\ p \in more
  BY <1>7
<1>9. \A q \in more : ProofOK(q, commands)
  BY <1>6, <1>7 DEF RecordedIn
<1>10. Apart(more)'
  <2>1. Apart(all \cup {p})'
    BY <1>1, <1>2, <1>3, ApartMade DEF RecordedIn
  <2>2. QED BY <1>7, <2>1 DEF Apart
<1>11. CarriesOK(w, more, commands)
  BY <1>3, <1>8 DEF CarriesOK
<1>12. ASSUME NEW d \in Commands PROVE CarriesOK(busy'[d], more, commands)
  <2>1. CarriesOK(busy[d], more, commands)
    BY <1>8, MoreProofs DEF RecordedIn
  <2>2. QED BY <1>1, <1>11, <2>1, WorkTaken
<1>13. /\ \A n \in A!Nodes : HistoryOK(history[n], more)
       /\ HistoryOK(historyFile, more)
  BY <1>8, MoreProofs DEF RecordedIn
<1>14. RecordedIn(more)'
  BY <1>1, <1>9, <1>10, <1>12, <1>13 DEF RecordedIn
<1>15. QED BY <1>14 DEF Recorded

LEMMA OperateRecorded ==
  ASSUME Framed, NEW all, RecordedIn(all), NEW c \in Commands, R!Operate(c)
  PROVE  Recorded'
<1>1. /\ commands \in Nat /\ commands + 1 \in Nat /\ strikes \in Nat /\ now \in Nat
      /\ WorkOK(busy[c]) /\ CarriesOK(busy[c], all, commands)
      /\ HeldOK(offers, commands) /\ HeldOK(offersFile, commands)
      /\ HistoryOK(historyFile, all) /\ HistoryOK(history[Owner], all)
      /\ Apart(all)
  BY DEF Framed, Counted, WorksOK, RecordedIn, A!Nodes
<1>2. ASSUME NEW w, R!Becomes(c, w), CarriesOK(w, all, commands + 1), commands' = commands + 1,
             UNCHANGED <<history, historyFile, offers, offersFile, strikes>>,
             w.op # "keys" \/ KeyOf(w.keys) = commands + 1
      PROVE  Recorded'
  <2>1. \A d \in Commands : busy'[d] = busy[d] \/ CarriesOK(busy'[d], all, commands')
    BY <1>2, WorkTaken
  <2>2. Apart(all)'
    <3>1. CASE w.op = "keys"
      BY <1>2, <3>1, ApartBegins
    <3>2. CASE w.op # "keys"
      <4>1. \A d \in Commands : busy'[d] = busy[d] \/ busy'[d].op # "keys"
        BY <1>2, <3>2, WorkTaken
      <4>2. QED BY <1>1, <4>1, ApartKept
    <3>3. QED BY <3>1, <3>2
  <2>3. commands' \in Nat /\ commands' >= commands /\ strikes' \in Nat
    BY <1>1, <1>2
  <2>4. RecordedIn(all)'
    BY <1>2, <2>1, <2>2, <2>3, RecordedKept
  <2>5. QED BY <2>4 DEF Recorded
<1>3. ASSUME NEW w, R!Becomes(c, w), CarriesOK(w, all, commands), w.op # "keys",
             UNCHANGED commands, strikes' \in Nat,
             HeldOK(offers', commands), HeldOK(offersFile', commands), HistoryOK(historyFile', all),
             \/ UNCHANGED history
             \/ \E s : history' = [history EXCEPT ![Owner] = s] /\ HistoryOK(s, all)
      PROVE  Recorded'
  BY <1>3, RecordedMoves DEF Recorded
<1>4. CASE \E status \in {"draft", "public"} : R!PublishCa(c, status)
  <2>1. PICK status \in {"draft", "public"} : R!PublishCa(c, status)
    BY <1>4
  <2> DEFINE w == [op |-> "publishCa", file |-> R!Declaration(ca'[Owner], declared), then |-> A!Idle]
  <2>2. R!Becomes(c, w) /\ w.op # "keys"
    BY <2>1, SameNames DEF R!PublishCa
  <2>3. CarriesOK(w, all, commands + 1)
    BY CarriedWorks
  <2> HIDE DEF w
  <2>4. QED BY <1>2, <2>1, <2>2, <2>3 DEF R!PublishCa, R!Begins, R!files
<1>5. CASE \E i \in OfferIds, draft \in BOOLEAN : R!StartOffer(c, i, draft)
  <2>1. PICK i \in OfferIds, draft \in BOOLEAN : R!StartOffer(c, i, draft)
    BY <1>5
  <2> DEFINE w == [op |-> "offer", id |-> i, draft |-> draft]
  <2>2. R!Becomes(c, w) /\ w.op # "keys"
    BY <2>1 DEF R!StartOffer
  <2>3. CarriesOK(w, all, commands + 1)
    BY CarriedWorks
  <2> HIDE DEF w
  <2>4. QED BY <1>2, <2>1, <2>2, <2>3 DEF R!StartOffer, R!Begins, R!files
<1>6. CASE R!InsertOffer(c)
  <2>1. busy[c].id \in OfferIds /\ busy[c].draft \in BOOLEAN
    BY <1>1, <1>6 DEF R!InsertOffer, CarriesOK
  <2>2. R!NewOffer(busy[c].draft) \in [key : 0..commands, draft : BOOLEAN]
    BY <1>1, <2>1 DEF R!NewOffer
  <2>3. HeldOK(offers', commands)
    BY <1>1, <1>6, <2>1, <2>2 DEF R!InsertOffer, HeldOK
  <2> DEFINE w == [op |-> "declare", catalog |-> R!Catalog(1, offers')]
  <2>4. R!Becomes(c, w) /\ w.op # "keys"
    BY <1>6 DEF R!InsertOffer
  <2>5. CarriesOK(w, all, commands)
    BY CarriedWorks
  <2> HIDE DEF w
  <2>6. QED BY <1>1, <1>3, <1>6, <2>3, <2>4, <2>5 DEF R!InsertOffer, R!files
<1>7. CASE R!DeclareCatalog(c)
  <2> DEFINE w == [op |-> "writeCa", file |-> R!Declaration(ca[Owner], declared'),
                   then |-> [op |-> "snapshot", then |-> A!Idle]]
  <2>1. R!Becomes(c, w) /\ w.op # "keys"
    BY <1>7, SameNames DEF R!DeclareCatalog
  <2>2. CarriesOK(w, all, commands)
    BY CarriedWorks
  <2> HIDE DEF w
  <2>3. QED BY <1>1, <1>3, <1>7, <2>1, <2>2 DEF R!DeclareCatalog, R!files
<1>8. CASE R!WriteCa(c)
  <2>1. CarriesOK([op |-> "snapshot", then |-> A!Idle], all, commands)
    BY CarriedRest
  <2>2. CarriesOK(A!Idle, all, commands)
    BY CarriedRest
  <2>3. busy[c].then \in {A!Idle, [op |-> "snapshot", then |-> A!Idle]}
    BY <1>1, <1>8 DEF R!WriteCa, CarriesOK
  <2>4. busy[c].then.op # "keys" /\ CarriesOK(busy[c].then, all, commands)
    BY <2>1, <2>2, <2>3 DEF A!Idle
  <2>5. QED BY <1>1, <1>3, <1>8, <2>4 DEF R!WriteCa
<1>9. CASE R!SnapshotOffers(c)
  <2>1. CarriesOK([op |-> "writeOffers", offers |-> offers, then |-> busy[c].then], all, commands)
    BY <1>1, <1>9, ThenCarried, CarriedRest DEF R!SnapshotOffers
  <2>2. QED BY <1>1, <1>3, <1>9, <2>1 DEF R!SnapshotOffers, R!own, R!files
<1>10. CASE R!WriteOffers(c)
  <2>1. CarriesOK(busy[c].then, all, commands) /\ HeldOK(busy[c].offers, commands)
    BY <1>1, <1>10, ThenCarried, CarriedRest DEF R!WriteOffers, CarriesOK
  <2>2. busy[c].then.op # "keys"
    <3>1. busy[c].then = A!Idle \/ Rest(busy[c].then)
      BY <1>1, <1>10, ThenCarried DEF R!WriteOffers
    <3>2. QED BY <3>1 DEF Rest, A!Idle
  <2>3. QED BY <1>1, <1>3, <1>10, <2>1, <2>2 DEF R!WriteOffers
<1>11. CASE \E ids \in SUBSET OfferIds : R!StartRotation(c, ids)
  <2>1. PICK ids \in SUBSET OfferIds : R!StartRotation(c, ids)
    BY <1>11
  <2>2. commands' = commands + 1 /\ ids # {}
    BY <2>1 DEF R!StartRotation, R!Begins
  <2> DEFINE keys == [i \in ids |-> commands + 1]
             w == [op |-> "keys", keys |-> keys, time |-> now]
  <2>3. R!Becomes(c, w)
    BY <2>1, <2>2 DEF R!StartRotation
  <2>4. KeysOK(keys, commands + 1) /\ KeyOf(keys) = commands + 1
    BY <1>1, <2>2, NewKeys
  <2> HIDE DEF keys
  <2>5. CarriesOK(w, all, commands + 1) /\ w.keys = keys
    BY <1>1, <2>4 DEF CarriesOK
  <2> HIDE DEF w
  <2>6. QED BY <1>2, <2>1, <2>2, <2>3, <2>4, <2>5 DEF R!StartRotation, R!files
<1>12. CASE R!MakeProof(c)
  BY <1>12, ProofMade
<1>13. CASE R!InsertProof(c)
  <2> DEFINE p == busy[c].proof
             s == Append(history[Owner], p)
  <2>1. p \in all /\ R!Follows(p, history[Owner])
    BY <1>1, <1>13 DEF R!InsertProof, CarriesOK
  <2>2. \A q \in all : ProofOK(q, commands)
    BY DEF RecordedIn
  <2>3. HistoryOK(s, all)
    BY <1>1, <2>1, <2>2, HistoryGrows
  <2>4. /\ history' = [history EXCEPT ![Owner] = s] /\ history'[Owner] = s
        /\ R!Becomes(c, [op |-> "install", proof |-> p, proofs |-> s])
    BY <1>13 DEF R!InsertProof, RecordedIn, A!Nodes
  <2> HIDE DEF s, p
  <2> DEFINE w == [op |-> "install", proof |-> p, proofs |-> s]
  <2>5. CarriesOK(w, all, commands) /\ w.op # "keys"
    BY <2>1, <2>3, CarriedWorks
  <2>6. R!Becomes(c, w)
    BY <2>4
  <2> HIDE DEF w
  <2>7. QED BY <1>1, <1>3, <1>13, <2>3, <2>4, <2>5, <2>6 DEF R!InsertProof, R!files
<1>14. CASE R!RefuseProof(c)
  <2>1. R!Becomes(c, R!Idle) /\ R!Idle.op # "keys" /\ CarriesOK(R!Idle, all, commands)
    BY <1>14, CarriedWorks DEF R!RefuseProof, R!Idle
  <2>2. QED BY <1>1, <1>3, <1>14, <2>1 DEF R!RefuseProof, R!own, R!files
<1>15. CASE R!InstallKeys(c)
  <2> DEFINE p == busy[c].proof
             s == busy[c].proofs
             writes == [op |-> "writeProofs", proofs |-> s, then |-> R!Idle]
  <2>1. ProofOK(p, commands) /\ HistoryOK(s, all)
    BY <1>1, <1>15 DEF R!InstallKeys, CarriesOK, RecordedIn
  <2>2. offers' = Installed(offers, p)
    BY <1>15 DEF R!InstallKeys, R!Published, Installed
  <2>3. HeldOK(offers', commands)
    BY <1>1, <2>1, <2>2, InstalledOK
  <2>4. [writes EXCEPT !.op = "clear"] = [op |-> "clear", proofs |-> s, then |-> R!Idle]
    OBVIOUS
  <2>5. PICK w : R!Becomes(c, [op |-> "snapshot", then |-> w])
                 /\ w \in {writes, [writes EXCEPT !.op = "clear"]}
    BY <1>15 DEF R!InstallKeys, R!AfterInstall
  <2>6. Rest(w) /\ w.proofs = s
    BY <2>4, <2>5, RestShapes, SameNames
  <2>7. CarriesOK([op |-> "snapshot", then |-> w], all, commands)
    BY <2>1, <2>6, CarriedRest
  <2>8. QED BY <1>1, <1>3, <1>15, <2>3, <2>5, <2>7 DEF R!InstallKeys, R!files
<1>16. CASE R!ClearStrikes(c)
  <2>1. Rest(busy[c]) /\ HistoryOK(busy[c].proofs, all)
    BY <1>1, <1>16 DEF R!ClearStrikes, WorkOK, CarriesOK
  <2> DEFINE w == [busy[c] EXCEPT !.op = "writeProofs"]
             s == busy[c].proofs
  <2>2. w = [op |-> "writeProofs", proofs |-> s, then |-> A!Idle]
    BY <2>1, RestShapes
  <2>3. CarriesOK([op |-> "writeProofs", proofs |-> s, then |-> A!Idle], all, commands)
    BY <2>1, CarriedWorks, SameNames
  <2>4. CarriesOK(w, all, commands) /\ w.op # "keys"
    BY <2>2, <2>3
  <2>5. strikes' \in Nat
    BY <1>16 DEF R!ClearStrikes
  <2>6. R!Becomes(c, w)
    BY <1>16 DEF R!ClearStrikes
  <2> HIDE DEF w, s
  <2>7. QED BY <1>1, <1>3, <1>16, <2>4, <2>5, <2>6 DEF R!ClearStrikes, R!files
<1>17. CASE R!WriteProofs(c)
  <2>1. Rest(busy[c]) /\ HistoryOK(busy[c].proofs, all)
    BY <1>1, <1>17 DEF R!WriteProofs, WorkOK, CarriesOK
  <2>2. CarriesOK(busy[c].then, all, commands) /\ busy[c].then.op # "keys"
    BY <2>1, CarriedWorks, SameNames DEF Rest, A!Idle
  <2>3. QED BY <1>1, <1>3, <1>17, <2>1, <2>2 DEF R!WriteProofs
<1>18. QED
  BY <1>4, <1>5, <1>6, <1>7, <1>8, <1>9, <1>10, <1>11, <1>12, <1>13, <1>14, <1>15, <1>16, <1>17
  DEF R!Operate

LEMMA StepRecorded ==
  ASSUME Framed, Recorded, [Next]_vars
  PROVE  Recorded'
<1>1. PICK all : RecordedIn(all)
  BY DEF Recorded
<1>2. commands \in Nat /\ strikes \in Nat /\ Apart(all)
  BY <1>1 DEF Framed, Counted, RecordedIn
<1>3. CASE A!Next /\ UNCHANGED <<offers, offersFile, history, historyFile, strikes>>
  <2>1. \A c \in Commands : busy'[c] = busy[c] \/ CarriesOK(busy'[c], all, commands')
    BY <1>3, AuthorityShared DEF CarriesOK, AuthorityOps
  <2>2. \A c \in Commands : busy'[c] = busy[c] \/ busy'[c].op # "keys"
    BY <1>3, AuthorityShared DEF AuthorityOps
  <2>3. Apart(all)'
    BY <1>2, <2>2, ApartKept
  <2>4. RecordedIn(all)'
    BY <1>1, <1>2, <1>3, <2>1, <2>3, AuthorityShared, RecordedKept
  <2>5. QED BY <2>4 DEF Recorded
<1>4. CASE \E c \in Commands : R!Operate(c)
  BY <1>1, <1>4, OperateRecorded
<1>5. CASE R!Strike
  <2>1. Apart(all)'
    BY <1>2, <1>5, ApartKept DEF R!Strike
  <2>2. RecordedIn(all)'
    BY <1>1, <1>2, <1>5, <2>1, RecordedKept DEF R!Strike, R!files
  <2>3. QED BY <2>2 DEF Recorded
<1>6. CASE Restart
  <2>1. /\ offers' = offersFile /\ strikes' = 0
        /\ history' = [history EXCEPT ![Owner] = historyFile]
        /\ UNCHANGED <<offersFile, historyFile>>
    BY <1>6 DEF Restart, R!Restart, R!files
  <2>2. DOMAIN history' = A!Nodes /\ \A n \in A!Nodes : HistoryOK(history'[n], all)
    BY <1>1, <2>1 DEF RecordedIn, A!Nodes
  <2>3. UNCHANGED commands /\ \A c \in Commands : busy'[c] = A!Idle
    BY <1>6, Restarted
  <2>4. /\ \A c \in Commands : CarriesOK(busy'[c], all, commands)
        /\ \A c \in Commands : busy'[c] = busy[c] \/ busy'[c].op # "keys"
    BY <2>3, CarriedWorks, SameNames DEF A!Idle
  <2>5. Apart(all)'
    BY <1>2, <2>4, ApartKept
  <2>6. RecordedIn(all)'
    BY <1>1, <2>1, <2>2, <2>3, <2>4, <2>5 DEF RecordedIn
  <2>7. QED BY <2>6 DEF Recorded
<1>7. CASE \E n \in Peers : \E k \in 1..Len(history[Owner]) : R!ImportProof(n, history[Owner][k])
  <2>1. PICK n \in Peers, k \in 1..Len(history[Owner]) : R!ImportProof(n, history[Owner][k])
    BY <1>7
  <2> DEFINE p == history[Owner][k]
             s == Append(history[n], p)
  <2>2. /\ history' = [history EXCEPT ![n] = s] /\ R!Follows(p, history[n])
        /\ UNCHANGED <<busy, commands, offers, offersFile, historyFile, strikes>>
    BY <2>1 DEF R!ImportProof, R!files
  <2>3. /\ HistoryOK(history[n], all) /\ p \in all /\ n \in A!Nodes
        /\ \A q \in all : ProofOK(q, commands)
    BY <1>1 DEF RecordedIn, A!Nodes, HistoryOK
  <2>4. HistoryOK(s, all)
    BY <2>2, <2>3, HistoryGrows
  <2> HIDE DEF s, p
  <2>5. DOMAIN history' = A!Nodes /\ \A x \in A!Nodes : HistoryOK(history'[x], all)
    BY <1>1, <2>2, <2>3, <2>4 DEF RecordedIn
  <2>6. Apart(all)'
    BY <1>2, <2>2, ApartKept
  <2>7. RecordedIn(all)'
    BY <1>1, <2>2, <2>5, <2>6 DEF RecordedIn
  <2>8. QED BY <2>7 DEF Recorded
<1>8. CASE UNCHANGED vars
  <2>1. RecordedIn(all)'
    BY <1>1, <1>8 DEF vars, RecordedIn, Apart
  <2>2. QED BY <2>1 DEF Recorded
<1>9. QED BY <1>3, <1>4, <1>5, <1>6, <1>7, <1>8 DEF Next, R!Next

-----------------------------------------------------------------------------
(* How memory and disk differ, as long as no commands on offers overlap.     *)

\* What is on the disk is what is in memory.
Settled == offersFile = offers /\ historyFile = history[Owner]

IsActivated(offer) == offer # R!NoOffer /\ ~offer.draft

\* A rotation whose keys are in the offers: its proof is the first that is not on the
\* disk, and if it clears the strikes then every activated offer has a key of it.
After(w, held, proofs, saved) ==
  /\ Rest(w) /\ w.proofs = proofs
  /\ proofs = Append(saved, R!Last(proofs))
  /\ \A i \in DOMAIN R!Last(proofs).keys : held[i].key = R!Last(proofs).keys[i]
  /\ w.op = "clear" => \A i \in OfferIds : IsActivated(held[i]) => i \in DOMAIN R!Last(proofs).keys

\* Keys that were made after those of all the proofs.
Newer(keys, proofs) == \A j \in 1..Len(proofs) : KeyOf(proofs[j].keys) < KeyOf(keys)

\* What a command in the middle of w implies for the offers that are held and on the
\* disk, and for the proofs that are held and on the disk.
FlowOf(w, held, kept, proofs, saved) ==
  /\ w.op \in {"offer", "keys", "proof"} => kept = held /\ saved = proofs
  /\ w.op = "keys" => /\ \A i \in DOMAIN w.keys : held[i] # R!NoOffer
                      /\ Newer(w.keys, proofs)
  /\ w.op \in {"proof", "install"} => /\ \A i \in DOMAIN w.proof.keys : held[i] # R!NoOffer
                                     /\ Newer(w.proof.keys, saved)
  /\ w.op \in {"declare", "writeCa"} => saved = proofs
  /\ w.op = "install" => /\ kept = held /\ w.proofs = proofs
                         /\ proofs = Append(saved, w.proof) /\ R!Follows(w.proof, saved)
  /\ w.op \in {"snapshot", "writeOffers"} =>
       IF w.then = A!Idle THEN saved = proofs ELSE After(w.then, held, proofs, saved)
  /\ w.op = "writeOffers" => w.offers = held
  /\ w.op \in {"clear", "writeProofs"} => kept = held /\ After(w, held, proofs, saved)

\* Offers have the keys of the last proof, or later ones, or were published anew.
NotBehind(held, proofs) ==
  proofs # <<>> =>
    \A i \in DOMAIN R!Last(proofs).keys : held[i].key = 0 \/ held[i].key >= R!Last(proofs).keys[i]

InOffer(c) == busy[c].op \in R!OfferOps

Flow ==
  "overlap" \notin trouble =>
    /\ \A c, d \in Commands : InOffer(c) /\ InOffer(d) => c = d
    /\ (\A c \in Commands : ~InOffer(c)) => Settled
    /\ \A c \in Commands : FlowOf(busy[c], offers, offersFile, history[Owner], historyFile)
    /\ NotBehind(offersFile, historyFile) /\ NotBehind(offers, historyFile)

LEMMA FlowElsewhere ==
  \A w : w.op \notin R!OfferOps =>
    \A held, kept, proofs, saved : FlowOf(w, held, kept, proofs, saved)
  BY DEF FlowOf, R!OfferOps

LEMMA InitFlow == Init => Flow
<1> SUFFICES ASSUME Init PROVE Flow
  OBVIOUS
<1>1. \A c \in Commands : busy[c].op \notin R!OfferOps
  BY DEF Init, A!Init, A!Idle, R!OfferOps
<1>2. historyFile = <<>> /\ history[Owner] = <<>> /\ offersFile = offers
  BY DEF Init, R!InitOwn, R!Nodes
<1>3. QED BY <1>1, <1>2, FlowElsewhere DEF Flow, InOffer, Settled, NotBehind

\* Steps that leave the offers, the owner's proofs and their files alone.
LEMMA FlowKept ==
  ASSUME Flow, UNCHANGED <<offers, offersFile, historyFile, trouble>>,
         history'[Owner] = history[Owner],
         \A c \in Commands : \/ busy'[c] = busy[c]
                             \/ busy[c].op \notin R!OfferOps /\ busy'[c].op \notin R!OfferOps
  PROVE  Flow'
<1> SUFFICES ASSUME "overlap" \notin trouble PROVE Flow'
  BY DEF Flow
<1>1. \A c \in Commands : InOffer(c)' <=> InOffer(c)
  BY DEF InOffer
<1>2. \A c \in Commands : FlowOf(busy'[c], offers, offersFile, history[Owner], historyFile)
  BY FlowElsewhere DEF Flow
<1>3. QED BY <1>1, <1>2 DEF Flow, Settled

\* A command on offers begins.
LEMMA FlowBegins ==
  ASSUME Framed, Flow, NEW c \in Commands, NEW w, R!Becomes(c, w), w.op \in {"offer", "keys"},
         w.op = "keys" => /\ \A i \in DOMAIN w.keys : offers[i] # R!NoOffer
                          /\ Newer(w.keys, history[Owner]),
         R!Marks(IF R!Overlaps THEN {"overlap"} ELSE {}),
         UNCHANGED <<offers, offersFile, history, historyFile>>
  PROVE  Flow'
<1> SUFFICES ASSUME "overlap" \notin trouble' PROVE Flow'
  BY DEF Flow
<1>1. ~R!Overlaps /\ "overlap" \notin trouble
  BY DEF R!Marks
<1>2. \A d \in Commands : ~InOffer(d)
  BY <1>1 DEF R!Overlaps, InOffer
<1>3. Settled
  BY <1>1, <1>2 DEF Flow
<1>4. busy'[c] = w /\ \A d \in Commands \ {c} : busy'[d] = busy[d]
  BY WorkTaken
<1>5. FlowOf(w, offers, offersFile, history[Owner], historyFile)
  BY <1>3 DEF FlowOf, Settled
<1>6. \A d \in Commands : FlowOf(busy'[d], offers, offersFile, history[Owner], historyFile)
  BY <1>1, <1>4, <1>5 DEF Flow
<1>7. InOffer(c)' /\ \A d \in Commands \ {c} : ~InOffer(d)'
  BY <1>2, <1>4 DEF InOffer, R!OfferOps
<1>8. QED BY <1>1, <1>6, <1>7 DEF Flow

\* The one command on offers that is under way goes on.
LEMMA FlowMoves ==
  ASSUME Framed, Flow, "overlap" \notin trouble, UNCHANGED trouble,
         NEW c \in Commands, InOffer(c), NEW w, R!Becomes(c, w),
         w.op \in R!OfferOps =>
           FlowOf(w, offers', offersFile', history'[Owner], historyFile'),
         w.op \notin R!OfferOps => Settled',
         NotBehind(offersFile', historyFile'), NotBehind(offers', historyFile')
  PROVE  Flow'
<1>1. busy'[c] = w /\ \A d \in Commands \ {c} : busy'[d] = busy[d] /\ ~InOffer(d)
  BY WorkTaken DEF Flow
<1>2. \A d \in Commands \ {c} : ~InOffer(d)'
  BY <1>1 DEF InOffer
<1>3. \A d \in Commands : FlowOf(busy'[d], offers', offersFile', history'[Owner], historyFile')
  BY <1>1, <1>2, FlowElsewhere DEF InOffer
<1>4. (\A d \in Commands : ~InOffer(d)') => Settled'
  BY <1>1 DEF InOffer
<1>5. \A x, y \in Commands : InOffer(x)' /\ InOffer(y)' => x = y
  BY <1>2
<1>6. QED BY <1>3, <1>4, <1>5 DEF Flow

LEMMA InstalledKeys ==
  ASSUME NEW upto, NEW held, NEW proof, ProofOK(proof, upto),
         \A i \in DOMAIN proof.keys : held[i] # R!NoOffer
  PROVE  /\ \A i \in DOMAIN proof.keys : Installed(held, proof)[i].key = proof.keys[i]
         /\ \A i \in OfferIds \ DOMAIN proof.keys : Installed(held, proof)[i] = held[i]
<1>1. ASSUME NEW i \in DOMAIN proof.keys PROVE Installed(held, proof)[i].key = proof.keys[i]
  <2>1. i \in OfferIds /\ held[i] # R!NoOffer
    BY DEF ProofOK, KeysOK
  <2>2. Installed(held, proof)[i] = [held[i] EXCEPT !.key = proof.keys[i]]
    BY <2>1 DEF Installed
  <2>3. QED BY <2>2
<1>2. QED BY <1>1 DEF Installed

\* The keys of the next proof are put in: what was held does not fall behind.
LEMMA InstallKeeps ==
  ASSUME NEW upto, NEW all, \A p \in all : ProofOK(p, upto), NEW held, NEW proof, NEW saved,
         HistoryOK(saved, all), ProofOK(proof, upto), Newer(proof.keys, saved),
         NotBehind(held, saved), \A i \in DOMAIN proof.keys : held[i] # R!NoOffer
  PROVE  NotBehind(Installed(held, proof), saved)
<1> DEFINE new == Installed(held, proof)
           last == R!Last(saved)
<1> SUFFICES ASSUME saved # <<>>, NEW i \in DOMAIN last.keys
             PROVE  new[i].key = 0 \/ new[i].key >= last.keys[i]
  BY DEF NotBehind
<1>1. ProofOK(last, upto) /\ Len(saved) \in 1..Len(saved) /\ last = saved[Len(saved)]
  BY LastProof
<1>2. i \in OfferIds
  BY <1>1 DEF ProofOK, KeysOK
<1>3. CASE i \in DOMAIN proof.keys
  <2>1. last.keys[i] < proof.keys[i] /\ last.keys[i] \in Int /\ proof.keys[i] \in Int
    <3>1. KeyOf(last.keys) < KeyOf(proof.keys)
      BY <1>1 DEF Newer
    <3>2. last.keys[i] = KeyOf(last.keys) /\ KeyOf(last.keys) \in 1..upto
      BY <1>1 DEF ProofOK, KeysOK
    <3>3. proof.keys[i] = KeyOf(proof.keys) /\ KeyOf(proof.keys) \in 1..upto
      BY <1>3 DEF ProofOK, KeysOK
    <3> HIDE DEF last
    <3>4. QED BY <3>1, <3>2, <3>3
  <2>2. new[i].key = proof.keys[i]
    BY <1>3, InstalledKeys
  <2> HIDE DEF new, last
  <2>3. QED BY <2>1, <2>2
<1>4. CASE i \notin DOMAIN proof.keys
  <2>1. new[i] = held[i]
    BY <1>2, <1>4, InstalledKeys
  <2>2. held[i].key = 0 \/ held[i].key >= last.keys[i]
    BY DEF NotBehind
  <2>3. QED BY <2>1, <2>2
<1>5. QED BY <1>3, <1>4

LEMMA FlowWorks ==
  ASSUME NEW held, NEW kept, NEW proofs, NEW saved
  PROVE  /\ saved = proofs => \A k : FlowOf([op |-> "declare", catalog |-> k], held, kept, proofs, saved)
         /\ saved = proofs => \A k, w : FlowOf([op |-> "writeCa", file |-> k, then |-> w], held, kept, proofs, saved)
         /\ saved = proofs => FlowOf([op |-> "snapshot", then |-> A!Idle], held, kept, proofs, saved)
         /\ \A w : After(w, held, proofs, saved) =>
              FlowOf([op |-> "snapshot", then |-> w], held, kept, proofs, saved)
         /\ \A w : (w = A!Idle /\ saved = proofs) \/ After(w, held, proofs, saved) =>
              FlowOf([op |-> "writeOffers", offers |-> held, then |-> w], held, kept, proofs, saved)
<1>1. \A w : After(w, held, proofs, saved) => w # A!Idle
  BY DEF After, Rest, A!Idle
<1>2. QED BY <1>1 DEF FlowOf

LEMMA OperateFlow ==
  ASSUME Framed, NEW all, RecordedIn(all), Flow, NEW c \in Commands, R!Operate(c)
  PROVE  Flow'
<1>1. ASSUME NEW w, R!Becomes(c, w), {busy[c].op, w.op} \subseteq {"idle", "publishCa"},
             UNCHANGED <<offers, offersFile, history, historyFile, trouble>>
      PROVE  Flow'
  <2>1. \A d \in Commands : \/ busy'[d] = busy[d]
                            \/ busy[d].op \notin R!OfferOps /\ busy'[d].op \notin R!OfferOps
    BY <1>1, WorkTaken DEF R!OfferOps
  <2>2. QED BY <1>1, <2>1, FlowKept
<1>2. CASE \E status \in {"draft", "public"} : R!PublishCa(c, status)
  <2>1. PICK w : R!Becomes(c, w) /\ w.op = "publishCa"
    BY <1>2 DEF R!PublishCa
  <2>2. busy[c].op = "idle" /\ UNCHANGED <<offers, offersFile, history, historyFile, trouble>>
    BY <1>2 DEF R!PublishCa, R!Begins, R!Idle, R!files
  <2>3. QED BY <1>1, <2>1, <2>2
<1>3. CASE R!WriteCa(c) /\ busy[c].op = "publishCa"
  <2>1. R!Becomes(c, A!Idle) /\ A!Idle.op = "idle"
    BY <1>3 DEF R!WriteCa, RecordedIn, CarriesOK, A!Idle
  <2>2. UNCHANGED <<offers, offersFile, history, historyFile, trouble>>
    BY <1>3 DEF R!WriteCa
  <2>3. QED BY <1>1, <1>3, <2>1, <2>2
<1>4. CASE \E i \in OfferIds, draft \in BOOLEAN : R!StartOffer(c, i, draft)
  BY <1>4, FlowBegins DEF R!StartOffer, R!files
<1>5. CASE \E ids \in SUBSET OfferIds : R!StartRotation(c, ids)
  <2>1. PICK ids \in SUBSET OfferIds : R!StartRotation(c, ids)
    BY <1>5
  <2> DEFINE keys == [i \in ids |-> commands + 1]
             w == [op |-> "keys", keys |-> keys, time |-> now]
  <2>2. DOMAIN keys = ids /\ commands \in Nat /\ ids # {}
    BY <2>1 DEF Framed, Counted, R!StartRotation
  <2>3. \A i \in ids : offers[i] # R!NoOffer
    BY <2>1 DEF R!StartRotation, R!Activated, R!Published
  <2>4. R!Becomes(c, w)
    BY <2>1 DEF R!StartRotation, R!Begins
  <2>5. KeyOf(keys) = commands + 1
    BY <2>2, NewKeys
  <2>6. Newer(keys, history[Owner])
    <3>1. ASSUME NEW j \in 1..Len(history[Owner])
          PROVE  KeyOf(history[Owner][j].keys) \in 1..commands
      BY DEF RecordedIn, HistoryOK, A!Nodes, ProofOK, KeysOK
    <3>2. QED BY <2>2, <2>5, <3>1 DEF Newer
  <2> HIDE DEF keys
  <2>7. w.op = "keys" /\ w.keys = keys
    OBVIOUS
  <2> HIDE DEF w
  <2>8. /\ R!Marks(IF R!Overlaps THEN {"overlap"} ELSE {})
        /\ UNCHANGED <<offers, offersFile, history, historyFile>>
    BY <2>1 DEF R!StartRotation, R!files
  <2>9. QED BY <2>2, <2>3, <2>4, <2>6, <2>7, <2>8, FlowBegins
<1> SUFFICES ASSUME "overlap" \notin trouble', UNCHANGED trouble,
                    busy[c].op \in R!OfferOps
             PROVE  Flow'
  <2>1. CASE "overlap" \in trouble'
    BY <2>1 DEF Flow
  <2>2. CASE "overlap" \notin trouble'
    <3>1. \/ \E status \in {"draft", "public"} : R!PublishCa(c, status)
          \/ \E i \in OfferIds, draft \in BOOLEAN : R!StartOffer(c, i, draft)
          \/ \E ids \in SUBSET OfferIds : R!StartRotation(c, ids)
          \/ R!WriteCa(c) /\ busy[c].op = "publishCa"
          \/ UNCHANGED trouble /\ busy[c].op \in R!OfferOps
      BY DEF R!Operate, R!InsertOffer, R!DeclareCatalog, R!WriteCa, R!SnapshotOffers, R!WriteOffers,
         R!MakeProof, R!InsertProof, R!RefuseProof, R!InstallKeys, R!ClearStrikes, R!WriteProofs,
         R!OfferOps, R!own
    <3>2. QED BY <1>2, <1>4, <1>5, <1>3, <2>2, <3>1
  <2>3. QED BY <2>1, <2>2
<1>6. /\ "overlap" \notin trouble /\ InOffer(c)
      /\ FlowOf(busy[c], offers, offersFile, history[Owner], historyFile)
      /\ NotBehind(offersFile, historyFile) /\ NotBehind(offers, historyFile)
      /\ WorkOK(busy[c]) /\ CarriesOK(busy[c], all, commands)
      /\ HistoryOK(historyFile, all) /\ HistoryOK(history[Owner], all)
      /\ HeldOK(offers, commands) /\ HeldOK(offersFile, commands)
      /\ \A q \in all : ProofOK(q, commands)
  BY DEF Flow, InOffer, Framed, WorksOK, RecordedIn, A!Nodes
<1>7. CASE R!InsertOffer(c)
  <2> DEFINE w == [op |-> "declare", catalog |-> R!Catalog(1, offers')]
  <2>1. /\ offers' = [offers EXCEPT ![busy[c].id] = R!NewOffer(busy[c].draft)]
        /\ historyFile = history[Owner]
        /\ busy[c].id \in OfferIds
    BY <1>6, <1>7 DEF R!InsertOffer, FlowOf, CarriesOK
  <2>2. NotBehind(offers', historyFile)
    <3> SUFFICES ASSUME historyFile # <<>>, NEW i \in DOMAIN R!Last(historyFile).keys
                 PROVE  offers'[i].key = 0 \/ offers'[i].key >= R!Last(historyFile).keys[i]
      BY DEF NotBehind
    <3>1. i \in OfferIds
      BY <1>6, LastProof DEF ProofOK, KeysOK
    <3>2. offers'[i] = offers[i] \/ offers'[i].key = 0
      BY <1>6, <2>1, <3>1 DEF R!NewOffer, HeldOK
    <3>3. QED BY <1>6, <3>2 DEF NotBehind
  <2>3. FlowOf(w, offers', offersFile, history[Owner], historyFile)
    BY <2>1, FlowWorks
  <2>4. R!Becomes(c, w) /\ w.op \in R!OfferOps /\ UNCHANGED <<offersFile, history, historyFile>>
    BY <1>7 DEF R!InsertOffer, R!OfferOps, R!files
  <2> HIDE DEF w
  <2>5. QED BY <1>6, <2>2, <2>3, <2>4, FlowMoves
<1>8. CASE R!DeclareCatalog(c)
  <2> DEFINE w == [op |-> "writeCa", file |-> R!Declaration(ca[Owner], declared'),
                   then |-> [op |-> "snapshot", then |-> A!Idle]]
  <2>1. FlowOf(w, offers, offersFile, history[Owner], historyFile)
    BY <1>6, <1>8, FlowWorks DEF R!DeclareCatalog, FlowOf
  <2>2. R!Becomes(c, w) /\ w.op \in R!OfferOps /\ UNCHANGED <<offers, offersFile, history, historyFile>>
    BY <1>8, SameNames DEF R!DeclareCatalog, R!OfferOps, R!files
  <2> HIDE DEF w
  <2>3. QED BY <1>6, <2>1, <2>2, FlowMoves
<1>9. CASE R!WriteCa(c)
  <2> DEFINE w == [op |-> "snapshot", then |-> A!Idle]
  <2>1. FlowOf(w, offers, offersFile, history[Owner], historyFile)
    <3>1. busy[c].op = "writeCa"
      BY <1>9 DEF R!WriteCa, R!OfferOps
    <3>2. historyFile = history[Owner]
      BY <1>6, <3>1 DEF FlowOf
    <3>3. QED BY <3>2, FlowWorks
  <2>2. R!Becomes(c, w) /\ w.op \in R!OfferOps /\ UNCHANGED <<offers, offersFile, history, historyFile>>
    BY <1>6, <1>9 DEF R!WriteCa, R!OfferOps, CarriesOK
  <2> HIDE DEF w
  <2>3. QED BY <1>6, <2>1, <2>2, FlowMoves
<1>10. CASE R!SnapshotOffers(c)
  <2> DEFINE w == [op |-> "writeOffers", offers |-> offers, then |-> busy[c].then]
  <2>1. FlowOf(w, offers, offersFile, history[Owner], historyFile)
    BY <1>6, <1>10, FlowWorks DEF R!SnapshotOffers, FlowOf
  <2>2. R!Becomes(c, w) /\ w.op \in R!OfferOps /\ UNCHANGED <<offers, offersFile, history, historyFile>>
    BY <1>10 DEF R!SnapshotOffers, R!OfferOps, R!own, R!files
  <2> HIDE DEF w
  <2>3. QED BY <1>6, <2>1, <2>2, FlowMoves
<1>11. CASE R!WriteOffers(c)
  <2> DEFINE w == busy[c].then
  <2>1. /\ R!Becomes(c, w) /\ offersFile' = offers /\ UNCHANGED <<offers, history, historyFile>>
        /\ IF w = A!Idle THEN historyFile = history[Owner]
           ELSE After(w, offers, history[Owner], historyFile)
    BY <1>6, <1>11 DEF R!WriteOffers, FlowOf
  <2> HIDE DEF w
  <2>2. CASE w = A!Idle
    <3>1. w.op \notin R!OfferOps /\ Settled'
      BY <2>1, <2>2 DEF A!Idle, R!OfferOps, Settled
    <3>2. QED BY <1>6, <2>1, <3>1, FlowMoves
  <2>3. CASE w # A!Idle
    <3>1. FlowOf(w, offers, offersFile', history[Owner], historyFile) /\ w.op \in R!OfferOps
      BY <2>1, <2>3 DEF FlowOf, After, Rest, R!OfferOps
    <3>2. QED BY <1>6, <2>1, <3>1, FlowMoves
  <2>4. QED BY <2>2, <2>3
<1>12. CASE R!MakeProof(c)
  <2> DEFINE p == R!NewProof(R!Last(history[Owner]), busy[c].keys, busy[c].time)
             w == [op |-> "proof", proof |-> p]
  <2>1. /\ offersFile = offers /\ historyFile = history[Owner]
        /\ \A i \in DOMAIN busy[c].keys : offers[i] # R!NoOffer
        /\ Newer(busy[c].keys, historyFile)
    BY <1>6, <1>12 DEF R!MakeProof, FlowOf
  <2>2. p.keys = busy[c].keys
    BY DEF R!NewProof
  <2>3. R!Becomes(c, w) /\ UNCHANGED <<offers, offersFile, history, historyFile>>
    BY <1>12 DEF R!MakeProof, R!own, R!files
  <2> HIDE DEF p
  <2>4. FlowOf(w, offers, offersFile, history[Owner], historyFile) /\ w.op \in R!OfferOps
    BY <2>1, <2>2 DEF FlowOf, R!OfferOps
  <2> HIDE DEF w
  <2>5. QED BY <1>6, <2>3, <2>4, FlowMoves
<1>13. CASE R!InsertProof(c)
  <2> DEFINE p == busy[c].proof
             s == Append(history[Owner], p)
             w == [op |-> "install", proof |-> p, proofs |-> s]
  <2>1. /\ offersFile = offers /\ historyFile = history[Owner] /\ R!Follows(p, historyFile)
        /\ \A i \in DOMAIN p.keys : offers[i] # R!NoOffer
        /\ Newer(p.keys, historyFile)
    BY <1>6, <1>13 DEF R!InsertProof, FlowOf
  <2>2. FlowOf(w, offers, offersFile, s, historyFile) /\ w.op \in R!OfferOps
    BY <2>1 DEF FlowOf, R!OfferOps
  <2>3. history'[Owner] = s /\ R!Becomes(c, w) /\ UNCHANGED <<offers, offersFile, historyFile>>
    BY <1>13 DEF R!InsertProof, R!files, RecordedIn, A!Nodes
  <2> HIDE DEF w, s, p
  <2>4. QED BY <1>6, <2>2, <2>3, FlowMoves
<1>14. CASE R!RefuseProof(c)
  <2>1. Settled' /\ UNCHANGED <<offers, offersFile, history, historyFile>>
    BY <1>6, <1>14 DEF R!RefuseProof, FlowOf, Settled, R!own, R!files
  <2>2. R!Becomes(c, R!Idle) /\ R!Idle.op \notin R!OfferOps
    BY <1>14 DEF R!RefuseProof, R!Idle, R!OfferOps
  <2>3. QED BY <1>6, <2>1, <2>2, FlowMoves
<1>15. CASE R!InstallKeys(c)
  <2> DEFINE p == busy[c].proof
             s == busy[c].proofs
             writes == [op |-> "writeProofs", proofs |-> s, then |-> R!Idle]
             clears == [op |-> "clear", proofs |-> s, then |-> R!Idle]
  <2>1. /\ offersFile = offers /\ s = history[Owner] /\ s = Append(historyFile, p)
        /\ Newer(p.keys, historyFile) /\ \A i \in DOMAIN p.keys : offers[i] # R!NoOffer
        /\ ProofOK(p, commands)
    BY <1>6, <1>15 DEF R!InstallKeys, FlowOf, CarriesOK
  <2>2. R!Last(s) = p
    BY <1>6, <2>1, ProofsExtended DEF HistoryOK
  <2>3. offers' = Installed(offers, p) /\ UNCHANGED <<offersFile, history, historyFile>>
    BY <1>15 DEF R!InstallKeys, R!Published, Installed, R!files
  <2>4. /\ NotBehind(offers', historyFile)
        /\ \A i \in DOMAIN p.keys : offers'[i].key = p.keys[i]
        /\ \A i \in OfferIds \ DOMAIN p.keys : offers'[i] = offers[i]
    <3>1. /\ HistoryOK(historyFile, all) /\ NotBehind(offers, historyFile)
          /\ ProofOK(p, commands) /\ Newer(p.keys, historyFile)
          /\ \A q \in all : ProofOK(q, commands)
          /\ \A i \in DOMAIN p.keys : offers[i] # R!NoOffer
      BY <1>6, <2>1
    <3> HIDE DEF p
    <3>2. NotBehind(offers', historyFile)
      BY <2>3, <3>1, InstallKeeps
    <3>3. QED BY <2>3, <3>1, <3>2, InstalledKeys
  <2>5. After(writes, offers', s, historyFile)
    BY <2>1, <2>2, <2>4, RestShapes, SameNames DEF After
  <2>6. ASSUME R!CoversAll(p.keys, R!Activated) PROVE After(clears, offers', s, historyFile)
    <3>1. \A i \in OfferIds : IsActivated(offers'[i]) => i \in DOMAIN p.keys
      BY <2>4, <2>6 DEF R!CoversAll, R!Activated, R!Published, IsActivated
    <3>2. QED BY <2>1, <2>2, <2>4, <3>1, RestShapes, SameNames DEF After
  <2>7. [writes EXCEPT !.op = "clear"] = clears
    OBVIOUS
  <2>8. PICK w : R!Becomes(c, [op |-> "snapshot", then |-> w]) /\ After(w, offers', s, historyFile)
    <3>1. CASE R!CoversAll(p.keys, R!Activated)
      BY <1>15, <2>6, <2>7, <3>1 DEF R!InstallKeys, R!AfterInstall
    <3>2. CASE ~R!CoversAll(p.keys, R!Activated)
      BY <1>15, <2>5, <3>2 DEF R!InstallKeys, R!AfterInstall
    <3>3. QED BY <3>1, <3>2
  <2> DEFINE next == [op |-> "snapshot", then |-> w]
  <2>9. FlowOf(next, offers', offersFile, s, historyFile) /\ next.op \in R!OfferOps
    BY <2>8, FlowWorks DEF R!OfferOps
  <2> HIDE DEF next
  <2>10. QED BY <1>6, <2>1, <2>3, <2>4, <2>8, <2>9, FlowMoves DEF next
<1>16. CASE R!ClearStrikes(c)
  <2> DEFINE w == [busy[c] EXCEPT !.op = "writeProofs"]
             s == history[Owner]
  <2>1. /\ offersFile = offers /\ After(busy[c], offers, s, historyFile)
        /\ UNCHANGED <<offers, offersFile, history, historyFile>> /\ R!Becomes(c, w)
    BY <1>6, <1>16 DEF R!ClearStrikes, FlowOf, R!files
  <2>2. w = [op |-> "writeProofs", proofs |-> s, then |-> A!Idle]
    BY <2>1, RestShapes DEF After
  <2> HIDE DEF w
  <2>3. Rest(w) /\ w.proofs = s /\ w.op = "writeProofs"
    BY <2>2, RestShapes
  <2>4. After(w, offers, s, historyFile)
    BY <2>1, <2>3 DEF After
  <2>5. FlowOf(w, offers, offersFile, s, historyFile) /\ w.op \in R!OfferOps
    BY <2>1, <2>3, <2>4 DEF FlowOf, R!OfferOps
  <2>6. QED BY <1>6, <2>1, <2>5, FlowMoves
<1>17. CASE R!WriteProofs(c)
  <2> DEFINE s == history[Owner]
             last == R!Last(s)
  <2>1. /\ offersFile = offers /\ After(busy[c], offers, s, historyFile)
        /\ UNCHANGED <<offers, offersFile, history>> /\ historyFile' = busy[c].proofs
        /\ R!Becomes(c, busy[c].then)
    BY <1>6, <1>17 DEF R!WriteProofs, FlowOf
  <2>2. historyFile' = s /\ R!Becomes(c, A!Idle)
    BY <2>1 DEF After, Rest
  <2>3. Settled' /\ A!Idle.op \notin R!OfferOps
    BY <2>1, <2>2 DEF Settled, A!Idle, R!OfferOps
  <2>4. NotBehind(offers, s)
    <3> SUFFICES ASSUME s # <<>>, NEW i \in DOMAIN last.keys PROVE offers[i].key >= last.keys[i]
      BY DEF NotBehind
    <3>1. last.keys[i] \in Int
      BY <1>6, LastProof DEF ProofOK, KeysOK
    <3>2. offers[i].key = last.keys[i]
      BY <2>1 DEF After
    <3> HIDE DEF last
    <3>3. QED BY <3>1, <3>2
  <2>5. QED BY <1>6, <2>1, <2>2, <2>3, <2>4, FlowMoves
<1>18. QED
  BY <1>2, <1>4, <1>5, <1>7, <1>8, <1>9, <1>10, <1>11, <1>12, <1>13, <1>14, <1>15, <1>16, <1>17
  DEF R!Operate

LEMMA StepFlow ==
  ASSUME Framed, Recorded, Flow, [Next]_vars
  PROVE  Flow'
<1>1. CASE A!Next /\ UNCHANGED <<offers, offersFile, history, historyFile, trouble>>
  <2>1. \A c \in Commands : \/ busy'[c] = busy[c]
                            \/ busy[c].op \notin R!OfferOps /\ busy'[c].op \notin R!OfferOps
    BY <1>1, AuthorityShared DEF AuthorityOps, R!OfferOps
  <2>2. QED BY <1>1, <2>1, FlowKept
<1>2. CASE \E c \in Commands : R!Operate(c)
  <2>1. PICK all : RecordedIn(all)
    BY DEF Recorded
  <2>2. QED BY <1>2, <2>1, OperateFlow
<1>3. CASE R!Strike
  BY <1>3, FlowKept DEF R!Strike, R!files
<1>4. CASE Restart
  <2>1. /\ offers' = offersFile /\ history' = [history EXCEPT ![Owner] = historyFile]
        /\ UNCHANGED <<offersFile, historyFile>>
        /\ trouble \subseteq trouble'
    BY <1>4 DEF Restart, R!Restart, R!files, R!Marks
  <2>2. \A c \in Commands : busy'[c].op \notin R!OfferOps
    BY <1>4, Restarted DEF A!Idle, R!OfferOps
  <2>3. Settled'
    BY <2>1 DEF Settled, Recorded, RecordedIn, A!Nodes
  <2>4. QED BY <2>1, <2>2, <2>3, FlowElsewhere DEF Flow, InOffer
<1>5. CASE \E n \in Peers : \E k \in 1..Len(history[Owner]) : R!ImportProof(n, history[Owner][k])
  <2>1. history'[Owner] = history[Owner]
    BY <1>5, Assumptions DEF R!ImportProof, Recorded, RecordedIn
  <2>2. QED BY <1>5, <2>1, FlowKept DEF R!ImportProof, R!files
<1>6. CASE UNCHANGED vars
  BY <1>6, FlowKept DEF vars
<1>7. QED BY <1>1, <1>2, <1>3, <1>4, <1>5, <1>6 DEF Next, R!Next


-----------------------------------------------------------------------------
(* Keys and catalogues, as long as no command is cut short either.          *)

\* An offer's key is of the last proof that names the offer.
KeyFrom(held, proofs) ==
  \A i \in OfferIds : held[i] # R!NoOffer /\ held[i].key # 0 =>
    \E k \in 1..Len(proofs) :
      /\ i \in DOMAIN proofs[k].keys /\ held[i].key = proofs[k].keys[i]
      /\ \A j \in 1..Len(proofs) : i \in DOMAIN proofs[j].keys => j <= k

InOp(op) == \E c \in Commands : busy[c].op = op

\* Between the insertion of a proof and that of its keys, the offers have those of
\* the proofs on the disk.
Keyed ==
  trouble \subseteq {"restart"} =>
    KeyFrom(offers, IF InOp("install") THEN historyFile ELSE history[Owner])

\* Between the insertion of an offer and that of the hash, the command carries the hash.
Catalogued ==
  trouble = {} =>
    /\ \A c \in Commands : busy[c].op = "declare" =>
         busy[c].catalog.keys = R!Catalog(1, offers).keys
    /\ ~InOp("declare") /\ R!Published # {} => declared.keys = R!Catalog(1, offers).keys

LEMMA InitAgree == Init => Keyed /\ Catalogued
<1> SUFFICES ASSUME Init PROVE Keyed /\ Catalogued
  OBVIOUS
<1>1. \A c \in Commands : busy[c].op = "idle"
  BY DEF Init, A!Init, A!Idle
<1>2. \A i \in OfferIds : offers[i] = R!NoOffer \/ offers[i].key = 0
  BY DEF Init, R!InitOwn
<1>3. R!Published # {} => declared = R!Catalog(1, offers)
  BY DEF Init, R!InitOwn
<1>4. QED BY <1>1, <1>2, <1>3 DEF Keyed, KeyFrom, Catalogued, InOp

\* What becomes of the commands that are about to declare or to install.
Alike ==
  /\ UNCHANGED <<offers, declared, historyFile>> /\ history'[Owner] = history[Owner]
  /\ \A c \in Commands :
       busy'[c] = busy[c] \/ {busy[c].op, busy'[c].op} \cap {"declare", "install"} = {}

LEMMA OfferSteps ==
  ASSUME Framed, Recorded, [Next]_vars
  PROVE  /\ trouble \subseteq trouble'
         /\ \/ Alike
            \/ \E c \in Commands : \/ R!InsertOffer(c) \/ R!DeclareCatalog(c) \/ R!InsertProof(c)
                                   \/ R!InstallKeys(c) \/ R!WriteProofs(c)
            \/ Restart
<1>1. CASE A!Next /\ UNCHANGED <<declared, offers, history, historyFile, trouble>>
  BY <1>1, AuthorityShared DEF Alike, AuthorityOps
<1>2. ASSUME NEW c \in Commands, NEW w, R!Becomes(c, w),
             {busy[c].op, w.op} \cap {"declare", "install"} = {},
             UNCHANGED <<offers, declared, history, historyFile>>
      PROVE  Alike
  BY <1>2, WorkTaken DEF Alike
<1>3. ASSUME NEW c \in Commands, R!Operate(c)
      PROVE  /\ trouble \subseteq trouble'
             /\ \/ Alike
                \/ R!InsertOffer(c) \/ R!DeclareCatalog(c) \/ R!InsertProof(c)
                \/ R!InstallKeys(c) \/ R!WriteProofs(c)
  <2>1. WorkOK(busy[c])
    BY DEF Framed, WorksOK
  <2>2. CASE \E status \in {"draft", "public"} : R!PublishCa(c, status)
    BY <1>2, <2>2 DEF R!PublishCa, R!Begins, R!Idle, R!files
  <2>3. CASE \E i \in OfferIds, draft \in BOOLEAN : R!StartOffer(c, i, draft)
    BY <1>2, <2>3 DEF R!StartOffer, R!Begins, R!Idle, R!files, R!Marks
  <2>4. CASE R!WriteCa(c)
    <3>1. busy[c].then.op \in {"idle", "snapshot"}
      BY <2>1, <2>4, AfterWriteCa DEF R!WriteCa
    <3>2. QED BY <1>2, <2>4, <3>1 DEF R!WriteCa
  <2>5. CASE R!SnapshotOffers(c)
    BY <1>2, <2>5 DEF R!SnapshotOffers, R!own, R!files
  <2>6. CASE R!WriteOffers(c)
    <3>1. busy[c].then.op \in {"idle", "clear", "writeProofs"}
      BY <2>1, <2>6 DEF R!WriteOffers, WorkOK, Rest, A!Idle
    <3>2. QED BY <1>2, <2>6, <3>1 DEF R!WriteOffers
  <2>7. CASE \E ids \in SUBSET OfferIds : R!StartRotation(c, ids)
    BY <1>2, <2>7 DEF R!StartRotation, R!Begins, R!Idle, R!files, R!Marks
  <2>8. CASE R!RefuseProof(c)
    BY <1>2, <2>8 DEF R!RefuseProof, R!Idle, R!own, R!files
  <2>9. CASE R!MakeProof(c)
    BY <1>2, <2>9 DEF R!MakeProof, R!own, R!files
  <2>10. CASE R!ClearStrikes(c)
    <3>1. [busy[c] EXCEPT !.op = "writeProofs"].op = "writeProofs"
      BY <2>1, <2>10, RestShapes DEF R!ClearStrikes, WorkOK
    <3>2. QED BY <1>2, <2>10, <3>1 DEF R!ClearStrikes, R!files
  <2>11. CASE R!InsertOffer(c) \/ R!DeclareCatalog(c) \/ R!InsertProof(c) \/ R!InstallKeys(c)
              \/ R!WriteProofs(c)
    BY <2>11 DEF R!InsertOffer, R!DeclareCatalog, R!InsertProof, R!InstallKeys, R!WriteProofs
  <2>12. QED
    BY <1>3, <2>2, <2>3, <2>4, <2>5, <2>6, <2>7, <2>8, <2>10, <2>11, <2>9 DEF R!Operate
<1>4. CASE R!Strike
  BY <1>4 DEF R!Strike, R!files, Alike
<1>5. CASE Restart
  BY <1>5 DEF Restart, R!Restart, R!Marks
<1>6. CASE \E n \in Peers : \E k \in 1..Len(history[Owner]) : R!ImportProof(n, history[Owner][k])
  <2>1. history'[Owner] = history[Owner]
    BY <1>6, Assumptions DEF R!ImportProof, Recorded, RecordedIn
  <2>2. QED BY <1>6, <2>1 DEF R!ImportProof, R!files, Alike
<1>7. CASE UNCHANGED vars
  BY <1>7 DEF vars, Alike
<1>8. QED BY <1>1, <1>3, <1>4, <1>5, <1>6, <1>7 DEF Next, R!Next

\* While one command is about to declare or to install, no other is.
LEMMA NoOther ==
  ASSUME Framed, Flow, "overlap" \notin trouble,
         NEW c \in Commands, InOffer(c), NEW w, R!Becomes(c, w)
  PROVE  /\ busy'[c] = w
         /\ \A d \in Commands \ {c} : busy'[d] = busy[d] /\ busy[d].op \notin R!OfferOps
  BY WorkTaken DEF Flow, InOffer

LEMMA LastOfRotation ==
  ASSUME Framed, NEW c \in Commands, R!WriteProofs(c)
  PROVE  busy[c].then = A!Idle
<1>1. Rest(busy[c])
  BY DEF R!WriteProofs, Framed, WorksOK, WorkOK
<1>2. QED BY <1>1 DEF Rest

LEMMA StepCatalogued ==
  ASSUME Framed, Recorded, Flow, Catalogued, [Next]_vars
  PROVE  Catalogued'
<1> SUFFICES ASSUME trouble' = {} PROVE Catalogued'
  BY DEF Catalogued
<1>1. /\ trouble = {} /\ "overlap" \notin trouble
      /\ \A c \in Commands : busy[c].op = "declare" => busy[c].catalog.keys = R!Catalog(1, offers).keys
      /\ ~InOp("declare") /\ R!Published # {} => declared.keys = R!Catalog(1, offers).keys
  BY OfferSteps DEF Catalogued
<1>2. CASE Alike
  <2>1. /\ \A c \in Commands : busy'[c].op = "declare" => busy'[c] = busy[c]
        /\ InOp("declare")' <=> InOp("declare")
    BY <1>2 DEF Alike, InOp
  <2>2. UNCHANGED <<offers, declared>>
    BY <1>2 DEF Alike
  <2>3. QED BY <1>1, <2>1, <2>2 DEF Catalogued, R!Published
<1>3. ASSUME NEW c \in Commands, R!InsertOffer(c) PROVE Catalogued'
  <2> DEFINE w == [op |-> "declare", catalog |-> R!Catalog(1, offers')]
  <2>1. R!Becomes(c, w) /\ InOffer(c)
    BY <1>3 DEF R!InsertOffer, InOffer, R!OfferOps
  <2>2. busy'[c] = w /\ \A d \in Commands \ {c} : busy'[d].op # "declare"
    BY <1>1, <2>1, NoOther DEF R!OfferOps
  <2>3. busy'[c].op = "declare" /\ busy'[c].catalog = R!Catalog(1, offers')
    BY <2>2
  <2> HIDE DEF w
  <2>4. QED BY <2>2, <2>3 DEF Catalogued, InOp
<1>4. ASSUME NEW c \in Commands, R!DeclareCatalog(c) PROVE Catalogued'
  <2> DEFINE w == [op |-> "writeCa", file |-> R!Declaration(ca[Owner], declared'),
                   then |-> [op |-> "snapshot", then |-> A!Idle]]
  <2>1. /\ R!Becomes(c, w) /\ InOffer(c) /\ busy[c].op = "declare"
        /\ declared' = busy[c].catalog /\ UNCHANGED offers
    BY <1>4, SameNames DEF R!DeclareCatalog, InOffer, R!OfferOps
  <2>2. \A d \in Commands : busy'[d].op # "declare"
    BY <1>1, <2>1, NoOther DEF R!OfferOps
  <2> HIDE DEF w
  <2>3. declared'.keys = R!Catalog(1, offers').keys
    BY <1>1, <2>1
  <2>4. QED BY <2>2, <2>3 DEF Catalogued
<1>5. ASSUME NEW c \in Commands, R!InsertProof(c) \/ R!WriteProofs(c) PROVE Catalogued'
  <2>1. /\ InOffer(c) /\ busy[c].op # "declare" /\ UNCHANGED <<offers, declared>>
    BY <1>5 DEF R!InsertProof, R!WriteProofs, R!files, InOffer, R!OfferOps
  <2>2. PICK w : R!Becomes(c, w) /\ w.op # "declare"
    <3>1. R!WriteProofs(c) => busy[c].then.op # "declare"
      BY LastOfRotation DEF A!Idle
    <3>2. QED BY <1>5, <3>1 DEF R!InsertProof, R!WriteProofs, A!Idle
  <2>3. /\ \A d \in Commands : busy'[d].op # "declare"
        /\ ~InOp("declare")
    BY <1>1, <2>1, <2>2, NoOther DEF R!OfferOps, InOp
  <2>4. QED BY <1>1, <2>1, <2>3 DEF Catalogued, R!Published
<1>6. ASSUME NEW c \in Commands, R!InstallKeys(c) PROVE Catalogued'
  <2>1. /\ InOffer(c) /\ declared' = R!InstalledCatalog(busy[c].proof, offers')
        /\ \E w : R!Becomes(c, [op |-> "snapshot", then |-> w])
    BY <1>6 DEF R!InstallKeys, R!AfterInstall, InOffer, R!OfferOps
  <2>2. \A d \in Commands : busy'[d].op # "declare"
    BY <1>1, <2>1, NoOther DEF R!OfferOps
  <2>3. declared'.keys = R!Catalog(1, offers').keys
    BY <2>1 DEF R!InstalledCatalog, R!Catalog
  <2>4. QED BY <2>2, <2>3 DEF Catalogued
<1>7. CASE Restart
  BY <1>7 DEF Restart, R!Restart, R!Marks
<1>8. QED BY <1>2, <1>3, <1>4, <1>5, <1>6, <1>7, OfferSteps

\* A proof with new keys is added, and they are put in.
LEMMA KeyFromInstalled ==
  ASSUME NEW all, NEW held, NEW proof, NEW saved, HistoryOK(saved, all), KeyFrom(held, saved),
         \A i \in DOMAIN proof.keys : Installed(held, proof)[i].key = proof.keys[i],
         \A i \in OfferIds \ DOMAIN proof.keys : Installed(held, proof)[i] = held[i]
  PROVE  KeyFrom(Installed(held, proof), Append(saved, proof))
<1> DEFINE new == Installed(held, proof)
           longer == Append(saved, proof)
<1>1. /\ Len(saved) \in Nat /\ Len(longer) = Len(saved) + 1
      /\ \A k \in 1..Len(saved) : longer[k] = saved[k]
      /\ longer[Len(saved) + 1] = proof
  BY ProofsExtended DEF HistoryOK
<1> HIDE DEF longer
<1> SUFFICES ASSUME NEW i \in OfferIds, new[i] # R!NoOffer /\ new[i].key # 0
             PROVE  \E k \in 1..Len(longer) :
                      /\ i \in DOMAIN longer[k].keys /\ new[i].key = longer[k].keys[i]
                      /\ \A j \in 1..Len(longer) : i \in DOMAIN longer[j].keys => j <= k
  BY DEF KeyFrom, longer
<1>2. CASE i \in DOMAIN proof.keys
  <2>1. new[i].key = proof.keys[i]
    BY <1>2
  <2> HIDE DEF new
  <2>2. Len(longer) \in 1..Len(longer) /\ longer[Len(longer)] = proof /\ \A j \in 1..Len(longer) : j <= Len(longer)
    BY <1>1
  <2>3. QED BY <1>2, <2>1, <2>2
<1>3. CASE i \notin DOMAIN proof.keys
  <2>1. new[i] = held[i]
    BY <1>3
  <2> HIDE DEF new
  <2>2. PICK k \in 1..Len(saved) :
               /\ i \in DOMAIN saved[k].keys /\ held[i].key = saved[k].keys[i]
               /\ \A j \in 1..Len(saved) : i \in DOMAIN saved[j].keys => j <= k
    BY <2>1 DEF KeyFrom
  <2>3. k \in 1..Len(longer) /\ longer[k] = saved[k]
    BY <1>1
  <2>4. ASSUME NEW j \in 1..Len(longer), i \in DOMAIN longer[j].keys PROVE j <= k
    <3>1. j # Len(saved) + 1
      BY <1>1, <1>3, <2>4
    <3>2. j \in 1..Len(saved)
      BY <1>1, <3>1
    <3>3. QED BY <1>1, <2>2, <2>4, <3>2
  <2>5. QED BY <2>1, <2>2, <2>3, <2>4
<1>4. QED BY <1>2, <1>3

LEMMA StepKeyed ==
  ASSUME Framed, Recorded, Flow, Keyed, [Next]_vars
  PROVE  Keyed'
<1> SUFFICES ASSUME trouble' \subseteq {"restart"} PROVE Keyed'
  BY DEF Keyed
<1>1. /\ trouble \subseteq {"restart"} /\ "overlap" \notin trouble
      /\ InOp("install") => KeyFrom(offers, historyFile)
      /\ ~InOp("install") => KeyFrom(offers, history[Owner])
  BY OfferSteps DEF Keyed
<1>2. PICK all : RecordedIn(all) /\ HistoryOK(historyFile, all)
  BY DEF Recorded, RecordedIn
<1>3. CASE Alike
  <2>1. InOp("install")' <=> InOp("install")
    BY <1>3 DEF Alike, InOp
  <2>2. QED BY <1>1, <1>3, <2>1 DEF Keyed, Alike
<1>4. ASSUME NEW c \in Commands, NEW w, R!Becomes(c, w), InOffer(c), busy[c].op # "install",
             w.op # "install"
      PROVE  ~InOp("install") /\ ~InOp("install")'
  BY <1>1, <1>4, NoOther DEF InOp, R!OfferOps
<1>5. ASSUME NEW c \in Commands, R!InsertOffer(c) PROVE Keyed'
  <2>1. /\ \E w : R!Becomes(c, w) /\ w.op # "install"
        /\ InOffer(c) /\ busy[c].op # "install" /\ UNCHANGED <<history, historyFile>>
        /\ offers' = [offers EXCEPT ![busy[c].id] = R!NewOffer(busy[c].draft)]
    BY <1>5 DEF R!InsertOffer, InOffer, R!OfferOps, R!files
  <2>2. ~InOp("install") /\ ~InOp("install")'
    BY <1>4, <2>1
  <2>3. \A i \in OfferIds : offers'[i] = offers[i] \/ offers'[i].key = 0
    BY <1>2, <2>1 DEF R!NewOffer, RecordedIn, HeldOK
  <2>4. KeyFrom(offers', history[Owner])
    BY <1>1, <2>2, <2>3 DEF KeyFrom
  <2>5. QED BY <2>1, <2>2, <2>4 DEF Keyed
<1>6. ASSUME NEW c \in Commands, R!DeclareCatalog(c) \/ R!WriteProofs(c) PROVE Keyed'
  <2>1. InOffer(c) /\ busy[c].op # "install" /\ UNCHANGED <<offers, history>>
    BY <1>6 DEF R!DeclareCatalog, R!WriteProofs, R!files, InOffer, R!OfferOps
  <2>2. \E w : R!Becomes(c, w) /\ w.op # "install"
    <3>1. R!WriteProofs(c) => busy[c].then.op # "install"
      BY LastOfRotation DEF A!Idle
    <3>2. QED BY <1>6, <3>1 DEF R!DeclareCatalog, R!WriteProofs, A!Idle
  <2>3. ~InOp("install") /\ ~InOp("install")'
    BY <1>4, <2>1, <2>2
  <2>4. QED BY <1>1, <2>1, <2>3 DEF Keyed
<1>7. ASSUME NEW c \in Commands, R!InsertProof(c) PROVE Keyed'
  <2>1. /\ \E w : R!Becomes(c, w) /\ w.op = "install"
        /\ InOffer(c) /\ busy[c].op = "proof" /\ UNCHANGED <<offers, historyFile>>
    BY <1>7 DEF R!InsertProof, R!files, InOffer, R!OfferOps
  <2>2. historyFile = history[Owner]
    BY <1>1, <2>1 DEF Flow, FlowOf
  <2>3. ~InOp("install") /\ InOp("install")'
    BY <1>1, <2>1, NoOther DEF InOp, R!OfferOps
  <2>4. QED BY <1>1, <2>1, <2>2, <2>3 DEF Keyed
<1>8. ASSUME NEW c \in Commands, R!InstallKeys(c) PROVE Keyed'
  <2> DEFINE p == busy[c].proof
  <2>1. /\ \E w : R!Becomes(c, w) /\ w.op # "install"
        /\ InOffer(c) /\ busy[c].op = "install" /\ UNCHANGED <<history, historyFile>>
        /\ offers' = Installed(offers, p)
    BY <1>8 DEF R!InstallKeys, R!AfterInstall, R!files, InOffer, R!OfferOps, R!Published, Installed
  <2>2. InOp("install") /\ ~InOp("install")'
    BY <1>1, <2>1, NoOther DEF InOp, R!OfferOps
  <2>3. /\ history[Owner] = Append(historyFile, p)
        /\ \A i \in DOMAIN p.keys : offers[i] # R!NoOffer
        /\ ProofOK(p, commands)
    BY <1>1, <1>2, <2>1 DEF Flow, FlowOf, RecordedIn, CarriesOK
  <2> HIDE DEF p
  <2>4. /\ \A i \in DOMAIN p.keys : offers'[i].key = p.keys[i]
        /\ \A i \in OfferIds \ DOMAIN p.keys : offers'[i] = offers[i]
    BY <2>1, <2>3, InstalledKeys
  <2>5. KeyFrom(offers', history[Owner])
    BY <1>1, <1>2, <2>1, <2>2, <2>3, <2>4, KeyFromInstalled
  <2>6. QED BY <2>1, <2>2, <2>5 DEF Keyed
<1>9. CASE Restart
  <2>1. /\ ~R!Overlaps /\ offers' = offersFile /\ UNCHANGED historyFile
        /\ history' = [history EXCEPT ![Owner] = historyFile]
        /\ \A c \in Commands : busy'[c] = R!Idle
    BY <1>9, Restarted, SameNames DEF Restart, R!Restart, R!files, R!Marks
  <2>2. Settled /\ ~InOp("install") /\ ~InOp("install")'
    BY <1>1, <2>1 DEF R!Overlaps, Flow, InOffer, InOp, R!OfferOps, R!Idle
  <2>3. history'[Owner] = historyFile
    BY <1>2, <2>1 DEF RecordedIn, A!Nodes
  <2>4. QED BY <1>1, <2>1, <2>2, <2>3 DEF Keyed, Settled
<1>10. QED BY <1>3, <1>5, <1>6, <1>7, <1>8, <1>9, OfferSteps


-----------------------------------------------------------------------------
(* As long as no commands on offers overlap, later proofs have later keys.   *)

Rising(proofs) ==
  \A k \in 1..Len(proofs) : \A j \in 1..(k - 1) : KeyOf(proofs[j].keys) < KeyOf(proofs[k].keys)

Rises == "overlap" \notin trouble => Rising(historyFile) /\ \A n \in A!Nodes : Rising(history[n])

LEMMA InitRises == Init => Rises
<1> SUFFICES ASSUME Init PROVE Rises
  OBVIOUS
<1>1. historyFile = <<>> /\ \A n \in A!Nodes : history[n] = <<>>
  BY DEF Init, R!InitOwn, R!Nodes, A!Nodes
<1>2. Rising(<<>>)
  BY DEF Rising
<1>3. QED BY <1>1, <1>2 DEF Rises

LEMMA RisingGrows ==
  ASSUME NEW s, IsProofs(s), Rising(s), NEW p, Newer(p.keys, s)
  PROVE  Rising(Append(s, p))
<1> DEFINE t == Append(s, p)
<1>1. /\ Len(s) \in Nat /\ Len(t) = Len(s) + 1
      /\ \A k \in 1..Len(s) : t[k] = s[k]
      /\ t[Len(s) + 1] = p
  BY ProofsExtended
<1> HIDE DEF t
<1>2. ASSUME NEW k \in 1..Len(t), NEW j \in 1..(k - 1)
      PROVE  KeyOf(t[j].keys) < KeyOf(t[k].keys)
  <2>1. j \in 1..Len(s) /\ t[j] = s[j]
    BY <1>1
  <2>2. CASE k = Len(s) + 1
    BY <1>1, <2>1, <2>2 DEF Newer
  <2>3. CASE k # Len(s) + 1
    <3>1. k \in 1..Len(s) /\ t[k] = s[k]
      BY <1>1, <2>3
    <3>2. QED BY <2>1, <3>1 DEF Rising
  <2>4. QED BY <2>2, <2>3
<1>3. QED BY <1>2 DEF Rising, t

\* A proof of one history that follows another is newer than all of that one.
LEMMA ImportedNewer ==
  ASSUME NEW upto, NEW all, \A q \in all : ProofOK(q, upto),
         NEW from, HistoryOK(from, all), Rising(from),
         NEW to, HistoryOK(to, all), Rising(to),
         NEW k \in 1..Len(from), R!Follows(from[k], to)
  PROVE  Newer(from[k].keys, to)
<1> SUFFICES ASSUME NEW j \in 1..Len(to)
             PROVE  KeyOf(to[j].keys) < KeyOf(from[k].keys)
  BY DEF Newer
<1>1. Len(to) \in Nat /\ Len(from) \in Nat /\ to # <<>>
  BY LastProof
<1>2. /\ Len(to) \in 1..Len(to) /\ R!Last(to) = to[Len(to)]
      /\ from[k].prev = to[Len(to)] /\ to[Len(to)].seq = Len(to)
  BY <1>1, LastProof DEF R!Follows
<1>3. k # 1 /\ from[k].prev = from[k - 1] /\ k - 1 \in 1..(k - 1)
  <2>1. to[Len(to)] # R!NoProof
    BY <1>2 DEF R!NoProof
  <2>2. QED BY <1>1, <1>2, <2>1 DEF HistoryOK, IsProofChain
<1>4. KeyOf(to[Len(to)].keys) < KeyOf(from[k].keys)
  BY <1>2, <1>3 DEF Rising
<1>5. /\ KeyOf(to[j].keys) \in Int /\ KeyOf(to[Len(to)].keys) \in Int
      /\ KeyOf(from[k].keys) \in Int
  BY <1>2 DEF HistoryOK, ProofOK, KeysOK
<1>6. CASE j = Len(to)
  BY <1>4, <1>6
<1>7. CASE j # Len(to)
  <2>1. j \in 1..(Len(to) - 1)
    BY <1>1, <1>7
  <2>2. KeyOf(to[j].keys) < KeyOf(to[Len(to)].keys)
    BY <1>2, <2>1 DEF Rising
  <2>3. QED BY <1>4, <1>5, <2>2
<1>8. QED BY <1>6, <1>7

\* The steps that change no history, and those that do.
LEMMA HistorySteps ==
  ASSUME [Next]_vars
  PROVE  \/ UNCHANGED <<history, historyFile>>
         \/ \E c \in Commands : R!InsertProof(c) \/ R!WriteProofs(c)
         \/ Restart
         \/ \E n \in Peers : \E k \in 1..Len(history[Owner]) : R!ImportProof(n, history[Owner][k])
<1>1. ASSUME NEW c \in Commands, R!Operate(c)
      PROVE  UNCHANGED <<history, historyFile>> \/ R!InsertProof(c) \/ R!WriteProofs(c)
  BY <1>1
  DEF R!Operate, R!PublishCa, R!StartOffer, R!InsertOffer, R!DeclareCatalog, R!WriteCa,
      R!SnapshotOffers, R!WriteOffers, R!StartRotation, R!MakeProof, R!RefuseProof,
      R!InstallKeys, R!ClearStrikes, R!own, R!files
<1>2. R!Strike => UNCHANGED <<history, historyFile>>
  BY DEF R!Strike, R!files
<1>3. QED BY <1>1, <1>2 DEF Next, R!Next, vars

LEMMA StepRises ==
  ASSUME Framed, Recorded, Flow, Rises, [Next]_vars
  PROVE  Rises'
<1> SUFFICES ASSUME "overlap" \notin trouble' PROVE Rises'
  BY DEF Rises
<1>1. "overlap" \notin trouble /\ Rising(historyFile) /\ \A n \in A!Nodes : Rising(history[n])
  BY OfferSteps DEF Rises
<1>2. PICK all : RecordedIn(all)
  BY DEF Recorded
<1>3. /\ DOMAIN history = A!Nodes /\ Owner \in A!Nodes
      /\ \A n \in A!Nodes : HistoryOK(history[n], all)
      /\ \A q \in all : ProofOK(q, commands)
  BY <1>2 DEF RecordedIn, A!Nodes
<1>4. CASE UNCHANGED <<history, historyFile>>
  BY <1>1, <1>4 DEF Rises
<1>5. ASSUME NEW n \in A!Nodes, NEW s, history' = [history EXCEPT ![n] = s], Rising(s),
             UNCHANGED historyFile
      PROVE  Rises'
  <2>1. \A m \in A!Nodes : Rising(history'[m])
    BY <1>1, <1>3, <1>5
  <2>2. QED BY <1>1, <1>5, <2>1 DEF Rises
<1>6. ASSUME NEW c \in Commands, R!InsertProof(c) PROVE Rises'
  <2> DEFINE p == busy[c].proof
             s == Append(history[Owner], p)
  <2>1. Newer(p.keys, history[Owner])
    BY <1>1, <1>6 DEF R!InsertProof, Flow, FlowOf
  <2>2. Rising(s)
    BY <1>1, <1>3, <2>1, RisingGrows DEF HistoryOK
  <2>3. history' = [history EXCEPT ![Owner] = s] /\ UNCHANGED historyFile
    BY <1>6 DEF R!InsertProof, R!files
  <2> HIDE DEF s
  <2>4. QED BY <1>3, <1>5, <2>2, <2>3
<1>7. ASSUME NEW c \in Commands, R!WriteProofs(c) PROVE Rises'
  <2>1. After(busy[c], offers, history[Owner], historyFile)
    BY <1>1, <1>7 DEF R!WriteProofs, Flow, FlowOf
  <2>2. historyFile' = history[Owner] /\ UNCHANGED history
    BY <1>7, <2>1 DEF R!WriteProofs, After
  <2>3. QED BY <1>1, <1>3, <2>2 DEF Rises
<1>8. CASE Restart
  <2>1. history' = [history EXCEPT ![Owner] = historyFile] /\ UNCHANGED historyFile
    BY <1>8 DEF Restart, R!Restart, R!files
  <2>2. QED BY <1>1, <1>3, <1>5, <2>1
<1>9. CASE \E n \in Peers : \E k \in 1..Len(history[Owner]) : R!ImportProof(n, history[Owner][k])
  <2>1. PICK n \in Peers, k \in 1..Len(history[Owner]) : R!ImportProof(n, history[Owner][k])
    BY <1>9
  <2> DEFINE p == history[Owner][k]
             s == Append(history[n], p)
  <2>2. /\ history' = [history EXCEPT ![n] = s] /\ UNCHANGED historyFile
        /\ R!Follows(p, history[n]) /\ n \in A!Nodes
    BY <2>1 DEF R!ImportProof, R!files, A!Nodes
  <2>3. Newer(p.keys, history[n])
    BY <1>1, <1>3, <2>2, ImportedNewer
  <2>4. Rising(s)
    BY <1>1, <1>3, <2>2, <2>3, RisingGrows DEF HistoryOK
  <2> HIDE DEF s
  <2>5. QED BY <1>5, <2>2, <2>4
<1>10. QED BY <1>4, <1>6, <1>7, <1>8, <1>9, HistorySteps

-----------------------------------------------------------------------------
(* The theorems.                                                            *)

OfferInv == Framed /\ Recorded /\ Flow /\ Rises /\ Keyed /\ Catalogued

LEMMA OfferInvariance == Spec => []OfferInv
<1>1. Init => OfferInv
  BY InitFramed, InitRecorded, InitFlow, InitRises, InitAgree DEF OfferInv
<1>2. IInv /\ OfferInv /\ [Next]_vars => OfferInv'
  <2> SUFFICES ASSUME IInv, OfferInv, [Next]_vars PROVE OfferInv'
    OBVIOUS
  <2>1. Framed'
    BY StepIInv DEF IInv
  <2>2. QED
    BY <2>1, StepRecorded, StepFlow, StepRises, StepKeyed, StepCatalogued DEF OfferInv
<1>3. QED BY <1>1, <1>2, Invariance, PTL DEF Spec

\* One proof before another in a history.
LEMMA YoungerLater ==
  ASSUME Recorded, Rises, NEW proofs, proofs = historyFile \/ \E n \in A!Nodes : proofs = history[n],
         NEW k \in 1..Len(proofs), NEW j \in 1..(k - 1)
  PROVE  R!Younger(proofs[k], proofs[j])
<1>1. PICK all : RecordedIn(all)
  BY DEF Recorded
<1>2. /\ HistoryOK(proofs, all) /\ Apart(all)
      /\ \A q \in all : ProofOK(q, commands)
  BY <1>1 DEF RecordedIn
<1>3. Len(proofs) \in Nat /\ j \in 1..Len(proofs) /\ j # k
  <2>1. Len(proofs) \in Nat
    BY <1>2, LastProof
  <2>2. QED BY <2>1
<1>4. PICK new \in all : new = proofs[k]
  BY <1>2 DEF HistoryOK
<1>5. PICK old \in all : old = proofs[j]
  BY <1>2, <1>3 DEF HistoryOK
<1>6. old.time <= new.time /\ old # new
  <2>1. new.seq = k /\ old.seq = j
    BY <1>2, <1>3, <1>4, <1>5 DEF HistoryOK, IsProofChain
  <2>2. QED BY <1>2, <1>3, <1>4, <1>5, <2>1 DEF HistoryOK, IsProofChain
<1>7. /\ \A i \in DOMAIN new.keys : new.keys[i] = KeyOf(new.keys)
      /\ \A i \in DOMAIN old.keys : old.keys[i] = KeyOf(old.keys)
  BY <1>2 DEF ProofOK, KeysOK
<1>8. KeyOf(old.keys) # KeyOf(new.keys)
  BY <1>2, <1>6 DEF Apart
<1>9. "overlap" \notin trouble => KeyOf(old.keys) < KeyOf(new.keys)
  BY <1>4, <1>5 DEF Rises, Rising
<1>10. QED BY <1>4, <1>5, <1>6, <1>7, <1>8, <1>9 DEF R!Younger

\* Whatever races and crashes there are, every node's proofs, and those on the disk, are
\* one chain without a gap, in the order of their times, no two of which have a key in
\* common; unless rotations overlapped, the keys are younger from each proof to the next.
THEOREM ProofsStayChains == Spec => []ProofsAreChains
<1>1. OfferInv => ProofsAreChains
  <2> SUFFICES ASSUME OfferInv,
                      NEW proofs \in {history[n] : n \in R!Nodes} \cup {historyFile},
                      NEW k \in 1..Len(proofs)
               PROVE  /\ proofs[k].seq = k
                      /\ proofs[k].prev = IF k = 1 THEN R!NoProof ELSE proofs[k - 1]
                      /\ \A j \in 1..(k - 1) : R!Younger(proofs[k], proofs[j])
    BY DEF ProofsAreChains, R!ProofsAreChains
  <2>1. /\ Recorded /\ Rises
        /\ proofs = historyFile \/ \E n \in A!Nodes : proofs = history[n]
    BY SameNames DEF OfferInv
  <2>2. IsProofChain(proofs)
    BY <2>1 DEF Recorded, RecordedIn, HistoryOK
  <2>3. QED BY <2>1, <2>2, YoungerLater DEF IsProofChain
<1>2. QED BY <1>1, OfferInvariance, PTL

\* The declaration has the hash of the offers there are, once commands that ran one after
\* the other are done.
THEOREM CatalogStaysDeclared == Spec => []CatalogAgrees
<1>1. OfferInv => CatalogAgrees
  <2>1. ~R!Overlaps => ~InOp("declare")
    BY DEF R!Overlaps, InOp, R!OfferOps
  <2>2. QED BY <2>1 DEF OfferInv, Catalogued, CatalogAgrees, R!CatalogAgrees, R!Quiet
<1>2. QED BY <1>1, OfferInvariance, PTL

\* Memory and disk agree, and each offer has the key of its last rotation, whenever no
\* command is under way and none has overlapped or been cut short.
THEOREM KeysStayAgreed == Spec => []KeysAgree
<1>1. OfferInv => KeysAgree
  <2> SUFFICES ASSUME OfferInv, trouble \subseteq {"restart"}, ~R!Overlaps
               PROVE  /\ offersFile = offers /\ historyFile = history[Owner]
                      /\ \A i \in R!Published :
                           LET rotated == {k \in 1..Len(historyFile) : i \in DOMAIN historyFile[k].keys} IN
                           offers[i].key # 0 =>
                             \E k \in rotated : offers[i].key = historyFile[k].keys[i]
                                                /\ \A j \in rotated : j <= k
    BY DEF KeysAgree, R!KeysAgree, R!Quiet
  <2>1. Settled
    BY DEF OfferInv, Flow, InOffer, R!Overlaps
  <2>2. ~InOp("install")
    BY DEF R!Overlaps, InOp, R!OfferOps
  <2>3. KeyFrom(offers, historyFile)
    BY <2>1, <2>2 DEF OfferInv, Keyed, Settled
  <2>4. QED BY <2>1, <2>3 DEF Settled, KeyFrom, R!Published
<1>2. QED BY <1>1, OfferInvariance, PTL

\* Wherever the process ends, the offers on the disk have the keys of the last rotation
\* that is on the disk, or later ones.
THEOREM ProofsNeverAhead == Spec => []ProofNeverAhead
<1>1. OfferInv => ProofNeverAhead
  BY DEF OfferInv, Flow, NotBehind, ProofNeverAhead, R!ProofNeverAhead
<1>2. QED BY <1>1, OfferInvariance, PTL

\* Strikes are cleared only by a restart, or when every activated offer has a key of the
\* last rotation.
THEOREM StrikesClearedRightly == Spec => StrikesStand
<1>1. OfferInv /\ [Next]_vars => [R!ClearedRightly]_R!vars
  <2> SUFFICES ASSUME OfferInv, [Next]_vars, strikes' < strikes,
                      left'.restarts = left.restarts, "overlap" \notin trouble
               PROVE  \A i \in R!Activated :
                        /\ i \in DOMAIN R!Last(history[Owner]).keys
                        /\ offers[i].key = R!Last(history[Owner]).keys[i]
    BY DEF R!ClearedRightly
  <2>1. strikes \in Nat /\ left.restarts \in Nat
    BY DEF OfferInv, Recorded, RecordedIn, Framed, Counted, Kinds
  <2>2. strikes' # strikes
    BY <2>1
  <2>3. ~R!Strike /\ ~Restart
    <3>1. ~R!Strike
      BY <2>1 DEF R!Strike
    <3>2. Restart => left'.restarts = left.restarts - 1
      BY DEF Restart, R!Restart, OfferInv, Framed, Counted, Kinds
    <3>3. QED BY <2>1, <3>1, <3>2
  <2>4. PICK c \in Commands : R!ClearStrikes(c)
    <3>1. PICK c \in Commands : R!Operate(c)
      BY <2>2, <2>3 DEF Next, vars, R!Next, R!ImportProof
    <3>2. R!ClearStrikes(c)
      BY <2>2, <3>1
      DEF R!Operate, R!PublishCa, R!StartOffer, R!InsertOffer, R!DeclareCatalog, R!WriteCa,
          R!SnapshotOffers, R!WriteOffers, R!StartRotation, R!MakeProof, R!InsertProof, R!RefuseProof,
          R!InstallKeys, R!WriteProofs, R!own
    <3>3. QED BY <3>2
  <2>5. After(busy[c], offers, history[Owner], historyFile) /\ busy[c].op = "clear"
    BY <2>4 DEF R!ClearStrikes, OfferInv, Flow, FlowOf
  <2>6. QED BY <2>5 DEF After, IsActivated, R!Activated, R!Published
<1>2. QED BY <1>1, OfferInvariance, PTL DEF Spec, StrikesStand, R!StrikesStand
=============================================================================
