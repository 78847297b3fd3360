------------------------------ MODULE Rotation ------------------------------
(***************************************************************************)
(* The certificate offers of an authority, the rotation of their keys and  *)
(* the distrust strikes it may clear: the commands                         *)
(* (net/ipc/handler/ca/offer.rs, net/ipc/handler/rotation.rs), the proofs  *)
(* (pki/rotation), the catalogue (pki/catalog/offer.rs) and the subtables  *)
(* with their files (storage/db/subtables/{offer,rotation}_subtable.rs).   *)
(*                                                                         *)
(* A command goes through several locks and writes several files, one      *)
(* after the other: the process may end between any two, and another       *)
(* command may run in between.                                             *)
(*                                                                         *)
(* A key is the number of the command that made it; 0 is no key.  A proof  *)
(* stands for its own hash, a catalogue for its hash; proofs of possession *)
(* and signatures are taken as sound.  The strikes are those of the node   *)
(* that owns the authority.                                                *)
(***************************************************************************)
EXTENDS Integers, Sequences, FiniteSets

CONSTANTS
  Owner, Peers, Commands,  \* as in Authority
  NoCatalog,   \* an authority without offers
  OfferIds,    \* the numbers offers get
  PublishedBefore, \* the offers there are at the start
  Budgets      \* bound: how many commands, strikes and restarts there are

VARIABLES
  now,          \* the time of day, as in Authority
  ca,           \* ca_store of each node: its status, as in Authority
  declared,     \* the catalogue hash in the owner's own declaration
  caFile,       \* ca_declarations.json of the owner
  busy,         \* what each connection is in the middle of
  commands,     \* how many commands there were
  left,         \* how much there may still be of each kind
  offers,       \* offer_store of the owner
  offersFile,   \* ca_offers.json
  history,      \* rotation_store of each node: its proofs, in order
  historyFile,  \* key_rotations.json of the owner
  strikes,      \* distrust_store
  trouble       \* history: have offer commands overlapped, has the process ended?

files == <<caFile, offersFile, historyFile>>
own == <<declared, offers, history, strikes, files, trouble>>
vars == <<now, ca, busy, commands, left, own>>

Nodes == {Owner} \cup Peers
NoOffer == [key |-> -1]
NoProof == [seq |-> 0]
Idle == [op |-> "idle"]

\* What the composition assumes of the constants.
RotationAssumption ==
  /\ Owner \notin Peers /\ PublishedBefore \subseteq OfferIds /\ OfferIds \subseteq Nat
  /\ Budgets \subseteq [purges : Nat, certs : Nat, offers : Nat, strikes : Nat, restarts : Nat]

\* The steps of the commands that work on offers.
OfferOps == {"offer", "declare", "writeCa", "snapshot", "writeOffers",
             "keys", "proof", "install", "clear", "writeProofs"}

Published == {i \in OfferIds : offers[i] # NoOffer}
Activated == {i \in Published : ~offers[i].draft}
Last(s) == IF s = <<>> THEN NoProof ELSE s[Len(s)]

\* CaOfferCatalog::compute_hash, of every offer, drafts too.
Catalog(version, held) ==
  [version |-> version,
   keys |-> [i \in {j \in OfferIds : held[j] # NoOffer} |-> held[i].key]]

-----------------------------------------------------------------------------
(* Commands, step by step.                                                  *)

\* A connection starts on a command; another one on offers may be under way.
Begins(c) ==
  /\ busy[c] = Idle
  /\ left.offers > 0
  /\ left' = [left EXCEPT !.offers = @ - 1]
  /\ commands' = commands + 1

Overlaps == \E c \in Commands : busy[c].op \in OfferOps
Marks(kinds) == trouble' = trouble \cup kinds
Becomes(c, work) == busy' = [busy EXCEPT ![c] = work]

\* insert_ca: what is published stays so.
Status(old, new) == IF old = "public" THEN "public" ELSE new

\* The copy of the owner's declaration that is to be written, and what is done after it.
Declaration(status, catalog) == [status |-> status, catalog |-> catalog]

\* handle_publish_ca and insert_ca: the catalogue is kept.
PublishCa(c, status) ==
  /\ Begins(c)
  /\ ca' = [ca EXCEPT ![Owner] = Status(@, status)]
  /\ Becomes(c, [op |-> "publishCa", file |-> Declaration(ca'[Owner], declared), then |-> Idle])
  /\ UNCHANGED <<now, declared, offers, history, strikes, files, trouble>>

\* handle_publish_offer: a given number, or the one after the greatest there is.
StartOffer(c, i, draft) ==
  /\ Begins(c)
  /\ ca[Owner] # "unknown"
  /\ i \in Published \/ i = Cardinality(Published)
  /\ Becomes(c, [op |-> "offer", id |-> i, draft |-> draft])
  /\ Marks(IF Overlaps THEN {"overlap"} ELSE {})
  /\ UNCHANGED <<now, ca, declared, offers, history, strikes, files>>

\* CertificateOffer::new: an offer has no key at first.
NewOffer(draft) == [key |-> 0, draft |-> draft]

\* insert_offer replaces the offer with that number.
InsertOffer(c) ==
  /\ busy[c].op = "offer"
  /\ offers' = [offers EXCEPT ![busy[c].id] = NewOffer(busy[c].draft)]
  /\ Becomes(c, [op |-> "declare", catalog |-> Catalog(1, offers')])
  /\ UNCHANGED <<now, ca, declared, commands, left, history, strikes, files, trouble>>

\* The declaration gets the hash in a lock scope of its own.
DeclareCatalog(c) ==
  /\ busy[c].op = "declare"
  /\ declared' = busy[c].catalog
  /\ Becomes(c, [op |-> "writeCa", file |-> Declaration(ca[Owner], declared'),
                 then |-> [op |-> "snapshot", then |-> Idle]])
  /\ UNCHANGED <<now, ca, commands, left, offers, history, strikes, files, trouble>>

\* The declaration is written from a copy, after the lock is released.
WriteCa(c) ==
  /\ busy[c].op \in {"publishCa", "writeCa"}
  /\ caFile' = busy[c].file
  /\ Becomes(c, busy[c].then)
  /\ UNCHANGED <<now, ca, declared, commands, left, offers, history, strikes, offersFile, historyFile, trouble>>

\* persist_offers takes a copy under the lock and writes it after.
SnapshotOffers(c) ==
  /\ busy[c].op = "snapshot"
  /\ Becomes(c, [op |-> "writeOffers", offers |-> offers, then |-> busy[c].then])
  /\ UNCHANGED <<now, ca, commands, left, own>>

WriteOffers(c) ==
  /\ busy[c].op = "writeOffers"
  /\ offersFile' = busy[c].offers
  /\ Becomes(c, busy[c].then)
  /\ UNCHANGED <<now, ca, declared, commands, left, offers, history, strikes, caFile, historyFile, trouble>>

\* handle_publish_key_rotation, of one offer or of all that are no drafts: the clock is
\* read, and each of the offers gets a new key.
StartRotation(c, ids) ==
  /\ Begins(c)
  /\ ca[Owner] = "public"
  /\ ids # {}
  /\ ids = Activated \/ \E i \in Published : ids = {i}
  /\ Becomes(c, [op |-> "keys", keys |-> [i \in ids |-> commands'], time |-> now])
  /\ Marks(IF Overlaps THEN {"overlap"} ELSE {})
  /\ UNCHANGED <<now, ca, declared, offers, history, strikes, files>>

\* KeyRotationProof::new.
NewProof(last, keys, time) ==
  [seq |-> last.seq + 1, prev |-> last, keys |-> keys, time |-> time]

\* Only then is the last proof looked up: another rotation may have come in between.
MakeProof(c) ==
  /\ busy[c].op = "keys"
  /\ Becomes(c, [op |-> "proof",
                 proof |-> NewProof(Last(history[Owner]), busy[c].keys, busy[c].time)])
  /\ UNCHANGED <<now, ca, commands, left, own>>

\* Mutant: the proof need not follow the last one.
FollowsAny(proof, proofs) == proof.seq > Last(proofs).seq \/ proofs = <<>>

\* insert_key_rotation, its checks under the lock of the history.
Follows(proof, proofs) ==
  /\ proof.seq = Last(proofs).seq + 1
  /\ proof.prev = Last(proofs)
  /\ proofs # <<>> => proof.time >= Last(proofs).time

\* The history grows in memory; the copy that is to be written is taken here.
InsertProof(c) ==
  LET proof == busy[c].proof IN
  /\ busy[c].op = "proof"
  /\ Follows(proof, history[Owner])
  /\ history' = [history EXCEPT ![Owner] = Append(@, proof)]
  /\ Becomes(c, [op |-> "install", proof |-> proof, proofs |-> history'[Owner]])
  /\ UNCHANGED <<now, ca, declared, commands, left, offers, strikes, files, trouble>>

\* Another rotation was faster.
RefuseProof(c) ==
  /\ busy[c].op = "proof"
  /\ ~Follows(busy[c].proof, history[Owner])
  /\ Becomes(c, Idle)
  /\ UNCHANGED <<now, ca, commands, left, own>>

\* Mutant: one offer is enough.
CoversSome(keys, active) == DOMAIN keys \cap active # {}

\* can_reset_distrust.
CoversAll(keys, active) == active # {} /\ active \subseteq DOMAIN keys

\* Mutant: the catalogue is hashed before the new keys are in.
InstalledCatalogOld(proof, held) ==
  Catalog(proof.seq + 1, [i \in OfferIds |-> IF held[i] = NoOffer THEN NoOffer
                                             ELSE [held[i] EXCEPT !.key = 0]])
InstalledCatalog(proof, held) == Catalog(proof.seq + 1, held)

\* Mutant: the history is written before the offers.
AfterInstallSwapped(work) == [work EXCEPT !.then = [op |-> "snapshot", then |-> Idle]]

\* Mutant: the offers are not persisted.
AfterInstallForgotten(work) == work

\* The offers are persisted first, then the strikes, then the history.
AfterInstall(work) == [op |-> "snapshot", then |-> work]

\* The offers get their keys, and the declaration, in memory only, the new hash.
InstallKeys(c) ==
  LET proof == busy[c].proof
      rest == [op |-> "writeProofs", proofs |-> busy[c].proofs, then |-> Idle]
  IN
  /\ busy[c].op = "install"
  /\ offers' = [i \in OfferIds |->
                  IF i \in DOMAIN proof.keys \cap Published
                  THEN [offers[i] EXCEPT !.key = proof.keys[i]] ELSE offers[i]]
  /\ declared' = InstalledCatalog(proof, offers')
  /\ Becomes(c, AfterInstall(IF CoversAll(proof.keys, Activated)
                             THEN [rest EXCEPT !.op = "clear"] ELSE rest))
  /\ UNCHANGED <<now, ca, commands, left, history, strikes, files, trouble>>

ClearStrikes(c) ==
  /\ busy[c].op = "clear"
  /\ strikes' = 0
  /\ Becomes(c, [busy[c] EXCEPT !.op = "writeProofs"])
  /\ UNCHANGED <<now, ca, declared, commands, left, offers, history, files, trouble>>

WriteProofs(c) ==
  /\ busy[c].op = "writeProofs"
  /\ historyFile' = busy[c].proofs
  /\ Becomes(c, busy[c].then)
  /\ UNCHANGED <<now, ca, declared, commands, left, offers, history, strikes, caFile, offersFile, trouble>>

\* handle_record_distrust_strike.
Strike ==
  /\ left.strikes > 0
  /\ left' = [left EXCEPT !.strikes = @ - 1]
  /\ strikes' = strikes + 1
  /\ UNCHANGED <<now, ca, declared, busy, commands, offers, history, files, trouble>>

\* The operator of a peer hands it a proof of the owner: the only way proofs travel,
\* for no node sends them.  The peer has no offers, and so no strikes to clear.
ImportProof(n, proof) ==
  /\ ca[n] = "public"
  /\ Follows(proof, history[n])
  /\ history' = [history EXCEPT ![n] = Append(@, proof)]
  /\ UNCHANGED <<now, ca, declared, busy, commands, left, offers, strikes, files, trouble>>

\* The owner's process ends and is started again, together with Authority's Reload:
\* strikes are kept nowhere.
Restart ==
  /\ left.restarts > 0
  /\ left' = [left EXCEPT !.restarts = @ - 1]
  /\ offers' = offersFile /\ strikes' = 0
  /\ history' = [history EXCEPT ![Owner] = historyFile]
  /\ ca' = [ca EXCEPT ![Owner] = caFile.status] /\ declared' = caFile.catalog
  /\ busy' = [c \in Commands |-> Idle]
  /\ Marks({"restart"} \cup IF Overlaps THEN {"cut"} ELSE {})
  /\ UNCHANGED <<commands, files>>

\* What the composition adds to the authority's own initial state.
InitOwn ==
  /\ offers = [i \in OfferIds |-> IF i \in PublishedBefore THEN [key |-> 0, draft |-> FALSE]
                                  ELSE NoOffer]
  /\ offersFile = offers
  /\ declared = IF Published = {} THEN NoCatalog ELSE Catalog(1, offers)
  /\ caFile = [status |-> ca[Owner], catalog |-> declared]
  /\ history = [n \in Nodes |-> <<>>] /\ historyFile = <<>>
  /\ strikes = 0 /\ trouble = {}

Operate(c) ==
  \/ \E status \in {"draft", "public"} : PublishCa(c, status)
  \/ \E i \in OfferIds, draft \in BOOLEAN : StartOffer(c, i, draft)
  \/ InsertOffer(c) \/ DeclareCatalog(c) \/ WriteCa(c)
  \/ SnapshotOffers(c) \/ WriteOffers(c)
  \/ \E ids \in SUBSET OfferIds : StartRotation(c, ids)
  \/ MakeProof(c) \/ InsertProof(c) \/ RefuseProof(c) \/ InstallKeys(c) \/ ClearStrikes(c) \/ WriteProofs(c)

Next ==
  \/ \E c \in Commands : Operate(c)
  \/ Strike
  \/ \E n \in Peers : \E k \in 1..Len(history[Owner]) : ImportProof(n, history[Owner][k])

-----------------------------------------------------------------------------
(* Properties.                                                              *)

Quiet == ~Overlaps

\* Every key of one proof was made after every key of another; of rotations that
\* overlapped, the one that made its keys first may be the second, but its keys are
\* no others'.
Younger(proof, old) ==
  /\ old.time <= proof.time
  /\ \A i \in DOMAIN proof.keys, j \in DOMAIN old.keys :
       old.keys[j] < proof.keys[i] \/ ("overlap" \in trouble /\ old.keys[j] # proof.keys[i])

\* Whatever races and crashes there are, every node's proofs, and those on the disk,
\* are one chain without a gap, none older than those before it, and none has a key that
\* another has: unless rotations overlapped, each has keys younger than all before.
ProofsAreChains ==
  \A proofs \in {history[n] : n \in Nodes} \cup {historyFile} :
    \A k \in 1..Len(proofs) :
      /\ proofs[k].seq = k
      /\ proofs[k].prev = IF k = 1 THEN NoProof ELSE proofs[k - 1]
      /\ \A j \in 1..(k - 1) : Younger(proofs[k], proofs[j])

\* Once the commands are done, one after the other, the declaration has the hash of
\* the offers there are: no command may leave the catalogue it declares behind.
CatalogAgrees ==
  trouble = {} /\ Quiet /\ Published # {} =>
    declared.keys = Catalog(1, offers).keys

\* An offer's key is that of its last rotation, or it was published anew since; and
\* what is on the disk is what is in memory: after a restart, too, unless commands
\* overlapped or were cut short.
KeysAgree ==
  trouble \subseteq {"restart"} /\ Quiet =>
    /\ offersFile = offers /\ historyFile = history[Owner]
    /\ \A i \in Published :
         LET rotated == {k \in 1..Len(historyFile) : i \in DOMAIN historyFile[k].keys} IN
         offers[i].key # 0 =>
           \E k \in rotated : offers[i].key = historyFile[k].keys[i]
                              /\ \A j \in rotated : j <= k

\* Wherever the process ends, a rotation that is on the disk has its keys, or later
\* ones, on the disk: a proof is never ahead of what it proves.
ProofNeverAhead ==
  "overlap" \notin trouble /\ historyFile # <<>> =>
    \A i \in DOMAIN Last(historyFile).keys :
      offersFile[i].key = 0 \/ offersFile[i].key >= Last(historyFile).keys[i]

ClearedRightly ==
  strikes' < strikes /\ left'.restarts = left.restarts /\ "overlap" \notin trouble =>
    \A i \in Activated :
      /\ i \in DOMAIN Last(history[Owner]).keys
      /\ offers[i].key = Last(history[Owner]).keys[i]

\* The "Distrust Reset": strikes are cleared by a rotation after which every offer
\* that is no draft has a key of that rotation, and by a restart.
StrikesStand == [][ClearedRightly]_vars
=============================================================================
