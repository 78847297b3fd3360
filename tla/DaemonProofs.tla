---------------------------- MODULE DaemonProofs ----------------------------
(***************************************************************************)
(* Proofs about two of the parts of a node, as parts of Daemon: the proof  *)
(* engine for domains (P, DomainProof) and the swarm of custodians (S,     *)
(* CustodianSwarm).                                                        *)
(***************************************************************************)
EXTENDS Daemon, FiniteSetTheorems, TLAPS

-----------------------------------------------------------------------------
(* The proof engine.                                                        *)

LEMMA ProofCardinality == \A s : P!Cardinality(s) = Cardinality(s)
  BY DEF P!Cardinality, Cardinality

Places == P!Roots \cup P!Channels
Pages == [status : {"ok", "down", "error"}, answers : SUBSET Nat]
Sites == [roots : SUBSET P!Roots, served : [P!Channels -> Pages]]
Steps == {"upstream", "hns", "txt", "hnsTxt", "address", "hnsHttp", "alpn", "sam", "http",
          "proved", "failed"}
Checks == [of : Nat, step : Steps, via : P!Channels \cup {"none"},
           always : SUBSET Places, ever : SUBSET Places]
Efforts == [name : P!Names, support : SUBSET {"tor", "i2p", "hns"},
            challenges : Int, edits : Int, checks : Int, changes : Int, ticks : Int]

ProofTypeOK ==
  /\ time \in Int /\ IsFiniteSet(issued) /\ issued \subseteq [id : Nat, until : Int]
  /\ site \in Sites
  /\ check = P!Idle \/ check \in Checks
  /\ effort \in Efforts

\* Nothing answers on a channel that the domain's name does not have.
OnlyOffered == \A c \in P!Channels \ P!Offered : site.served[c].answers = {}

\* The history of a check that goes on: what was there all the time still is, and what is
\* there now was there at some time.
Tracked ==
  ~P!Done(check.step) =>
    /\ check.always \subseteq P!Good(site, check.of)
    /\ P!Some(site, check.of) \subseteq check.ever

\* What a check has seen when it has come to a step.
PathSeen ==
  /\ check.step \in {"upstream", "txt"} => effort.name = "plain"
  /\ check.step = "txt" => "upstream" \in check.ever
  /\ check.step \in {"hns", "hnsTxt", "address", "hnsHttp"} =>
       effort.name = "plain" /\ "upstream" \notin check.always
  /\ check.step \in {"hnsTxt", "address", "hnsHttp"} => "hns" \in check.ever
  /\ check.step = "alpn" => effort.name = "onion"
  /\ check.step = "sam" => effort.name = "i2p"
  /\ check.step = "http" =>
       IF effort.name = "plain"
       THEN "upstream" \in check.ever \/ ~({"hns", "hnsHttp"} \subseteq check.always)
       ELSE check.always \cap {"alpn", "sam"} = {}

ProofInv ==
  /\ ProofTypeOK /\ OnlyOffered /\ Tracked /\ PathSeen
  /\ P!ProvedWasServed /\ P!SteadyAnswerFound

LEMMA ProofInit == P!Init => ProofInv
<1> SUFFICES ASSUME P!Init PROVE ProofInv
  OBVIOUS
<1>1. /\ time = 0 /\ issued = {} /\ check = P!Idle /\ effort \in ProofBudgets
      /\ site = [roots |-> {"upstream"}, served |-> [c \in P!Channels |-> P!Page("ok", {})]]
  BY DEF P!Init
<1>2. effort \in Efforts
  BY <1>1, DaemonAssumption DEF P!ProofAssumption, Efforts
<1>3. site \in Sites /\ \A c \in P!Channels : site.served[c].answers = {}
  BY <1>1 DEF Sites, Pages, P!Page, P!Roots
<1>4. IsFiniteSet(issued)
  BY <1>1, FS_EmptySet
<1>5. check.step = "idle"
  BY <1>1 DEF P!Idle
<1>6. ProofTypeOK
  BY <1>1, <1>2, <1>3, <1>4 DEF ProofTypeOK
<1>7. QED
  BY <1>3, <1>5, <1>6
     DEF ProofInv, OnlyOffered, Tracked, PathSeen, P!ProvedWasServed, P!SteadyAnswerFound, P!Done

\* What a channel answers with now is among what there was at some time.
LEMMA AnswerSeen ==
  ASSUME ProofInv, ~P!Done(check.step), NEW c \in P!Channels, P!Answers(c, check.of)
  PROVE  c \in check.ever
<1>1. site \in Sites
  BY DEF ProofInv, ProofTypeOK
<1>2. site.served[c].status \in {"ok", "error"} /\ check.of \in site.served[c].answers
  BY <1>1 DEF P!Answers, Sites, Pages
<1>3. c \in P!Some(site, check.of)
  BY <1>2 DEF P!Some, P!Has
<1>4. QED BY <1>3 DEF ProofInv, Tracked

\* A root that was there all the time is there now, and one that is there now was there.
LEMMA RootsSeen ==
  ASSUME ProofInv, ~P!Done(check.step), NEW r \in P!Roots
  PROVE  /\ r \in check.always => r \in site.roots
         /\ r \in site.roots => r \in check.ever
<1>1. r \notin P!Channels
  BY DEF P!Roots, P!Channels, P!TxtChannels
<1>2. r \in P!Good(site, check.of) => r \in site.roots
  BY <1>1 DEF P!Good, P!Has
<1>3. r \in site.roots => r \in P!Some(site, check.of)
  BY DEF P!Some, P!Has
<1>4. QED BY <1>2, <1>3 DEF ProofInv, Tracked

\* A channel of which nothing good came is not one where there was an answer all the time.
LEMMA MissSeen ==
  ASSUME ProofInv, ~P!Done(check.step), NEW c \in P!Channels, c \in check.always
  PROVE  /\ check.of \in site.served[c].answers /\ site.served[c].status = "ok"
         /\ c \notin P!TxtChannels => P!Answers(c, check.of)
<1>1. site \in Sites
  BY DEF ProofInv, ProofTypeOK
<1>2. c \in P!Good(site, check.of)
  BY DEF ProofInv, Tracked
<1>3. c \notin site.roots
  BY <1>1 DEF Sites, P!Roots, P!Channels, P!TxtChannels
<1>4. check.of \in site.served[c].answers /\ site.served[c].status = "ok"
  BY <1>2, <1>3 DEF P!Good, P!Has
<1>5. QED BY <1>4 DEF P!Answers, P!Whole

\* A step of a check leaves all but the step and the channel as it is.
Advances(step, via) ==
  /\ check \in Checks /\ ~P!Done(check.step)
  /\ check' = [check EXCEPT !.step = step, !.via = via]
  /\ UNCHANGED <<time, issued, site, effort>>

LEMMA AdvanceKeeps ==
  ASSUME ProofInv, NEW step \in Steps, NEW via \in P!Channels \cup {"none"},
         Advances(step, via), PathSeen', P!ProvedWasServed', P!SteadyAnswerFound'
  PROVE  ProofInv'
<1>1. check \in Checks /\ check' \in Checks
  BY DEF Advances, Checks
<1>2. check'.of = check.of /\ check'.always = check.always /\ check'.ever = check.ever
  BY <1>1 DEF Advances, Checks
<1>3. ProofTypeOK'
  BY <1>1 DEF ProofInv, ProofTypeOK, Advances
<1>4. OnlyOffered'
  BY DEF ProofInv, OnlyOffered, Advances, P!Offered
<1>5. Tracked'
  <2>1. P!Good(site, check.of)' = P!Good(site, check.of)
        /\ P!Some(site, check.of)' = P!Some(site, check.of)
    BY <1>2 DEF Advances, P!Good, P!Some, P!Has
  <2>2. QED BY <2>1, <1>2 DEF ProofInv, Tracked, Advances
<1>6. QED BY <1>3, <1>4, <1>5 DEF ProofInv

LEMMA AdvanceFields ==
  ASSUME NEW step \in Steps, NEW via \in P!Channels \cup {"none"}, Advances(step, via)
  PROVE  /\ check'.step = step /\ check'.via = via
         /\ check'.always = check.always /\ check'.ever = check.ever
         /\ effort' = effort /\ site' = site
BY DEF Advances, Checks

LEMMA GoesAdvances ==
  ASSUME ProofInv, NEW from \in Steps \ {"proved", "failed"}, NEW to \in Steps,
         P!Goes(from, to)
  PROVE  Advances(to, check.via) /\ check.via \in P!Channels \cup {"none"} /\ check.step = from
<1>1. check.step = from /\ from # "idle"
  BY DEF P!Goes, Steps
<1>2. check \in Checks
  BY <1>1 DEF ProofInv, ProofTypeOK, P!Idle
<1>3. check' = [check EXCEPT !.step = to, !.via = check.via]
  BY <1>2 DEF P!Goes, Checks
<1>4. ~P!Done(check.step)
  BY <1>1 DEF P!Done
<1>5. QED BY <1>1, <1>2, <1>3, <1>4 DEF Advances, P!Goes, Checks

LEMMA GoesFields ==
  ASSUME ProofInv, NEW from \in Steps \ {"proved", "failed"}, NEW to \in Steps,
         P!Goes(from, to)
  PROVE  /\ check.step = from /\ check'.step = to /\ ~P!Done(check.step)
         /\ check'.always = check.always /\ check'.ever = check.ever /\ effort' = effort
<1>1. Advances(to, check.via) /\ check.via \in P!Channels \cup {"none"} /\ check.step = from
  BY GoesAdvances
<1>2. QED BY <1>1, AdvanceFields DEF Advances

LEMMA GoesKeeps ==
  ASSUME ProofInv, NEW from \in Steps \ {"proved", "failed"}, NEW to \in Steps \ {"proved"},
         P!Goes(from, to), PathSeen', P!SteadyAnswerFound'
  PROVE  ProofInv'
<1>1. Advances(to, check.via) /\ check.via \in P!Channels \cup {"none"}
  BY GoesAdvances
<1>2. check'.step = to
  BY <1>1, AdvanceFields
<1>3. P!ProvedWasServed'
  BY <1>2 DEF P!ProvedWasServed
<1>4. QED BY <1>1, <1>3, AdvanceKeeps

\* A channel that proves: it served the answer, and Handshake's only when the name had no
\* root upstream for a time.
LEMMA ProvesStep ==
  ASSUME ProofInv, NEW c \in P!Channels, P!Proves(c)
  PROVE  ProofInv'
<1>1. check.step = c /\ c \notin {"idle", "proved", "failed"} /\ P!Answers(c, check.of)
  BY DEF P!Proves, P!Channels, P!TxtChannels
<1>2. check \in Checks /\ ~P!Done(check.step)
  BY <1>1 DEF ProofInv, ProofTypeOK, P!Idle, P!Done
<1>3. Advances("proved", c) /\ "proved" \in Steps
  BY <1>2 DEF Advances, P!Proves, Steps
<1>4. c \in check.ever
  BY <1>1, <1>2, AnswerSeen
<1>5. /\ check'.step = "proved" /\ check'.via = c
      /\ check'.always = check.always /\ check'.ever = check.ever
  BY <1>3, AdvanceFields
<1>6. P!ProvedWasServed'
  BY <1>1, <1>4, <1>5 DEF P!ProvedWasServed, ProofInv, PathSeen
<1>7. PathSeen' /\ P!SteadyAnswerFound'
  BY <1>5 DEF PathSeen, P!SteadyAnswerFound
<1>8. QED BY <1>3, <1>6, <1>7, AdvanceKeeps

\* Asking the roots.
LEMMA AskStep ==
  ASSUME ProofInv, P!AskUpstream \/ P!AskHandshake \/ P!AskAddress
  PROVE  ProofInv'
<1>1. "upstream" \in P!Roots /\ "hns" \in P!Roots
  BY DEF P!Roots
<1>2. CASE P!AskUpstream
  <2>1. CASE "upstream" \in site.roots /\ P!Goes("upstream", "txt")
    <3>1. /\ check.step = "upstream" /\ check'.step = "txt" /\ ~P!Done(check.step)
          /\ check'.always = check.always /\ check'.ever = check.ever /\ effort' = effort
      BY <2>1, GoesFields DEF Steps
    <3>2. "upstream" \in check.ever
      BY <1>1, <2>1, <3>1, RootsSeen
    <3>3. PathSeen' /\ P!SteadyAnswerFound'
      BY <3>1, <3>2 DEF ProofInv, PathSeen, P!SteadyAnswerFound
    <3>4. QED BY <2>1, <3>3, GoesKeeps DEF Steps
  <2>2. CASE /\ "upstream" \notin site.roots /\ "hns" \in effort.support
             /\ P!Goes("upstream", "hns")
    <3>1. /\ check.step = "upstream" /\ check'.step = "hns" /\ ~P!Done(check.step)
          /\ check'.always = check.always /\ check'.ever = check.ever /\ effort' = effort
      BY <2>2, GoesFields DEF Steps
    <3>2. "upstream" \notin check.always
      BY <1>1, <2>2, <3>1, RootsSeen
    <3>3. PathSeen' /\ P!SteadyAnswerFound'
      BY <3>1, <3>2 DEF ProofInv, PathSeen, P!SteadyAnswerFound
    <3>4. QED BY <2>2, <3>3, GoesKeeps DEF Steps
  <2>3. CASE /\ "upstream" \notin site.roots /\ "hns" \notin effort.support
             /\ P!Goes("upstream", "failed")
    <3>1. /\ check.step = "upstream" /\ check'.step = "failed" /\ ~P!Done(check.step)
          /\ check'.always = check.always /\ check'.ever = check.ever /\ effort' = effort
      BY <2>3, GoesFields DEF Steps
    <3>2. "upstream" \notin check.always /\ effort.name = "plain"
      BY <1>1, <2>3, <3>1, RootsSeen DEF ProofInv, PathSeen
    <3>3. PathSeen' /\ P!SteadyAnswerFound'
      BY <2>3, <3>1, <3>2 DEF PathSeen, P!SteadyAnswerFound, P!Reachable
    <3>4. QED BY <2>3, <3>3, GoesKeeps DEF Steps
  <2>4. QED BY <1>2, <2>1, <2>2, <2>3 DEF P!AskUpstream
<1>3. CASE P!AskHandshake
  <2>1. CASE "hns" \in site.roots /\ P!Goes("hns", "hnsTxt")
    <3>1. /\ check.step = "hns" /\ check'.step = "hnsTxt" /\ ~P!Done(check.step)
          /\ check'.always = check.always /\ check'.ever = check.ever /\ effort' = effort
      BY <2>1, GoesFields DEF Steps
    <3>2. "hns" \in check.ever
      BY <1>1, <2>1, <3>1, RootsSeen
    <3>3. PathSeen' /\ P!SteadyAnswerFound'
      BY <3>1, <3>2 DEF ProofInv, PathSeen, P!SteadyAnswerFound
    <3>4. QED BY <2>1, <3>3, GoesKeeps DEF Steps
  <2>2. CASE "hns" \notin site.roots /\ P!Goes("hns", "failed")
    <3>1. /\ check.step = "hns" /\ check'.step = "failed" /\ ~P!Done(check.step)
          /\ check'.always = check.always /\ check'.ever = check.ever /\ effort' = effort
      BY <2>2, GoesFields DEF Steps
    <3>2. /\ "hns" \notin check.always /\ "upstream" \notin check.always
          /\ effort.name = "plain"
      BY <1>1, <2>2, <3>1, RootsSeen DEF ProofInv, PathSeen
    <3>3. PathSeen' /\ P!SteadyAnswerFound'
      BY <3>1, <3>2 DEF PathSeen, P!SteadyAnswerFound, P!Reachable
    <3>4. QED BY <2>2, <3>3, GoesKeeps DEF Steps
  <2>3. QED BY <1>3, <2>1, <2>2 DEF P!AskHandshake
<1>4. CASE P!AskAddress
  <2>1. CASE "hns" \in site.roots /\ P!Goes("address", "hnsHttp")
    <3>1. /\ check.step = "address" /\ check'.step = "hnsHttp"
          /\ check'.always = check.always /\ check'.ever = check.ever /\ effort' = effort
      BY <2>1, GoesFields DEF Steps
    <3>2. PathSeen' /\ P!SteadyAnswerFound'
      BY <3>1 DEF ProofInv, PathSeen, P!SteadyAnswerFound
    <3>3. QED BY <2>1, <3>2, GoesKeeps DEF Steps
  <2>2. CASE "hns" \notin site.roots /\ P!Goes("address", "http")
    <3>1. /\ check.step = "address" /\ check'.step = "http" /\ ~P!Done(check.step)
          /\ check'.always = check.always /\ check'.ever = check.ever /\ effort' = effort
      BY <2>2, GoesFields DEF Steps
    <3>2. "hns" \notin check.always /\ effort.name = "plain"
      BY <1>1, <2>2, <3>1, RootsSeen DEF ProofInv, PathSeen
    <3>3. PathSeen' /\ P!SteadyAnswerFound'
      BY <3>1, <3>2 DEF PathSeen, P!SteadyAnswerFound
    <3>4. QED BY <2>2, <3>3, GoesKeeps DEF Steps
  <2>3. QED BY <1>4, <2>1, <2>2 DEF P!AskAddress
<1>5. QED BY <1>2, <1>3, <1>4

\* The first channel of the network.
LEMMA TryFirstStep ==
  ASSUME ProofInv, NEW c \in P!Channels, P!TryFirst(c)
  PROVE  ProofInv'
<1>1. CASE P!Proves(c)
  BY <1>1, ProvesStep
<1>2. CASE ~P!Answers(c, check.of) /\ P!Goes(c, P!After(c))
  <2>1. /\ c \in {"alpn", "sam", "txt", "hnsTxt"} /\ c \in Steps \ {"proved", "failed"}
        /\ P!After(c) = (IF c = "hnsTxt" THEN "address" ELSE "http")
        /\ P!After(c) \in Steps \ {"proved"}
    BY DEF P!TryFirst, P!TxtChannels, P!After, Steps
  <2>2. /\ check.step = c /\ check'.step = P!After(c) /\ ~P!Done(check.step)
        /\ check'.always = check.always /\ check'.ever = check.ever /\ effort' = effort
    BY <1>2, <2>1, GoesFields
  <2>3. P!SteadyAnswerFound'
    BY <2>1, <2>2 DEF P!SteadyAnswerFound
  <2>4. c \in {"alpn", "sam"} => check.always \cap {"alpn", "sam"} = {}
    <3>1. SUFFICES ASSUME c \in {"alpn", "sam"}, NEW d \in {"alpn", "sam"}, d \in check.always
                   PROVE  FALSE
      OBVIOUS
    <3>2. d \in P!Channels /\ d \notin P!TxtChannels
      BY DEF P!Channels, P!TxtChannels
    <3>3. check.of \in site.served[d].answers /\ P!Answers(d, check.of)
      BY <2>2, <3>1, <3>2, MissSeen
    <3>4. d # c
      BY <1>2, <3>3
    <3>5. d \in P!Offered
      BY <3>2, <3>3 DEF ProofInv, OnlyOffered
    <3>6. (c = "alpn" => effort.name = "onion") /\ (c = "sam" => effort.name = "i2p")
      BY <2>2 DEF ProofInv, PathSeen
    <3>7. QED BY <3>1, <3>4, <3>5, <3>6 DEF P!Offered
  <2>5. PathSeen'
    BY <2>1, <2>2, <2>4 DEF ProofInv, PathSeen
  <2>6. QED BY <1>2, <2>1, <2>3, <2>5, GoesKeeps
<1>3. QED BY <1>1, <1>2 DEF P!TryFirst

\* The page at the address that Handshake's root tells.
LEMMA FetchByAddressStep ==
  ASSUME ProofInv, P!FetchByAddress
  PROVE  ProofInv'
<1>1. "hnsHttp" \in P!Channels /\ "hnsHttp" \notin P!TxtChannels
  BY DEF P!Channels, P!TxtChannels
<1>2. CASE P!Proves("hnsHttp")
  BY <1>1, <1>2, ProvesStep
<1>3. ASSUME NEW to \in {"http", "failed"}, P!Goes("hnsHttp", to),
             site.served["hnsHttp"].status = "error" \/ ~P!Answers("hnsHttp", check.of)
      PROVE  ProofInv'
  <2>1. /\ check.step = "hnsHttp" /\ check'.step = to /\ ~P!Done(check.step)
        /\ check'.always = check.always /\ check'.ever = check.ever /\ effort' = effort
    BY <1>3, GoesFields DEF Steps
  <2>2. "hnsHttp" \notin check.always
    BY <1>1, <1>3, <2>1, MissSeen
  <2>3. effort.name = "plain" /\ "upstream" \notin check.always
    BY <2>1 DEF ProofInv, PathSeen
  <2>4. PathSeen' /\ P!SteadyAnswerFound'
    BY <2>1, <2>2, <2>3 DEF PathSeen, P!SteadyAnswerFound, P!Reachable
  <2>5. QED BY <1>3, <2>4, GoesKeeps DEF Steps
<1>4. QED BY <1>2, <1>3 DEF P!FetchByAddress

\* The page by name is the last chance.
LEMMA FetchPageStep ==
  ASSUME ProofInv, P!FetchPage
  PROVE  ProofInv'
<1>1. "http" \in P!Channels /\ "http" \notin P!TxtChannels
  BY DEF P!Channels, P!TxtChannels
<1>2. CASE P!Proves("http")
  BY <1>1, <1>2, ProvesStep
<1>3. CASE /\ ~(site.served["http"].status = "ok" /\ P!Answers("http", check.of))
           /\ P!Goes("http", "failed")
  <2>1. /\ check.step = "http" /\ check'.step = "failed" /\ ~P!Done(check.step)
        /\ check'.always = check.always /\ check'.ever = check.ever /\ effort' = effort
    BY <1>3, GoesFields DEF Steps
  <2>2. "http" \notin check.always
    BY <1>1, <1>3, <2>1, MissSeen
  <2>3. ~P!Reachable
    BY <2>1, <2>2 DEF ProofInv, PathSeen, P!Reachable
  <2>4. P!Reachable' = P!Reachable
    BY <2>1 DEF P!Reachable, P!Entrance
  <2>5. PathSeen' /\ P!SteadyAnswerFound'
    BY <2>1, <2>3, <2>4 DEF PathSeen, P!SteadyAnswerFound
  <2>6. QED BY <1>3, <2>5, GoesKeeps DEF Steps
<1>4. QED BY <1>2, <1>3 DEF P!FetchPage

\* Paying leaves the name of the domain and the backends alone.
LEMMA PayKeeps ==
  ASSUME effort \in Efforts, NEW kind \in {"challenges", "edits", "checks", "changes", "ticks"},
         P!Pay(kind)
  PROVE  effort' \in Efforts /\ effort'.name = effort.name /\ effort'.support = effort.support
BY DEF P!Pay, Efforts

\* A check begins.
LEMMA BeginCheckStep ==
  ASSUME ProofInv, NEW c \in issued, P!BeginCheck(c)
  PROVE  ProofInv'
<1>1. /\ effort' \in Efforts /\ effort'.name = effort.name /\ effort'.support = effort.support
      /\ effort.name \in P!Names
  BY PayKeeps DEF ProofInv, ProofTypeOK, P!BeginCheck, Efforts
<1>2. /\ check' = [of |-> c.id, step |-> P!Entrance, via |-> "none",
                   always |-> P!Good(site, c.id), ever |-> P!Some(site, c.id)]
      /\ UNCHANGED <<time, issued, site>>
  BY DEF P!BeginCheck
<1>3. c.id \in Nat /\ site \in Sites
  BY DEF ProofInv, ProofTypeOK
<1>4. P!Entrance \in {"upstream", "alpn", "sam", "failed"}
      /\ (P!Entrance = "upstream" <=> effort.name = "plain")
      /\ (P!Entrance = "alpn" => effort.name = "onion")
      /\ (P!Entrance = "sam" => effort.name = "i2p")
  BY <1>1 DEF P!Entrance, P!Names
<1>5. P!Good(site, c.id) \in SUBSET Places /\ P!Some(site, c.id) \in SUBSET Places
  BY <1>3 DEF P!Good, P!Some, P!Has, Sites, Places
<1>6. check' \in Checks
  BY <1>2, <1>3, <1>4, <1>5 DEF Checks, Steps
<1>7. ProofTypeOK'
  BY <1>1, <1>2, <1>6 DEF ProofInv, ProofTypeOK
<1>8. OnlyOffered'
  BY <1>1, <1>2 DEF ProofInv, OnlyOffered, P!Offered
<1>9. Tracked'
  <2>1. /\ P!Good(site, check.of)' = P!Good(site, c.id)
        /\ P!Some(site, check.of)' = P!Some(site, c.id)
    BY <1>2 DEF P!Good, P!Some, P!Has
  <2>2. QED BY <1>2, <2>1 DEF Tracked
<1>10. PathSeen'
  BY <1>1, <1>2, <1>4 DEF PathSeen
<1>11. P!ProvedWasServed'
  BY <1>2, <1>4 DEF P!ProvedWasServed
<1>12. P!SteadyAnswerFound'
  <2>1. P!Entrance' = P!Entrance
    BY <1>1 DEF P!Entrance
  <2>2. QED BY <1>1, <1>2, <1>4, <2>1 DEF P!SteadyAnswerFound, P!Reachable
<1>13. QED BY <1>7, <1>8, <1>9, <1>10, <1>11, <1>12 DEF ProofInv

\* The domain changes, during a check or not.
LEMMA ChangesKeeps ==
  ASSUME ProofInv, NEW s \in Sites, P!Changes(s),
         \A c \in P!Channels \ P!Offered : s.served[c].answers = {}
  PROVE  ProofInv'
<1>1. /\ effort' \in Efforts /\ effort'.name = effort.name /\ effort'.support = effort.support
  BY PayKeeps DEF ProofInv, ProofTypeOK, P!Changes
<1>2. site' = s /\ UNCHANGED <<time, issued>>
  BY DEF P!Changes
<1>3. P!Offered' = P!Offered /\ P!Entrance' = P!Entrance
  BY <1>1 DEF P!Offered, P!Entrance
<1>4. OnlyOffered'
  BY <1>2, <1>3 DEF OnlyOffered
<1>5. CASE P!Done(check.step)
  <2>1. check' = check
    BY <1>5 DEF P!Changes
  <2>2. P!Reachable' <=> P!Reachable
    BY <1>1, <1>3, <2>1 DEF P!Reachable
  <2>3. ProofTypeOK' /\ Tracked'
    BY <1>1, <1>2, <1>5, <2>1 DEF ProofInv, ProofTypeOK, Tracked
  <2>4. PathSeen' /\ P!ProvedWasServed' /\ P!SteadyAnswerFound'
    BY <1>1, <2>1, <2>2 DEF ProofInv, PathSeen, P!ProvedWasServed, P!SteadyAnswerFound
  <2>5. QED BY <1>4, <2>3, <2>4 DEF ProofInv
<1>6. CASE ~P!Done(check.step)
  <2>1. check \in Checks
    BY <1>6 DEF ProofInv, ProofTypeOK, P!Idle, P!Done
  <2>2. P!Good(s, check.of) \subseteq Places /\ P!Some(s, check.of) \subseteq Places
    BY DEF P!Good, P!Some, P!Has, Sites, Places
  <2>3. /\ check' \in Checks /\ check'.of = check.of /\ check'.step = check.step
        /\ check'.always = check.always \cap P!Good(s, check.of)
        /\ check'.ever = check.ever \cup P!Some(s, check.of)
    BY <1>6, <2>1, <2>2 DEF P!Changes, Checks
  <2>4. ProofTypeOK'
    BY <1>1, <1>2, <2>3 DEF ProofInv, ProofTypeOK
  <2>5. Tracked'
    <3>1. /\ P!Good(site, check.of)' = P!Good(s, check.of)
          /\ P!Some(site, check.of)' = P!Some(s, check.of)
      BY <1>2, <2>3 DEF P!Good, P!Some, P!Has
    <3>2. QED BY <2>3, <3>1 DEF Tracked
  <2>6. PathSeen'
    BY <1>1, <2>3 DEF ProofInv, PathSeen
  <2>7. P!ProvedWasServed' /\ P!SteadyAnswerFound'
    BY <1>6, <2>3 DEF P!ProvedWasServed, P!SteadyAnswerFound, P!Done
  <2>8. QED BY <1>4, <2>4, <2>5, <2>6, <2>7 DEF ProofInv
<1>7. QED BY <1>5, <1>6

LEMMA ChangeStep ==
  ASSUME ProofInv, P!Change
  PROVE  ProofInv'
<1>1. site \in Sites /\ issued \subseteq [id : Nat, until : Int]
  BY DEF ProofInv, ProofTypeOK
<1>2. P!Offered \subseteq P!Channels
  BY DEF P!Offered, P!Channels, ProofInv, ProofTypeOK, Efforts, P!Names
<1>3. ASSUME NEW c \in P!Offered, P!Publish(c) \/ P!Disturb(c)
      PROVE  ProofInv'
  <2>1. PICK status \in {"ok", "down", "error"}, answers \in SUBSET Nat :
          \/ P!Changes([site EXCEPT !.served[c] = P!Page(status, answers)])
          \/ P!Changes([site EXCEPT !.served[c].status = status])
    <3>1. CASE P!Publish(c)
      <4>1. PICK i \in issued :
              \E old \in {{}, site.served[c].answers} :
                P!Changes([site EXCEPT !.served[c] = P!Page("ok", old \cup {i.id})])
        BY <3>1 DEF P!Publish
      <4>2. i.id \in Nat /\ site.served[c].answers \in SUBSET Nat
        BY <1>1, <1>2 DEF Sites, Pages
      <4>3. QED BY <4>1, <4>2
    <3>2. CASE P!Disturb(c)
      BY <3>2 DEF P!Disturb
    <3>3. QED BY <1>3, <3>1, <3>2
  <2>2. PICK s \in Sites : /\ P!Changes(s)
                           /\ \A d \in P!Channels \ {c} : s.served[d] = site.served[d]
    <3>1. CASE P!Changes([site EXCEPT !.served[c] = P!Page(status, answers)])
      <4>1. [site EXCEPT !.served[c] = P!Page(status, answers)] \in Sites
        BY <1>1, <1>2 DEF Sites, Pages, P!Page
      <4>2. QED BY <1>1, <1>2, <3>1, <4>1 DEF Sites
    <3>2. CASE P!Changes([site EXCEPT !.served[c].status = status])
      <4>1. [site EXCEPT !.served[c].status = status] \in Sites
        BY <1>1, <1>2 DEF Sites, Pages
      <4>2. QED BY <1>1, <1>2, <3>2, <4>1 DEF Sites
    <3>3. QED BY <2>1, <3>1, <3>2
  <2>3. \A d \in P!Channels \ P!Offered : s.served[d].answers = {}
    BY <2>2, <1>3 DEF ProofInv, OnlyOffered
  <2>4. QED BY <2>2, <2>3, ChangesKeeps
<1>4. CASE P!Resolve
  <2>1. PICK roots \in SUBSET P!Roots : P!Changes([site EXCEPT !.roots = roots])
    BY <1>4 DEF P!Resolve
  <2>2. [site EXCEPT !.roots = roots] \in Sites
    BY <1>1 DEF Sites
  <2>3. \A d \in P!Channels \ P!Offered : [site EXCEPT !.roots = roots].served[d].answers = {}
    BY <1>1 DEF Sites, ProofInv, OnlyOffered
  <2>4. QED BY <2>1, <2>2, <2>3, ChangesKeeps
<1>5. QED BY <1>3, <1>4 DEF P!Change

\* A client writes a challenge itself.
Composes ==
  \E id \in 1..P!Cardinality(issued) + 1, until \in Ends : P!Compose(id, until)

\* A new challenge, or time that passes.
LEMMA ChallengeStep ==
  ASSUME ProofInv, P!Challenge \/ P!Tick \/ Composes
  PROVE  ProofInv'
<1>1. /\ effort' \in Efforts /\ effort'.name = effort.name /\ effort'.support = effort.support
      /\ site' = site /\ check' = check
  BY PayKeeps DEF ProofInv, ProofTypeOK, P!Challenge, P!Tick, P!Compose, Composes
<1>2. /\ time' \in Int /\ IsFiniteSet(issued') /\ issued' \subseteq [id : Nat, until : Int]
  <2>1. time \in Int /\ IsFiniteSet(issued) /\ issued \subseteq [id : Nat, until : Int]
    BY DEF ProofInv, ProofTypeOK
  <2>2. CASE P!Tick
    BY <2>1, <2>2 DEF P!Tick
  <2>3. CASE P!Challenge
    <3> DEFINE c == [id |-> Cardinality(issued) + 1, until |-> time + Lifetime]
    <3>1. issued' = issued \cup {c}
      BY <2>3, ProofCardinality DEF P!Challenge
    <3>2. IsFiniteSet(issued') /\ Cardinality(issued) \in Nat
      BY <2>1, <3>1, FS_AddElement, FS_CardinalityType
    <3>3. Lifetime \in Nat
      BY DaemonAssumption DEF P!ProofAssumption
    <3>4. c \in [id : Nat, until : Int]
      BY <2>1, <3>1, <3>2, <3>3
    <3>5. time' = time
      BY <2>3 DEF P!Challenge
    <3>6. QED BY <2>1, <3>1, <3>2, <3>4, <3>5
  <2>4. ASSUME NEW id \in 1..P!Cardinality(issued) + 1, NEW until \in Ends,
               P!Compose(id, until)
        PROVE  time' \in Int /\ IsFiniteSet(issued') /\ issued' \subseteq [id : Nat, until : Int]
    <3> DEFINE c == [id |-> id, until |-> until]
    <3>1. issued' = issued \cup {c} /\ time' = time
      BY <2>4 DEF P!Compose
    <3>2. IsFiniteSet(issued') /\ Cardinality(issued) \in Nat
      BY <2>1, <3>1, FS_AddElement, FS_CardinalityType
    <3>3. id \in Nat /\ until \in Int
      BY <2>4, <3>2, ProofCardinality, DaemonAssumption DEF P!ProofAssumption
    <3>4. QED BY <2>1, <3>1, <3>2, <3>3
  <2>5. QED BY <2>2, <2>3, <2>4 DEF Composes
<1>3. ProofTypeOK'
  BY <1>1, <1>2 DEF ProofInv, ProofTypeOK
<1>4. OnlyOffered' /\ Tracked'
  BY <1>1 DEF ProofInv, OnlyOffered, Tracked, P!Offered, P!Good, P!Some, P!Has
<1>5. PathSeen' /\ P!ProvedWasServed'
  BY <1>1 DEF ProofInv, PathSeen, P!ProvedWasServed
<1>6. P!SteadyAnswerFound'
  BY <1>1 DEF ProofInv, P!SteadyAnswerFound, P!Reachable, P!Entrance
<1>7. QED BY <1>3, <1>4, <1>5, <1>6 DEF ProofInv

\* The process ends: there is no check any more.
LEMMA ProofRestartStep ==
  ASSUME ProofInv, P!Restart
  PROVE  ProofInv'
<1>1. check' = P!Idle /\ check'.step = "idle" /\ UNCHANGED <<time, issued, site, effort>>
  BY DEF P!Restart, P!Idle
<1>2. ProofTypeOK' /\ OnlyOffered'
  BY <1>1 DEF ProofInv, ProofTypeOK, OnlyOffered, P!Offered
<1>3. Tracked' /\ PathSeen' /\ P!ProvedWasServed' /\ P!SteadyAnswerFound'
  BY <1>1 DEF Tracked, PathSeen, P!ProvedWasServed, P!SteadyAnswerFound, P!Done
<1>4. QED BY <1>2, <1>3 DEF ProofInv

\* The other parts of the node leave the proof engine alone.
LEMMA ProofStutter ==
  ASSUME ProofInv, UNCHANGED proofVars
  PROVE  ProofInv'
BY DEF proofVars, ProofInv, ProofTypeOK, OnlyOffered, Tracked, PathSeen, P!ProvedWasServed,
       P!SteadyAnswerFound, P!Reachable, P!Entrance, P!Offered, P!Good, P!Some, P!Has

LEMMA ProofInvariant == Spec => []ProofInv
<1>1. Init => ProofInv
  BY ProofInit DEF Init
<1>2. ASSUME ProofInv, [Next]_vars
      PROVE  ProofInv'
  <2>1. CASE Proving
    <3>1. P!Next
      BY <2>1 DEF Proving
    <3>2. CASE P!Challenge \/ P!Tick \/ Composes
      BY <1>2, <3>2, ChallengeStep
    <3>3. CASE \E c \in issued : P!BeginCheck(c)
      BY <1>2, <3>3, BeginCheckStep
    <3>4. CASE P!Check
      BY <1>2, <3>4, AskStep, FetchByAddressStep, FetchPageStep, TryFirstStep DEF P!Check
    <3>5. CASE P!Change
      BY <1>2, <3>5, ChangeStep
    <3>6. QED BY <3>1, <3>2, <3>3, <3>4, <3>5 DEF P!Next, Composes
  <2>2. CASE Restart
    BY <1>2, <2>2, ProofRestartStep DEF Restart
  <2>3. CASE Swarm \/ Synchronisation \/ Rating
    BY <1>2, <2>3, ProofStutter DEF Swarm, Synchronisation, Rating
  <2>4. CASE UNCHANGED vars
    BY <1>2, <2>4, ProofStutter DEF vars, proofVars
  <2>5. QED BY <1>2, <2>1, <2>2, <2>3, <2>4 DEF Next
<1>3. QED BY <1>1, <1>2, PTL DEF Spec

\* Whatever the domain serves and wherever it resolves while a check goes on, and however
\* the node's other parts and its restarts mix with it: the check succeeds only on what
\* was served to its own challenge since it began, and on Handshake only if the name had
\* no root upstream for a time (proof/engine).
THEOREM CheckProvesWhatWasServed == Spec => []ProvedWasServed
<1>1. ProofInv => ProvedWasServed
  BY DEF ProofInv, ProvedWasServed
<1>2. QED BY <1>1, ProofInvariant, PTL

\* Whatever else changes or fails while a check goes on, an answer that can be had all the
\* time where the domain resolves is found (proof/engine, ipc/handler/proof.rs).
THEOREM CheckFindsSteadyAnswer == Spec => []SteadyAnswerFound
<1>1. ProofInv => SteadyAnswerFound
  BY DEF ProofInv, SteadyAnswerFound
<1>2. QED BY <1>1, ProofInvariant, PTL

-----------------------------------------------------------------------------
(* The swarm of custodians: what is in the tables and on the network.       *)

LEMMA SwarmCardinality == \A s : S!Cardinality(s) = Cardinality(s)
  BY DEF S!Cardinality, Cardinality

Contracts == [worker : Workers, share : Shares, created : Nat, until : Nat]
Certificates == [worker : Workers, nonce : Int]
Challenged == [contract : Contracts, nonce : Int]
Answered == [worker : Workers, contract : Contracts, cert : Certificates]
Members == [worker : Workers, share : Shares \cup {0}, at : Nat,
            contract : Contracts \cup {r.contract : r \in Elsewhere},
            cert : Certificates \cup {r.cert : r \in Elsewhere}]
Sends == [kind : {"activation"}, body : Members]
Writes == [op : {"write"}, members : SUBSET Members, sends : SUBSET Sends]
Limited == [contracts : Int, challenges : Int, elsewhere : Int, commands : Int, restarts : Int,
            ticks : Int]

NetTypeOK ==
  \A m \in net :
    /\ m.kind = "contract" => m.body \in Contracts
    /\ m.kind = "request" => m.body \in Challenged
    /\ m.kind = "proof" => m.body \in Answered
    /\ m.kind \in {"activation", "elsewhere"} => m.body \in Members

SwarmTypeOK ==
  /\ now \in Nat /\ left \in Limited
  /\ swarm \in [S!Nodes -> SUBSET Members] /\ file \subseteq Members
  /\ removals \subseteq SUBSET Members /\ IsFiniteSet(removals)
  /\ pending \subseteq Contracts /\ challenges \subseteq Challenged
  /\ NetTypeOK
  /\ \/ listener = S!Free
     \/ listener \in [op : {"fetch"}, proof : Answered, at : Nat, nonce : Int]
     \/ listener \in Writes

LEMMA SwarmConstants ==
  /\ Owner \notin Workers /\ Owner \in S!Nodes /\ Workers \subseteq S!Nodes
  /\ Shares \subseteq 0..100 /\ Windows \subseteq Nat
  /\ Budgets \subseteq Limited /\ Elsewhere \subseteq Members
<1>1. \A r \in Elsewhere : r \in Members
  <2> TAKE r \in Elsewhere
  <2>1. /\ r.worker \in Workers /\ r.at \in Nat
        /\ r = [worker |-> r.worker, share |-> 0, at |-> r.at, contract |-> r.contract,
               cert |-> r.cert]
    BY DaemonAssumption DEF S!SwarmAssumption
  <2>2. /\ r.contract \in {q.contract : q \in Elsewhere}
        /\ r.cert \in {q.cert : q \in Elsewhere}
    OBVIOUS
  <2>3. QED BY <2>1, <2>2 DEF Members
<1>2. QED BY <1>1, DaemonAssumption DEF S!SwarmAssumption, S!Nodes, Limited

LEMMA SpendType ==
  ASSUME left \in Limited,
         NEW kind \in {"contracts", "challenges", "elsewhere", "commands", "restarts", "ticks"},
         S!Spend(kind)
  PROVE  /\ left' \in Limited
         /\ kind = "restarts" <=> left'.restarts # left.restarts
BY DEF S!Spend, Limited

\* What arrives was sent.
LEMMA ArrivedType ==
  ASSUME NetTypeOK
  PROVE  /\ S!Arrived("contract") \subseteq Contracts /\ S!Arrived("request") \subseteq Challenged
         /\ S!Arrived("proof") \subseteq Answered
         /\ S!Arrived("activation") \cup S!Arrived("elsewhere") \subseteq Members
BY DEF NetTypeOK, S!Arrived

LEMMA SendType ==
  ASSUME NetTypeOK, NEW kind, NEW body, S!Send(kind, body),
         \/ kind = "contract" /\ body \in Contracts
         \/ kind = "request" /\ body \in Challenged
         \/ kind = "proof" /\ body \in Answered
         \/ kind = "elsewhere" /\ body \in Members
  PROVE  NetTypeOK'
BY DEF NetTypeOK, S!Send, S!Message

\* The operators' commands and the other nodes keep the types.
LEMMA BesideType ==
  ASSUME SwarmTypeOK, S!Beside
  PROVE  SwarmTypeOK'
<1>1. ASSUME NEW w \in Workers, NEW share \in Shares, NEW window \in Windows,
             S!PublishContract(w, share, window)
      PROVE  SwarmTypeOK'
  <2>1. S!NewContract(w, share, window) \in Contracts
    BY SwarmConstants DEF S!NewContract, Contracts, SwarmTypeOK
  <2>2. NetTypeOK' /\ left' \in Limited
    BY <1>1, <2>1, SendType, SpendType DEF S!PublishContract, SwarmTypeOK
  <2>3. QED BY <1>1, <2>2 DEF S!PublishContract, SwarmTypeOK, S!settings
<1>2. ASSUME NEW w \in Workers, S!Remove(w)
      PROVE  SwarmTypeOK'
  <2>1. S!Without(swarm[Owner], w) \subseteq Members
    BY SwarmConstants DEF SwarmTypeOK, S!Without
  <2>2. swarm' \in [S!Nodes -> SUBSET Members] /\ removals' \subseteq SUBSET Members
    BY <1>2, <2>1, SwarmConstants DEF S!Remove, S!RemovalCopy, SwarmTypeOK
  <2>3. IsFiniteSet(removals') /\ left' \in Limited
    BY <1>2, FS_AddElement, SpendType DEF S!Remove, SwarmTypeOK
  <2>4. QED
    BY <1>2, <2>2, <2>3 DEF S!Remove, SwarmTypeOK, NetTypeOK, S!settings, S!network
<1>3. ASSUME NEW w \in Workers, S!RestartWorker(w)
      PROVE  SwarmTypeOK'
  <2>1. left' \in Limited
    BY <1>3, SpendType DEF S!RestartWorker, SwarmTypeOK
  <2>2. QED BY <1>3, <2>1 DEF S!RestartWorker, SwarmTypeOK, NetTypeOK, S!settings
<1>4. ASSUME NEW w \in Workers, NEW request \in S!Arrived("request"),
             S!AnswerChallenge(w, request)
      PROVE  SwarmTypeOK'
  <2>1. request \in Challenged
    BY ArrivedType DEF SwarmTypeOK
  <2>2. [worker |-> w, contract |-> request.contract,
         cert |-> S!MockCertificate(w, request.nonce)] \in Answered
    BY <2>1 DEF Answered, Challenged, Certificates, S!MockCertificate
  <2>3. NetTypeOK'
    BY <1>4, <2>2, SendType DEF S!AnswerChallenge, SwarmTypeOK
  <2>4. QED BY <1>4, <2>3 DEF S!AnswerChallenge, SwarmTypeOK, S!settings
<1>5. ASSUME NEW n \in Workers, NEW r \in S!Arrived("activation") \cup S!Arrived("elsewhere"),
             S!ReceiveActivation(n, r)
      PROVE  SwarmTypeOK'
  <2>1. r \in Members
    BY ArrivedType DEF SwarmTypeOK
  <2>2. S!Told(r) \in Members
    BY <2>1 DEF S!Told, Members
  <2>3. S!Inserted(swarm[n], S!Told(r)) \subseteq Members
    BY <2>2, SwarmConstants DEF S!Inserted, S!Without, SwarmTypeOK
  <2>4. swarm' \in [S!Nodes -> SUBSET Members]
    BY <1>5, <2>3, SwarmConstants DEF S!ReceiveActivation, SwarmTypeOK
  <2>5. QED
    BY <1>5, <2>4 DEF S!ReceiveActivation, SwarmTypeOK, NetTypeOK, S!settings, S!network
<1>6. ASSUME NEW p, S!Configure(p) \/ S!SetSeeking(p)
      PROVE  SwarmTypeOK'
  <2>1. left' \in Limited
    BY <1>6, SpendType DEF S!Configure, S!SetSeeking, SwarmTypeOK
  <2>2. QED
    BY <1>6, <2>1 DEF S!Configure, S!SetSeeking, SwarmTypeOK, NetTypeOK, S!network
<1>7. ASSUME NEW members \in removals, S!WriteRemoval(members)
      PROVE  SwarmTypeOK'
  <2>1. IsFiniteSet(removals')
    BY <1>7, FS_RemoveElement DEF S!WriteRemoval, SwarmTypeOK
  <2>2. QED
    BY <1>7, <2>1 DEF S!WriteRemoval, SwarmTypeOK, NetTypeOK, S!settings, S!network
<1>8. CASE S!Tick
  <2>1. left' \in Limited
    BY <1>8, SpendType DEF S!Tick, SwarmTypeOK
  <2>2. QED BY <1>8, <2>1 DEF S!Tick, SwarmTypeOK, NetTypeOK, S!settings, S!network
<1>9. ASSUME NEW r \in Elsewhere, S!ActivateElsewhere(r)
      PROVE  SwarmTypeOK'
  <2>1. r \in Members
    BY SwarmConstants
  <2>2. NetTypeOK' /\ left' \in Limited
    BY <1>9, <2>1, SendType, SpendType DEF S!ActivateElsewhere, SwarmTypeOK
  <2>3. QED BY <1>9, <2>2 DEF S!ActivateElsewhere, SwarmTypeOK, S!settings
<1>10. QED BY <1>1, <1>2, <1>3, <1>4, <1>5, <1>6, <1>7, <1>8, <1>9 DEF S!Beside

LEMMA ListenerShape ==
  ASSUME SwarmTypeOK
  PROVE  /\ listener.op \in {"free", "fetch", "write"}
         /\ listener.op = "free" <=> listener = S!Free
         /\ listener.op = "fetch" =>
              listener \in [op : {"fetch"}, proof : Answered, at : Nat, nonce : Int]
         /\ listener.op = "write" => listener \in Writes
BY DEF SwarmTypeOK, S!Free, Writes

\* What the worker becomes a member with.
Newcomer == [worker |-> listener.proof.worker, share |-> listener.proof.contract.share,
             at |-> listener.at, contract |-> listener.proof.contract,
             cert |-> listener.proof.cert]

LEMMA AdmitFields ==
  ASSUME SwarmTypeOK, S!Admit
  PROVE  /\ listener.op = "fetch" /\ Newcomer \in Members
         /\ listener.proof.cert.nonce = listener.nonce
         /\ listener.at <= listener.proof.contract.until
         /\ S!Insert(Newcomer, {S!Message("activation", Newcomer)})
<1>1. listener \in [op : {"fetch"}, proof : Answered, at : Nat, nonce : Int]
  BY ListenerShape DEF S!Admit
<1>2. Newcomer \in Members
  BY <1>1 DEF Newcomer, Members, Answered, Contracts
<1>3. listener.at <= listener.proof.contract.until
  BY <1>1 DEF S!Admit, S!Confirms, S!Expired, Answered, Contracts
<1>4. QED
  BY <1>1, <1>2, <1>3 DEF S!Admit, S!Verifies, Newcomer

\* What putting a record into the table changes.
LEMMA InsertFields ==
  ASSUME SwarmTypeOK, NEW r \in Members, NEW sends \in SUBSET Sends, S!Insert(r, sends)
  PROVE  /\ swarm' = [swarm EXCEPT ![Owner] = S!Inserted(swarm[Owner], r)]
         /\ swarm'[Owner] = S!Inserted(swarm[Owner], r)
         /\ listener' = [op |-> "write", members |-> swarm'[Owner], sends |-> sends]
         /\ listener'.op = "write" /\ listener'.members = swarm'[Owner]
         /\ UNCHANGED <<now, file, removals, pending, challenges, net, terms, left>>
         /\ ~raced' => ~raced /\ removals = {}
         /\ SwarmTypeOK'
<1>1. /\ swarm' = [swarm EXCEPT ![Owner] = S!Inserted(swarm[Owner], r)]
      /\ listener' = [op |-> "write", members |-> swarm'[Owner], sends |-> sends]
      /\ UNCHANGED <<now, file, removals, pending, challenges, net, terms, left>>
      /\ ~raced' => ~raced /\ removals = {}
  BY DEF S!Insert, S!network
<1>2. S!Inserted(swarm[Owner], r) \subseteq Members
  BY SwarmConstants DEF S!Inserted, S!Without, SwarmTypeOK
<1>3. /\ swarm' \in [S!Nodes -> SUBSET Members]
      /\ swarm'[Owner] = S!Inserted(swarm[Owner], r)
  BY <1>1, <1>2, SwarmConstants DEF SwarmTypeOK
<1>4. listener' \in Writes
  BY <1>1, <1>2, <1>3 DEF Writes
<1>5. SwarmTypeOK'
  BY <1>1, <1>3, <1>4 DEF SwarmTypeOK, NetTypeOK
<1>6. QED BY <1>1, <1>3, <1>5

LEMMA AdmitInserts ==
  ASSUME SwarmTypeOK, S!Admit
  PROVE  /\ Newcomer \in Members
         /\ \E sends \in SUBSET Sends : S!Insert(Newcomer, sends)
<1>1. Newcomer \in Members /\ S!Insert(Newcomer, {S!Message("activation", Newcomer)})
  BY AdmitFields
<1>2. {S!Message("activation", Newcomer)} \in SUBSET Sends
  BY <1>1 DEF S!Message, Sends
<1>3. QED BY <1>1, <1>2

LEMMA HearInserts ==
  ASSUME SwarmTypeOK, NEW r, S!HearActivation(r)
  PROVE  /\ S!Told(r) \in Members /\ S!Told(r) \in S!Heard /\ listener.op = "free"
         /\ \E sends \in SUBSET Sends : S!Insert(S!Told(r), sends)
<1>1. r \in S!Arrived("elsewhere") /\ S!Insert(S!Told(r), {}) /\ listener.op = "free"
  BY DEF S!HearActivation, S!Free
<1>2. r \in Members
  BY <1>1, ArrivedType DEF SwarmTypeOK
<1>3. S!Told(r) \in Members /\ S!Told(r) \in S!Heard
  BY <1>1, <1>2 DEF S!Told, Members, S!Heard
<1>4. QED BY <1>1, <1>3

\* The listener and the restart keep the types.
LEMMA ListenerType ==
  ASSUME SwarmTypeOK, S!Receive \/ S!Proceed \/ S!RestartOwner
  PROVE  SwarmTypeOK'
<1>1. ASSUME NEW k \in S!Arrived("contract"), S!StageContract(k)
      PROVE  SwarmTypeOK'
  <2>1. k \in Contracts
    BY ArrivedType DEF SwarmTypeOK
  <2>2. QED BY <1>1, <2>1 DEF S!StageContract, SwarmTypeOK, NetTypeOK, S!settings
<1>2. ASSUME NEW k \in S!Arrived("contract"), S!ChallengeWorker(k)
      PROVE  SwarmTypeOK'
  <2>1. k \in Contracts
    BY ArrivedType DEF SwarmTypeOK
  <2>2. [contract |-> k, nonce |-> left.challenges] \in Challenged
    BY <2>1 DEF Challenged, SwarmTypeOK, Limited
  <2>3. NetTypeOK' /\ left' \in Limited
    BY <1>2, <2>2, SendType, SpendType DEF S!ChallengeWorker, SwarmTypeOK
  <2>4. challenges' \subseteq Challenged /\ pending' \subseteq Contracts
    BY <1>2, <2>1, <2>2 DEF S!ChallengeWorker, SwarmTypeOK
  <2>5. QED BY <1>2, <2>3, <2>4 DEF S!ChallengeWorker, SwarmTypeOK, S!settings
<1>3. ASSUME NEW proof \in S!Arrived("proof"), S!StartFetch(proof)
      PROVE  SwarmTypeOK'
  <2>1. proof \in Answered
    BY ArrivedType DEF SwarmTypeOK
  <2>2. listener' \in [op : {"fetch"}, proof : Answered, at : Nat, nonce : Int]
    BY <1>3, <2>1 DEF S!StartFetch, SwarmTypeOK, Challenged
  <2>3. QED
    BY <1>3, <2>2 DEF S!StartFetch, SwarmTypeOK, NetTypeOK, S!settings, S!network
<1>4. CASE S!DropProof
  BY <1>4 DEF S!DropProof, SwarmTypeOK, NetTypeOK, S!settings, S!network
<1>5. ASSUME NEW r, S!Admit \/ S!HearActivation(r)
      PROVE  SwarmTypeOK'
  BY <1>5, AdmitInserts, HearInserts, InsertFields
<1>6. CASE S!Confirm
  <2>1. listener.members \subseteq Members /\ listener.sends \subseteq Sends
    BY <1>6, ListenerShape DEF S!Confirm, Writes
  <2>2. NetTypeOK'
    BY <1>6, <2>1 DEF S!Confirm, SwarmTypeOK, NetTypeOK, Sends
  <2>3. QED BY <1>6, <2>1, <2>2 DEF S!Confirm, SwarmTypeOK, S!settings
<1>7. CASE S!RestartOwner
  <2>1. left' \in Limited /\ IsFiniteSet(removals')
    BY <1>7, SpendType, FS_EmptySet DEF S!RestartOwner, SwarmTypeOK
  <2>2. swarm' \in [S!Nodes -> SUBSET Members]
    BY <1>7, SwarmConstants DEF S!RestartOwner, SwarmTypeOK
  <2>3. QED BY <1>7, <2>1, <2>2 DEF S!RestartOwner, SwarmTypeOK, NetTypeOK, S!settings
<1>8. QED BY <1>1, <1>2, <1>3, <1>4, <1>5, <1>6, <1>7 DEF S!Receive, S!Proceed

\* A contract was challenged, under a policy it met.
Covered(k) ==
  \E t \in terms :
    /\ t.contract = k /\ t.policy.auto
    /\ k.share <= t.policy.share
    /\ k.until - k.created >= t.policy.ttl

\* A table that may be the owner's, in memory, on its way to the file, or in it.
OnePerWorker(members) == \A r, q \in members : r.worker = q.worker => r = q
Fits(r) == r.at <= r.contract.until /\ r.share = r.contract.share /\ Covered(r.contract)
Sound(members) == OnePerWorker(members) /\ \A r \in members : r \in S!Heard \/ Fits(r)
OwnerTables ==
  {swarm[Owner], file} \cup removals
    \cup {members \in SUBSET Members : listener.op = "write" /\ members = listener.members}

\* What the owner waits for: the challenges in force, and the one a proof is measured by.
WaitingOK ==
  /\ \A c \in challenges : Covered(c.contract) /\ c.contract \in pending
  /\ listener.op = "fetch" =>
       [contract |-> listener.proof.contract, nonce |-> listener.nonce] \in challenges

\* What the other nodes were told.
ToldOK ==
  \A w \in Workers :
    OnePerWorker(swarm[w])
      /\ swarm[w] \subseteq {S!Told(r) : r \in S!Arrived("activation")} \cup S!Heard

\* As long as no removal overlapped another writer, what is to be written is the swarm.
WritesOK ==
  ~raced =>
    /\ listener.op = "write" => removals = {} /\ listener.members = swarm[Owner]
    /\ removals \subseteq {swarm[Owner]}
    /\ listener.op # "write" /\ removals = {} => file = swarm[Owner]

SwarmInv ==
  /\ SwarmTypeOK /\ WaitingOK /\ (\A members \in OwnerTables : Sound(members))
  /\ ToldOK /\ WritesOK

\* A step that leaves the owner's tables alone, and what is to be written of them.
Quiet ==
  /\ swarm'[Owner] = swarm[Owner] /\ file' = file /\ removals' = removals /\ raced' = raced
  /\ listener.op = "write" \/ listener'.op = "write" => listener' = listener

LEMMA SwarmSteps ==
  ASSUME SwarmTypeOK, S!Next
  PROVE  \/ Quiet \/ S!Admit \/ S!Confirm \/ S!RestartOwner
         \/ \E r : S!HearActivation(r)
         \/ \E w \in Workers : S!Remove(w)
         \/ \E members \in removals : S!WriteRemoval(members)
<1>1. CASE S!Receive
  <2>1. ASSUME NEW k, S!StageContract(k) \/ S!ChallengeWorker(k)
        PROVE  Quiet
    BY <2>1 DEF S!StageContract, S!ChallengeWorker, Quiet, S!settings
  <2>2. ASSUME NEW proof, S!StartFetch(proof)
        PROVE  Quiet
    <3>1. listener.op = "free" /\ listener'.op = "fetch"
      BY <2>2 DEF S!StartFetch, S!Free
    <3>2. QED BY <2>2, <3>1 DEF S!StartFetch, Quiet, S!settings, S!network
  <2>3. QED BY <1>1, <2>1, <2>2 DEF S!Receive
<1>2. CASE S!Proceed
  BY <1>2 DEF S!Proceed, S!DropProof, Quiet, S!Free, S!settings, S!network
<1>3. CASE S!Beside
  <2>1. ASSUME NEW n \in Workers, NEW r, S!ReceiveActivation(n, r)
        PROVE  Quiet
    <3>1. swarm'[Owner] = swarm[Owner]
      BY <2>1, SwarmConstants DEF S!ReceiveActivation, SwarmTypeOK
    <3>2. QED BY <2>1, <3>1 DEF S!ReceiveActivation, Quiet, S!settings, S!network
  <2>2. ASSUME NEW w \in Workers, NEW share, NEW window, S!PublishContract(w, share, window)
        PROVE  Quiet
    BY <2>2 DEF S!PublishContract, Quiet, S!settings
  <2>3. ASSUME NEW w \in Workers, NEW request, S!AnswerChallenge(w, request)
        PROVE  Quiet
    BY <2>3 DEF S!AnswerChallenge, Quiet, S!settings
  <2>4. ASSUME NEW w \in Workers, S!RestartWorker(w)
        PROVE  Quiet
    BY <2>4 DEF S!RestartWorker, Quiet, S!settings
  <2>5. ASSUME NEW p, S!Configure(p) \/ S!SetSeeking(p) \/ S!ActivateElsewhere(p)
        PROVE  Quiet
    BY <2>5 DEF S!Configure, S!SetSeeking, S!ActivateElsewhere, Quiet, S!network, S!settings
  <2>6. CASE S!Tick
    BY <2>6 DEF S!Tick, Quiet, S!settings, S!network
  <2>7. QED BY <1>3, <2>1, <2>2, <2>3, <2>4, <2>5, <2>6 DEF S!Beside
<1>4. QED BY <1>1, <1>2, <1>3 DEF S!Next

\* Nothing that was challenged or sent is forgotten.
LEMMA HistoryGrows ==
  ASSUME S!Next
  PROVE  terms \subseteq terms' /\ net \subseteq net'
<1>1. CASE S!Receive
  BY <1>1 DEF S!Receive, S!StageContract, S!ChallengeWorker, S!StartFetch, S!HearActivation,
              S!Insert, S!settings, S!network, S!Send
<1>2. CASE S!Proceed
  BY <1>2 DEF S!Proceed, S!DropProof, S!Admit, S!Insert, S!Confirm, S!network
<1>3. CASE S!RestartOwner
  BY <1>3 DEF S!RestartOwner
<1>4. CASE S!Beside
  BY <1>4 DEF S!Beside, S!PublishContract, S!Remove, S!RestartWorker, S!AnswerChallenge,
              S!ReceiveActivation, S!ActivateElsewhere, S!Configure, S!SetSeeking,
              S!WriteRemoval, S!Tick, S!settings, S!network, S!Send
<1>5. QED BY <1>1, <1>2, <1>3, <1>4 DEF S!Next

LEMMA CoveredGrows ==
  ASSUME terms \subseteq terms'
  PROVE  \A k : Covered(k) => Covered(k)'
BY DEF Covered

LEMMA HeardGrows ==
  ASSUME net \subseteq net'
  PROVE  /\ S!Arrived("activation") \subseteq S!Arrived("activation")'
         /\ S!Heard \subseteq S!Heard'
BY DEF S!Arrived, S!Heard

LEMMA SoundGrows ==
  ASSUME terms \subseteq terms', net \subseteq net'
  PROVE  \A members : Sound(members) => Sound(members)'
BY CoveredGrows, HeardGrows DEF Sound, Fits, OnePerWorker

\* While a proof is looked at, its challenge stays in force.
LEMMA WaitingStep ==
  ASSUME SwarmInv, S!Next
  PROVE  WaitingOK'
<1>1. /\ SwarmTypeOK /\ WaitingOK /\ \A k : Covered(k) => Covered(k)'
  BY HistoryGrows, CoveredGrows DEF SwarmInv
<1>2. ASSUME challenges' = challenges, pending \subseteq pending',
             listener'.op = "fetch" => listener' = listener
      PROVE  WaitingOK'
  BY <1>1, <1>2 DEF WaitingOK
<1>3. ASSUME NEW k, S!StageContract(k)
      PROVE  WaitingOK'
  BY <1>2, <1>3 DEF S!StageContract
<1>4. ASSUME NEW k, S!ChallengeWorker(k)
      PROVE  WaitingOK'
  <2>1. Covered(k)'
    <3> DEFINE t == [contract |-> k, policy |-> policy]
    <3>1. /\ t \in terms' /\ t.contract = k /\ t.policy = policy /\ policy.auto
          /\ k.share <= policy.share /\ k.until - k.created >= policy.ttl
      BY <1>4 DEF S!ChallengeWorker, S!Acceptable
    <3> HIDE DEF t
    <3>2. QED BY <3>1 DEF Covered
  <2>2. /\ challenges' = {c \in challenges : c.contract # k}
                           \cup {[contract |-> k, nonce |-> left.challenges]}
        /\ pending' = pending \cup {k} /\ listener' = listener /\ listener.op # "fetch"
    BY <1>4 DEF S!ChallengeWorker, S!Free
  <2>3. QED BY <1>1, <2>1, <2>2 DEF WaitingOK
<1>5. ASSUME NEW proof, S!StartFetch(proof)
      PROVE  WaitingOK'
  <2>1. PICK c \in challenges :
          /\ c.contract = proof.contract
          /\ listener' = [op |-> "fetch", proof |-> proof, at |-> now, nonce |-> c.nonce]
    BY <1>5 DEF S!StartFetch
  <2>2. c = [contract |-> c.contract, nonce |-> c.nonce]
    BY <1>1 DEF SwarmTypeOK, Challenged
  <2>3. challenges' = challenges /\ pending' = pending
    BY <1>5 DEF S!StartFetch, S!network
  <2>4. QED BY <1>1, <2>1, <2>2, <2>3 DEF WaitingOK
<1>6. CASE S!RestartOwner
  BY <1>6 DEF S!RestartOwner, S!Free, WaitingOK
<1>7. CASE S!Proceed
  <2>1. challenges' = challenges /\ pending' = pending /\ listener'.op # "fetch"
    BY <1>7 DEF S!Proceed, S!DropProof, S!Admit, S!Insert, S!Confirm, S!Free, S!network
  <2>2. QED BY <1>2, <2>1
<1>8. CASE S!Beside
  <2>1. challenges' = challenges /\ pending' = pending /\ listener' = listener
    BY <1>8 DEF S!Beside, S!PublishContract, S!Remove, S!RestartWorker, S!AnswerChallenge,
                S!ReceiveActivation, S!ActivateElsewhere, S!Configure, S!SetSeeking,
                S!WriteRemoval, S!Tick, S!settings, S!network
  <2>2. QED BY <1>2, <2>1
<1>9. ASSUME NEW r, S!HearActivation(r)
      PROVE  WaitingOK'
  <2>1. challenges' = challenges /\ pending' = pending /\ listener'.op # "fetch"
    BY <1>9 DEF S!HearActivation, S!Insert, S!network
  <2>2. QED BY <1>2, <2>1
<1>10. QED BY <1>3, <1>4, <1>5, <1>6, <1>7, <1>8, <1>9 DEF S!Next, S!Receive

\* The one who is admitted answered the challenge that is in force, of a contract that met
\* the policy it was challenged under.
LEMMA NewcomerFits ==
  ASSUME SwarmInv, S!Admit
  PROVE  /\ Fits(Newcomer)
         /\ [contract |-> Newcomer.contract, nonce |-> Newcomer.cert.nonce] \in challenges
<1>1. /\ listener.op = "fetch" /\ listener.at <= listener.proof.contract.until
      /\ listener.proof.cert.nonce = listener.nonce
  BY AdmitFields DEF SwarmInv
<1>2. [contract |-> listener.proof.contract, nonce |-> listener.nonce] \in challenges
  BY <1>1 DEF SwarmInv, WaitingOK
<1>3. Covered(listener.proof.contract)
  BY <1>2 DEF SwarmInv, WaitingOK
<1>4. QED BY <1>1, <1>2, <1>3 DEF Fits, Newcomer

\* One record of a worker takes the place of another.
LEMMA InsertedOnce ==
  ASSUME NEW members, OnePerWorker(members), NEW r
  PROVE  OnePerWorker(S!Inserted(members, r)) /\ OnePerWorker(S!Without(members, r.worker))
BY DEF OnePerWorker, S!Inserted, S!Without

\* Whatever table is the owner's is sound.
LEMMA TablesStep ==
  ASSUME SwarmInv, S!Next
  PROVE  \A members \in OwnerTables' : Sound(members)'
<1>1. /\ SwarmTypeOK /\ WritesOK
      /\ \A members \in OwnerTables : Sound(members)
      /\ \A members : Sound(members) => Sound(members)'
  BY HistoryGrows, SoundGrows DEF SwarmInv
<1>2. swarm[Owner] \in OwnerTables /\ file \in OwnerTables /\ removals \subseteq OwnerTables
      /\ (listener.op = "write" => listener.members \in OwnerTables)
  BY <1>1, ListenerShape DEF OwnerTables, Writes
<1>3. ASSUME OwnerTables' \subseteq OwnerTables
      PROVE  \A members \in OwnerTables' : Sound(members)'
  BY <1>1, <1>3
<1>4. CASE Quiet
  BY <1>3, <1>4 DEF Quiet, OwnerTables
<1>5. ASSUME NEW r \in Members, r \in S!Heard \/ Fits(r),
             NEW sends \in SUBSET Sends, S!Insert(r, sends)
      PROVE  \A members \in OwnerTables' : Sound(members)'
  <2> DEFINE t == S!Inserted(swarm[Owner], r)
  <2>1. /\ swarm'[Owner] = t /\ listener'.members = t
        /\ file' = file /\ removals' = removals
    BY <1>1, <1>5, InsertFields
  <2>2. OwnerTables' \subseteq OwnerTables \cup {t}
    BY <1>2, <2>1 DEF OwnerTables
  <2>3. Sound(t)
    BY <1>1, <1>2, <1>5, InsertedOnce DEF Sound, S!Inserted, S!Without
  <2> HIDE DEF t
  <2>4. QED BY <1>1, <2>2, <2>3
<1>6. CASE S!Confirm
  <2>1. /\ swarm' = swarm /\ file' = listener.members /\ removals' = removals
        /\ listener.op = "write" /\ listener'.op = "free"
    BY <1>6 DEF S!Confirm, S!Free
  <2>2. OwnerTables' \subseteq OwnerTables
    BY <1>2, <2>1 DEF OwnerTables
  <2>3. QED BY <1>3, <2>2
<1>7. CASE S!RestartOwner
  <2>1. /\ swarm'[Owner] = file /\ file' = file /\ removals' = {} /\ listener'.op = "free"
    BY <1>1, <1>7, SwarmConstants DEF S!RestartOwner, S!Free, SwarmTypeOK
  <2>2. OwnerTables' \subseteq OwnerTables
    BY <1>2, <2>1 DEF OwnerTables
  <2>3. QED BY <1>3, <2>2
<1>8. ASSUME NEW w \in Workers, S!Remove(w)
      PROVE  \A members \in OwnerTables' : Sound(members)'
  <2> DEFINE t == S!Without(swarm[Owner], w)
  <2>1. /\ swarm'[Owner] = t /\ removals' = removals \cup {t}
        /\ file' = file /\ listener' = listener
    BY <1>1, <1>8, SwarmConstants DEF S!Remove, S!RemovalCopy, SwarmTypeOK
  <2>2. OwnerTables' \subseteq OwnerTables \cup {t}
    BY <1>2, <2>1 DEF OwnerTables
  <2>3. Sound(t)
    BY <1>1, <1>2 DEF Sound, OnePerWorker, S!Without
  <2> HIDE DEF t
  <2>4. QED BY <1>1, <2>2, <2>3
<1>9. ASSUME NEW m \in removals, S!WriteRemoval(m)
      PROVE  \A members \in OwnerTables' : Sound(members)'
  <2>1. /\ swarm' = swarm /\ file' = m /\ removals' = removals \ {m} /\ listener' = listener
    BY <1>9 DEF S!WriteRemoval
  <2>2. OwnerTables' \subseteq OwnerTables
    BY <1>2, <2>1 DEF OwnerTables
  <2>3. QED BY <1>3, <2>2
<1>10. CASE S!Admit
  BY <1>1, <1>5, <1>10, AdmitInserts, NewcomerFits
<1>11. ASSUME NEW r, S!HearActivation(r)
       PROVE  \A members \in OwnerTables' : Sound(members)'
  BY <1>1, <1>5, <1>11, HearInserts
<1>12. QED BY <1>1, <1>4, <1>6, <1>7, <1>8, <1>9, <1>10, <1>11, SwarmSteps

\* The other nodes have a worker once, and only when it was activated.
LEMMA ToldStep ==
  ASSUME SwarmInv, S!Next
  PROVE  ToldOK'
<1> DEFINE announced == {S!Told(q) : q \in S!Arrived("activation")} \cup S!Heard
<1>1. SwarmTypeOK /\ ToldOK /\ net \subseteq net'
  BY HistoryGrows DEF SwarmInv
<1>2. announced \subseteq announced'
  BY <1>1, HeardGrows
<1>3. ASSUME \A w \in Workers : swarm'[w] = swarm[w]
      PROVE  ToldOK'
  BY <1>1, <1>2, <1>3 DEF ToldOK, OnePerWorker
<1>4. ASSUME NEW n \in Workers, NEW r \in S!Arrived("activation") \cup S!Arrived("elsewhere"),
             S!ReceiveActivation(n, r)
      PROVE  ToldOK'
  <2>1. swarm' = [swarm EXCEPT ![n] = S!Inserted(swarm[n], S!Told(r))]
    BY <1>4 DEF S!ReceiveActivation
  <2>2. /\ swarm'[n] = S!Inserted(swarm[n], S!Told(r))
        /\ \A w \in Workers \ {n} : swarm'[w] = swarm[w]
    BY <1>1, <2>1, SwarmConstants DEF SwarmTypeOK
  <2>3. OnePerWorker(swarm[n]) /\ swarm[n] \subseteq announced /\ S!Told(r) \in announced
    BY <1>1, <1>4 DEF ToldOK, S!Heard
  <2>4. OnePerWorker(S!Inserted(swarm[n], S!Told(r)))
    BY <2>3, InsertedOnce
  <2>5. S!Inserted(swarm[n], S!Told(r)) \subseteq announced
    BY <2>3 DEF S!Inserted, S!Without
  <2>6. ASSUME NEW w \in Workers
        PROVE  OnePerWorker(swarm'[w]) /\ swarm'[w] \subseteq announced
    BY <1>1, <2>2, <2>4, <2>5 DEF ToldOK
  <2>7. QED BY <1>2, <2>6 DEF ToldOK, OnePerWorker
<1>5. ASSUME NEW members, swarm' = [swarm EXCEPT ![Owner] = members]
      PROVE  ToldOK'
  BY <1>1, <1>3, <1>5, SwarmConstants DEF SwarmTypeOK
<1>6. CASE S!Receive
  <2>1. ASSUME NEW r, S!HearActivation(r)
        PROVE  ToldOK'
    BY <1>5, <2>1 DEF S!HearActivation, S!Insert
  <2>2. CASE swarm' = swarm
    BY <1>3, <2>2
  <2>3. QED
    BY <1>6, <2>1, <2>2 DEF S!Receive, S!StageContract, S!ChallengeWorker, S!StartFetch
<1>7. CASE S!DropProof \/ S!Confirm
  BY <1>3, <1>7 DEF S!DropProof, S!Confirm
<1>8. CASE S!Admit \/ S!RestartOwner \/ \E w \in Workers : S!Remove(w)
  BY <1>5, <1>8 DEF S!Admit, S!Insert, S!RestartOwner, S!Remove
<1>9. CASE /\ S!Beside
           /\ ~ \E w \in Workers : S!Remove(w)
           /\ ~ \E n \in Workers :
                 \E r \in S!Arrived("activation") \cup S!Arrived("elsewhere") :
                   S!ReceiveActivation(n, r)
  <2>1. swarm' = swarm
    BY <1>9 DEF S!Beside, S!PublishContract, S!RestartWorker, S!AnswerChallenge,
                S!ActivateElsewhere, S!Configure, S!SetSeeking, S!WriteRemoval, S!Tick
  <2>2. QED BY <1>3, <2>1
<1>10. QED BY <1>4, <1>6, <1>7, <1>8, <1>9 DEF S!Next, S!Proceed

LEMMA WritersFree ==
  ASSUME SwarmTypeOK
  PROVE  ~(S!Writers > 0) <=> removals = {} /\ listener.op # "write"
<1>1. Cardinality(removals) \in Nat /\ (Cardinality(removals) = 0 <=> removals = {})
  BY FS_CardinalityType, FS_EmptySet DEF SwarmTypeOK
<1>2. QED BY <1>1, SwarmCardinality DEF S!Writers

\* What is to be written is the swarm.
LEMMA WritesStep ==
  ASSUME SwarmInv, S!Next
  PROVE  WritesOK'
<1>1. SwarmTypeOK /\ WritesOK
  BY DEF SwarmInv
<1>2. CASE Quiet
  BY <1>1, <1>2 DEF Quiet, WritesOK
<1>3. ASSUME NEW r, S!Admit \/ S!HearActivation(r)
      PROVE  WritesOK'
  <2>1. /\ listener'.op = "write"
        /\ listener'.members = swarm'[Owner] /\ removals' = removals
        /\ ~raced' => removals = {}
    BY <1>1, <1>3, AdmitInserts, HearInserts, InsertFields
  <2>2. QED BY <2>1 DEF WritesOK
<1>4. CASE S!Confirm
  <2>1. /\ listener.op = "write" /\ listener'.op = "free" /\ removals' = removals
        /\ file' = listener.members /\ swarm' = swarm /\ raced' = raced
    BY <1>4 DEF S!Confirm, S!Free
  <2>2. QED BY <1>1, <2>1 DEF WritesOK
<1>5. CASE S!RestartOwner
  <2>1. swarm'[Owner] = file /\ file' = file /\ removals' = {} /\ listener'.op = "free"
    BY <1>1, <1>5, SwarmConstants DEF S!RestartOwner, S!Free, SwarmTypeOK
  <2>2. QED BY <2>1 DEF WritesOK
<1>6. ASSUME NEW w \in Workers, S!Remove(w)
      PROVE  WritesOK'
  <2>1. /\ swarm'[Owner] = S!Without(swarm[Owner], w) /\ listener' = listener
        /\ removals' = removals \cup {S!Without(swarm[Owner], w)}
    BY <1>1, <1>6, SwarmConstants DEF S!Remove, S!RemovalCopy, SwarmTypeOK
  <2>2. ~raced' => removals = {} /\ listener.op # "write"
    BY <1>1, <1>6, WritersFree DEF S!Remove
  <2>3. QED BY <2>1, <2>2 DEF WritesOK
<1>7. ASSUME NEW m \in removals, S!WriteRemoval(m)
      PROVE  WritesOK'
  <2>1. /\ swarm' = swarm /\ file' = m /\ removals' = removals \ {m} /\ listener' = listener
        /\ raced' = raced
    BY <1>7 DEF S!WriteRemoval
  <2>2. QED BY <1>1, <1>7, <2>1 DEF WritesOK
<1>8. QED BY <1>1, <1>2, <1>3, <1>4, <1>5, <1>6, <1>7, SwarmSteps

LEMMA SwarmInit == S!Init => SwarmInv
<1> SUFFICES ASSUME S!Init PROVE SwarmInv
  OBVIOUS
<1>1. /\ swarm = [n \in S!Nodes |-> {}] /\ file = {} /\ removals = {} /\ net = {}
      /\ challenges = {} /\ pending = {} /\ listener = S!Free /\ left \in Limited /\ now = 0
  BY SwarmConstants DEF S!Init
<1>2. SwarmTypeOK
  BY <1>1, FS_EmptySet DEF SwarmTypeOK, NetTypeOK
<1>3. listener.op = "free"
  BY <1>1 DEF S!Free
<1>4. WaitingOK /\ ToldOK /\ WritesOK
  BY <1>1, <1>3, SwarmConstants DEF WaitingOK, ToldOK, WritesOK, OnePerWorker
<1>5. \A members \in OwnerTables : Sound(members)
  <2>1. OwnerTables = {{}}
    BY <1>1, <1>3, SwarmConstants DEF OwnerTables
  <2>2. QED BY <2>1 DEF Sound, OnePerWorker
<1>6. QED BY <1>2, <1>4, <1>5 DEF SwarmInv

\* The other parts of the node leave the swarm alone.
LEMMA SwarmStutter ==
  ASSUME SwarmInv, UNCHANGED swarmVars
  PROVE  SwarmInv'
<1>1. /\ UNCHANGED <<now, left, swarm, file, removals, pending, challenges, net>>
      /\ UNCHANGED <<listener, terms, raced>>
  BY DEF swarmVars
<1>2. SwarmTypeOK'
  BY <1>1 DEF SwarmInv, SwarmTypeOK, NetTypeOK
<1>3. WaitingOK' /\ ToldOK' /\ WritesOK'
  BY <1>1 DEF SwarmInv, WaitingOK, ToldOK, WritesOK, Covered, OnePerWorker, S!Arrived, S!Heard
<1>4. OwnerTables' = OwnerTables /\ terms' = terms /\ net' = net
  BY <1>1 DEF OwnerTables
<1>5. \A members \in OwnerTables' : Sound(members)'
  BY <1>4, SoundGrows DEF SwarmInv
<1>6. QED BY <1>2, <1>3, <1>5 DEF SwarmInv

LEMMA SwarmNext ==
  ASSUME SwarmInv, S!Next
  PROVE  SwarmInv'
<1>1. SwarmTypeOK'
  BY BesideType, ListenerType DEF SwarmInv, S!Next
<1>2. QED BY <1>1, WaitingStep, TablesStep, ToldStep, WritesStep DEF SwarmInv

LEMMA SwarmInvariant == Spec => []SwarmInv
<1>1. Init => SwarmInv
  BY SwarmInit DEF Init
<1>2. ASSUME SwarmInv, [Next]_vars
      PROVE  SwarmInv'
  <2>1. CASE Swarm \/ Restart
    <3>1. S!Next
      BY <2>1 DEF Swarm, Restart, S!Next
    <3>2. QED BY <1>2, <3>1, SwarmNext
  <2>2. CASE Synchronisation \/ Rating \/ Proving \/ UNCHANGED vars
    <3>1. UNCHANGED swarmVars
      BY <2>2 DEF Synchronisation, Rating, Proving, vars
    <3>2. QED BY <1>2, <3>1, SwarmStutter
  <2>3. QED BY <1>2, <2>1, <2>2 DEF Next
<1>3. QED BY <1>1, <1>2, PTL DEF Spec

\* Whatever the operator configures or removes while a delegation is under way, whatever
\* other keys activate, and however often the node restarts: whoever is a member, or in
\* the file, was challenged under a policy that its contract met, and activated before the
\* contract was over, unless it is there by the activation of another key
\* (broadcast/custodian.rs).
THEOREM MembersAreWithinTerms == Spec => []WithinTerms
<1>1. ASSUME SwarmInv
      PROVE  WithinTerms
  <2>1. \A r \in (swarm[Owner] \cup file) \ S!Heard : Fits(r)
    BY <1>1 DEF SwarmInv, OwnerTables, Sound
  <2>2. QED BY <2>1 DEF WithinTerms, S!WithinTerms, Fits, Covered
<1>2. QED BY <1>1, SwarmInvariant, PTL

\* As long as no removal overlaps another writer, the file holds the swarm whenever no
\* write is under way (storage/db/subtables/custodian_subtable.rs).
THEOREM FileFollowsSwarm == Spec => []FileFollows
<1>1. ASSUME SwarmInv
      PROVE  FileFollows
  <2>1. S!Writers = 0 => ~(S!Writers > 0)
    OBVIOUS
  <2>2. QED
    BY <1>1, <2>1, WritersFree DEF SwarmInv, WritesOK, FileFollows, S!FileFollows
<1>2. QED BY <1>1, SwarmInvariant, PTL

\* A worker that no other key activates becomes a member only with the answer to the
\* challenge that is in force for its contract at that moment, though the owner reads the
\* challenge and then waits for the certificate (handle_ca_capabilities_proof_packet).
THEOREM MembersAnsweredLatest == Spec => AnsweredLatest
<1> DEFINE Answers == \A r \in (swarm'[Owner] \ swarm[Owner]) \ S!Heard :
                        left'.restarts = left.restarts =>
                          [contract |-> r.contract, nonce |-> r.cert.nonce] \in challenges
<1>1. ASSUME SwarmInv, [Next]_vars
      PROVE  Answers
  <2>1. SwarmTypeOK
    BY <1>1 DEF SwarmInv
  <2>2. CASE UNCHANGED swarmVars
    BY <2>2 DEF swarmVars
  <2>3. CASE S!Next
    <3>1. CASE Quiet \/ S!Confirm \/ \E m \in removals : S!WriteRemoval(m)
      BY <3>1 DEF Quiet, S!Confirm, S!WriteRemoval
    <3>2. CASE S!Admit
      <4>1. swarm'[Owner] \subseteq swarm[Owner] \cup {Newcomer}
        BY <2>1, <3>2, AdmitInserts, InsertFields DEF S!Inserted, S!Without
      <4>2. QED BY <1>1, <3>2, <4>1, NewcomerFits
    <3>3. ASSUME NEW r, S!HearActivation(r)
          PROVE  (swarm'[Owner] \ swarm[Owner]) \subseteq S!Heard
      <4>1. swarm'[Owner] \subseteq swarm[Owner] \cup {S!Told(r)}
        BY <2>1, <3>3, HearInserts, InsertFields DEF S!Inserted, S!Without
      <4>2. QED BY <2>1, <3>3, <4>1, HearInserts
    <3>4. CASE S!RestartOwner
      BY <2>1, <3>4, SpendType DEF S!RestartOwner, SwarmTypeOK
    <3>5. ASSUME NEW w \in Workers, S!Remove(w)
          PROVE  swarm'[Owner] \subseteq swarm[Owner]
      BY <2>1, <3>5, SwarmConstants DEF S!Remove, S!Without, SwarmTypeOK
    <3>6. QED BY <2>1, <2>3, <3>1, <3>2, <3>3, <3>4, <3>5, SwarmSteps
  <2>4. QED
    BY <1>1, <2>2, <2>3
       DEF Next, Swarm, Restart, Synchronisation, Rating, Proving, vars, S!Next
<1>2. QED BY <1>1, SwarmInvariant, PTL DEF Spec, AnsweredLatest, S!AnsweredLatest
=============================================================================
