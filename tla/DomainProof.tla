---------------------------- MODULE DomainProof ----------------------------
(***************************************************************************)
(* How a node convinces itself that a client controls a domain             *)
(* (proof/engine, dns, net and overlay.rs, net/ipc/handler/proof.rs): it   *)
(* gives the client a challenge, and when the client comes back with it,   *)
(* looks the domain up and tries one channel after the other.  Each        *)
(* look-up takes its time, in which what the domain serves, and where it   *)
(* resolves, may change.                                                   *)
(*                                                                         *)
(* The daemon keeps nothing of a challenge, and takes the one it is given  *)
(* back for its own: a client may hand in one that it wrote itself, with   *)
(* whatever nonce and end.  An answer stands for the challenge it signs,   *)
(* with whatever key; signatures are taken as sound.                       *)
(* There is one check at a time: checks share no state.                    *)
(* The network a challenge was issued for is not looked at again, and is   *)
(* left out.  An answer that the client hands in itself is only parsed     *)
(* and changes no state.                                                   *)
(***************************************************************************)
EXTENDS Integers, FiniteSets

CONSTANTS
  Lifetime,     \* ttl of a challenge
  Ends,         \* the ends clients may write into challenges of their own
  ProofBudgets  \* the name of the domain, the backends that are configured, and bounds:
                \* how many challenges, those of clients, checks, changes of the
                \* domain and ticks there are

VARIABLES
  time,    \* the time of day
  issued,  \* the challenges clients have
  site,    \* the domain: the roots where it resolves, and what its channels serve
  check,   \* where VerifyDomainProof is
  effort   \* how much there may still be of each kind

vars == <<time, issued, site, check, effort>>

Roots == {"upstream", "hns"}
TxtChannels == {"txt", "hnsTxt"}
Channels == TxtChannels \cup {"alpn", "sam", "hnsHttp", "http"}
Names == {"onion", "i2p", "plain"}

ProofAssumption ==
  /\ Lifetime \in Nat /\ Ends \subseteq Nat
  /\ ProofBudgets \subseteq [name : Names, support : SUBSET {"tor", "i2p", "hns"},
                            challenges : Nat, edits : Nat, checks : Nat, changes : Nat,
                            ticks : Nat]

Pay(kind) == effort[kind] > 0 /\ effort' = [effort EXCEPT ![kind] = @ - 1]
Idle == [step |-> "idle"]
Done(step) == step \in {"idle", "proved", "failed"}

-----------------------------------------------------------------------------
(* Answers.                                                                 *)

\* What a channel serves: nothing can be fetched, or a page or records with a status,
\* and the challenges these answer.
Page(status, answers) == [status |-> status, answers |-> answers]

\* to_dns_txt_record: the prefix, and the nonce, the key and the signature in hex.
RecordLength == 15 + 64 + 1 + 64 + 1 + 128

\* A character-string of a TXT record has a length of one byte, and each is parsed on
\* its own: a record that needs two of them is whole in none.
Whole(channel) == channel \in TxtChannels => RecordLength <= 255

\* Mutant: the nonce is not compared.
AnswersAny(channel, challenge) ==
  site.served[channel].answers # {} /\ site.served[channel].status # "down" /\ Whole(channel)

\* parse_dns_txt_record and parse_http_nonce_json, of what a channel serves now.
Answers(channel, challenge) ==
  challenge \in site.served[channel].answers /\ site.served[channel].status # "down"
    /\ Whole(channel)

\* Where the domain resolves, and the channels on which the answer can be had, with one
\* of these statuses.
Has(s, challenge, statuses) ==
  s.roots \cup {c \in Channels : challenge \in s.served[c].answers
                                   /\ s.served[c].status \in statuses}
Good(s, challenge) == Has(s, challenge, {"ok"})
Some(s, challenge) == Has(s, challenge, {"ok", "error"})

-----------------------------------------------------------------------------
(* The commands.                                                            *)

\* ChallengeDomainProof, with a nonce of its own.  The client may name the network, and
\* one that needs no backend is never refused.
Challenge ==
  /\ Pay("challenges")
  /\ issued' = issued \cup {[id |-> Cardinality(issued) + 1, until |-> time + Lifetime]}
  /\ UNCHANGED <<time, site, check>>

\* A client writes a challenge, or changes one.
Compose(id, until) ==
  /\ Pay("edits")
  /\ issued' = issued \cup {[id |-> id, until |-> until]}
  /\ UNCHANGED <<time, site, check>>

\* resolve_network_type and check_backend_capability, for names that tell the network.
Entrance ==
  CASE effort.name = "plain" -> "upstream"
    [] effort.name = "onion" -> IF "tor" \in effort.support THEN "alpn" ELSE "failed"
    [] effort.name = "i2p" -> IF "i2p" \in effort.support THEN "sam" ELSE "failed"

\* VerifyDomainProof without an answer, before the end that the challenge tells of.  What was good
\* all the time since, and what at some time, is history.
BeginCheck(c) ==
  /\ Done(check.step)
  /\ c \in issued /\ time < c.until
  /\ Pay("checks")
  /\ check' = [of |-> c.id, step |-> Entrance, via |-> "none", always |-> Good(site, c.id),
               ever |-> Some(site, c.id)]
  /\ UNCHANGED <<time, issued, site>>

Goes(from, to) ==
  /\ check.step = from
  /\ check' = [check EXCEPT !.step = to]
  /\ UNCHANGED <<time, issued, site, effort>>

\* resolve_network_type for the others: the upstream resolver is asked first...
AskUpstream ==
  \/ "upstream" \in site.roots /\ Goes("upstream", "txt")
  \/ "upstream" \notin site.roots /\ Goes("upstream", IF "hns" \in effort.support THEN "hns"
                                                      ELSE "failed")

\* ...and then Handshake's.
AskHandshake == Goes("hns", IF "hns" \in site.roots THEN "hnsTxt" ELSE "failed")

Proves(channel) ==
  /\ check.step = channel
  /\ Answers(channel, check.of)
  /\ check' = [check EXCEPT !.step = "proved", !.via = channel]
  /\ UNCHANGED <<time, issued, site, effort>>

\* Mutant: records or a page that are no answer end the check.
AfterMiss(channel) ==
  IF site.served[channel].answers # {} THEN "failed"
  ELSE IF channel = "hnsTxt" THEN "address" ELSE "http"

\* The page is what there is left; for Handshake, at the address its root tells.
After(channel) == IF channel = "hnsTxt" THEN "address" ELSE "http"

\* verify_active_domain_control: the first channel of the network, whose failure is no
\* failure of the check.
TryFirst(channel) ==
  /\ channel \in {"alpn", "sam"} \cup TxtChannels /\ check.step = channel
  /\ \/ Proves(channel)
     \/ ~Answers(channel, check.of) /\ Goes(channel, After(channel))

\* fetch_http_nonce, resolve_hns_ip: without an address, the name is left to the system.
AskAddress == Goes("address", IF "hns" \in site.roots THEN "hnsHttp" ELSE "http")

\* The page at that address; one with a status of error is tried by name once more, one
\* that cannot be fetched is not.
FetchByAddress ==
  LET status == site.served["hnsHttp"].status IN
  /\ check.step = "hnsHttp"
  /\ \/ status = "error" /\ Goes("hnsHttp", "http")
     \/ status = "ok" /\ Proves("hnsHttp")
     \/ status # "error" /\ ~Answers("hnsHttp", check.of) /\ Goes("hnsHttp", "failed")

\* The page by name, through the proxy of the network, is the last chance.
FetchPage ==
  LET proves == site.served["http"].status = "ok" /\ Answers("http", check.of) IN
  /\ check.step = "http"
  /\ (proves /\ Proves("http")) \/ (~proves /\ Goes("http", "failed"))

Check ==
  \/ AskUpstream \/ AskHandshake \/ AskAddress \/ FetchByAddress \/ FetchPage
  \/ \E channel \in Channels : TryFirst(channel)

-----------------------------------------------------------------------------
(* The domain.                                                              *)

\* What the domain becomes, while a check may be under way.
Changes(s) ==
  /\ Pay("changes")
  /\ s # site
  /\ site' = s
  /\ check' = IF Done(check.step) THEN check
              ELSE [check EXCEPT !.always = @ \cap Good(s, check.of),
                                 !.ever = @ \cup Some(s, check.of)]
  /\ UNCHANGED <<time, issued>>

\* Its operator publishes an answer, in the place of what there was or beside it; a
\* server fails, or works again.
Publish(channel) ==
  \E c \in issued :
    \E old \in IF channel \in TxtChannels THEN {{}, site.served[channel].answers} ELSE {{}} :
      Changes([site EXCEPT !.served[channel] = Page("ok", old \cup {c.id})])
Disturb(channel) ==
  \E status \in {"ok", "down", "error"} :
    Changes([site EXCEPT !.served[channel].status = status])
Resolve == \E roots \in SUBSET Roots : Changes([site EXCEPT !.roots = roots])

\* The channels that the domain's name has.
Offered == CASE effort.name = "onion" -> {"alpn", "http"}
             [] effort.name = "i2p" -> {"sam", "http"}
             [] effort.name = "plain" -> TxtChannels \cup {"hnsHttp", "http"}

Change ==
  \/ \E channel \in Offered : Publish(channel) \/ Disturb(channel)
  \/ effort.name = "plain" /\ Resolve

Tick == Pay("ticks") /\ time' = time + 1 /\ UNCHANGED <<issued, site, check>>

\* The process ends: a check is lost, a challenge is not.
Restart == check' = Idle /\ UNCHANGED <<time, issued, site, effort>>

Init ==
  /\ time = 0 /\ issued = {} /\ check = Idle /\ effort \in ProofBudgets
  /\ site = [roots |-> {"upstream"}, served |-> [c \in Channels |-> Page("ok", {})]]

Next ==
  \/ Challenge \/ Check \/ Change \/ Tick
  \/ \E id \in 1..Cardinality(issued) + 1, until \in Ends : Compose(id, until)
  \/ \E c \in issued : BeginCheck(c)

Spec == Init /\ [][Next]_vars

-----------------------------------------------------------------------------
(* Properties.                                                              *)

\* A check that succeeds has seen what the domain served, to this challenge and no
\* other, since it began; and Handshake proves no name that resolved upstream all along.
ProvedWasServed ==
  check.step = "proved" =>
    /\ check.via \in check.ever
    /\ check.via \in {"hnsTxt", "hnsHttp"} => "hns" \in check.ever /\ "upstream" \notin check.always

\* Somewhere all along: where the network of the domain looks at last, or first.
Reachable ==
  IF effort.name # "plain"
  THEN Entrance # "failed" /\ check.always \cap {"alpn", "sam", "http"} # {}
  ELSE \/ {"upstream", "http"} \subseteq check.always
       \/ /\ "hns" \in effort.support /\ {"hns", "hnsHttp"} \subseteq check.always
          /\ ("upstream" \notin check.ever \/ "http" \in check.always)

\* Whatever else changes or fails while the check goes on, and whatever is left of former
\* challenges: an answer that can be had all the time, where it resolves, is found.
SteadyAnswerFound == check.step = "failed" => ~Reachable

-----------------------------------------------------------------------------
(* What the documentation says, and the code does not do: see README.       *)

\* "Verification of domain control via DNS TXT".
TxtProves == check.step = "failed" => ~({"upstream", "txt"} \subseteq check.always)

\* "Handshake first, Quad9 second".
HandshakeFirst ==
  check.step = "proved" /\ check.via \in {"txt", "http"} /\ effort.name = "plain" =>
    ~("hns" \in effort.support /\ "hns" \in check.always)
=============================================================================
