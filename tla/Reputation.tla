----------------------------- MODULE Reputation -----------------------------
(***************************************************************************)
(* What one node makes of the votes it has accepted: the index of who      *)
(* votes like whom and the penalties of the background worker              *)
(* (crypto/vote/cluster), the score of a voter (crypto/vote/ponderation,   *)
(* lazy), what the voters together think of a domain (lazy, consensus),    *)
(* and the scores in the phonebook (net/phonebook.rs).                     *)
(*                                                                         *)
(* Which votes are accepted is the matter of VoteChain.  A vote keeps the  *)
(* domain as it was written, and domains may be written in capitals: the   *)
(* index and every look-up clean the spelling, the votes do not.  Domains  *)
(* stand for spellings, numbered in the order of the strings.              *)
(*                                                                         *)
(* What a score is made of is left open, but for what voids it.            *)
(***************************************************************************)
EXTENDS Integers, FiniteSets, Sequences, FiniteSetsExt

CONSTANTS
  Voters,    \* keys that vote
  Self,      \* the node's own key, which its phonebook never has
  Domains,   \* the spellings of domains
  Clean,     \* trim and to_ascii_lowercase, of each
  Homes,     \* the addresses a key may be at
  Scored,    \* the scores that a voter may be given
  GATE,      \* MIN_CO_VOTED_SIGNIFICANCE_GATE: 3
  K0,        \* BAYESIAN_SHRINKAGE_K0: 5
  SAMPLE,    \* MAX_STRATIFIED_SAMPLE_SIZE: 64
  THRESHOLD, \* DEFAULT_CLUSTER_SIMILARITY_THRESHOLD: 70 of 100
  QueueSize, \* capacity of the worker's channel: 64
  Ballots,   \* the votes that the node may have when it starts
  VoteBudgets \* bounds: how many votes, faults, greetings and restarts there are

VARIABLES
  votes,     \* vote_store: the accepted votes of a voter, by their numbers
  index,     \* cluster_index: what a voter says of a domain, by its clean spelling
  book,      \* the phonebook, by address
  exposed,   \* the voters with an equivocation proof in the log
  task,      \* what the listener, an operator's command and the worker are at
  queue,     \* the channel of the worker
  credit,    \* how much there may still be of each kind
  silenced,  \* history: the voters whose weight was set to zero for good
  reopened   \* history: has the node been started with votes, or again?

vars == <<votes, index, book, exposed, task, queue, credit, silenced, reopened>>

Actions == {"tw", "utw"}
Addresses == UNION {Homes[v] : v \in Voters}
Tasks == {"listener", "command", "worker"}
Idle == [op |-> "idle"]
NoEntry == [key |-> "none"]

ReputationAssumption ==
  /\ Self \in Voters /\ Homes[Self] = {}
  /\ IsFiniteSet(Voters) /\ IsFiniteSet(Domains) /\ Domains \subseteq Nat
  /\ \A d \in Domains : Clean[d] \in Domains /\ Clean[Clean[d]] = Clean[d]
  /\ Scored \subseteq 0..100
  /\ GATE \in Nat \ {0} /\ SAMPLE \in Nat \ {0}
  /\ K0 \in Nat /\ THRESHOLD \in 0..100 /\ QueueSize \in Nat
  /\ Ballots \subseteq [Voters -> Seq([domain : Domains, action : Actions])]
  /\ \A b \in VoteBudgets :
       {b.votes, b.faults, b.greetings, b.restarts} \subseteq Nat

Charge(kind) == credit[kind] > 0 /\ credit' = [credit EXCEPT ![kind] = @ - 1]
Least(a, b) == IF a < b THEN a ELSE b
Clamp(x, low, high) == IF x \in low..high THEN x ELSE IF x < low THEN low ELSE high
Names == {Clean[d] : d \in Domains}

-----------------------------------------------------------------------------
(* The phonebook.                                                           *)

EntriesOf(v) == {a \in Addresses : book[a] # NoEntry /\ book[a].key = v}

\* get_peer_ponderation: the score in one of the key's entries, 50 if there is none.
Scores(v) == IF EntriesOf(v) = {} THEN {50} ELSE {book[a].score : a \in EntriesOf(v)}

\* is_peer_headless
MayBeHeadless(v) == {book[a].headless : a \in EntriesOf(v)}
                      \cup IF EntriesOf(v) = {} THEN {FALSE} ELSE {}

\* Mutant: the first entry of the key is updated.
UpdatedFirst(v, score) ==
  [a \in Addresses |-> IF EntriesOf(v) # {} /\ a = CHOOSE x \in EntriesOf(v) : TRUE
                       THEN [book[a] EXCEPT !.score = Least(score, 100)] ELSE book[a]]

\* update_peer_ponderation: every entry of the key.
Updated(v, score) ==
  [a \in Addresses |-> IF a \in EntriesOf(v)
                       THEN [book[a] EXCEPT !.score = Least(score, 100)] ELSE book[a]]

-----------------------------------------------------------------------------
(* Domains.                                                                 *)

\* get_active_vote_for_originator_and_domain, list_active_domain_votes: the active vote of
\* a voter on a domain is the last one, under that very spelling.
Cast(v, d) == {i \in DOMAIN votes[v] : votes[v][i].domain = d}
ActiveVote(v, d) == IF Cast(v, d) = {} THEN "none" ELSE votes[v][Max(Cast(v, d))].action
VotedOn(v) == {votes[v][i].domain : i \in DOMAIN votes[v]}

\* A domain that is asked for is cleaned, the votes are not.
Saying(d, action) == {v \in Voters : ActiveVote(v, Clean[d]) = action}

\* The weights that the voters may have now.
Weights ==
  {w \in [Voters -> UNION {Scores(v) : v \in Voters}] : \A v \in Voters : w[v] \in Scores(v)}

WeightOf(weight, d, action) == MapThenSumSet(LAMBDA v : weight[v], Saying(d, action))

\* evaluate_domain_trust_with_weights: the score in hundredths.
TrustScore(weight, d) ==
  LET tw == WeightOf(weight, d, "tw")
      all == tw + WeightOf(weight, d, "utw")
  IN  IF all = 0 THEN 5000 ELSE (20000 * tw + all) \div (2 * all)

\* Mutant: heads are counted, and weights divided by.
SidesByHead(weight, d) ==
  [tw |-> Cardinality(Saying(d, "tw")), utw |-> Cardinality(Saying(d, "utw"))]

\* DomainConsensus::from_weighted_votes: weights, or heads if they have no weight.
Sides(weight, d) ==
  LET w(action) == WeightOf(weight, d, action) IN
  IF w("tw") + w("utw") > 0 THEN [tw |-> w("tw"), utw |-> w("utw")]
  ELSE [tw |-> Cardinality(Saying(d, "tw")), utw |-> Cardinality(Saying(d, "utw"))]

\* Its direction.
Direction(weight, d) ==
  LET s == Sides(weight, d) IN
  IF s.tw > s.utw THEN "tw" ELSE IF s.utw > s.tw THEN "utw" ELSE "undecided"

-----------------------------------------------------------------------------
(* The score of a voter.                                                    *)

\* compute_score, of headless peers and of equivocators, and of others.
FinalScores(v, headless) == IF headless \/ v \in exposed THEN {0} ELSE Scored

-----------------------------------------------------------------------------
(* The index, and the penalties of a job.                                   *)

\* Mutant: what is in the index stays there.
IndexedOnce(v, d, action) ==
  [index EXCEPT ![v][Clean[d]] = IF @ = "none" THEN action ELSE @]

\* insert_or_update_vote
Indexed(v, d, action) == [index EXCEPT ![v][Clean[d]] = action]

\* The domains that both have voted on, and those that are looked at, in order.
CoVoted(u, v) == {d \in Names : index[u][d] # "none" /\ index[v][d] # "none"}
Sampled(u, v) ==
  {d \in CoVoted(u, v) : Cardinality({e \in CoVoted(u, v) : e < d}) < SAMPLE}
Matches(u, v) == {d \in Sampled(u, v) : index[u][d] = index[v][d]}

\* compute_pairwise_similarity: matches / (n + K0), when there are enough domains.
Similar(u, v) ==
  /\ Cardinality(CoVoted(u, v)) >= GATE
  /\ 100 * Cardinality(Matches(u, v)) >= THRESHOLD * (Cardinality(Sampled(u, v)) + K0)

\* The damped penalty, rounded: half of the demotion times the similarity.
Penalty(u, v, demotion) ==
  LET n == Cardinality(Sampled(u, v)) + K0
  IN  (Cardinality(Matches(u, v)) * demotion + n) \div (2 * n)

\* process_cluster_job: who is to be punished, and how much.
Punished(job) ==
  {[voter |-> v, penalty |-> Penalty(job.trigger, v, job.demotion)] :
     v \in {x \in Voters \ {job.trigger} :
              /\ index[x][Clean[job.domain]] # "none" /\ Similar(job.trigger, x)
              /\ Penalty(job.trigger, x, job.demotion) > 0}}

Punish(job) == [op |-> "punish", todo |-> Punished(job), got |-> {}]

-----------------------------------------------------------------------------
(* Votes.                                                                   *)

Turn(t, state) == task' = [task EXCEPT ![t] = state]
Reader(v) == IF v = Self THEN "command" ELSE "listener"

\* Votes on the network reach the listener, the node's own come from a command, which
\* cleans the spelling.  The insert sets vote and index under one lock, and waits for the
\* lock of the index, which a job holds until it is done.
Accept(v, d, action) ==
  /\ task[Reader(v)] = Idle
  /\ \A t \in Tasks : task[t].op # "punish"
  /\ Charge("votes")
  /\ FALSE \in MayBeHeadless(v)
  /\ votes' = [votes EXCEPT ![v] = Append(@, [domain |-> d, action |-> action])]
  /\ index' = Indexed(v, d, action)
  /\ Turn(Reader(v), [op |-> "inserted", voter |-> v])
  /\ UNCHANGED <<book, exposed, queue, silenced, reopened>>

\* compute_and_update_voter_ponderation: all that it reads, of which the score that was
\* and what voids the new one are kept...
Rate(t) ==
  /\ task[t].op = "inserted"
  /\ LET v == task[t].voter IN
     \E prior \in Scores(v), headless \in MayBeHeadless(v) :
       \E score \in FinalScores(v, headless) :
         Turn(t, [op |-> "rated", voter |-> v, prior |-> prior, score |-> score,
                  domain |-> votes[v][Len(votes[v])].domain,
                  void |-> headless \/ v \in exposed])
  /\ UNCHANGED <<votes, index, book, exposed, queue, credit, silenced, reopened>>

\* ...and what it writes: the score, and a job for the worker if it fell by five or more
\* (MIN_DEMOTION_TRIGGER_DELTA).  dispatch_cluster_job does the job at once if the queue
\* is full.
Write(t) ==
  LET r == task[t]
      job == [trigger |-> r.voter, domain |-> r.domain, demotion |-> r.prior - r.score]
      undone == \E u \in Tasks : task[u].op = "punish" /\ \E g \in task[u].got : g.voter = r.voter
  IN
  /\ r.op = "rated"
  /\ book' = Updated(r.voter, r.score)
  /\ IF job.demotion < 5 THEN Turn(t, Idle) /\ UNCHANGED queue
     ELSE IF Len(queue) < QueueSize THEN Turn(t, Idle) /\ queue' = Append(queue, job)
     ELSE Turn(t, Punish(job)) /\ UNCHANGED queue
  /\ silenced' = IF r.void /\ ~undone THEN silenced \cup {r.voter} ELSE silenced \ {r.voter}
  /\ UNCHANGED <<votes, index, exposed, credit, reopened>>

-----------------------------------------------------------------------------
(* Penalties.                                                               *)

\* The worker takes the oldest job.
TakeJob ==
  /\ task["worker"] = Idle /\ queue # <<>>
  /\ Turn("worker", Punish(Head(queue)))
  /\ queue' = Tail(queue)
  /\ UNCHANGED <<votes, index, book, exposed, credit, silenced, reopened>>

\* A score is read in one scope of the phonebook's lock...
ReadScore(t) ==
  /\ task[t].op = "punish" /\ task[t].got = {}
  /\ \E x \in task[t].todo : \E prior \in Scores(x.voter) :
       Turn(t, [op |-> "punish", todo |-> task[t].todo \ {x},
                got |-> {[voter |-> x.voter, score |-> Clamp(prior - x.penalty, 0, 100)]}])
  /\ UNCHANGED <<votes, index, book, exposed, queue, credit, silenced, reopened>>

\* ...and written in another.
WriteScore(t) ==
  /\ task[t].op = "punish"
  /\ \E g \in task[t].got : book' = Updated(g.voter, g.score)
  /\ Turn(t, [task[t] EXCEPT !.got = {}])
  /\ UNCHANGED <<votes, index, exposed, queue, credit, silenced, reopened>>

EndJob(t) ==
  /\ task[t] = [op |-> "punish", todo |-> {}, got |-> {}]
  /\ Turn(t, Idle)
  /\ UNCHANGED <<votes, index, book, exposed, queue, credit, silenced, reopened>>

-----------------------------------------------------------------------------

\* A handshake or an announcement: upsert_peer_with_role puts a new entry, with a score
\* of 50, in the place of the one at that address.
Upsert(v, a, headless) ==
  /\ task["listener"] = Idle
  /\ Charge("greetings")
  /\ book' = [book EXCEPT ![a] = [key |-> v, score |-> 50, headless |-> headless]]
  /\ silenced' = silenced \ {v}
  /\ UNCHANGED <<votes, index, exposed, task, queue, reopened>>

\* The log has recorded an equivocation proof.
Expose(v) ==
  /\ v \notin exposed \cup {Self} /\ task["listener"] = Idle
  /\ Charge("faults")
  /\ exposed' = exposed \cup {v}
  /\ UNCHANGED <<votes, index, book, task, queue, silenced, reopened>>

\* The votes of a voter on a domain, under any spelling.
Under(v, name) == {i \in DOMAIN votes[v] : Clean[votes[v][i].domain] = name}

\* When the node starts, the index is filled from the votes in no order: of several votes of
\* one voter on a domain any may be the last.
Filled(i) ==
  /\ i \in [Voters -> [Names -> Actions \cup {"none"}]]
  /\ \A v \in Voters, d \in Names :
       IF Under(v, d) = {} THEN i[v][d] = "none"
       ELSE \E k \in Under(v, d) : i[v][d] = votes[v][k].action

\* The node stops and starts.
Reopen ==
  /\ Charge("restarts")
  /\ Filled(index')
  /\ task' = [t \in Tasks |-> Idle] /\ queue' = <<>>
  /\ reopened' = TRUE
  /\ UNCHANGED <<votes, book, exposed, silenced>>

Init ==
  /\ votes \in Ballots /\ Filled(index)
  /\ book = [a \in Addresses |-> NoEntry]
  /\ exposed = {}
  /\ task = [t \in Tasks |-> Idle] /\ queue = <<>>
  /\ credit \in VoteBudgets /\ silenced = {}
  /\ reopened = (\E v \in Voters : votes[v] # <<>>)

\* What the listener takes up.
Receive ==
  \E v \in Voters :
    \/ \E d \in Domains, action \in Actions : v # Self /\ Accept(v, d, action)
    \/ \E a \in Homes[v], headless \in BOOLEAN : Upsert(v, a, headless)
    \/ Expose(v)

\* What goes on beside it, and what it has begun.
Work ==
  \/ \E d \in Names, action \in Actions : Accept(Self, d, action)
  \/ \E t \in Tasks : Rate(t) \/ Write(t) \/ ReadScore(t) \/ WriteScore(t) \/ EndJob(t)
  \/ TakeJob

Next == Receive \/ Work \/ Reopen

Spec == Init /\ [][Next]_vars

-----------------------------------------------------------------------------
(* Properties.                                                              *)

\* Scores stay within 0 and 100 however often they are lowered; an insert never changes
\* the index under a job, so that who is to be punished did co-vote with the trigger.
TypeOK ==
  /\ \A a \in Addresses : book[a] # NoEntry => book[a].score \in 0..100
  /\ Len(queue) <= QueueSize
  /\ \A t \in Tasks : task[t].op = "punish" =>
       \A x \in task[t].todo : VotedOn(x.voter) # {} /\ x.penalty \in 1..50

\* The index tells the last vote of each voter on each domain, under whatever spellings it
\* was voted on, in which order and by whom, until the node is started from its files;
\* and even then a vote of that voter on that domain.
IndexFollows ==
  \A v \in Voters, d \in Names :
    /\ ~reopened /\ Under(v, d) # {} => index[v][d] = votes[v][Max(Under(v, d))].action
    /\ index[v][d] = "none" <=> Under(v, d) = {}

\* A voter rated as headless or as an equivocator weighs nothing from then on, at any of
\* its addresses, across penalties, the ratings of others and restarts, unless a
\* handshake renews its entry or a penalty was being subtracted at that moment.
SilencedWeighsNothing == \A v \in silenced \ {Self} : EntriesOf(v) # {} => Scores(v) = {0}

\* What a domain's voters think is computed twice, as its trust score and as the
\* consensus that rates them.  As long as a vote has weight the two never take sides
\* against each other; and the score is even where the consensus is not only if the
\* difference is lost in its rounding to hundredths, which takes more than a hundred
\* voters of the greatest weight.
TrustAndConsensusAgree ==
  \A w \in Weights, d \in Domains :
    LET trust == TrustScore(w, d)
        all == WeightOf(w, d, "tw") + WeightOf(w, d, "utw")
    IN
    all > 0 =>
      /\ trust > 5000 => Direction(w, d) = "tw"
      /\ trust < 5000 => Direction(w, d) = "utw"
      /\ trust = 5000 /\ all <= 10000 => Direction(w, d) = "undecided"

-----------------------------------------------------------------------------
(* What the documentation says, and the code does not do: see README.       *)

\* "Byzantine Equivocation permanently zeros voting weight".
EquivocatorWeighsNothing ==
  [][\A v \in exposed : Scores(v) = {0} => Scores(v)' = {0}]_vars

\* "Inverted in-memory co-voting index mapping domains to active voter decisions".
IndexOfActiveVotes ==
  \A v \in Voters, d \in Names :
    Under(v, d) # {} => index[v][d] = votes[v][Max(Under(v, d))].action
=============================================================================
