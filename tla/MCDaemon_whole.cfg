SPECIFICATION Spec
CONSTANTS
  owner = owner
  peer = peer
  w1 = w1
  w2 = w2
  none = none
  ann = ann
  bob = bob
  me = me
  a1 = a1
  a2 = a2
  b1 = b1
  Owner = owner
  Workers <- MCWorkers
  Capable <- MCWorkers
  Stocked <- MCWorkers
  Shares <- MCShares
  Windows <- MCWindows
  Policies <- MCPolicies
  Elsewhere <- MCElsewhere
  Budgets <- MCBudgets
  Peer = peer
  Originators <- MCOriginators
  Starts <- MCStarts
  MAX_STAGED_EVENTS = 1
  VectorSize = 1
  Drills <- MCDrills
  SyncBudgets <- MCSyncBudgets
  Voters <- MCVoters
  Self = me
  Domains <- MCDomains
  Clean <- MCClean
  Homes <- MCHomes
  Scored <- MCScored
  GATE = 1
  K0 = 0
  SAMPLE = 1
  THRESHOLD = 70
  QueueSize = 1
  Ballots <- MCBallots
  VoteBudgets <- MCVoteBudgets
  Lifetime = 1
  Ends <- MCEnds
  ProofBudgets <- MCProofBudgets
  Scenarios <- MCScenarios
SYMMETRY Symmetry
INVARIANTS
  TypeOK
  WithinTerms
  FileFollows
  SuppressedHadAll
  IndexFollows
  SilencedWeighsNothing
  TrustAndConsensusAgree
  ProvedWasServed
  SteadyAnswerFound
PROPERTIES
  AnsweredLatest
  NothingOwed
CHECK_DEADLOCK FALSE
