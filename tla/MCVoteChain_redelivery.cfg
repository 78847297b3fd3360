SPECIFICATION Spec
CONSTANTS
  alice = alice
  bob = bob
  c1 = c1
  c2 = c2
  apple = apple
  zebra = zebra
  tw = tw
  utw = utw
  Voter = alice
  Replicas <- MCReplicas
  Domains <- MCDomains
  Actions <- OneAction
  Times <- OneTime
  Commands <- OneCommand
  WINDOW = 0
  BASE = 12
  MAX_DIFFICULTY = 17
  Past <- NoPast
  MaxCasts = 1
  MaxFaults = 1
INVARIANTS
  HonestVoterNotFlagged
