SPECIFICATION Spec
CONSTANTS
  alice = alice
  bob = bob
  c1 = c1
  c2 = c2
  apple = apple
  zebra = zebra
  tw = tw
  utw = utw
  Voter = alice
  Replicas <- MCReplicas
  Domains <- MCDomains
  Actions <- OneAction
  Times <- MCTimes
  Commands <- TwoCommands
  WINDOW = 0
  BASE = 12
  MAX_DIFFICULTY = 17
  Past <- MCPast
  MaxCasts = 3
  MaxFaults = 1
SYMMETRY Symmetry
INVARIANTS
  TypeOK
  StoresAreChains
  OneVotePerNumber
PROPERTIES
  InOrderAccepted
