SPECIFICATION FairSpec
CONSTANTS
  seed = seed
  a = a
  b = b
  ca = ca
  Nodes <- Pair
  SeedsOf <- PairSeeds
  Payloads <- MCPayloads
  Owner <- MCOwner
  TTL = 2
  PEER_TIMEOUT = 1
  SEEN_MAX_AGE = 1
  PING_SEQS = 2
  Timely = TRUE
  MaxStops = 1
  MaxCommands = 1
  MaxRecorded = 4
INVARIANTS
  TypeOK
PROPERTIES
  StayConnected
  DeadPeerForgotten
  PublicationDelivered
