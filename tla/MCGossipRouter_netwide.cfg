SPECIFICATION FairSpec
CONSTANTS
  seed = seed
  a = a
  b = b
  ca = ca
  Nodes <- Star
  SeedsOf <- PlainStarSeeds
  Payloads <- MCPayloads
  Owner <- MCOwner
  TTL = 2
  PEER_TIMEOUT = 1
  SEEN_MAX_AGE = 1
  PING_SEQS = 1
  Timely = TRUE
  MaxStops = 0
  MaxCommands = 1
  MaxRecorded = 4
PROPERTIES
  NetworkWide
