SPECIFICATION Spec
CONSTANTS
  seed = seed
  a = a
  b = b
  ca = ca
  Nodes <- Pair
  SeedsOf <- PlainPairSeeds
  Payloads <- MCPayloads
  Owner <- MCOwner
  TTL = 2
  PEER_TIMEOUT = 1
  SEEN_MAX_AGE = 2
  PING_SEQS = 1
  Timely = FALSE
  MaxStops = 1
  MaxCommands = 1
  MaxRecorded = 2
PROPERTIES
  HandledOncePerWindow
