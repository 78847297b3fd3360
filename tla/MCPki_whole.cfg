SPECIFICATION Spec
CONSTANTS
  ada = ada
  ben = ben
  client = client
  c1 = c1
  c2 = c2
  apple = apple
  zebra = zebra
  none = none
  Owner = ada
  Peers <- MCPeers
  Outsider = client
  Domains <- MCDomains
  Permitted <- OneDomain
  Ttls <- MCTtls
  Strikes <- Unilateral
  Lists <- EmptyList
  Commands <- MCCommands
  BASE = 12
  UNILATERAL = 4
  CertTtl = 1
  NoCatalog = none
  Before <- Public
  MaxTime = 1
  Budgets <- MCBudgets
  OfferIds <- MCOffers
  PublishedBefore <- OneOffer
INVARIANTS
  TypeOK
  PurgesAreChains
  ProofsAreChains
  CatalogAgrees
  KeysAgree
  ProofNeverAhead
  FilesFollow
PROPERTIES
  PurgesReplicated
  NumbersNeverFall
  StrikesStand
SYMMETRY Symmetry
CHECK_DEADLOCK FALSE
