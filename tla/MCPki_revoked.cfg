SPECIFICATION Spec
CONSTANTS
  ada = ada
  ben = ben
  client = client
  c1 = c1
  c2 = c2
  apple = apple
  zebra = zebra
  none = none
  Owner = ada
  Peers <- MCPeers
  Outsider = client
  Domains <- MCDomains
  Permitted <- MCDomains
  Ttls <- OneTtl
  Strikes <- Unilateral
  Lists <- NoLists
  Commands <- OneCommand
  BASE = 12
  UNILATERAL = 4
  CertTtl = 1
  NoCatalog = none
  Before <- Public
  MaxTime = 1
  Budgets <- AuthorityOnly
  OfferIds <- MCOffers
  PublishedBefore <- OneOffer
PROPERTIES
  PurgedStayRevoked
CHECK_DEADLOCK FALSE
