SPECIFICATION Spec
CONSTANTS
  honest = honest
  faulty = faulty
  chatty = chatty
  p1 = p1
  p2 = p2
  Originators <- AllOriginators
  Deliverable <- MixedDeliverable
  Frames <- OneFrame
  Ranges <- MCRanges
  MAX_STAGED_EVENTS = 2
  MaxLog = 5
INVARIANTS
  TypeOK
  SyncedChainGapFree
  StagedAhead
  HonestNeverAccused
  HonestCacheFresh
PROPERTIES
  UnflaggedIsLinked
  OnlyTruthReplaces
  LedgerRefined
