SPECIFICATION Spec
CONSTANTS
  honest = honest
  faulty = faulty
  chatty = chatty
  p1 = p1
  p2 = p2
  Originators <- MCOriginators
  Deliverable <- SyncDeliverable
  Frames <- NoFrames
  Ranges <- MCRanges
  MAX_STAGED_EVENTS = 2
  MaxLog = 8
INVARIANT LogReopens
