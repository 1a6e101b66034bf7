CONSTANTS
  c1 = c1
  c2 = c2
  w1 = w1
  w2 = w2
  NoOwner = NoOwner
  Captures <- MCCaptures
  Legacy = {}
  Owners <- MCOwners
  MaxAttempts = 2
  LeaseTicks = 1
  MaxDelay = 0
  MaxAge = 0
  Concurrency <- TwoAndOne
  MaxFaults = 1
  LastDay = 2
  DbErrors = FALSE
SYMMETRY CaptureSymmetry
SPECIFICATION Spec
INVARIANTS WorkerTypeOK AtMostOneEntry SucceededIsWritten NoLostWakeup
PROPERTIES EntriesStay TimelineNeverGoesBack
