SPECIFICATION AfterFailuresSpec
CONSTANTS
  h1 = h1
  h2 = h2
  h3 = h3
  None = None
  Hooks <- MCHooks
  Mishaps = {"hook", "unreadable", "log"}
  MaxMishaps = 1
  MaxAcks = 2
  MaxRefreshes = 3
  MaxOverlap = 2
INVARIANTS
  ViewTypeOK
  NoFailureHidden
  NoFailureTwice
PROPERTIES
  AcknowledgedIsRecent
  LatestIsKept
