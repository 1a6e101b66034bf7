CONSTANTS
  c1 = c1
  c2 = c2
  o1 = o1
  i1 = i1
  i2 = i2
  NoOwner = NoOwner
  Captures <- MCCaptures
  Legacy <- MCLegacy
  Owners <- MCOwners
  MaxAttempts = 2
  LeaseTicks = 1
  MaxDelay = 1
  MaxAge = 0
  Imports <- MCImports
  Wanted <- MCWanted
  Processed <- MCProcessed
  MaxCost = 1
  Cost <- MCCost
  ReservationTicks = 1
SYMMETRY Symmetry
SPECIFICATION ImportSpec
INVARIANTS ImportTypeOK RunMirrorsJob TotalIsExact LimitKept
PROPERTIES TimelineNeverGoesBack ImplementsLifecycle EndsReserveNothing
