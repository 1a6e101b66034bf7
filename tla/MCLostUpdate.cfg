CONSTANTS
  c1 = c1
  c2 = c2
  p1 = p1
  p2 = p2
  NoWriter = NoWriter
  Captures <- MCCaptures
  Writers <- MCWriters
  RemoveMayFail = FALSE
  MaxMarks = 1
  MaxFaults = 2
SYMMETRY Symmetry
SPECIFICATION Spec
INVARIANTS UpdatesAreKept
