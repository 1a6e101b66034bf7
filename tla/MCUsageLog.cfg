SPECIFICATION Spec
CONSTANTS
  p1 = p1
  p2 = p2
  n1 = n1
  None = None
  Procs <- MCProcs
  Notes <- MCNotes
  MaxRows = 3
  MaxLines = 2
  MaxFaults = 2
SYMMETRY MCSymmetry
INVARIANTS
  UsageTypeOK
  LoggedOnce
  NothingQuarantined
  NothingForgotten
  SyncRepairs
