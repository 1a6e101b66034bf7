SPECIFICATION Spec
CONSTANTS
  h1 = h1
  h2 = h2
  h3 = h3
  k1 = k1
  k2 = k2
  None = None
  Hooks <- MCHooks
  Contents <- MCContents
  Codex <- MCCodex
  Mishaps = {"hook", "child", "link", "unreadable", "log"}
  MaxMishaps = 1
SYMMETRY MCSymmetry
INVARIANTS
  TypeOK
  SnapshotKept
  FailureKept
  NothingLeftBehind
