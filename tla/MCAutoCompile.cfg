SPECIFICATION Spec
CONSTANTS
  Logs = {1, 2}
  Tokens = {1, 2, 3, 4}
  RunIds = {1, 2, 3, 4, 5}
  None = None
  MaxJobs = 2
  MaxAttempts = 2
  Faults = {"sleep", "manual", "edit", "read", "abort", "session", "probe", "child", "owner", "watcher"}
  MaxFaults = 1
INVARIANTS
  TypeOK
  RunOfGeneration
PROPERTIES
  RequestHonoured
  SucceededIsCompiled
  HistoryKept
  WatchKept
