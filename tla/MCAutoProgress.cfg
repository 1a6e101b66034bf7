SPECIFICATION FairSpec
CONSTANTS
  Logs = {1}
  Tokens = {1, 2, 3, 4}
  RunIds = {1, 2, 3, 4, 5}
  None = None
  MaxJobs = 2
  MaxAttempts = 2
  Faults = {"owner", "child", "session"}
  MaxFaults = 1
PROPERTIES
  Compiles
