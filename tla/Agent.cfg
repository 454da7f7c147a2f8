SPECIFICATION AgentSpec
CONSTANTS
  MaxEvent = 3
  MaxBatch = 2
  MaxCrash = 1
  BatchSize = 2
  MaxRetries = 0
  Corrupt = {2}
  Poison = {2}
  Unreadable = {1}
  Faults = {"spool", "dead_letter"}
  MaxLine = 2
INVARIANTS AgentTypeOK NoLineLost
PROPERTIES IsRelay
