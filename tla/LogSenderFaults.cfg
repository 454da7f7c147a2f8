SPECIFICATION Spec
CONSTANTS
  MaxEvent = 3
  MaxBatch = 2
  MaxCrash = 1
  BatchSize = 2
  MaxRetries = 1
  Corrupt = {3}
  Poison = {3}
  Unreadable = {1}
  Faults = {"read", "spool", "dead_letter", "ack", "torn_meta"}
INVARIANTS NoEventLost
PROPERTIES SpoolKeepsBatches
