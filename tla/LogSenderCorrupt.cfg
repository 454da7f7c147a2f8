SPECIFICATION Spec
CONSTANTS
  MaxEvent = 2
  MaxBatch = 2
  MaxCrash = 0
  BatchSize = 2
  MaxRetries = 0
  Corrupt = {1}
  Poison = {}
  Unreadable = {}
  Faults = {}
INVARIANTS CorruptStaysQueued
