SPECIFICATION FairSpec
CONSTANTS
  MaxEvent = 3
  MaxBatch = 3
  MaxCrash = 1
  BatchSize = 2
  MaxRetries = 0
  Corrupt = {2}
  Poison = {}
  Unreadable = {}
  Faults = {"unlink"}
INVARIANTS NoEventLost NothingForgotten
PROPERTIES NoRepacking EventuallyHandled
