SPECIFICATION Spec
CONSTANTS
  Id = {a, b}
  Handler = {h1, h2}
  NoBatch = NoBatch
  TTL = 3
  MaxEntries = 3
  MaxErrors = 3
  Persist = FALSE
  JournalFails = FALSE
  MaxTime = 0
  MaxJournal = 0
  MaxLag = 1
  QueueSize = 1
  TailSize = 2
  Overlap = TRUE
  MaxRestart = 0
INVARIANTS RetryNotSwallowed
CHECK_DEADLOCK FALSE
