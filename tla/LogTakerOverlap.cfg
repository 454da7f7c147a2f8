SPECIFICATION Spec
CONSTANTS
  Id = {a, b}
  Handler = {h1, h2, h3}
  NoBatch = NoBatch
  TTL = 3
  MaxEntries = 3
  MaxErrors = 3
  Persist = TRUE
  JournalFails = FALSE
  MaxTime = 1
  MaxJournal = 4
  MaxLag = 1
  QueueSize = 1
  TailSize = 2
  Overlap = TRUE
  MaxRestart = 1
SYMMETRY Symmetry
INVARIANTS TypeOK AcceptedOnce
CHECK_DEADLOCK FALSE
