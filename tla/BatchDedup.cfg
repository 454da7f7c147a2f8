SPECIFICATION DedupSpec
CONSTANTS
  Id = {a, b, c}
  TTL = 3
  MaxEntries = 2
  MaxErrors = 2
  Persist = TRUE
  JournalFails = TRUE
  MaxTime = 4
  MaxJournal = 3
  MaxLag = 1
SYMMETRY Symmetry
INVARIANTS DedupTypeOK WindowHolds UnmarkForgets
CHECK_DEADLOCK FALSE
