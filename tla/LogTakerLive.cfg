SPECIFICATION FairSpec
CONSTANTS
  Id = {a, b, c}
  Handler = {h1, h2}
  NoBatch = NoBatch
  TTL = 3
  MaxEntries = 3
  MaxErrors = 3
  Persist = FALSE
  JournalFails = FALSE
  MaxTime = 0
  MaxJournal = 0
  MaxLag = 1
  QueueSize = 1
  TailSize = 2
  Overlap = FALSE
  MaxRestart = 0
INVARIANTS AnsweredWasAccepted TailHoldsAccepted
PROPERTIES EventuallyAccepted
CHECK_DEADLOCK FALSE
