SPECIFICATION FairSpec
CONSTANTS
  MaxFile = 2
  Lengths <- TwoLines
  MaxPut = 3
  MaxStop = 1
  MaxChange = 1
  MaxLost = 1
  Faults = {"full", "save"}
  NoState = NoState
CHECK_DEADLOCK FALSE
INVARIANTS TypeOK NothingElseLost PutOnce
PROPERTIES EventuallyPut
