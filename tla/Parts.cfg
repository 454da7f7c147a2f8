SPECIFICATION PartsSpec
CONSTANTS
  Conf = {"c1","c2"}
  Entry = {"glob", "a", "j"}
  Path = {"p", "q"}
  Glob = {"glob"}
  Journald = {"j"}
  Locations <- MCLocations
  Kind <- MCKind
  Installed <- MCInstalled
  MaxEdit = 2
  MaxChange = 1
  ReaderKind = {"syslog","unit","regex","json"}
  UnitLines = 2
  Pattern <- MCPattern
  MaxText = 5
  MaxJson = 6
  MaxChunk = 2
  MaxBytes = 3
  MaxFiles = 3
  ByInterval = TRUE
  MaxLine = 5
  LineSize = {1, 4}
  SinkFaults = {"write", "unlink", "shift", "rename", "open"}
  MaxFailure = 2
  MaxExit = 1
  MaxEntry = 4
  Unfit = {4}
  MaxNotes = 2
  MaxRestart = 1
INVARIANTS PartsTypeOK NoOrphan MissingOnlyIfContended
INVARIANTS LinesSurviveCuts MessagesAreUnits ObjectsSurviveCuts
INVARIANTS CopiesInOrder OnlyOldestDropped FilesWithinLimit CursorSkipsNothing
PROPERTIES EventuallyAsConfigured EventuallyInserted
CHECK_DEADLOCK FALSE
