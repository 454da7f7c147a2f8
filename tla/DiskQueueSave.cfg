SPECIFICATION Spec
CONSTANTS
  short = short
  long = long
  Payload <- MCPayload
  Size <- MCSize
  NoLimit = NoLimit
  NoMeta = NoMeta
  MaxItems = 2
  MaxBytes = 3
  SeqBound = 4
  Faults = {"save_meta", "unlink", "read"}
  Ops = {"get", "clear"}
INVARIANTS TypeOK
PROPERTIES SavedNotLost
