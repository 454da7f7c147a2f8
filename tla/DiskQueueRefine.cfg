SPECIFICATION Spec
CONSTANTS
  short = short
  long = long
  Payload <- MCPayload
  Size <- MCSize
  NoLimit = NoLimit
  NoMeta = NoMeta
  MaxItems = 2
  MaxBytes = 3
  SeqBound = 6
  Faults = {"meta_lost", "read"}
  Ops = {"get"}
INVARIANTS NothingLost LimitsHold
PROPERTIES SeqsIncrease IsDurableQueue
