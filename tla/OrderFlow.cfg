SPECIFICATION OrderSpec
CONSTANTS
  None = None
  TTL = 2
  MaxNow = 3
  MaxEntries = 2
INVARIANTS
  OrderTypeOK
  ShownIsRecorded
  RetryIsAnswered
PROPERTIES
  DeadRightIsLeft
CHECK_DEADLOCK FALSE
