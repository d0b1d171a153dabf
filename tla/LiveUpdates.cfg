SPECIFICATION LiveSpec
CONSTANTS
  None = None
  BufferSize = 1
  WireRoom = 1
INVARIANTS
  StaleIsTemporary
  NeverGivesUp
  WireIsReadWhole
PROPERTIES
  CatchesUp
CHECK_DEADLOCK FALSE
