SPECIFICATION SessionSpec
CONSTANTS
  Users = {ann, bob}
  Ids = {waiting, ended}
  WatchedIds = {waiting}
  ann = ann
  bob = bob
  waiting = waiting
  ended = ended
  None = None
SYMMETRY Symmetry
INVARIANTS
  SessionTypeOK
  NotesStayPrivate
  ShownIsStored
  ClearedStaysCleared
CHECK_DEADLOCK FALSE
