SPECIFICATION OrderSpec
CONSTANTS
  None = None
  TTL = 2
  MaxNow = 2
  MaxEntries = 1
INVARIANTS
  SaleIsServers
CHECK_DEADLOCK FALSE
