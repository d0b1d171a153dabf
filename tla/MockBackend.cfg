SPECIFICATION MockSpec
CONSTANTS
  Users = {u1, u2, u3}
  Tabs = {t1}
  Keys = {k1, k2}
  u1 = u1
  u2 = u2
  u3 = u3
  t1 = t1
  k1 = k1
  k2 = k2
  None = None
  Stock = 2
  TTL = 1
  MaxNow = 2
  MaxTicket = 4
SYMMETRY Symmetry
INVARIANTS
  MockTypeOK
  StockCoversRights
  FirstComeFirstServed
  PositionsNeverFlatter
  NobodyWaitsBesideAUnit
CHECK_DEADLOCK FALSE
