SPECIFICATION Spec
CONSTANTS
  p1 = p1
  p2 = p2
  Products = {p1}
  Units = {1, 2}
  Users = {a, b, c}
  Keys = {k1, k2}
  ProductOf <- OneProductOf
  ProductStatus <- AllActive
  QueueEnabled <- AllEnabled
  TTL = 2
  MaxLag = 1
  MaxTicket = 4
  None = None
SYMMETRY UserAndKeySymmetry
INVARIANTS
  TypeOK
  UnitsMatchGrants
  GrantsFollowEntries
  NoIdleUnit
  NoOvertaking
  OneActiveEntry
  TicketsFresh
  PaidOnce
  NobodyWaitsForNothing
PROPERTIES
  LegalTransitions
  ChangesAnnounced
  DeadlineRespected
  ImplementsSale
CHECK_DEADLOCK FALSE
