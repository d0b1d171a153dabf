SPECIFICATION FairSpec
CONSTANTS
  p1 = p1
  p2 = p2
  Products = {p1}
  Units = {1}
  Users = {a, b}
  Keys = {k1}
  ProductOf <- OneProductOf
  ProductStatus <- AllActive
  QueueEnabled <- AllEnabled
  TTL = 2
  MaxLag = 1
  MaxTicket = 2
  None = None
PROPERTIES
  UnpaidHoldEnds
CHECK_DEADLOCK FALSE
