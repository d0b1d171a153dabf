SPECIFICATION FairSpec
CONSTANTS
  p1 = p1
  p2 = p2
  Products = {p1}
  Units = {1}
  Users = {a, b, c}
  Keys = {k1, k2, k3}
  ProductOf <- OneProductOf
  ProductStatus <- AllActive
  QueueEnabled <- AllEnabled
  TTL = 1
  MaxLag = 1
  MaxTicket = 3
  None = None
PROPERTIES
  UnusedRightEnds
  EveryoneAnswered
CHECK_DEADLOCK FALSE
