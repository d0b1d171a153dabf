SPECIFICATION Spec
CONSTANTS
  p1 = p1
  p2 = p2
  Products = {p1}
  Units = {1}
  Users = {a, b, c}
  Keys = {k1}
  ProductOf <- OneProductOf
  ProductStatus <- AllActive
  QueueEnabled <- AllEnabled
  TTL = 2
  MaxLag = 1
  MaxTicket = 3
  None = None
PROPERTIES
  PositionChangesAnnounced
CHECK_DEADLOCK FALSE
