SPECIFICATION TxSpec
CONSTANTS
  p1 = p1
  p2 = p2
  Sessions = {s1, s2}
  Products = {p1}
  Units = {1}
  Users = {a, b, c}
  Keys = {k1}
  ProductOf <- OneProductOf
  ProductStatus <- AllActive
  QueueEnabled <- AllEnabled
  TTL = 1
  MaxLag = 1
  MaxTicket = 3
  None = None
SYMMETRY SessionSymmetry
INVARIANTS
  WritesNeverWait
  OnlyLeaveMeetsCheckout
PROPERTIES
  CommitsAreAtomic
CHECK_DEADLOCK FALSE
