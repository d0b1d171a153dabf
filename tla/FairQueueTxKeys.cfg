SPECIFICATION TxFairSpec
CONSTANTS
  p1 = p1
  p2 = p2
  Sessions = {s1, s2}
  Products = {p1, p2}
  Units = {1, 2}
  Users = {a}
  Keys = {k1}
  ProductOf <- TwoProductOf
  ProductStatus <- AllActive
  QueueEnabled <- AllEnabled
  TTL = 1
  MaxLag = 0
  MaxTicket = 1
  None = None
PROPERTIES
  OneProductPerStep
  TransactionsEnd
  CommitsAreAtomic
CHECK_DEADLOCK FALSE
