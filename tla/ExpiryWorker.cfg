SPECIFICATION WorkerSpec
CONSTANTS
  Products = {p1}
  Units = {1, 2}
  Users = {a, b}
  Keys = {k1}
  ProductOf <- OneProductOf
  ProductStatus <- AllActive
  QueueEnabled <- AllEnabled
  TTL = 1
  MaxLag = 1
  MaxTicket = 2
  None = None
  Workers = {w1, w2}
  BatchSize = 2
PROPERTIES
  DeliversExpiry
  LoopEnds
CHECK_DEADLOCK FALSE
