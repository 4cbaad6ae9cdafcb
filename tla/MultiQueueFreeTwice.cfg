SPECIFICATION Spec
CONSTANTS
  c1 = c1
  c2 = c2
  c3 = c3
  p1 = p1
  p2 = p2
  n1 = n1
  n2 = n2
  n3 = n3
  n4 = n4
  Sentinel = Sentinel
  Null = Null
  Consumers = {c1}
  Producers = {p1, p2}
  Nodes = {n1, n2, n3}
  MaxMsgs = 4
  MaxReserved = 2
INVARIANTS UniquelyOwned
CHECK_DEADLOCK FALSE
