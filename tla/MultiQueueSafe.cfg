SPECIFICATION Spec
CONSTANTS
  c1 = c1
  c2 = c2
  n1 = n1
  n2 = n2
  n3 = n3
  n4 = n4
  Sentinel = Sentinel
  Null = Null
  Consumers = {c1, c2}
  Producers = {c1, c2}
  Nodes = {n1, n2, n3, n4}
  MaxMsgs = 4
  MaxReserved = 1
SYMMETRY NodeSymmetry
INVARIANTS QueueSafe
PROPERTIES ImplementsLog
CHECK_DEADLOCK FALSE
