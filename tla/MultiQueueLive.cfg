SPECIFICATION FairSpec
CONSTANTS
  c1 = c1
  c2 = c2
  c3 = c3
  p1 = p1
  p2 = p2
  n1 = n1
  n2 = n2
  n3 = n3
  n4 = n4
  Sentinel = Sentinel
  Null = Null
  Consumers = {c1, c2}
  Producers = {c1, c2}
  Nodes = {n1, n2, n3}
  MaxMsgs = 3
  MaxReserved = 0
PROPERTIES QueueLive
CHECK_DEADLOCK FALSE
