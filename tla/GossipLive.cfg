SPECIFICATION FairSpec
CONSTANTS
  p1 = p1
  p2 = p2
  p3 = p3
  a1 = a1
  a2 = a2
  b2 = b2
  a3 = a3
  Peers = {p1, p2, p3}
  Addrs = {p1, p2, p3}
  Reaches <- OneReaches
  From <- OneFrom
  Nobody = Nobody
  MaxSessions = 1
  MaxExits = 0
  Capacity = 2
PROPERTY Converges
CHECK_DEADLOCK FALSE
