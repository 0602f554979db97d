SPECIFICATION Spec
CONSTANTS
  p1 = p1
  p2 = p2
  p3 = p3
  a1 = a1
  a2 = a2
  b2 = b2
  a3 = a3
  Peers = {p1, p2, p3}
  Addrs <- TwoAddrs
  Reaches <- TwoReaches
  From <- TwoFrom
  Nobody = Nobody
  MaxSessions = 2
  MaxExits = 1
  Capacity = 1
INVARIANTS TypeOK EntriesTrue Transferred
PROPERTY ListsGrow
CHECK_DEADLOCK FALSE
