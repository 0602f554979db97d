SPECIFICATION FairSpec
CONSTANTS
  a1 = a1
  a2 = a2
  t1 = t1
  t2 = t2
  t3 = t3
  Addrs = {a1, a2}
  Threads = {t1, t2, t3}
  MAX_ACTIVE_CONNECTIONS_NUMBER = 1
  Nobody = Nobody
INVARIANTS Inv NeverTooMany
PROPERTIES BannedStays BanIsCarriedOut
