SPECIFICATION FairSpec
CONSTANTS
  k1 = k1
  k2 = k2
  n1 = n1
  n2 = n2
  n3 = n3
  h1 = h1
  s1 = s1
  s2 = s2
  Keys = {k1, k2}
  Cells = {n1, n2}
  NULL = NULL
  Handlers = {h1}
  Syncers = {s1}
  Round = Round
  Nobody = Nobody
  Mortal = {k1}
  Named = {TRUE}
PROPERTY GoneIsDeleted
CHECK_DEADLOCK FALSE
