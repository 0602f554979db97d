SPECIFICATION Spec
CONSTANTS
  a = a
  b = b
  c = c
  doc = doc
  r1 = r1
  r2 = r2
  Peers = {a, b}
  Files = {doc}
  Requests = {r1, r2}
  Owner <- AllOfB
  Size <- TwoWords
  Origin <- FilesOfA
  IsPrefixOf <- NoPrefixes
  UINT_RANGE = 16
  Capacity = 1
  MaxRestarts <- Never
  Absent = Absent
  NoName = NoName
INVARIANT ListedIsComplete
CHECK_DEADLOCK FALSE
