SPECIFICATION Spec
CONSTANTS
  a = a
  b = b
  c = c
  doc = doc
  r1 = r1
  r2 = r2
  Peers = {a, b, c}
  Files = {doc}
  Requests = {r1, r2}
  Owner <- OnePerPeer
  Size <- TwoWords
  Origin <- FilesOfA
  IsPrefixOf <- NoPrefixes
  UINT_RANGE = 16
  Capacity = 3
  MaxRestarts <- OnceB
  Absent = Absent
  NoName = NoName
INVARIANTS TypeOK ListedIsComplete NoMissingFile SentIsReceived
CHECK_DEADLOCK FALSE
