SPECIFICATION DictSpec
CONSTANTS
  f1 = f1
  f2 = f2
  f3 = f3
  q1 = q1
  q2 = q2
  q3 = q3
  h1 = h1
  h2 = h2
  Files = {f1, f2, f3}
  Peers = {q1, q2, q3}
  Handlers = {h1, h2}
  MaxPairs = 4
  MaxNodes = 5
SYMMETRY Symmetry
INVARIANTS Inv KeysUnique SettledStays
CHECK_DEADLOCK FALSE
