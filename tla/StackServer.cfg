SPECIFICATION FairSpec
CONSTANTS
  n1 = n1
  n2 = n2
  n3 = n3
  n4 = n4
  Values = {1, 2}
  Nodes = {n1, n2, n3, n4}
  NULL = NULL
  NoStack = NoStack
  Garbage = Garbage
INVARIANTS TypeOK Lockstep StackShape
PROPERTIES IsStackService CommandAnswered
