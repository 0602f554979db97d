SPECIFICATION FairSpec
CONSTANTS
  c1 = c1
  c2 = c2
  v1 = v1
  v2 = v2
  Clients = {c1, c2}
  Values = {v1, v2}
  THREAD_COUNTS = 2
  MaxFailures = 2
  MaxQueue = 2
  Lossy = TRUE
  MaxCopies = 1
  Nothing = Nothing
INVARIANTS SlotsAccounted NoCrossTalk AnswersLatest
PROPERTIES RequestAnswered ServesOnOneSlot
