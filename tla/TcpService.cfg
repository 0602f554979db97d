SPECIFICATION FairSpec
CONSTANTS
  c1 = c1
  c2 = c2
  Clients = {c1, c2}
  Values = {0, 1}
  Backlog = 1
  MaxSplits = 1
  Zero = Zero
  Nobody = Nobody
  Nothing = Nothing
INVARIANTS TypeOK NoCrossTalk WholeMessages
PROPERTY EveryoneAccepted
CHECK_DEADLOCK FALSE
