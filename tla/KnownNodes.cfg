SPECIFICATION FairSpec
CONSTANTS
  k1 = k1
  k2 = k2
  h1 = h1
  h2 = h2
  s1 = s1
  s2 = s2
  Keys = {k1, k2}
  Names = {"Rim"}
  NoName = ""
  Handlers = {h1, h2}
  Syncers = {s1}
  Round = Round
  Main = Main
  Free = Free
  MaxNodes = 2
INVARIANTS NoWildRead SyncInOrder OneCopyPerHandler
PROPERTIES ListIsPeerList RecordIsListed RoundReachesAll
