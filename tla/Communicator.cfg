SPECIFICATION FairSpec
CONSTANTS
  w = w
  u = u
  c1 = c1
  c2 = c2
  c3 = c3
  Ranks <- MCRanks
  a = a
  b = b
  Objects <- MCObjects
  World = w
  User = u
  Made <- MCMade
  Splits <- MCSplits
  Left <- MCLeft
INVARIANTS TypeOK OneOwner BorrowedStays CacheCoherent
PROPERTIES DuplicateKeepsRank CallsReturn
CHECK_DEADLOCK FALSE
