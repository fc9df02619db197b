SPECIFICATION Spec
CONSTANTS
  w = w
  u = u
  c1 = c1
  c2 = c2
  c3 = c3
  Ranks <- MCRanks
  a = a
  b = b
  Objects <- MCObjects
  World = w
  User = u
  Made <- MCMade
  Splits <- MCSplits
  Left <- MCAnyLeft
INVARIANTS ExactlyOneOwner
CHECK_DEADLOCK FALSE
