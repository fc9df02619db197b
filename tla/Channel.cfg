SPECIFICATION FairSpec
CONSTANTS
  Ranks = {0, 1}
  Dst <- RingDst
  Src <- RingSrc
  Pattern <- TwoEach
  Rounds = 2
  Objects = {a, b}
INVARIANTS TypeOK QuietBetweenRounds OneOwner
PROPERTIES AllRoundsEnd KeepsExchange
CHECK_DEADLOCK FALSE
