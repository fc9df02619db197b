SPECIFICATION FairSpec
CONSTANTS
  N = 2
  o1 = o1
  o2 = o2
  Ops = {o1, o2}
  Handles = {h1, h2}
  Null = Null
  NoOp = NoOp
  Call <- MCOtherCall
  Beyond = {"throw"}
INVARIANTS BuffersOutliveOperation RepeatsOnlyOwn
PROPERTIES UnpackBeforeUser KeptUntilRun CallsReturn
CHECK_DEADLOCK FALSE
