SPECIFICATION Spec
CONSTANTS
  N = 3
  o1 = o1
  o2 = o2
  Ops = {o1, o2}
  Handles = {h1, h2}
  Null = Null
  NoOp = NoOp
  Call <- MCCall
  Beyond = {"stale"}
INVARIANT NoFreedHandle
CHECK_DEADLOCK FALSE
