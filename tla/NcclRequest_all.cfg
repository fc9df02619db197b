SPECIFICATION Spec
CONSTANTS
  N = 2
  o1 = o1
  o2 = o2
  o3 = o3
  s1 = s1
  s2 = s2
  Ops = {o1, o3}
  Streams = {s1, s2}
  Events = {e1, e2}
  Null = Null
  NoOp = NoOp
  Call <- MCCall
  Beyond = {"many"}
INVARIANT WaitMeansDelivered
CHECK_DEADLOCK FALSE
