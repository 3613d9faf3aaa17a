SPECIFICATION Spec
CONSTANTS
  Workers = {w1}
  p1 = p1
  p2 = p2
  p3 = p3
  p4 = p4
  q1 = q1
  q2 = q2
  a = a
  b = b
  Pos <- MCPos
  Plat <- MCPlat
  AutoPairs <- MCAutoPairs
  Refs <- MCRefs
  Ref <- MCRef
  Status <- MCStatus
  Amount <- MCAmount
  Charged <- MCCharged
  Rate <- MCRate
  TolerancePct = 10
  ToleranceFloor = 100
  MaxCalls = 4
  MaxMatchings = 2
  None = None
PROPERTIES
  DetectsActiveOnly
CHECK_DEADLOCK FALSE
