SPECIFICATION Spec
CONSTANTS
  Workers = {w1, w2}
  p1 = p1
  p2 = p2
  q1 = q1
  q2 = q2
  Pos <- MCPos
  Plat <- MCPlat
  AutoPairs <- MCAutoPairs
  MaxCalls = 5
  None = None
SYMMETRY MCSymmetry
INVARIANTS
  TypeOK
  NoTransactionLost
  SoloRunsRepair
  ManualPairHasReview
PROPERTIES
  PairsOnlyReplacedByRuns
  HistoryIsKept
CHECK_DEADLOCK FALSE
