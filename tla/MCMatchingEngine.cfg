SPECIFICATION Spec
CONSTANTS
  Pos = {1, 2}
  Plat = {1, 2, 3}
  PosInputs <- MCPosInputs
  PlatInputs <- MCPlatInputs
  Instants <- MCInstants
  LocalDay <- MCLocalDay
  DayWindow = 1
  Exact = 100
  Base = 70
  Decay = 5
  Floor = 40
  None = None
INVARIANTS
  TypeOK
  ExactlyOneRow
  ReferencePriority
  ReferenceClosest
  IndexAgreesWithScan
  FallbackOptimal
CHECK_DEADLOCK FALSE
