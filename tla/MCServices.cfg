CONSTANTS
  None = None
  Workers = {w1, w2}
  f1 = f1
  f2 = f2
  Files = {f1, f2}
  SourceOf <- MCSourceOf
  Contents <- MCContents
  Uploads <- MCUploads
  Overwrites <- MCOverwrites
  Ready = {f2}
  MaxRows = 2
  MaxRuns = 4
  Platforms = {p1, p2}
  Percentages = {15, 20}
  MaxDate = 3
  MaxContracts = 2
  MaxOps = 3
  Instances = {i1, i2}
  op = op
  client = client
  OperatorEmail = op
  ClientEmail = client
  Settings <- MCSettings
  Databases <- MCDatabases
  DemoBranches = 2
  MaxBoots = 3
  Requests = {q1, q2, q3, q4}
  Public = {q1}
  Threads = 2
  Connections = 2
SPECIFICATION Spec
INVARIANTS
  ServicesTypeOK
  OneRunPerFile
  PassedNormalizes
  RateOfContract
  OutputsAccounted
  CreatedOnce
  SchemaKnown
  NoLockout
PROPERTIES
  FrozenByMatching
  EveryRequestAnswered
CHECK_DEADLOCK FALSE
