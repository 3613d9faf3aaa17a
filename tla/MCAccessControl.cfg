SPECIFICATION Spec
CONSTANTS
  w1 = w1
  w2 = w2
  op = op
  own = own
  acc = acc
  other = other
  new = new
  o1 = o1
  o2 = o2
  o3 = o3
  b1 = b1
  b2 = b2
  b3 = b3
  a1 = a1
  a2 = a2
  p1 = p1
  p2 = p2
  Workers = {w1, w2}
  Users = {op, own, acc, other, new}
  Orgs = {o1, o2, o3}
  Branches = {b1, b2, b3}
  Analyses = {a1, a2}
  Passwords = {p1, p2}
  InitUsers <- MCUsers
  InitOrgs = {o1, o2}
  InitBranches <- MCBranches
  InitAnalyses <- MCAnalyses
  RequestSet <- MCRequests
  MaxCalls = 3
  None = None
SYMMETRY MCSymmetry
INVARIANTS
  AccessTypeOK
  ScopesAgree
  OldPasswordOut
  OneGrant
PROPERTY
  OwnOrganizationOnly
CHECK_DEADLOCK FALSE
