SPECIFICATION Spec
CONSTANTS
  Clerks = {k1}
  Analyses = {a1}
  Uploaders = {u1, u2}
  Contents = {c1, c2}
  Extensions = {csv}
  MaxUploads = 2
  Torn = Torn
  None = None
INVARIANT
  PathsCollisionFree
