SPECIFICATION Spec
CONSTANTS
  Clerks = {k1}
  Analyses = {a1}
  Uploaders = {u1, u2, u3}
  Contents = {c1, c2}
  Extensions = {csv, xlsx}
  MaxUploads = 3
  Torn = Torn
  None = None
SYMMETRY MCSymmetry
INVARIANTS
  ImportTypeOK
  CurrentFileKept
  VersionHistory
  SoloFilesIntact
PROPERTY
  FilesSealed
