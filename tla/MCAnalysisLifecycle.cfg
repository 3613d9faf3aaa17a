SPECIFICATION LifecycleSpec
CONSTANTS
  Clerks = {k1, k2, k3}
  Analyses = {a1, a2, a3}
  None = None
SYMMETRY MCSymmetry
INVARIANTS
  AnalysisTypeOK
  Lineage
  FailureExplained
PROPERTY
  FinalWhenSettled
