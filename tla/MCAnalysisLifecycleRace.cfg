SPECIFICATION LifecycleSpec
CONSTANTS
  Clerks = {k1, k2}
  Analyses = {a1}
  None = None
PROPERTY
  OnlyAllowedTransitions
CHECK_DEADLOCK FALSE
