SPECIFICATION Spec
CONSTANTS
  Items = {i1, i2}
  Purged = {i1}
  MaxBackups = 1
  Restores = {s1, s2}
  MaxLosses = 2
SYMMETRY Symmetry
INVARIANTS
  NoResurrection
  ForgottenByNobody
PROPERTIES
  RestoreIsExact
CHECK_DEADLOCK FALSE
