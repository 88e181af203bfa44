SPECIFICATION Spec
CONSTANTS
  None = None
  k1 = k1
  k2 = k2
  Keys = {k1, k2}
  Attachments = {a1, a2}
  Requests = {r1, r2}
  MaxRemoved = 1
  Mixes <- MCMixes
SYMMETRY Symmetry
INVARIANTS
  SavedIsKept
  OneOriginal
  NoStrandedObject
CHECK_DEADLOCK FALSE
