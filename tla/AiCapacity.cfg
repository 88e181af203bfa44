SPECIFICATION Spec
CONSTANTS
  Calls = {c1, c2}
  NoCall = NoCall
  minute = minute
  day = day
  Windows <- MCWindows
  Limit <- MCLimit
  Boundaries <- MCBoundaries
  Reserve = 2
  Threshold = 2
  MaxFailures = 3
SYMMETRY Symmetry
INVARIANTS
  NotOverdrawn
  HeldIsReserved
  ChargedExactlyOnce
  OneProbe
  OpensAtThreshold
