\* One item, one period, two versions of its digest, two runs.
CONSTANTS
  None = None
  item = item
  day = day
  d1 = d1
  d2 = d2
  r1 = r1
  r2 = r2
  Items = {item}
  Periods = {day}
  Digests = {d1, d2}
  Runs = {r1, r2}
  MaxAttempts = 2
  MaxFaults = 1
SPECIFICATION Spec
SYMMETRY Symmetry
INVARIANTS
  OneMessage
  OutcomeIsTrue
  CurrentAtSend
