\* One item, three attempts, two runs, two pages.
CONSTANTS
  None = None
  item = item
  a1 = a1
  a2 = a2
  a3 = a3
  p1 = p1
  p2 = p2
  r1 = r1
  r2 = r2
  Items = {item}
  Pages = {p1, p2}
  Attempts = {a1, a2, a3}
  Runs = {r1, r2}
  MaxVersion = 1
  MaxAttempts = 2
  MaxManualRetries = 1
  MaxFaults = 1
SPECIFICATION Spec
INVARIANTS
  OnePage
  NoUpdateLost
  SyncedIsShown
  MissingIsGone
CHECK_DEADLOCK FALSE
