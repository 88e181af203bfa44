\* One URL item, two job rows, two workers, one submission: every owner edit and the purge.
CONSTANTS
  None = None
  item = item
  j1 = j1
  j2 = j2
  o1 = o1
  o2 = o2
  s1 = s1
  s2 = s2
  c1 = c1
  c2 = c2
  public = public
  sensitive = sensitive
  Public = public
  Items = {item}
  AttachmentItems = {}
  EnqueuedTypes = {}
  Owners = {o1, o2}
  LeaseTicks = 2
  BackoffTicks = 1
  Skew = 1
  MaxAttempts = 2
  MaxManualRetries = 1
  UrlItems = {item}
  Jobs = {j1, j2}
  Levels = {public, sensitive}
  Submissions = {s1}
  Calls = {c1}
  MaxGeneration = 3
SYMMETRY Symmetry
SPECIFICATION Spec
INVARIANTS
  TypeOK
  HeldJobIsCurrent
  ResultOnlyOfComplete
  FrozenItemIsIdle
PROPERTIES
  KeepsPromise
