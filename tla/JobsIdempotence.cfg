\* One job, one worker retrying one payload over two concurrent calls.
CONSTANTS
  None = None
  item = item
  j1 = j1
  j2 = j2
  o1 = o1
  o2 = o2
  s1 = s1
  s2 = s2
  c1 = c1
  c2 = c2
  public = public
  sensitive = sensitive
  Public = public
  Items = {item}
  AttachmentItems = {}
  EnqueuedTypes = {"enrich"}
  Owners = {o1, o2}
  LeaseTicks = 2
  BackoffTicks = 1
  Skew = 1
  MaxAttempts = 2
  MaxManualRetries = 1
  UrlItems = {}
  Jobs = {j1}
  Levels = {public}
  Submissions = {s1}
  Calls = {c1, c2}
  MaxGeneration = 1
SPECIFICATION Spec
PROPERTIES
  IdempotentSubmission
