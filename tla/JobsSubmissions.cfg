\* One job row of an item with an attachment, two workers, two calls in flight
\* with two payloads; the clock and the cron lease are fair.
CONSTANTS
  None = None
  item = item
  j1 = j1
  j2 = j2
  o1 = o1
  o2 = o2
  s1 = s1
  s2 = s2
  c1 = c1
  c2 = c2
  public = public
  sensitive = sensitive
  Public = public
  Items = {item}
  AttachmentItems = {item}
  EnqueuedTypes = {"enrich"}
  Owners = {o1, o2}
  LeaseTicks = 2
  BackoffTicks = 1
  Skew = 1
  MaxAttempts = 2
  MaxManualRetries = 1
  UrlItems = {}
  Jobs = {j1}
  Levels = {public}
  Submissions = {s1, s2}
  Calls = {c1, c2}
  MaxGeneration = 3
SPECIFICATION FairSpec
INVARIANTS
  AcceptedIsStored
  AttemptsBounded
PROPERTIES
  OnlyHolderDelivers
  NoStrandedJob
