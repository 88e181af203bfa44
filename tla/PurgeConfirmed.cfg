\* One workflow, one run, no fault; the owner edits and restores the item.
CONSTANTS
  None = None
  item = item
  w1 = w1
  w2 = w2
  r1 = r1
  r2 = r2
  pdf = pdf
  image = image
  Items = {item}
  Workflows = {w1}
  Survivors = {}
  Runs = {r1}
  Objects = {pdf}
  MaxVersion = 3
  MaxFaults = 0
SPECIFICATION Spec
PROPERTIES
  QueuedAsRequested
CHECK_DEADLOCK FALSE
