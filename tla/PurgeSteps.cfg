CONSTANTS
  None = None
  item = item
  w1 = w1
  w2 = w2
  r1 = r1
  r2 = r2
  pdf = pdf
  image = image
  Items = {item}
  Workflows = {w1, w2}
  Survivors = {w1}
  Runs = {r1, r2}
  Objects = {pdf}
  MaxVersion = 2
  MaxFaults = 1
SPECIFICATION FairSpec
INVARIANTS
  TypeOK
  StepsInOrder
  GoneIsAccountedFor
  CompleteIsMirrored
PROPERTIES
  DoneIsFinal
  ConfirmedPurgeEnds
CHECK_DEADLOCK FALSE
