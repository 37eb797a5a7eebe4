SPECIFICATION FairSpec
CONSTANTS
  n1 = n1
  n2 = n2
  Node = {n1, n2}
  RangeKey = range
  Key = {n1, n2, range}
  None = None
  MaxEvents <- Events
CONSTRAINT FewerForMeta
INVARIANTS TypeOK Fenced Backed Granted
PROPERTIES Leased
CHECK_DEADLOCK FALSE
