SPECIFICATION Spec
CONSTANTS
  s1 = s1
  s2 = s2
  g1 = g1
  i1 = i1
  i2 = i2
  Server = {s1, s2}
  Group = {g1}
  Increment = {i1, i2}
  GroupOf <- MCGroupOf
  HomeOf <- MCHomeOf
  PeriodDuration = 1
  SettlingTime = 2
  KeyTTL = 5
  UsageDuration = 2
  ArrivalTime = 1
  Skew = 1
  MaxTime = 4
  LastPeriod = 1
  Faults = {"late", "flush", "crash"}
SYMMETRY Swap
INVARIANTS TypeOK NoOvercount Accounted FinalIsComplete
CHECK_DEADLOCK FALSE
