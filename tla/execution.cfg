SPECIFICATION FairSpec
CONSTANTS
  task = task
  s1 = s1
  s2 = s2
  TaskID = task
  Session = {s1, s2}
  Probes = 1
  MaxAttempts = 2
  MaxFaults = 1
  MaxLostCalls = 1
  SkipCacheLookup = FALSE
INVARIANTS TypeOK GoneIsTold Truthful RowTold
PROPERTIES Answered Recorded
CHECK_DEADLOCK FALSE
