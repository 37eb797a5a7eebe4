SPECIFICATION Spec
CONSTANTS
  Task = {t1}
  Executor = {e1, e2, e3}
  Slot = {s1}
  Probes = 2
  MaxAttempts = 2
  JoinSample = 1
  MaxQueued = 2
  Faults = {"retry"}
  Unstable = {}
  NoTask = NoTask
INVARIANT ExclusiveRun
CHECK_DEADLOCK FALSE
