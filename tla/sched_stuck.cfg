SPECIFICATION Spec
CONSTANTS
  Task = {t1}
  Executor = {e1, e2}
  Slot = {s1}
  Probes = 2
  MaxAttempts = 2
  JoinSample = 1
  MaxQueued = 1
  Faults = {"disconnect"}
  Unstable = {}
  NoTask = NoTask
INVARIANT ClaimHasKeeper
CHECK_DEADLOCK FALSE
