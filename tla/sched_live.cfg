SPECIFICATION FairSpec
CONSTANTS
  Task = {t1}
  Executor = {e1, e2, e3}
  Slot = {s1}
  Probes = 2
  MaxAttempts = 2
  JoinSample = 1
  MaxQueued = 1
  Faults = {"retry", "cancel", "lapse"}
  Unstable = {}
  NoTask = NoTask
INVARIANT ClaimHasKeeper
PROPERTY Settles
CHECK_DEADLOCK FALSE
