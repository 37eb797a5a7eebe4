SPECIFICATION Spec
CONSTANTS
  Task = {t1}
  Executor = {e1}
  Slot = {s1}
  Probes = 2
  MaxAttempts = 2
  JoinSample = 1
  MaxQueued = 1
  Faults = {"retry", "drain"}
  Unstable = {e1}
  NoTask = NoTask
INVARIANT NotForgotten
CHECK_DEADLOCK FALSE
