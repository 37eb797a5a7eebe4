SPECIFICATION Spec
CONSTANTS
  Task = {t1}
  Executor = {e1, e2, e3}
  Slot = {s1}
  Probes = 2
  MaxAttempts = 2
  JoinSample = 1
  MaxQueued = 2
  Faults = {"crash", "cancel"}
  Unstable = {e1, e2, e3}
  NoTask = NoTask
SYMMETRY SymmetricPool
INVARIANTS ExclusiveRun AttemptsBounded
PROPERTY ImplementsLifecycle
CHECK_DEADLOCK FALSE
