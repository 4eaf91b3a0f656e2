CONSTANTS
  f1 = f1
  f2 = f2
  w1 = w1
  w2 = w2
  Functions = {f1, f2}
  Original <- Configured
  Operations = {a}
  NoOperation = NoOperation
  Workers = {w1, w2}
  Timeout = 1
  LoopFor = 1
  Lease = 2
  Drain = 2
  QueueWait = 1
  Linger = 0
  MaxItems = 1
  MaxFaults = 1
  MaxTime = 7
SPECIFICATION Spec
SYMMETRY WorkerSymmetry
INVARIANTS
  TypeOK
  OneWorker
  QuietWhileClearing
  OriginalRestored
  NoStaleAccess
PROPERTIES
  ClearedWholly
CHECK_DEADLOCK FALSE
