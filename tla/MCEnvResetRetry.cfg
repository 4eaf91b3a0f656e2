CONSTANTS
  f1 = f1
  f2 = f2
  w1 = w1
  w2 = w2
  Functions = {f1}
  Original <- ConfiguredOne
  Operations = {a, b}
  NoOperation = NoOperation
  Workers = {w1}
  Timeout = 1
  LoopFor = 1
  Lease = 2
  Drain = 3
  QueueWait = 1
  Linger = 1
  MaxItems = 0
  MaxFaults = 0
  MaxTime = 14
SPECIFICATION Spec
INVARIANTS
  OperationOnce
CHECK_DEADLOCK FALSE
