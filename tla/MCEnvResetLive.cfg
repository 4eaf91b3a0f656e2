CONSTANTS
  f1 = f1
  f2 = f2
  w1 = w1
  w2 = w2
  Functions = {f1, f2}
  Original <- Configured
  Operations = {a}
  NoOperation = NoOperation
  Workers = {w1}
  Timeout = 1
  LoopFor = 1
  Lease = 2
  Drain = 3
  QueueWait = 1
  Linger = 1
  MaxItems = 1
  MaxFaults = 2
  MaxTime = 22
SPECIFICATION PromptSpec
PROPERTIES
  ResetCompletes
CHECK_DEADLOCK FALSE
