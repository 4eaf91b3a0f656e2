CONSTANTS
  Slots = {"card"}
  MaxUploads = 1
  MaxAttempts = 2
  SessionLifetime = 2
  UrlLifetime = 1
  CleanupWait = 4
  Lease = 2
  Backoff = 1
  RecoveryGrace = 1
  Retention = 3
  Captures = {c1}
  Handlers = {h1}
  Workers = {w1}
  ApiTimeout = 1
  WorkerTimeout = 1
  MaxTime = 9
  LastCreate = 1
  MaxGeneration = 1
  MaxFaults = 0
  MaxLag = 9
  MaxReviews = 1
  MaxSlow = 0
SPECIFICATION Spec
PROPERTY NoReadyAfterDeadline
CHECK_DEADLOCK FALSE
