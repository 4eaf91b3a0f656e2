CONSTANTS
  Slots = {"card"}
  MaxUploads = 1
  MaxAttempts = 2
  SessionLifetime = 2
  UrlLifetime = 1
  CleanupWait = 4
  Lease = 2
  Backoff = 1
  RecoveryGrace = 1
  Retention = 3
  Captures = {c1}
  Handlers = {h1}
  Workers = {w1}
  ApiTimeout = 1
  WorkerTimeout = 1
  MaxTime = 20
  LastCreate = 1
  MaxGeneration = 2
  MaxFaults = 1
  MaxLag = 1
  MaxReviews = 0
  MaxSlow = 1
SPECIFICATION FairSpec
PROPERTIES
  ValidationSettles
  ExtractionSettles
  EverythingErased
CHECK_DEADLOCK FALSE
