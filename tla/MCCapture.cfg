CONSTANTS
  Slots = {front, back}
  MaxUploads = 2
  MaxAttempts = 2
  SessionLifetime = 2
  UrlLifetime = 1
  CleanupWait = 4
  Lease = 2
  Backoff = 1
  RecoveryGrace = 1
  Retention = 3
  Captures = {c1}
  Handlers = {h1}
  Workers = {w1, w2}
  ApiTimeout = 1
  WorkerTimeout = 1
  MaxTime = 9
  LastCreate = 1
  MaxGeneration = 2
  MaxFaults = 1
  MaxLag = 9
  MaxReviews = 2
  MaxSlow = 0
SPECIFICATION Spec
SYMMETRY WorkerSymmetry
INVARIANTS
  TypeOK
  WorkMatchesState
  OneActiveWorker
  CardDataErased
  OutboxMatchesRow
PROPERTIES
  SettledFieldsStay
  ReadyNearDeadline
CHECK_DEADLOCK FALSE
