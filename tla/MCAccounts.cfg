CONSTANTS
  Requests = {r1, r2}
  NoUser = NoUser
  Emails = {e1}
  Sources = {s1}
  Invocations = {i1, i2}
  ProofLife = 3
  Cooldown = 1
  ReclaimAfter = 2
  Timeout = 1
  Hour = 4
  MaxAttempts = 1
  MaxResends = 1
  MaxTime = 3
  Limit <- TwoSignups
  Owners = {"owner"}
  Captures = {"c1", "c2", "c3"}
  Keys = {"k1", "k2"}
  Creators = {i1, i2}
  DailyLimit = 2
  NoCapture = NoCapture
  MaxDay = 2
SPECIFICATION AllSpec
SYMMETRY InvocationSymmetry
INVARIANTS
  OneAccount
  AdmissionTypeOK
  OneUploadSession
  OneCapturePerKey
  WithinDailyLimit
  EvidenceVersionsOrdered
  CapturedIsDurable
CHECK_DEADLOCK FALSE
