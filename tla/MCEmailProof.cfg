CONSTANTS
  Requests = {r1}
  NoUser = NoUser
  Emails = {e1}
  Sources = {s1}
  Invocations = {i1, i2}
  ProofLife = 3
  Cooldown = 1
  ReclaimAfter = 2
  Timeout = 1
  Hour = 3
  MaxAttempts = 2
  MaxResends = 1
  MaxTime = 3
  Limit <- OneEach
SPECIFICATION Spec
SYMMETRY InvocationSymmetry
INVARIANTS
  TypeOK
  ClaimHeld
  GuessesCounted
PROPERTIES
  RotationsSpaced
  ConfirmedStays
CHECK_DEADLOCK FALSE
