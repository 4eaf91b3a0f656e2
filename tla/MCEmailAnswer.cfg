CONSTANTS
  Requests = {r1, r2}
  NoUser = NoUser
  Emails = {e1}
  Sources = {s1}
  Invocations = {i1, i2}
  ProofLife = 3
  Cooldown = 1
  ReclaimAfter = 2
  Timeout = 1
  Hour = 2
  MaxAttempts = 2
  MaxResends = 1
  MaxTime = 4
  Limit <- OneEach
SPECIFICATION Spec
SYMMETRY InvocationSymmetry
INVARIANTS
  AnswersTruly
CHECK_DEADLOCK FALSE
