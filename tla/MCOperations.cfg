CONSTANTS
  Nothing = Nothing
  Tools = {"c1", "c2"}
  Contents <- Published2
  Attempts = 2
  MaxTokens = 2
  MaxLate = 1
  MaxFaults = 2
  Admins = {"a1", "a2"}
  MaxLoad = 4
  Users = {"user"}
  Passwords = {1, 2}
  Things = {"bucket", "table"}
  Bucket = "bucket"
  MaxLives = 2
  Targets = {"app", "index"}
  Apps = {"app"}
  Resources = {"table"}
  Named <- NamedByAll
  Buckets = {"b1", "b2"}
  Home <- HomeOf
  Settings <- Encrypted
  MaxRounds = 3
  MaxFailures = 2
SPECIFICATION AllSpec
INVARIANTS
  TypeOK
  WorkHoldsLease
  EnrollmentSound
  NukeSound
PROPERTIES
  IndexFollows
  AdministrationSound
  TeardownSound
  RecoveryLast
CHECK_DEADLOCK FALSE
