CONSTANTS
  Targets = {"app", "index"}
  Apps = {"app"}
  Resources = {"table"}
  Named <- NamedByAll
  Buckets = {"b1", "b2"}
  Home <- HomeOf
  MaxRounds = 2
  MaxFailures = 0
  Settings <- OtherProvider
SPECIFICATION NukeSpec
INVARIANTS
  FailurePreserves
CHECK_DEADLOCK FALSE
