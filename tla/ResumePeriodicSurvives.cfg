CONSTANTS
  Pieces = 2
  Versions = 2
  Durabilities = {"periodic"}
  ValidatorKinds = {"strong"}
  VerifyOnResume = TRUE
  MaxInterruptions = 1
  MaxReprobes = 0
SPECIFICATION Spec
INVARIANT PeriodicSurvives
CHECK_DEADLOCK FALSE
