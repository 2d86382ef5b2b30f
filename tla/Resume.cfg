CONSTANTS
  Pieces = 2
  Versions = 2
  Durabilities = {"periodic", "crash_safe"}
  ValidatorKinds = {"strong", "weak"}
  VerifyOnResume = TRUE
  MaxInterruptions = 2
  MaxReprobes = 1
SPECIFICATION FairSpec
INVARIANTS TypeOK CrashSafeSurvives PublishedWhole PublishedUniform
PROPERTY Publishes
CHECK_DEADLOCK FALSE
