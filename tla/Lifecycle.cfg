CONSTANTS
  Jobs = {1, 2}
  Dests = {1}
  MaxJobs = 2
  MaxMail = 2
  MaxTasks = 2
  Busy = {1}
SPECIFICATION Spec
INVARIANTS StaleTasksStopped LifecycleTypeOK Accounted AnsweredOnce ExclusiveOutsideCommit
PROPERTIES DrainAnswers ShutdownAnswers
CHECK_DEADLOCK FALSE
