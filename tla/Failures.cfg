\* Three partitions, an end time, and all but the first may fail anywhere.
CONSTANTS
  N = 3
  EndTime = 1
  LastDepart <- MCLateDepart
  QuietTime = 3
  MayFail <- MCAllButTheFirst
SPECIFICATION FairSpec
CHECK_DEADLOCK FALSE
INVARIANTS
  FailureKillsAll
  CleanExit
PROPERTIES
  ImplementsLockStep
  Terminates
  FailureReported
