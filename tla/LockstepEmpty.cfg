\* Three partitions, no end time: the run ends when all report themselves
\* empty; nothing fails.
CONSTANTS
  N = 3
  EndTime <- MCNoEndTime
  LastDepart <- MCLastDepart
  QuietTime = 4
  MayFail <- MCNone
SPECIFICATION FairSpec
CHECK_DEADLOCK FALSE
INVARIANTS
  TypeOK
  StepsSynchronized
  EndAgreed
  ServersUp
  RepliesFit
  NoEarlyEnd
PROPERTIES
  ImplementsLockStep
  Terminates
