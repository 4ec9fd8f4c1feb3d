\* Two partitions, no end time, no failures.
CONSTANTS
  N = 2
  EndTime <- MCNoEndTime
  LastDepart <- MCLastDepart
  QuietTime = 2
  MayFail <- MCNone
SPECIFICATION FairSpec
CHECK_DEADLOCK FALSE
PROPERTY
  FinishAnswered
