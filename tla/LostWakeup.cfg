\* Two steps, a call in each.
CONSTANTS
  MaxSteps = 2
  MaxCalls = 1
  Capacity = 2
SPECIFICATION FairSpec
CHECK_DEADLOCK FALSE
PROPERTY
  EveryCallAnswered
