\* Three steps, a call in each, queues with room for the calls of two.
CONSTANTS
  MaxSteps = 3
  MaxCalls = 1
  Capacity = 2
SPECIFICATION FairSpec
CHECK_DEADLOCK FALSE
INVARIANTS
  TypeOK
  AppliedOnceInOrder
  AppliedInTheirStep
  NothingLeftAtStop
  NeverRefused
PROPERTIES
  AnsweredUnlessAsleep
  ClosesUnlessAsleep
  LostForever
