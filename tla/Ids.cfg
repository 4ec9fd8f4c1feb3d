\* Two handler threads over three steps; one vehicle comes and goes.
CONSTANTS
  left = left
  right = right
  nobody = nobody
  Handler <- MCHandler
  Vehicle <- MCVehicle
  Nobody <- nobody
  MaxSteps = 3
SPECIFICATION FairSpec
INVARIANTS
  TypeOK
  AtMostAStepOld
PROPERTY
  Answered
