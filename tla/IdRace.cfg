\* Two handler threads share the list of vehicle ids.
CONSTANTS
  left = left
  right = right
  nobody = nobody
  Handler <- MCHandler
  Vehicle <- MCVehicle
  Nobody <- nobody
  MaxSteps = 3
SPECIFICATION Spec
INVARIANT
  NoRace
