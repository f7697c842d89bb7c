SPECIFICATION Spec
CONSTANTS
  Producers = {p1}
  Windows = {w1}
  NoWindow = none
  MaxPending = 1
  MaxEvents = 3
CHECK_DEADLOCK FALSE
PROPERTY DiscardsOnlyMotionAndConfigure
