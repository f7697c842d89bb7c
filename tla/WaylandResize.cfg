SPECIFICATION Spec
CONSTANTS
  Windows = {w1}
  NoWindow = nil
  MaxSize = 2
  Failures = FALSE
  MaxConfigures = 2
  MaxMoves = 0
  MaxWire = 4
CHECK_DEADLOCK FALSE
INVARIANT SizeFollowsCompositor
