SPECIFICATION Spec
CONSTANTS
  Wids = {w1, w2}
  NoWid = none
  DueCapacity = 1
  Inputs = {"lost", "focus", "minimize", "iconic", "show-desktop"}
  MaxLocals = 2
  MaxInputs = 4
SYMMETRY Symmetry
\* The environment stops at the bounds.
CHECK_DEADLOCK FALSE
INVARIANTS
  MapsAgree
  NothingOutlivesItsWindow
  IconicAgreesWhenSettled
  FocusAgreesWhenSettled
