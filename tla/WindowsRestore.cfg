SPECIFICATION Spec
CONSTANTS
  Wids = {w1}
  NoWid = none
  DueCapacity = 1
  Inputs = {"minimize"}
  MaxLocals = 1
  MaxInputs = 2
SYMMETRY Symmetry
\* The environment stops at the bounds.
CHECK_DEADLOCK FALSE
PROPERTY UserRestoresAreReported
