SPECIFICATION Spec
CONSTANTS
  Backends = {"win32"}
  Positions = {p1, p2}
  Sizes = {s1}
  Full = full
  NoRect = none
  MaxInputs = 6
CHECK_DEADLOCK FALSE
PROPERTY RestoresToTheLastMove
