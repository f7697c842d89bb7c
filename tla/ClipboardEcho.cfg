SPECIFICATION Spec
CONSTANTS
  Texts = {t1, t2}
  NoText = nothing
  Refused = {}
  Echoes = TRUE
  MaxPackets = 4
  MaxCopies = 0
SYMMETRY Symmetry
\* The server and the user stop at the bounds.
CHECK_DEADLOCK FALSE
PROPERTY EchoesAreSuppressed
