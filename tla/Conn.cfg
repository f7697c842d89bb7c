SPECIFICATION Spec
CONSTANTS
  Callers = {c1, c2}
  Reader = reader
  Writer = writer
  WriteQueue = 2
  PacketBuffer = 1
  MaxRawChunks = 1
  MaxFrames = 2
  MaxPackets = 1
  MaxFlushes = 1
SYMMETRY Symmetry
CHECK_DEADLOCK FALSE
INVARIANTS
  WrittenInOrder
  EndIsExplained
  FlushIsHonest
