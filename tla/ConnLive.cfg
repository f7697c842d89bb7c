SPECIFICATION FairSpec
CONSTANTS
  Callers = {c1}
  Reader = reader
  Writer = writer
  WriteQueue = 1
  PacketBuffer = 1
  MaxRawChunks = 1
  MaxFrames = 2
  MaxPackets = 2
  MaxFlushes = 1
CHECK_DEADLOCK FALSE
PROPERTIES
  FlushEndsWithConnection
  LoopsStop
