SPECIFICATION FairSpec
CONSTANTS
  WriteQueue = 1
  Mmap = TRUE
  MaxPackets = 2
  MaxTicks = 1
  MaxSignals = 2
\* The session ends.
CHECK_DEADLOCK FALSE
INVARIANTS
  GoodbyeReachesTheServer
  NoFileLeft
PROPERTIES
  ReturnIsExplained
  InterruptEnds
  StopEndsTheLoop
