SPECIFICATION FairSpec
CONSTANTS
  Producers = {p1, p2}
  Windows = {w1, w2}
  NoWindow = none
  MaxPending = 2
  MaxEvents = 4
\* The desktop stops emitting at the bound, or when it is shut down.
CHECK_DEADLOCK FALSE
INVARIANTS
  TypeOK
  NoLostWakeup
  GrowsOnlyWithInput
  InputNeverLost
  NoOvertaking
PROPERTIES
  RelayTerminates
  ImplementsInputChannel
