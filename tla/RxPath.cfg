CONSTANTS
  BlkCount = 3
  BlkSize = 6
  PktSize = 3
  MaxUnits = 27
  MaxItems = 3
SPECIFICATION FairSpec
\* the block's thread ends with stop
CHECK_DEADLOCK FALSE
INVARIANTS
  PacketsAligned
  SamplesInOrder
  TagsExact
PROPERTIES
  LittleIsLost
  PacketsComeOut
  StopReturns
