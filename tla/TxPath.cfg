CONSTANTS
  BlkCount = 3
  BlkSize = 7
  PktSize = 3
  FieldMod = 2
  VarMod = 4
  MaxRetry = 1
  MaxSamples = 14
  MaxLost = 16
  MaxItems = 3
  MaxSessions = 2
SPECIFICATION FairSpec
\* the block's thread ends with stop
CHECK_DEADLOCK FALSE
INVARIANTS
  WireIsPackets
  WireIsAccepted
  EndsForCause
PROPERTIES
  PacketsGoOut
  FailureIsNoticed
  StopReturns
