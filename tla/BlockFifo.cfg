CONSTANTS
  BlkCount = 3
  BlkSize = 2
  MaxUnits = 9
SPECIFICATION FairSpec
INVARIANTS
  TypeOK
  Exclusive
  InOrder
  AssertsNeverFail
  ReadyHolds
  NoLostWakeup
PROPERTIES
  SafeStream
  GetsOn
