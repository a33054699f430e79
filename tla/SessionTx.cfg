CONSTANTS
  tx = tx
  RxBlocks = {}
  TxBlocks = {tx}
  Masters = {}
  Params = {"Freq"}
  Tolerant = {}
  ManualOnly = {}
  Manual = {}
  MaxPolls = 1
  MaxStarts = 2
  MaxSets = 1
SPECIFICATION FairSpec
INVARIANTS
  StrayByBadStop
\* blocks stay off once started MaxStarts times
CHECK_DEADLOCK FALSE
PROPERTIES
  StartReturns
  StopReturns
