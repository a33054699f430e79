CONSTANTS
  rx = rx
  tx = tx
  RxBlocks = {rx}
  TxBlocks = {tx}
  Masters = {rx}
  Params = {"Freq"}
  Tolerant = {}
  ManualOnly = {}
  Manual = {}
  MaxPolls = 1
  MaxStarts = 1
  MaxSets = 0
SPECIFICATION Spec
INVARIANT
  WaitMeansUpdate
\* blocks stay off once started MaxStarts times
CHECK_DEADLOCK FALSE
