CONSTANTS
  rx = rx
  RxBlocks = {rx}
  TxBlocks = {}
  Masters = {}
  Params = {"DDCFreq", "Gain"}
  Tolerant = {"Gain"}
  ManualOnly = {"Gain"}
  Manual = {}
  MaxPolls = 1
  MaxStarts = 2
  MaxSets = 2
SPECIFICATION Spec
INVARIANTS
  StartedIsRunning
  StoppedIsQuiet
  ParamsAgree
\* blocks stay off once started MaxStarts times
CHECK_DEADLOCK FALSE
