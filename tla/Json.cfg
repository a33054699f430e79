CONSTANTS
  Callers = {c1, c2}
  Worker = worker
  MaxCalls = 3
  MaxDrops = 1
  MaxParts = 1
SPECIFICATION FairSpec
\* an application that makes no more calls leaves the client at rest
CHECK_DEADLOCK FALSE
PROPERTIES
  BusyMovesOn
  SafeRemoteCall
  CallsEnd
