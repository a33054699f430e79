CONSTANTS
  Callers = {c1, c2}
  Worker = worker
  MaxCalls = 3
  MaxDrops = 0
  MaxParts = 0
SPECIFICATION Spec
\* an application that makes no more calls leaves the client at rest
CHECK_DEADLOCK FALSE
INVARIANT
  AnswerIsOwn
