CONSTANTS
  MaxCommits = 2
  MaxRestarts = 1
  MaxFaults = 2
SPECIFICATION FairSpec
\* the block ends with its window
CHECK_DEADLOCK FALSE
INVARIANTS
  TypeOK
  LagIsBounded
  ShownAsCounted
PROPERTIES
  ShowsInTheEnd
