CONSTANTS
  Classes = {"a", "b"}
  Operators = {"operator bool"}
  Described <- MCDescribed
  HeaderDefs <- MCHeaderDefs
  ClassDefs <- MCClassDefs
  MaxCompounds = 3
  MaxMems = 2
SPECIFICATION Spec
\* the run ends
CHECK_DEADLOCK FALSE
INVARIANTS
  DocumentedOnce
  NothingLeftOut
  StopsOnlyFor
