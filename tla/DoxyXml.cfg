CONSTANTS
  Row <- Classes
  MaxNodes = 4
  MaxBelow = 3
SPECIFICATION Spec
INVARIANTS
  TextComesOut
  
  
\* the tool ends
CHECK_DEADLOCK FALSE
