CONSTANTS
  Octets <- MCOctets
  MaxBlock <- MCMaxBlock
SPECIFICATION Spec
INVARIANTS
  AcceptedCursorAtEnd
CHECK_DEADLOCK FALSE
