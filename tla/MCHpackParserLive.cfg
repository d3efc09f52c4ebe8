CONSTANTS
  Octets <- MCOctets
  MaxBlock <- MCMaxBlockLive
SPECIFICATION Spec
INVARIANT
  TypeOK
PROPERTIES
  ParseTerminates
CHECK_DEADLOCK FALSE
