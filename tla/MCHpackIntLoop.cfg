CONSTANTS
  Bufs <- MCBufs
  Widths <- MCWidths
SPECIFICATION Spec
INVARIANTS
  TypeOK
PROPERTIES
  ImplementsIntSpec
CHECK_DEADLOCK FALSE
