CONSTANTS
  Octets <- MCAllOctets
  MaxBlock <- MCMaxTestBlock
  Blocks <- MCBlocks
SPECIFICATION Spec
INVARIANTS
  OutputIsReferencePrefix
  RejectsOnlyMalformedBlocks
  UnitTestsHold
CHECK_DEADLOCK FALSE
