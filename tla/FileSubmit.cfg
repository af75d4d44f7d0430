CONSTANTS
  Chunk = 2
  MaxRange = 5
SPECIFICATION FairSpec
CHECK_DEADLOCK FALSE
INVARIANTS
  WholeRange
  GivenBack
  PartialIsBlocked
PROPERTIES
  Ends
