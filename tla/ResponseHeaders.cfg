CONSTANTS
  Base = 4
  MaxList = 2
  Other <- Lengths
SPECIFICATION Spec
CHECK_DEADLOCK FALSE
INVARIANTS
  SentIsInspected
  SentBytesInspected
  InspectedIsSent
