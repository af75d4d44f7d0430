CONSTANTS
  MaxPass = 1
  MaxHop = 1
  MaxBody = 1
  MaxResp = 1
  MaxDelayed = 1
  Hits = {"deny"}
  Origins = {"plain"}
  Reentry = FALSE
  Faults = {}
SPECIFICATION Spec
CHECK_DEADLOCK FALSE
PROPERTIES
  OffMeansOff
