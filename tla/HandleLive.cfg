CONSTANTS
  MaxPass = 1
  MaxHop = 0
  MaxBody = 1
  MaxResp = 1
  MaxDelayed = 1
  Hits = {"deny"}
  Origins = {"plain"}
  Reentry = FALSE
  Faults = {"cleanup_add"}
SPECIFICATION Spec
CHECK_DEADLOCK FALSE
INVARIANTS
  HandleLive
