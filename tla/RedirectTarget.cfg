CONSTANTS
  MaxPass = 1
  MaxHop = 0
  MaxBody = 0
  MaxResp = 1
  MaxDelayed = 1
  Hits = {"deny3xx", "redirect"}
  Origins = {"plain", "redirect"}
  Reentry = FALSE
  Faults = {}
SPECIFICATION Spec
CHECK_DEADLOCK FALSE
INVARIANTS
  RedirectIsOurs
