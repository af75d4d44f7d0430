CONSTANTS
  MaxPass = 1
  MaxHop = 1
  MaxBody = 2
  MaxResp = 3
  MaxDelayed = 1
  Hits = {"deny", "deny3xx", "redirect", "allow"}
  Origins = {"plain", "redirect", "stream"}
  Reentry = TRUE
  Faults = {}
SPECIFICATION Spec
CHECK_DEADLOCK FALSE
INVARIANTS
  RequestGate
  OneResponse
  ResponseGate
  RedirectLocation
  DenialTarget
  BodySubmittedOnce
PROPERTIES
  BlockIsFinal
