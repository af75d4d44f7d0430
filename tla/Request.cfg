CONSTANTS
  MaxPass = 2
  MaxHop = 0
  MaxBody = 1
  MaxResp = 2
  MaxDelayed = 1
  Hits = {"deny"}
  Origins = {"plain"}
  Reentry = FALSE
  Faults = {"cleanup_add"}
SPECIFICATION Spec
CHECK_DEADLOCK FALSE
INVARIANTS
  TypeOK
  AuditOnce
  NoUseAfterFree
  AuditStatus
  PhaseOrder
PROPERTIES
  RequestFreed
