CONSTANTS
  NumConf = 4
  Value = {v}
  MaxRules = 3
SPECIFICATION Spec
CHECK_DEADLOCK FALSE
INVARIANTS
  TypeOK
  RulesInForce
  FreedOnce
  Deduped
