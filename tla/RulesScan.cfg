CONSTANTS
  Letter = {"s", "r", "R"}
  Lower <- MCLower
  Directive <- MCDirective
  WordCap = 3
  MaxText = 7
SPECIFICATION Spec
CHECK_DEADLOCK FALSE
INVARIANTS
  TypeOK
  NoFalseRefusal
  RefusedAtItsLine
  NoBypass
