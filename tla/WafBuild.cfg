CONSTANTS
  Entry <- MCEntry
  MaxEntries = 3
  Symbol <- MCSymbol
SPECIFICATION Spec
CHECK_DEADLOCK FALSE
INVARIANTS
  CallsResolved
  BuildLeavesNothing
  WafHasRules
