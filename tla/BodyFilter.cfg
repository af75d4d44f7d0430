CONSTANTS
  N = 4
  Slot = {s1, s2}
  Cap = 2
  MaxChain = 2
  MaxEmpty = 2
SPECIFICATION Spec
CHECK_DEADLOCK FALSE
INVARIANTS
  TypeOK
  HeldWithinCap
  HeaderAwaitsPhase4
  PhaseFourOnce
PROPERTIES
  Delivered
  NoStranding
