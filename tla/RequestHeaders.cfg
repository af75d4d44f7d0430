CONSTANTS
  Base = 4
  MaxHeaders = 2
  NameLens = {0, 1, 15, 16}
  ValueLens = {0, 1, 105, 120, 121, 127, 128, 257}
SPECIFICATION Spec
CHECK_DEADLOCK FALSE
INVARIANTS
  HeadersShown
  PackedReadsBack
  BlockedTooLong
