SPECIFICATION Spec
INVARIANTS NeverShort CopyInBounds
CONSTANTS
  Sizes <- MCSizes
  Offsets <- MCOffsets
  RowCounts <- MCRowCounts
  Modes = {FALSE, TRUE}
CHECK_DEADLOCK FALSE
