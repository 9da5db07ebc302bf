SPECIFICATION ArchiveSpec
INVARIANT OldStopped
CONSTANTS
  N = 2
  Target = "eager"
  BaseName = "base"
  Setups <- MCDefault
  MaxFaults = 1
CHECK_DEADLOCK FALSE
