SPECIFICATION Spec
INVARIANTS ResultsTyped CompletedVerifies NothingLost CellIsolated
PROPERTY RunEnds
CONSTANTS
  Levels <- MCLevels
  Cats <- MCCats
  Ceiling = "ceiling_count"
  Checked = {"coding", "ceiling_count"}
  Targets = 1
  WarmPrefill = TRUE
  MaxRuns = 2
  NoFile = NoFile
  Partial = Partial
CHECK_DEADLOCK FALSE
