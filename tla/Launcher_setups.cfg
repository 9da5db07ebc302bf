SPECIFICATION ArchiveSpec
INVARIANTS TypeOK OneGeneration RankZeroLast Preserved RelaunchSucceeds SummaryTrue
PROPERTY ArchivedFirst
CONSTANTS
  N = 3
  Target = "eager"
  BaseName = "base"
  Setups <- MCSetups
  MaxFaults = 2
CHECK_DEADLOCK FALSE
