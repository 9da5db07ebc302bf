SPECIFICATION Spec
INVARIANTS TypeOK ServedRowsExact EndsChecked SuccessLoads
CONSTANTS
  Stagers = {p1, p2}
  Versions <- MCVersions
  Header <- MCHeader
  Index <- MCIndex
  NumRows = 4
  Chunk = 2
  First = 1
  End = 4
  Modes <- MCFaults
  Rollback = FALSE
  TextSize <- MCTextSize
  None = None
  Partial = Partial
