SPECIFICATION Spec
INVARIANT ServedRowsExact
CONSTANTS
  Stagers = {p1}
  Versions <- MCVersions
  Header <- MCHeader
  Index <- MCIndex
  NumRows = 4
  Chunk = 2
  First = 1
  End = 4
  Modes <- MCDiesAlone
  Rollback = TRUE
  TextSize <- MCTextSizeAlone
  None = None
  Partial = Partial
