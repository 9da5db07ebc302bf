SPECIFICATION Spec
INVARIANTS TypeOK AttentionReadsPool GraphBuffersKept
CONSTANTS
  Layers <- MCLayers
  Pages <- MCPages
  SrcPbs <- MCSrcPbs
  DstPbs = 2
  Stride = 2
  ScaleStride = 1
  Lists <- MCLists
  MarkBlock = 2
  MaxWrites = 1
  MaxCalls = 3
CHECK_DEADLOCK FALSE
