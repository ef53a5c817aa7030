SPECIFICATION Spec
CONSTANTS
  Graphs <- MCGraphs
  Buffer <- MCBuffer
  Bytes <- MCBytes
  Limit = 380
  MaxRuns = 2
  PeDim = 2
  KStep = 2
  DccmBytes = 600
  ReserveBytes = 20
  AlignPad = 4
  ScratchCap = 30
  ConvBudget = 120
  ReuseKdim = 8
  ActCap = 10
  CacheCap = 300
  Slab = 9
  MaxSpan = 4
INVARIANTS TypeOK Tiled ResultsRight FitsMemory ReleasesRight
PROPERTIES ImageSpec StoreSpec
