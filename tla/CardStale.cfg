\* The user stops after MaxUses tools.
CHECK_DEADLOCK FALSE
CONSTANTS
  Words = 6
  Windows = 2
  Burst = 4
  UartDepth = 1
  Images <- MCImages
  Detects <- MCDetects
  Ops = 1
  Lists <- MCLists
  Inputs = {1}
  Tools = {"detect", "chunks"}
  MaxUses = 3
  BuildBreaks = TRUE
SPECIFICATION Spec
INVARIANT BuildMatches
