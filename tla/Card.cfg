\* The user stops after MaxUses tools.
CHECK_DEADLOCK FALSE
CONSTANTS
  Words = 6
  Windows = 2
  Burst = 4
  UartDepth = 1
  Images <- MCImages
  Detects <- MCDetects
  Ops = 2
  Lists <- MCLists
  Inputs = {1, 2}
  Tools = {"detect", "chunks", "runner", "smoke", "program"}
  MaxUses = 2
  BuildBreaks = FALSE
SPECIFICATION Spec
INVARIANTS TypeOK StartsLoaded AnswersOurs ExitHonest
PROPERTY Ends
