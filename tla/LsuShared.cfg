SPECIFICATION Spec
CONSTANTS
  Width = 2
  Words = 6
  LineWords = 2
  Sizes = {1, 2}
  Dram <- FirstTwoLines
  Serial = TRUE
  OtherClients = TRUE
INVARIANT OnlyTheCam
