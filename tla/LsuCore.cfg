SPECIFICATION FairSpec
CONSTANTS
  Width = 2
  Words = 4
  LineWords = 2
  Sizes = {1, 2}
  Dram = {}
  Serial = TRUE
  OtherClients = FALSE
INVARIANT TypeOK
INVARIANT LoadsCurrent
INVARIANT StoresLand
PROPERTY EngineMoves
