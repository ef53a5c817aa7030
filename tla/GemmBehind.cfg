SPECIFICATION Spec
CONSTANTS
  PeDim = 2
  KTile = 2
  MulLat = 1
  Dims = {1}
  Commands = {"start", "mem"}
  Behind = TRUE
INVARIANT JobAlone
