SPECIFICATION FairSpec
CONSTANTS
  PeDim = 2
  KTile = 2
  MulLat = 1
  Dims = {1, 3}
  Commands = {"start", "reset"}
  Behind = FALSE
INVARIANT TypeOK
INVARIANT ProductReady
INVARIANT PulsesTaken
PROPERTY JobsEnd
