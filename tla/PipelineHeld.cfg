SPECIFICATION FairSpec
CONSTANTS
  b1 = b1
  Bits = {b1}
  Kinds = {"alu", "jal", "nop", "mul", "div", "load", "store", "vec"}
  Dests = {{b1}}
  MaxSrcs = 1
  MulLat = 4
  DivLat = 2
  Refill = 2
  Accel = TRUE
  SlowMem = TRUE
INVARIANT NothingLost
INVARIANT NoMixing
INVARIANT ForwardKept
INVARIANT OperandsCovered
INVARIANT BitsOwned
PROPERTY KeepsMoving
