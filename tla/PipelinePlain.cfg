SPECIFICATION Spec
CONSTANTS
  b1 = b1
  b2 = b2
  Bits = {b1, b2}
  Kinds = {"alu", "br", "nop", "div", "store", "vset", "vec"}
  Dests = {{b1}, {b2}}
  MaxSrcs = 1
  MulLat = 5
  DivLat = 2
  Refill = 2
  Accel = FALSE
  SlowMem = FALSE
SYMMETRY Symmetry
INVARIANT TypeOK
INVARIANT OperandsCurrent
INVARIANT HazardFree
