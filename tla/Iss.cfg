SPECIFICATION Spec
CONSTANTS
  ByteBits = 2
  RegBits = 3
  ImmBits = 6
  Vlmax = 2
  VtypeLegal = 52
  TextStart = 0
  Entry = 0
  StackTop = 240
  EotAddr = 192
  EotSize = 4
  GemmAddr = 128
  GemmSize = 64
  GemmSpan = 32
  HexLines <- MCHexLines
  DramLines <- MCDramLines
  DramBase = 96
  Data <- MCData
  Programs <- MCPrograms
  MaxInstructions = 18
INVARIANTS TypeOK Replays Arithmetic
CHECK_DEADLOCK FALSE
