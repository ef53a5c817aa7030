SPECIFICATION Spec
CONSTANTS
  ByteBits = 2
  SmallBits = 4
  Dests = {1, 2}
  Divisions <- MCDivisions
INVARIANTS AnswersRight DividedSoFar
