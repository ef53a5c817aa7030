--------------------------------- MODULE Words --------------------------------
(***************************************************************************)
(* The arithmetic of the instruction-set simulator (tools/rv_iss.py) and   *)
(* of its GEMM reference (tools/gemm_ref.py).  A word is four bytes of     *)
(* ByteBits bits, 8 in the code: nothing but the size depends on it.       *)
(***************************************************************************)
EXTENDS Integers, FiniteSetsExt

CONSTANT ByteBits
ASSUME ByteBitsAssumption == ByteBits \in Nat \ {0}

Bits == 4 * ByteBits
Modulus == 2 ^ Bits
Word == 0..(Modulus - 1)
Byte == 0..(2 ^ ByteBits - 1)

\* What the proofs need to know of 2 ^ n, which the provers take as unknown.
ASSUME PowerAssumption ==
  /\ 2 ^ 0 = 1
  /\ \A n \in 0..Bits : 2 ^ n \in Nat \ {0}
  /\ \A n \in 0..(Bits - 1) : 2 ^ (n + 1) = 2 * 2 ^ n

Wrap(v) == v % Modulus
SignExtend(v, n) ==
  IF (v \div 2 ^ (n - 1)) % 2 = 1 THEN (v % 2 ^ n) + Modulus - 2 ^ n ELSE v % 2 ^ n
Signed(w) == IF w >= Modulus \div 2 THEN w - Modulus ELSE w

BitsOf(w) == {i \in 0..(Bits - 1) : (w \div 2 ^ i) % 2 = 1}
OfBits(S) == MapThenSumSet(LAMBDA i : 2 ^ i, S)
And(a, b) == OfBits(BitsOf(a) \cap BitsOf(b))
Or(a, b) == OfBits(BitsOf(a) \cup BitsOf(b))
Xor(a, b) == OfBits((BitsOf(a) \ BitsOf(b)) \cup (BitsOf(b) \ BitsOf(a)))

\* Python's // and % round towards minus infinity, for every divisor but 0.
FloorDiv(a, b) == IF b > 0 THEN a \div b ELSE (-a) \div (-b)
FloorMod(a, b) == a - b * FloorDiv(a, b)

\* x >> s of a word, or of an integer.
Shift(x, s) == x \div 2 ^ s
Amount(b) == b % Bits
Flag(c) == IF c THEN 1 ELSE 0

-----------------------------------------------------------------------------
(* Division: the code corrects the floor when the signs differ and the     *)
(* division has a remainder.                                               *)

\* Mutant: the floor is left as it is.
Floored(a, b) == FloorDiv(a, b)
Quotient(a, b) ==
  LET q == FloorDiv(a, b)
  IN  IF (a < 0) # (b < 0) /\ FloorMod(a, b) # 0 THEN q + 1 ELSE q
Remainder(a, b) == a - Quotient(a, b) * b

Overflows(a, b) == Signed(a) = -(Modulus \div 2) /\ Signed(b) = -1
Div(a, b) ==
  CASE Signed(b) = 0   -> Modulus - 1
    [] Overflows(a, b) -> Modulus \div 2
    [] OTHER           -> Wrap(Quotient(Signed(a), Signed(b)))
Rem(a, b) ==
  CASE Signed(b) = 0   -> a
    [] Overflows(a, b) -> 0
    [] OTHER           -> Wrap(Remainder(Signed(a), Signed(b)))
Divu(a, b) == IF b = 0 THEN Modulus - 1 ELSE a \div b
Remu(a, b) == IF b = 0 THEN a ELSE a % b

\* The upper word of a product.
Upper(p) == Wrap(Shift(p, Bits))

-----------------------------------------------------------------------------
(* The scalar unit.  Other funct3, funct7 pairs leave the result 0.        *)

Alu(f, a, b) ==
  CASE f = "ADD"    -> Wrap(a + b)
    [] f = "SUB"    -> Wrap(a - b)
    [] f = "MUL"    -> Wrap(a * b)
    [] f = "SLL"    -> Wrap(a * 2 ^ Amount(b))
    [] f = "MULH"   -> Upper(Signed(a) * Signed(b))
    [] f = "SLT"    -> Flag(Signed(a) < Signed(b))
    [] f = "MULHSU" -> Upper(Signed(a) * b)
    [] f = "SLTU"   -> Flag(a < b)
    [] f = "MULHU"  -> Upper(a * b)
    [] f = "XOR"    -> Xor(a, b)
    [] f = "DIV"    -> Div(a, b)
    [] f = "SRL"    -> Shift(a, Amount(b))
    [] f = "SRA"    -> Wrap(Shift(Signed(a), Amount(b)))
    [] f = "DIVU"   -> Divu(a, b)
    [] f = "OR"     -> Or(a, b)
    [] f = "REM"    -> Rem(a, b)
    [] f = "AND"    -> And(a, b)
    [] f = "REMU"   -> Remu(a, b)
    [] OTHER        -> 0

\* With an immediate, already extended to a word.
AluImm(f, a, imm) ==
  CASE f = "ADD"  -> Wrap(a + imm)
    [] f = "SLL"  -> Wrap(a * 2 ^ Amount(imm))
    [] f = "SLT"  -> Flag(Signed(a) < Signed(imm))
    [] f = "SLTU" -> Flag(a < Wrap(imm))
    [] f = "XOR"  -> Xor(a, imm)
    [] f = "SRL"  -> Shift(a, Amount(imm))
    [] f = "SRA"  -> Wrap(Shift(Signed(a), Amount(imm)))
    [] f = "OR"   -> Or(a, imm)
    [] f = "AND"  -> And(a, imm)
    [] OTHER      -> 0

Taken(f, a, b) ==
  CASE f = "BEQ"  -> a = b
    [] f = "BNE"  -> a # b
    [] f = "BLT"  -> Signed(a) < Signed(b)
    [] f = "BGE"  -> Signed(a) >= Signed(b)
    [] f = "BLTU" -> a < b
    [] f = "BGEU" -> a >= b
    [] OTHER      -> FALSE

-----------------------------------------------------------------------------
(* One element of the vector unit.                                         *)

ValuOp(f, a, b) ==
  CASE f = "vadd"  -> Wrap(a + b)
    [] f = "vsub"  -> Wrap(a - b)
    [] f = "vrsub" -> Wrap(b - a)
    [] f = "vminu" -> IF a <= b THEN a ELSE b
    [] f = "vmin"  -> IF Signed(a) <= Signed(b) THEN a ELSE b
    [] f = "vmaxu" -> IF a >= b THEN a ELSE b
    [] f = "vmax"  -> IF Signed(a) >= Signed(b) THEN a ELSE b
    [] f = "vand"  -> And(a, b)
    [] f = "vor"   -> Or(a, b)
    [] f = "vxor"  -> Xor(a, b)
    [] f = "vmv"   -> Wrap(b)
    [] f = "vsll"  -> Wrap(a * 2 ^ Amount(b))
    [] f = "vsrl"  -> Shift(a, Amount(b))
    [] f = "vsra"  -> Wrap(Shift(Signed(a), Amount(b)))

ValuCmp(f, a, b) ==
  CASE f = "vmseq"  -> a = b
    [] f = "vmsne"  -> a # b
    [] f = "vmsltu" -> a < b
    [] f = "vmslt"  -> Signed(a) < Signed(b)
    [] f = "vmsleu" -> a <= b
    [] f = "vmsle"  -> Signed(a) <= Signed(b)
    [] f = "vmsgtu" -> a > b
    [] f = "vmsgt"  -> Signed(a) > Signed(b)

Compares == {"vmseq", "vmsne", "vmsltu", "vmslt", "vmsleu", "vmsle", "vmsgtu", "vmsgt"}
Shifts == {"vsll", "vsrl", "vsra"}

\* The operand forms the unit decodes: vector, immediate, scalar.
Forms(f) ==
  CASE f \in {"vadd", "vand", "vor", "vxor", "vmv", "vmseq", "vmsne", "vmsleu",
              "vmsle"} \cup Shifts          -> {"vv", "vi", "vx"}
    [] f \in {"vsub", "vminu", "vmin", "vmaxu", "vmax", "vmsltu", "vmslt"}
                                            -> {"vv", "vx"}
    [] f \in {"vrsub", "vmsgtu", "vmsgt"}   -> {"vi", "vx"}
    [] OTHER                                -> {}

\* The mask a compare writes to element 0, over vl elements of vlmax.
Mask(hits, vl, vlmax) ==
  Modulus - 2 ^ (Bits \div 2)
    + (OfBits(hits \cup vl..(vlmax - 1)) % 2 ^ (Bits \div 2))

-----------------------------------------------------------------------------
(* The GEMM reference: C = A * B, row by row, signed bytes, one word of    *)
(* accumulator.  A and B are functions of the offset.                      *)

S8(v) == LET b == v % 2 ^ ByteBits
         IN  IF b >= 2 ^ (ByteBits - 1) THEN b - 2 ^ ByteBits ELSE b
GemmInt8(a, b, m, n, k) ==
  [c \in 0..(m * n - 1) |->
     LET i == c \div n
         j == c % n
     IN  Signed(Wrap(MapThenSumSet(LAMBDA t : S8(a[i * k + t]) * S8(b[t * n + j]),
                                   0..(k - 1))))]

-----------------------------------------------------------------------------
(* Properties.                                                             *)

Size0(x) == IF x < 0 THEN -x ELSE x

DivisionLaw(a, b) ==
  LET sa == Signed(a)
      sb == Signed(b)
      q == Signed(Div(a, b))
      r == Signed(Rem(a, b))
  IN  /\ Wrap(Div(a, b) * b + Rem(a, b)) = a
      /\ Wrap(Divu(a, b) * b + Remu(a, b)) = a
      /\ b = 0 => q = -1 /\ Divu(a, b) = Modulus - 1
      /\ b # 0 => /\ Remu(a, b) < b /\ Divu(a, b) * b <= a
                  /\ Size0(r) < Size0(sb) /\ (r = 0 \/ (r < 0) = (sa < 0))
                  /\ ~Overflows(a, b) => q * sb + r = sa

ProductLaw(a, b) ==
  /\ Alu("MULHU", a, b) * Modulus + Alu("MUL", a, b) = a * b
  /\ Signed(Alu("MULH", a, b)) * Modulus + Alu("MUL", a, b) = Signed(a) * Signed(b)
  /\ Signed(Alu("MULHSU", a, b)) * Modulus + Alu("MUL", a, b) = Signed(a) * b

ShiftLaw(a, b) ==
  LET s == Amount(b)
      low == a % 2 ^ s
  IN  /\ Alu("SRL", a, b) * 2 ^ s + low = a
      /\ Signed(Alu("SRA", a, b)) * 2 ^ s + low = Signed(a)
      /\ Alu("SRL", Alu("SLL", a, b), b) = a % 2 ^ (Bits - s)

\* An operation the scalar unit, its immediate form and the vector unit all
\* have is written three times in the code.
SameOps == {<<"ADD", "vadd">>, <<"XOR", "vxor">>, <<"OR", "vor">>, <<"AND", "vand">>,
            <<"SLL", "vsll">>, <<"SRL", "vsrl">>, <<"SRA", "vsra">>}
SameLaw(a, b) ==
  /\ \A o \in SameOps : /\ Alu(o[1], a, b) = AluImm(o[1], a, b)
                       /\ Alu(o[1], a, b) = ValuOp(o[2], a, b)
  /\ Alu("SUB", a, b) = ValuOp("vsub", a, b)
  /\ \A f \in {"SLT", "SLTU"} : Alu(f, a, b) = AluImm(f, a, b)
  /\ Alu("SLT", a, b) = Flag(ValuCmp("vmslt", a, b))
  /\ Alu("SLTU", a, b) = Flag(ValuCmp("vmsltu", a, b))
  /\ And(a, b) + Or(a, b) = a + b /\ Xor(a, b) = Or(a, b) - And(a, b)

OrderLaw(a, b) ==
  /\ Taken("BLT", a, b) = (Alu("SLT", a, b) = 1) /\ Taken("BGE", a, b) # Taken("BLT", a, b)
  /\ Taken("BLTU", a, b) = (Alu("SLTU", a, b) = 1)
  /\ Taken("BGEU", a, b) # Taken("BLTU", a, b) /\ Taken("BEQ", a, b) # Taken("BNE", a, b)
  /\ {ValuOp("vmin", a, b), ValuOp("vmax", a, b)} = {a, b}
  /\ {ValuOp("vminu", a, b), ValuOp("vmaxu", a, b)} = {a, b}
  /\ Taken("BLT", a, b) => ValuOp("vmin", a, b) = a
  /\ Taken("BLTU", a, b) => ValuOp("vminu", a, b) = a
  /\ \A p \in {<<"vmsgt", "vmsle">>, <<"vmsgtu", "vmsleu">>} :
       ValuCmp(p[1], a, b) # ValuCmp(p[2], a, b)

\* For every pair of words the simulator computes what RISC-V defines:
\* quotient and remainder give the dividend back, the remainder is smaller
\* than the divisor and has the dividend's sign, with the two exceptions of
\* the M extension; the halves of a product make the product; shifts are
\* divisions; and the operations the code writes more than once, for the
\* scalar unit, its immediates, the branches and the vector unit, agree.
Laws ==
  \A a, b \in Word : /\ DivisionLaw(a, b) /\ ProductLaw(a, b) /\ ShiftLaw(a, b)
                     /\ SameLaw(a, b) /\ OrderLaw(a, b)
===============================================================================
