---------------------------------- MODULE Iss ---------------------------------
(***************************************************************************)
(* The instruction-set simulator (tools/rv_iss.py): the reference the RTL  *)
(* is compared with, retired instruction by retired instruction, through   *)
(* the trace it writes.                                                    *)
(*                                                                         *)
(* An instruction is a record of its fields: op is the opcode, f what its  *)
(* funct fields select, form the operand form of a vector instruction, imm *)
(* the immediate before it is extended.  Text is kept apart from the data: *)
(* the programs neither read nor write it (TypeOK).                        *)
(***************************************************************************)
EXTENDS Words, Sequences, SequencesExt

CONSTANTS
  RegBits,         \* bits of a register field (5)
  ImmBits,         \* bits of an I or S immediate (12)
  Vlmax,           \* elements of a vector register, 0 without the unit
  VtypeLegal,      \* the one legal vtype
  TextStart,       \* address of .text
  Entry,           \* where the program starts
  StackTop,        \* stack_base + stack_size
  EotAddr, EotSize,
  GemmAddr, GemmSize,
  GemmSpan,        \* bytes of CSR the GEMM block decodes (256)
  HexLines,        \* memory file: [at] or [word] lines
  DramLines, DramBase,
  Data,            \* the data sections of the ELF file: address -> byte
  Programs,        \* what .text may hold
  MaxInstructions

Reg == 0..(2 ^ RegBits - 1)
VtypeVill == 2 ^ (Bits - 1)
GemmRegs == {4 * i : i \in 0..(GemmSpan \div 4 - 1)}
Instruction == [op : STRING, f : STRING, form : STRING,
                rd : Reg, rs1 : Reg, rs2 : Reg, imm : Nat]
HexLine == [at : BOOLEAN, v : Nat]

ASSUME IssAssumption ==
  /\ RegBits \in 1..Bits /\ ImmBits \in 1..(Bits - 1)
  /\ Vlmax \in 0..Bits /\ VtypeLegal \in Word \ {VtypeVill}
  /\ {TextStart, Entry, StackTop, EotAddr, GemmAddr} \subseteq Word
  /\ {EotSize, GemmSize, MaxInstructions} \subseteq Nat \ {0}
  /\ GemmSpan \in {n \in Nat : n % 4 = 0 /\ n >= 32}
  /\ HexLines \in Seq(HexLine) /\ DramLines \in Seq(HexLine) /\ DramBase \in Nat
  /\ DOMAIN Data \subseteq Nat /\ \A a \in DOMAIN Data : Data[a] \in Byte

\* .text holds words, at an address of words, inside the address space.
ASSUME TextAssumption ==
  /\ TextStart % 4 = 0
  /\ \A p \in Programs : p \in Seq(Instruction) /\ TextStart + 4 * Len(p) < Modulus

VARIABLES
  text,      \* the program
  pc, regs, mem,
  vl, vtype, vregs,
  gemm,      \* the CSRs of the GEMM block
  log,       \* the trace
  count,     \* instructions retired
  stop,      \* "run", "stopped", or "error"
  hidden     \* history: bytes last written by vse or the GEMM block

vars == <<text, pc, regs, mem, vl, vtype, vregs, gemm, log, count, stop, hidden>>

-----------------------------------------------------------------------------
(* Registers and memory.  Memory is sparse, and not written bytes read 0;  *)
(* an access does not wrap at the end of the address space.                *)

Read(r) == IF r = 0 THEN 0 ELSE Wrap(regs[r])
\* Mutant: a write reaches x0.
WriteX0(rs, r, v) == [rs EXCEPT ![r] = Wrap(v)]
WriteReg(rs, r, v) == IF r = 0 THEN rs ELSE [rs EXCEPT ![r] = Wrap(v)]

ByteAt(m, a) == IF a \in DOMAIN m THEN m[a] ELSE 0
ValueAt(m, a, n) ==
  MapThenSumSet(LAMBDA i : ByteAt(m, a + i) * 2 ^ (ByteBits * i), 0..(n - 1))
PutValue(m, a, v, n) ==
  [x \in DOMAIN m \cup a..(a + n - 1) |->
     IF x \in a..(a + n - 1) THEN Shift(v, ByteBits * (x - a)) % 2 ^ ByteBits
     ELSE m[x]]
PutWords(m, a, ws) ==          \* ws: 0..n - 1 -> word
  [x \in DOMAIN m \cup {a + i : i \in 0..(4 * Cardinality(DOMAIN ws) - 1)} |->
     IF x - a \in 0..(4 * Cardinality(DOMAIN ws) - 1)
     THEN Shift(Wrap(ws[(x - a) \div 4]), ByteBits * ((x - a) % 4)) % 2 ^ ByteBits
     ELSE m[x]]

\* load_hex_file: a line sets the address, in words, or stores one.
LoadHex(m, lines, base) ==
  FoldLeft(LAMBDA s, l :
             IF l.at THEN [s EXCEPT !.addr = base + l.v * 4]
             ELSE [addr |-> s.addr + 4, mem |-> PutValue(s.mem, s.addr, Wrap(l.v), 4)],
           [addr |-> base, mem |-> m], lines).mem

\* run: the memory file, the DRAM file, then the sections of the ELF file.
LoadElf(m) == [a \in DOMAIN m \cup DOMAIN Data |->
                 IF a \in DOMAIN Data THEN Data[a] ELSE m[a]]
NoBytes == [a \in {} |-> 0]

Init ==
  /\ text \in Programs
  /\ pc = Entry
  /\ regs = [r \in Reg |-> IF r = 2 THEN StackTop ELSE 0]
  /\ mem = LoadElf(LoadHex(LoadHex(NoBytes, HexLines, 0), DramLines, DramBase))
  /\ vl = 0 /\ vtype = (IF Vlmax = 0 THEN 0 ELSE VtypeVill)
  /\ vregs = [r \in IF Vlmax = 0 THEN {} ELSE Reg |-> [i \in 0..(Vlmax - 1) |-> 0]]
  /\ gemm = [r \in GemmRegs |-> 0]
  /\ log = <<>> /\ count = 0 /\ stop = "run" /\ hidden = {}

-----------------------------------------------------------------------------
(* Fetch and retire.                                                       *)

InText(a) == a >= TextStart /\ a < TextStart + 4 * Len(text)
Code(a) == text[(a - TextStart) \div 4 + 1]
Inst == Code(pc)
Live == stop = "run" /\ count < MaxInstructions /\ InText(pc)
Fetched(op) == Live /\ pc % 4 = 0 /\ Inst.op = op

\* decode_instruction: the immediate as a word.
Imm(i) ==
  CASE i.op \in {"LUI", "AUIPC"} -> i.imm * 2 ^ ImmBits
    [] i.op = "JAL"              -> SignExtend(i.imm, Bits)
    [] i.op = "BRANCH"           -> SignExtend(i.imm, ImmBits + 1)
    [] OTHER                     -> SignExtend(i.imm, ImmBits)

\* What a line of the trace names.
RegIs(r, v) == [kind |-> "reg", at |-> r, val |-> v]
MemIs(a, v) == [kind |-> "mem", at |-> a, val |-> v]
PcIs(a) == [kind |-> "pc", at |-> 0, val |-> a]
Note(n) == [kind |-> n, at |-> 0, val |-> 0]
IsNop(i) == i.op = "IMM" /\ i.f = "ADD" /\ i.rd = 0 /\ i.rs1 = 0 /\ i.imm = 0

\* An instruction that touches nothing, and the NOP, leave no line.
Retire(touched, next) ==
  /\ log' = IF touched = {} \/ IsNop(Inst) THEN log
            ELSE Append(log, [pc |-> pc, inst |-> Inst, touched |-> touched])
  /\ pc' = next
  /\ count' = count + 1
  /\ UNCHANGED <<text, stop>>
Next4 == Wrap(pc + 4)
Fault == stop' = "error" /\ UNCHANGED <<text, pc, regs, mem, vl, vtype, vregs, gemm,
                                        log, count, hidden>>
NoMemory == UNCHANGED <<mem, gemm, hidden>>
NoVector == UNCHANGED <<vl, vtype, vregs>>

\* The loop ends: the limit, a pc out of .text, or a word of zeros or ones.
Leave ==
  /\ stop = "run"
  /\ Live => pc % 4 = 0 /\ Inst.op = "BLANK"
  /\ stop' = "stopped"
  /\ UNCHANGED <<text, pc, regs, mem, vl, vtype, vregs, gemm, log, count, hidden>>

Misaligned == Live /\ pc % 4 # 0 /\ Fault

-----------------------------------------------------------------------------
(* The scalar instructions.                                                *)

WriteRd(v) ==
  /\ regs' = WriteReg(regs, Inst.rd, v)
  /\ Retire({RegIs(Inst.rd, regs'[Inst.rd])}, Next4)
  /\ NoMemory /\ NoVector

Lui == Fetched("LUI") /\ WriteRd(Imm(Inst))
ImmOp == Fetched("IMM") /\ WriteRd(AluImm(Inst.f, Read(Inst.rs1), Imm(Inst)))
RegOp == Fetched("OP") /\ WriteRd(Alu(Inst.f, Read(Inst.rs1), Read(Inst.rs2)))

\* AUIPC, JAL and JALR name the value also when rd is x0.
Auipc ==
  /\ Fetched("AUIPC")
  /\ LET v == Wrap(pc + Imm(Inst))
     IN  /\ regs' = WriteReg(regs, Inst.rd, v)
         /\ Retire({RegIs(Inst.rd, v)}, Next4)
  /\ NoMemory /\ NoVector

Jump(target) ==
  /\ regs' = WriteReg(regs, Inst.rd, pc + 4)
  /\ Retire({RegIs(Inst.rd, pc + 4), PcIs(target)}, target)
  /\ NoMemory /\ NoVector
Jal == Fetched("JAL") /\ Jump(Wrap(pc + Imm(Inst)))
Jalr == /\ Fetched("JALR")
        /\ LET t == Wrap(Read(Inst.rs1) + Imm(Inst)) IN Jump(t - (t % 2))

Branch ==
  /\ Fetched("BRANCH")
  /\ LET target == Wrap(pc + Imm(Inst))
     IN  IF Taken(Inst.f, Read(Inst.rs1), Read(Inst.rs2))
         THEN Retire({Note("taken"), PcIs(target)}, target)
         ELSE Retire({Note("not taken")}, Next4)
  /\ UNCHANGED regs /\ NoMemory /\ NoVector

Address == Wrap(Read(Inst.rs1) + Imm(Inst))
GemmHit(a) == a \in GemmAddr..(GemmAddr + GemmSize - 1)
GemmOff(a) == LET o == (a - GemmAddr) % GemmSpan IN o - (o % 4)

Loaded(f, a) ==
  IF GemmHit(a) THEN gemm[GemmOff(a)]
  ELSE CASE f = "LB"  -> SignExtend(ValueAt(mem, a, 1), ByteBits)
         [] f = "LH"  -> SignExtend(ValueAt(mem, a, 2), 2 * ByteBits)
         [] f = "LW"  -> ValueAt(mem, a, 4)
         [] f = "LBU" -> ValueAt(mem, a, 1)
         [] f = "LHU" -> ValueAt(mem, a, 2)
         [] OTHER     -> 0
Load == Fetched("LOAD") /\ WriteRd(Loaded(Inst.f, Address))

\* _run_gemm: all of A and B is read before C is written.
GemmDone(csr) == [csr EXCEPT ![28] = 2]
RunGemm(csr) ==
  LET m == csr[12]
      n == csr[16]
      k == csr[20]
      a == [i \in 0..(m * k - 1) |-> ByteAt(mem, csr[0] + i)]
      b == [i \in 0..(k * n - 1) |-> ByteAt(mem, csr[4] + i)]
  IN  /\ gemm' = GemmDone(csr)
      /\ IF m = 0 \/ n = 0 \/ k = 0 THEN UNCHANGED <<mem, hidden>>
         ELSE /\ mem' = PutWords(mem, csr[8], GemmInt8(a, b, m, n, k))
              /\ hidden' = hidden \cup csr[8]..(csr[8] + 4 * m * n - 1)

Size(f) == CASE f = "SB" -> 1 [] f = "SH" -> 2 [] f = "SW" -> 4 [] OTHER -> 0
Masked(f, v) == CASE f = "SB" -> v % 2 ^ ByteBits
                  [] f = "SW" -> v
                  [] OTHER    -> v % 2 ^ (2 * ByteBits)

\* Mutant: a store of any size writes a CSR.
StoreAnyCsr(a, f, v) ==
  /\ gemm' = [gemm EXCEPT ![GemmOff(a)] = v]
  /\ UNCHANGED <<mem, hidden>>

\* Only SW reaches a CSR, every store leaves its line.  Bit 0 of CONTROL (24)
\* runs the job before the store retires, bit 1 clears STATUS (28).
StoreCsr(a, f, v) ==
  LET csr == [gemm EXCEPT ![GemmOff(a)] = v]
  IN  IF f = "SW" /\ GemmOff(a) = 24 /\ v % 2 = 1 THEN RunGemm(csr)
      ELSE /\ gemm' = IF f # "SW" THEN gemm
                      ELSE IF GemmOff(a) = 24 /\ Shift(v, 1) % 2 = 1
                           THEN [csr EXCEPT ![28] = 0]
                           ELSE csr
           /\ UNCHANGED <<mem, hidden>>
StoreMem(a, f, v) ==
  /\ mem' = PutValue(mem, a, v, Size(f))
  /\ hidden' = hidden \ a..(a + Size(f) - 1)
  /\ UNCHANGED gemm
StoreLine(a, f, v) ==
  IF GemmHit(a) \/ Size(f) # 0 THEN {MemIs(a, Masked(f, v))} ELSE {}

\* A store that starts in the end-of-test region is the last instruction, and
\* not counted.
Store ==
  /\ Fetched("STORE")
  /\ LET a == Address
         v == Read(Inst.rs2)
         line == StoreLine(a, Inst.f, v)
     IN  /\ IF GemmHit(a) THEN StoreCsr(a, Inst.f, v) ELSE StoreMem(a, Inst.f, v)
         /\ IF a \in EotAddr..(EotAddr + EotSize - 1)
            THEN /\ log' = IF line = {} THEN log
                           ELSE Append(log, [pc |-> pc, inst |-> Inst, touched |-> line])
                 /\ pc' = Next4 /\ stop' = "stopped" /\ UNCHANGED <<text, count>>
            ELSE Retire(line, Next4)
  /\ UNCHANGED regs /\ NoVector

System ==
  /\ Fetched("SYSTEM") /\ Inst.f \in {"ecall", "ebreak"}
  /\ Retire({Note(Inst.f)}, Next4)
  /\ UNCHANGED regs /\ NoMemory /\ NoVector

\* csrrs rd, csr, x0 of a vector CSR.  Other SYSTEM encodings are skipped,
\* and so are FENCE and the opcodes the simulator does not know.
CsrValue == [vl |-> vl, vtype |-> vtype, vlenb |-> 4 * Vlmax, vstart |-> 0]
ReadsCsr(i) == Vlmax # 0 /\ i.form = "csrrs" /\ i.rs1 = 0
Csr ==
  /\ Fetched("SYSTEM") /\ Inst.f \notin {"ecall", "ebreak"} /\ ReadsCsr(Inst)
  /\ IF Inst.f \in DOMAIN CsrValue
     THEN /\ regs' = WriteReg(regs, Inst.rd, CsrValue[Inst.f])
          /\ Retire(IF Inst.rd = 0 THEN {} ELSE {RegIs(Inst.rd, regs'[Inst.rd])}, Next4)
          /\ NoMemory /\ NoVector
     ELSE Fault
BadSystem ==
  Fetched("SYSTEM") /\ Inst.f = "bad" /\ Inst.form = "none" /\ Fault
Skip ==
  /\ \/ Fetched("FENCE")
     \/ Fetched("UNKNOWN")
     \/ /\ Fetched("SYSTEM") /\ Inst.f \notin {"ecall", "ebreak"}
        /\ Inst.form # "none" /\ ~ReadsCsr(Inst)
  /\ Retire({}, Next4)
  /\ UNCHANGED regs /\ NoMemory /\ NoVector

-----------------------------------------------------------------------------
(* The vector instructions.  None of vle, vse and valu leaves a line.      *)

\* The requested length: rd = rs1 = x0 keeps vl, rs1 = x0 alone asks for all.
NewVl(i) ==
  LET asked == IF i.f = "vsetivli" THEN i.rs1 ELSE Read(i.rs1)
  IN  IF i.f = "vsetivli" \/ i.rs1 # 0 THEN (IF asked < Vlmax THEN asked ELSE Vlmax)
      ELSE IF i.rd = 0 THEN vl ELSE Vlmax
ApplyVset(req) ==
  LET legal == req = VtypeLegal
  IN  /\ vl' = IF legal THEN NewVl(Inst) ELSE 0
      /\ vtype' = IF legal THEN VtypeLegal ELSE VtypeVill
      /\ regs' = WriteReg(regs, Inst.rd, vl')
      /\ Retire(IF Inst.rd = 0 THEN {} ELSE {RegIs(Inst.rd, regs'[Inst.rd])}, Next4)
      /\ NoMemory /\ UNCHANGED vregs
Vset ==
  /\ Fetched("VSET")
  /\ IF Vlmax = 0 \/ Inst.f \notin {"vsetvli", "vsetivli", "vsetvl"} THEN Fault
     ELSE ApplyVset(IF Inst.f = "vsetvl" THEN Read(Inst.rs2) ELSE Inst.imm)

Elements == 0..(Vlmax - 1)
Ones == Modulus - 1
WithTail(e) == [i \in Elements |-> IF i < vl THEN e[i] ELSE Ones]
WriteVreg(e) ==
  /\ vregs' = IF vtype = VtypeVill THEN vregs ELSE [vregs EXCEPT ![Inst.rd] = e]
  /\ Retire({}, Next4)
  /\ UNCHANGED <<regs, vl, vtype>>

\* The second operand: a vector, a scalar, or the field extended from its
\* bits, a shift amount apart.
Operand(i) ==
  IF Inst.form = "vv" THEN vregs[Inst.rs1][i]
  ELSE IF Inst.form = "vx" THEN Read(Inst.rs1)
  ELSE IF Inst.f \in Shifts THEN Inst.rs1 ELSE SignExtend(Inst.rs1, RegBits)
Source(i) == vregs[Inst.rs2][i]
CmpResult ==
  [i \in Elements |->
     IF i = 0 THEN Mask({e \in 0..(vl - 1) : ValuCmp(Inst.f, Source(e), Operand(e))},
                        vl, Vlmax)
     ELSE Ones]
ValuLegal ==
  /\ Inst.form \in Forms(Inst.f)             \* a masked one has none
  /\ Inst.f = "vmv" => Inst.rs2 = 0

\* With vill set an instruction is skipped before its encoding is looked at.
Valu ==
  /\ Fetched("VALU")
  /\ IF Vlmax = 0 \/ (vtype # VtypeVill /\ ~ValuLegal) THEN Fault
     ELSE /\ WriteVreg(IF vtype = VtypeVill THEN Ones
                       ELSE IF Inst.f \in Compares THEN CmpResult
                       ELSE WithTail([i \in 0..(vl - 1) |->
                                        ValuOp(Inst.f, Source(i), Operand(i))]))
          /\ NoMemory

Vle ==
  /\ Fetched("VLE")
  /\ IF Vlmax = 0 \/ Inst.f # "e32" THEN Fault
     ELSE /\ WriteVreg(WithTail([i \in 0..(vl - 1) |->
                                   ValueAt(mem, Read(Inst.rs1) + 4 * i, 4)]))
          /\ NoMemory

Vse ==
  /\ Fetched("VSE")
  /\ IF Vlmax = 0 \/ Inst.f # "e32" THEN Fault
     ELSE /\ IF vtype = VtypeVill \/ vl = 0 THEN UNCHANGED <<mem, hidden>>
             ELSE LET base == Read(Inst.rs1)
                  IN  /\ mem' = PutWords(mem, base,
                                         [i \in 0..(vl - 1) |-> vregs[Inst.rd][i]])
                      /\ hidden' = hidden \cup base..(base + 4 * vl - 1)
          /\ Retire({}, Next4)
          /\ UNCHANGED <<regs, gemm>> /\ NoVector

Next == \/ Leave \/ Misaligned
        \/ Lui \/ Auipc \/ Jal \/ Jalr \/ Branch \/ Load \/ Store \/ ImmOp \/ RegOp
        \/ System \/ Csr \/ BadSystem \/ Skip
        \/ Vset \/ Valu \/ Vle \/ Vse
Spec == Init /\ [][Next]_vars

-----------------------------------------------------------------------------
(* What the trace says.  A line is replayed from its instruction and what  *)
(* it names; between two lines stand only instructions that leave none.    *)

Quiet(i) ==
  \/ i.op \in {"FENCE", "UNKNOWN", "VALU", "VLE", "VSE"} \/ IsNop(i)
  \/ i.op = "VSET" /\ i.rd = 0
  \/ i.op = "SYSTEM" /\ i.form # "none" /\ (i.rd = 0 \/ ~ReadsCsr(i))
  \/ i.op = "STORE" /\ Size(i.f) = 0
QuietTo(a, b) ==
  a <= b /\ \A x \in a..(b - 1) : (x - a) % 4 = 0 => InText(x) /\ Quiet(Code(x))

Line(s, e) ==
  LET reg == {t \in e.touched : t.kind = "reg" /\ t.at # 0}
      put == {t \in e.touched : t.kind = "mem"}
      jump == {t \in e.touched : t.kind = "pc"}
      m == CHOOSE t \in put : TRUE
      csr == put # {} /\ GemmHit(m.at)
  IN  [pc   |-> IF jump = {} THEN e.pc + 4 ELSE (CHOOSE t \in jump : TRUE).val,
       regs |-> [r \in Reg |-> IF \E t \in reg : t.at = r
                               THEN (CHOOSE t \in reg : TRUE).val ELSE s.regs[r]],
       mem  |-> IF put = {} \/ csr THEN s.mem
                ELSE PutValue(s.mem, m.at, m.val, Size(e.inst.f)),
       gemm |-> IF csr /\ e.inst.f = "SW" /\ GemmOff(m.at) # 28
                THEN [s.gemm EXCEPT ![GemmOff(m.at)] = m.val] ELSE s.gemm,
       good |-> s.good /\ QuietTo(s.pc, e.pc) /\ e.inst = Code(e.pc)]
Start == [pc |-> Entry, regs |-> [r \in Reg |-> IF r = 2 THEN StackTop ELSE 0],
          mem |-> LoadElf(LoadHex(LoadHex(NoBytes, HexLines, 0), DramLines, DramBase)),
          gemm |-> [r \in GemmRegs |-> 0], good |-> TRUE]
Replayed == FoldLeft(Line, Start, log)

-----------------------------------------------------------------------------
(* Properties.                                                             *)

\* The parts of the machine have their ranges at every step: x0 stays 0, vl
\* never passes the register and is 0 while vill is set, memory holds bytes,
\* and no program reaches its own text.
TypeOK ==
  /\ pc \in Word /\ regs \in [Reg -> Word] /\ regs[0] = 0
  /\ \A a \in DOMAIN mem : mem[a] \in Byte /\ ~InText(a)
  /\ vl \in 0..Vlmax /\ vtype \in {0, VtypeLegal, VtypeVill}
  /\ vtype # VtypeLegal => vl = 0
  /\ Vlmax = 0 => vtype = 0 /\ vregs = [r \in {} |-> 0]
  /\ Vlmax # 0 => vregs \in [Reg -> [Elements -> Word]]
  /\ gemm \in [GemmRegs -> Word]
  /\ stop \in {"run", "stopped", "error"} /\ count \in 0..MaxInstructions
  /\ hidden \subseteq DOMAIN mem

\* The trace says everything the RTL is compared on: replayed line by line, it
\* gives the registers, the pc up to instructions that leave no line, the CSRs
\* of the GEMM block but its STATUS, and each byte of memory the vector stores
\* and the GEMM block did not write after the last line that names it.  What
\* the ISS changes without a line, the comparison of traces never sees.
Replays ==
  LET r == Replayed
  IN  /\ r.good /\ r.regs = regs /\ QuietTo(r.pc, pc)
      /\ \A a \in (DOMAIN mem \cup DOMAIN r.mem) \ hidden :
           ByteAt(mem, a) = ByteAt(r.mem, a)
      /\ \A c \in GemmRegs \ {28} : gemm[c] = r.gemm[c]

\* The scalar unit, the branches and the vector unit compute what RISC-V
\* defines (Laws), for every pair of operands.  No state matters to it: it is
\* stated at the program without instructions, so that it is evaluated once.
Arithmetic == text = <<>> /\ stop = "run" => Laws
===============================================================================
