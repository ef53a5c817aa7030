--------------------------------- MODULE MCIss --------------------------------
(***************************************************************************)
(* Words of 8 bits: text at 0, data at 64, DRAM at 96, the GEMM block at   *)
(* 128 (its 32 bytes of CSR twice), EOT at 192, the stack below 240.  A    *)
(* program loads x1, x3 and x5 and goes on with every choice from a pool.  *)
(***************************************************************************)
EXTENDS Iss

I(op, f, rd, rs1, rs2, imm) ==
  [op |-> op, f |-> f, form |-> "none", rd |-> rd, rs1 |-> rs1, rs2 |-> rs2, imm |-> imm]
Neg(k) == 2 ^ ImmBits - k

LuiI(rd, imm) == I("LUI", "", rd, 0, 0, imm)
AddI(rd, rs1, imm) == I("IMM", "ADD", rd, rs1, 0, imm)
OpI(f, rd, rs1, rs2) == I("OP", f, rd, rs1, rs2, 0)
LoadI(f, rd, rs1, imm) == I("LOAD", f, rd, rs1, 0, imm)
StoreI(f, rs2, rs1, imm) == I("STORE", f, 0, rs1, rs2, imm)
BranchI(f, rs1, rs2, imm) == I("BRANCH", f, 0, rs1, rs2, imm)
CsrI(f, form, rd, rs1) == [I("SYSTEM", f, rd, rs1, 0, 0) EXCEPT !.form = form]
VsetI(f, rd, rs1, rs2, imm) == I("VSET", f, rd, rs1, rs2, imm)
ValuI(f, form, rd, rs1, rs2) == [I("VALU", f, rd, rs1, rs2, 0) EXCEPT !.form = form]
VleI(f, rd, rs1) == I("VLE", f, rd, rs1, 0, 0)
VseI(f, rd, rs1) == I("VSE", f, rd, rs1, 0, 0)
Nop == AddI(0, 0, 0)

\* x1 = 64, x3 = 215 (negative), x5 = 52 (the legal vtype).
Prefix == <<LuiI(1, 1), LoadI("LW", 3, 1, 0), LoadI("LW", 5, 1, 4)>>

ScalarPool ==
  {OpI("DIV", 4, 3, 1), OpI("REM", 4, 3, 5), OpI("MULH", 0, 3, 3),
   I("IMM", "SRA", 4, 3, 0, 1), AddI(4, 4, Neg(1)), AddI(0, 1, 5), LuiI(3, 3),
   I("AUIPC", "", 0, 0, 0, 1), Nop,
   LoadI("LB", 4, 1, 4), LoadI("LH", 4, 1, 3), 
   StoreI("SB", 3, 1, 5), StoreI("SH", 3, 1, 2), StoreI("SW", 4, 3, 0),
   StoreI("bad", 4, 3, 0),
   BranchI("BLT", 3, 1, 8), BranchI("BNE", 4, 0, 6), BranchI("BEQ", 4, 0, 2 ^ (ImmBits + 1) - 4),
   I("JAL", "", 6, 0, 0, 8), I("JALR", "", 6, 6, 0, 1),
   I("SYSTEM", "ecall", 0, 0, 0, 0), I("SYSTEM", "bad", 0, 0, 0, 0),
   CsrI("vlenb", "csrrs", 4, 0), CsrI("other", "csrrs", 4, 0), CsrI("vl", "csrrw", 4, 0),
   I("FENCE", "", 0, 0, 0, 0), I("UNKNOWN", "", 4, 3, 1, 0), I("BLANK", "", 0, 0, 0, 0)}

Vsets == {VsetI("vsetivli", 4, 1, 0, VtypeLegal), VsetI("vsetvl", 0, 3, 5, 0),
          VsetI("vsetvli", 4, 0, 0, VtypeLegal), VsetI("vsetvli", 0, 0, 0, VtypeLegal),
          VsetI("vsetvli", 4, 3, 0, 0), VsetI("bad", 4, 3, 0, 0)}
VectorPool ==
  {VsetI("vsetivli", 0, 2, 0, VtypeLegal), VsetI("vsetvli", 0, 0, 0, VtypeLegal),
   VsetI("vsetvli", 6, 3, 0, 1), CsrI("vl", "csrrs", 4, 0),
   VleI("e32", 1, 1), VleI("e8", 1, 1), VseI("e32", 1, 1), VseI("e32", 2, 3),
   ValuI("vadd", "vv", 2, 1, 1), ValuI("vrsub", "vi", 1, 7, 1), ValuI("vrsub", "vv", 1, 1, 1),
   ValuI("vmv", "vx", 1, 3, 0), ValuI("vmv", "vi", 1, 3, 1), ValuI("vmslt", "vx", 2, 3, 1),
   StoreI("SH", 3, 1, 2), LoadI("LW", 4, 1, 0)}
VectorLast ==
  {VsetI("vsetvli", 0, 0, 0, VtypeLegal), CsrI("vl", "csrrs", 4, 0), VseI("e32", 2, 3),
   ValuI("vmslt", "vx", 2, 3, 1), StoreI("SH", 3, 1, 2), LoadI("LW", 4, 1, 0)}

\* A job on the bytes at 64, its product at c, then the pool.
SetCsr(off, v) == <<AddI(4, 0, v), StoreI("SW", 4, 3, off)>>
GemmJobText(m, n, k, c) ==
  <<LuiI(1, 1), LuiI(3, 2), AddI(5, 1, c), StoreI("SW", 1, 3, 0), StoreI("SW", 1, 3, 4),
    StoreI("SW", 5, 3, 8)>>
    \o SetCsr(16, n) \o SetCsr(20, k) \o SetCsr(12, m) \o <<AddI(4, 0, 1)>>
GemmPool ==
  {StoreI("SW", 4, 3, 24), StoreI("SB", 4, 3, 24), AddI(4, 0, 2), StoreI("SW", 3, 3, 28),
   LoadI("LB", 4, 3, 28), LoadI("LW", 6, 3, 0), StoreI("SH", 3, 5, 1), AddI(3, 3, 31)}

Prog(prefix, pools) == {prefix \o p : p \in pools}
MCPrograms ==
  {<<>>}
    \cup Prog(Prefix, {<<a, b, c>> : a, b, c \in ScalarPool})
    \cup Prog(Prefix, {<<v, a, b, c>> : v \in Vsets, a, b \in VectorPool,
                                       c \in VectorLast})
    \cup UNION {Prog(GemmJobText(d[1], d[2], d[3], d[4]), {<<a, b, c>> : a, b, c \in GemmPool}) :
                  d \in {<<1, 2, 2, 16>>, <<2, 1, 1, 1>>, <<1, 0, 1, 16>>}}

Hex(at, v) == [at |-> at, v |-> v]
MCHexLines == <<Hex(TRUE, 16), Hex(FALSE, 9), Hex(FALSE, 52), Hex(FALSE, 141)>>
MCDramLines == <<Hex(FALSE, 39)>>
MCData == [a \in 64..66 |-> IF a = 64 THEN 3 ELSE 1] @@ (67 :> 3)
===============================================================================
