-------------------------------- MODULE Divider -------------------------------
(***************************************************************************)
(* The divider of the core (rtl/scalar/exu/div.sv): a shortcut of one      *)
(* cycle for the easy operands, and a non-restoring divider of one bit per *)
(* cycle for the others.  Its word has Bits bits; what it must compute is  *)
(* the division of the simulator (Words), with which the comparison of the *)
(* traces confronts it.                                                    *)
(*                                                                         *)
(* A division is a record: rem asks for the remainder, unsign for unsigned *)
(* operands, a and b are the operands, rd the destination.  exu.sv ties    *)
(* flush_lower and dec_tlu_fast_div_disable to 0, and the pipeline offers  *)
(* nothing while div_stall is high (Pipeline!DivBlocks).                   *)
(***************************************************************************)
EXTENDS Words, Sequences

CONSTANTS
  SmallBits,       \* width of small_div (4)
  Dests,           \* destination registers
  Divisions        \* the sequences of divisions a program may hold

Operation == [rem : BOOLEAN, unsign : BOOLEAN, a : Word, b : Word, rd : Dests]

ASSUME DividerAssumption ==
  /\ SmallBits \in 1..(Bits - 1)
  /\ Divisions \subseteq Seq(Operation)

VARIABLES
  todo,           \* the divisions the pipeline still brings
  state,          \* "idle", "run" or "done"
  iter,
  part_rem,       \* Bits + 1 bits, two's complement
  part_quot,
  abs_divisor_ff,
  flags,          \* fast_path_ff, rem_op_ff, signed_op_ff and the two signs
  result_latched,
  out_addr,
  out,            \* out_q and out_valid_q
  taken,          \* history: the division in the unit,
  shown           \*          and the one whose result is in out

vars == <<todo, state, iter, part_rem, part_quot, abs_divisor_ff, flags,
          result_latched, out_addr, out, taken, shown>>

-----------------------------------------------------------------------------
(* The operands and the shortcuts.                                         *)

Half == 2 ^ (Bits - 1)
Negate(v, neg) == IF neg THEN Wrap(-v) ELSE v

DividendNeg(o) == ~o.unsign /\ o.a >= Half
DivisorNeg(o) == ~o.unsign /\ o.b >= Half
AbsDividend(o) == Negate(o.a, DividendNeg(o))
AbsDivisor(o) == Negate(o.b, DivisorNeg(o))

SmallNum(o) == AbsDividend(o) < 2 ^ SmallBits /\ AbsDivisor(o) < 2 ^ SmallBits
DivOverflow(o) == ~o.unsign /\ o.a = Half /\ o.b = Modulus - 1
FastPath(o) ==
  o.b = 0 \/ AbsDivisor(o) = 1 \/ o.a = 0 \/ DivOverflow(o) \/ SmallNum(o)

\* small_div is a table of the quotients and remainders of SmallBits bits.
SmallQuot(a, b) == a \div b
SmallRem(a, b) == a % b

\* The overflow is a division by one too, and takes that branch.
QuotMag(o) ==
  IF o.b = 0 THEN Modulus - 1
  ELSE IF o.a = 0 THEN 0
  ELSE IF AbsDivisor(o) = 1 THEN AbsDividend(o)
  ELSE IF DivOverflow(o) THEN Half
  ELSE IF SmallNum(o) THEN SmallQuot(AbsDividend(o), AbsDivisor(o))
  ELSE 0
RemMag(o) ==
  IF o.b = 0 THEN o.a
  ELSE IF o.a = 0 \/ AbsDivisor(o) = 1 \/ DivOverflow(o) THEN 0
  ELSE IF SmallNum(o) THEN SmallRem(AbsDividend(o), AbsDivisor(o))
  ELSE 0
\* Mutant: the signs decide the remainder as they decide the quotient.
ResultFastBoth(o) ==
  Negate(IF o.rem THEN RemMag(o) ELSE QuotMag(o), DividendNeg(o) # DivisorNeg(o))
ResultFast(o) ==
  IF o.rem THEN Negate(RemMag(o), DividendNeg(o))
  ELSE Negate(QuotMag(o), DividendNeg(o) # DivisorNeg(o))

-----------------------------------------------------------------------------
(* One bit of the quotient: the partial remainder is doubled, takes the    *)
(* next bit of the dividend, and the divisor is added to it if it was      *)
(* negative and subtracted otherwise.  The bits of the quotient push those *)
(* of the dividend out of part_quot.                                       *)

Negative(p) == p >= Modulus
Shifted == 2 * (part_rem % Modulus) + part_quot \div Half
\* Mutant: the sign of the shifted remainder chooses.
TrialShifted ==
  (Shifted + IF Negative(Shifted) THEN abs_divisor_ff ELSE 2 * Modulus - abs_divisor_ff)
    % (2 * Modulus)
Trial ==
  (Shifted + IF Negative(part_rem) THEN abs_divisor_ff ELSE 2 * Modulus - abs_divisor_ff)
    % (2 * Modulus)
NextQuot == 2 * (part_quot % Half) + IF Negative(Trial) THEN 0 ELSE 1

RemIter == IF Negative(part_rem) THEN Wrap(part_rem + abs_divisor_ff) ELSE part_rem
ResultRun ==
  IF flags.rem THEN Negate(RemIter, flags.aneg)
  ELSE Negate(part_quot, flags.aneg # flags.bneg)
ResultDone == IF flags.fast THEN result_latched ELSE ResultRun

-----------------------------------------------------------------------------
(* The clock.                                                              *)

NoDivision == [rem |-> FALSE, unsign |-> FALSE, a |-> 0, b |-> 0, rd |-> 0]
NoFlags == [fast |-> FALSE, rem |-> FALSE, aneg |-> FALSE, bneg |-> FALSE]

Init ==
  /\ todo \in Divisions
  /\ state = "idle" /\ iter = 0
  /\ part_rem = 0 /\ part_quot = 0 /\ abs_divisor_ff = 0
  /\ flags = NoFlags /\ result_latched = 0
  /\ out_addr = 0 /\ out = [q |-> 0, valid |-> FALSE]
  /\ taken = NoDivision /\ shown = NoDivision

\* The writeback register is valid for the cycle after DONE.
Writeback ==
  /\ out' = IF state = "done" THEN [q |-> ResultDone, valid |-> TRUE]
            ELSE [out EXCEPT !.valid = FALSE]
  /\ shown' = IF state = "done" THEN taken ELSE shown

Capture(o) ==
  /\ flags' = [fast |-> FastPath(o), rem |-> o.rem,
               aneg |-> DividendNeg(o), bneg |-> DivisorNeg(o)]
  /\ abs_divisor_ff' = AbsDivisor(o)
  /\ result_latched' = ResultFast(o)
  /\ out_addr' = o.rd
  /\ taken' = o

Issue(o) ==
  /\ state = "idle"
  /\ Capture(o)
  /\ IF FastPath(o)
     THEN state' = "done" /\ UNCHANGED <<iter, part_rem, part_quot>>
     ELSE /\ state' = "run"
          /\ iter' = 0 /\ part_rem' = 0 /\ part_quot' = AbsDividend(o)
  /\ Writeback

NextDivision == todo # <<>> /\ Issue(Head(todo)) /\ todo' = Tail(todo)

Held == UNCHANGED <<todo, flags, abs_divisor_ff, result_latched, out_addr, taken>>

Run ==
  /\ state = "run"
  /\ part_rem' = Trial /\ part_quot' = NextQuot
  /\ IF iter = Bits - 1 THEN state' = "done" /\ UNCHANGED iter
     ELSE iter' = iter + 1 /\ UNCHANGED state
  /\ Held /\ Writeback

Done ==
  /\ state = "done"
  /\ state' = "idle"
  /\ UNCHANGED <<iter, part_rem, part_quot>>
  /\ Held /\ Writeback

\* No division in this cycle.
Wait ==
  /\ state = "idle"
  /\ UNCHANGED <<state, iter, part_rem, part_quot>>
  /\ Held /\ Writeback

Next == NextDivision \/ Run \/ Done \/ Wait
Spec == Init /\ [][Next]_vars

-----------------------------------------------------------------------------
(* Properties.                                                             *)

Busy == state # "idle"

\* Every register has its width, and a division that leaves the unit was one.
TypeOK ==
  /\ todo \in Seq(Operation)
  /\ state \in {"idle", "run", "done"}
  /\ iter \in 0..(Bits - 1)
  /\ part_rem \in 0..(2 * Modulus - 1)
  /\ part_quot \in Word /\ abs_divisor_ff \in Word /\ result_latched \in Word
  /\ flags \in [fast : BOOLEAN, rem : BOOLEAN, aneg : BOOLEAN, bneg : BOOLEAN]
  /\ out \in [q : Word, valid : BOOLEAN]
  /\ Busy => taken \in Operation
  /\ out.valid => shown \in Operation

\* What the simulator computes for a division.
Reference(o) ==
  IF o.unsign THEN IF o.rem THEN Remu(o.a, o.b) ELSE Divu(o.a, o.b)
  ELSE IF o.rem THEN Rem(o.a, o.b) ELSE Div(o.a, o.b)

\* A negative dividend over zero: the shortcut's quotient and remainder, all
\* ones and the dividend, are already signed, and get the sign once more.
NegatedByZero(o) == ~o.unsign /\ o.b = 0 /\ o.a >= Half

\* The answer on the writeback port is the simulator's answer to the division
\* it is shown with, for the register of that division.  Only a negative
\* dividend over zero differs, and its answer is the negated one.
AnswersRight ==
  out.valid => /\ out.q = Negate(Reference(shown), NegatedByZero(shown))
               /\ out_addr = shown.rd

\* The part of the dividend that is divided already is the quotient so far
\* times the divisor plus a remainder smaller than the divisor, kept as it is
\* or less the divisor, and the rest of the dividend stands above the quotient.
Steps == IF state = "run" THEN iter ELSE Bits
Partial == IF Negative(part_rem) THEN part_rem - 2 * Modulus ELSE part_rem
Restored == IF Negative(part_rem) THEN Partial + abs_divisor_ff ELSE Partial
DividedSoFar ==
  Busy /\ ~flags.fast =>
    LET q == part_quot % 2 ^ Steps
        rest == part_quot \div 2 ^ Steps
    IN  /\ AbsDividend(taken) = (q * abs_divisor_ff + Restored) * 2 ^ (Bits - Steps) + rest
        /\ Restored \in 0..(abs_divisor_ff - 1)
        /\ rest < 2 ^ (Bits - Steps)
===============================================================================
