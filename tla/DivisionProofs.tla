----------------------------- MODULE DivisionProofs ---------------------------
(***************************************************************************)
(* Division, for words of every size: what Python's floor and the          *)
(* correction the simulator adds to it come to, and that the divider of    *)
(* the core, one bit per cycle, computes the same.                         *)
(***************************************************************************)
EXTENDS Divider, TLAPS


\* A factor's sign goes to the product.
LEMMA NegTimes ==
  ASSUME NEW x \in Int, NEW y \in Int
  PROVE  (-x) * y = -(x * y)
BY SMT

\* The floor of a division: what // and % of Python give.
LEMMA FloorFacts ==
  ASSUME NEW a \in Int, NEW b \in Int, b # 0
  PROVE  /\ FloorDiv(a, b) \in Int /\ FloorMod(a, b) \in Int
         /\ a = b * FloorDiv(a, b) + FloorMod(a, b)
         /\ b > 0 => 0 <= FloorMod(a, b) /\ FloorMod(a, b) < b
         /\ b < 0 => b < FloorMod(a, b) /\ FloorMod(a, b) <= 0
<1>1. CASE b > 0
  <2>1. a \div b \in Int /\ a % b \in 0..(b - 1) /\ a = b * (a \div b) + (a % b)
    BY <1>1, SMT
  <2>2. FloorMod(a, b) = a % b
    BY <1>1, <2>1, SMT DEF FloorDiv, FloorMod
  <2> QED BY <1>1, <2>1, <2>2, SMT DEF FloorDiv
<1>2. CASE b < 0
  <2> DEFINE c == -a
             d == -b
  <2>1. d \in Int /\ d > 0 /\ c \in Int
    BY <1>2, SMT
  <2>2. c \div d \in Int /\ c % d \in 0..(d - 1) /\ c = d * (c \div d) + (c % d)
    <3> HIDE DEF c, d
    <3> QED BY <2>1, SMT
  <2>3. FloorDiv(a, b) = c \div d
    BY <1>2 DEF FloorDiv
  <2>4. FloorMod(a, b) = -(c % d)
    <3>1. d * (c \div d) = -(b * (c \div d))
      <4> DEFINE q == c \div d
      <4>1. q \in Int
        BY <2>2
      <4> HIDE DEF q
      <4>2. (-b) * q = -(b * q)
        BY <4>1, NegTimes
      <4> QED BY <4>2 DEF q
    <3>2. FloorMod(a, b) = a - b * (c \div d)
      BY <2>3 DEF FloorMod
    <3> QED BY <2>1, <2>2, <3>1, <3>2, SMT
  <2> QED BY <1>2, <2>1, <2>2, <2>3, <2>4, SMT DEF FloorMod
<1> QED BY <1>1, <1>2, SMT

\* DIV and REM (rv_iss.py:938-956, 978-997), before the result is cut to a word:
\* the quotient and the remainder give the dividend back, the remainder is
\* smaller than the divisor, and it has the sign of the dividend or is 0.  So
\* the quotient is truncated towards zero, for words of every size.
THEOREM DivisionTruncates ==
  ASSUME NEW a \in Int, NEW b \in Int, b # 0
  PROVE  /\ Quotient(a, b) * b + Remainder(a, b) = a
         /\ Size0(Remainder(a, b)) < Size0(b)
         /\ Remainder(a, b) = 0 \/ ((Remainder(a, b) < 0) <=> (a < 0))
<1> DEFINE q == FloorDiv(a, b)
           r == FloorMod(a, b)
           up == ((a < 0) # (b < 0)) /\ r # 0
<1>1. /\ q \in Int /\ r \in Int /\ a = b * q + r
      /\ b > 0 => 0 <= r /\ r < b
      /\ b < 0 => b < r /\ r <= 0
  BY FloorFacts
<1>2. Quotient(a, b) = IF up THEN q + 1 ELSE q
  BY DEF Quotient
<1> HIDE DEF q, r
<1>3. q * b = b * q /\ (q + 1) * b = b * q + b
  BY <1>1, SMT
<1>4. Remainder(a, b) = IF up THEN r - b ELSE r
  <2>1. CASE up
    BY <1>1, <1>2, <1>3, <2>1, SMT DEF Remainder
  <2>2. CASE ~up
    BY <1>1, <1>2, <1>3, <2>2, SMT DEF Remainder
  <2> QED BY <2>1, <2>2
<1>5. Quotient(a, b) * b + Remainder(a, b) = a
  <2>1. Quotient(a, b) \in Int
    BY <1>1, <1>2, SMT
  <2> QED BY <2>1, <1>1, SMT DEF Remainder
<1>6. Size0(Remainder(a, b)) < Size0(b)
  BY <1>1, <1>4, SMT DEF Size0
<1>7. Remainder(a, b) = 0 \/ ((Remainder(a, b) < 0) <=> (a < 0))
  <2>1. b > 0 /\ a < 0 => q < 0
    <3>1. b > 0 /\ q >= 0 => b * q >= 0
      BY <1>1, SMT
    <3> QED BY <1>1, <3>1, SMT
  <2> QED BY <1>1, <1>4, SMT
<1> QED BY <1>5, <1>6, <1>7
-----------------------------------------------------------------------------
(* The divider: operands and their magnitudes.                             *)

LEMMA PowerFacts ==
  /\ Bits \in Nat /\ Bits >= 4
  /\ Half \in Nat /\ Half > 0 /\ Modulus \in Nat
  /\ Modulus = 2 * Half /\ Modulus \div 2 = Half
<1>1. Bits \in Nat /\ Bits >= 4
  BY ByteBitsAssumption, SMT DEF Bits
<1>2. Half \in Nat \ {0}
  BY <1>1, PowerAssumption, SMT DEF Half
<1>3. Modulus = 2 * Half
  <2>1. Bits - 1 \in 0..(Bits - 1) /\ (Bits - 1) + 1 = Bits
    BY <1>1, SMT
  <2> QED BY <2>1, PowerAssumption DEF Half, Modulus
<1> QED BY <1>1, <1>2, <1>3, SMT

\* There is one quotient and one remainder.
LEMMA OneQuotient ==
  ASSUME NEW x \in Nat, NEW y \in Nat, y > 0,
         NEW q \in Int, NEW r \in Nat, r < y, x = q * y + r
  PROVE  q = x \div y /\ r = x % y
<1> DEFINE d == x \div y
<1>1. d \in Int /\ x % y \in 0..(y - 1) /\ x = y * d + (x % y)
  BY SMT
<1> HIDE DEF d
<1>2. y * d = d * y
  BY <1>1, SMT
<1>3. (q - d) * y = (x % y) - r
  <2>1. (q - d) * y = q * y - d * y
    BY <1>1, SMT
  <2> QED BY <2>1, <1>1, <1>2, SMT
<1>4. q - d = 0
  <2> DEFINE e == q - d
  <2>1. e \in Int /\ e * y < y /\ e * y > -y
    BY <1>1, <1>3, SMT
  <2> HIDE DEF e
  <2>2. e >= 1 => e * y >= y
    BY <2>1, SMT
  <2>3. e <= -1 => e * y <= -y
    BY <2>1, SMT
  <2>4. e = 0
    BY <2>1, <2>2, <2>3, SMT
  <2> QED BY <2>4 DEF e
<1>5. q = d
  BY <1>1, <1>4, SMT
<1>6. q * y = y * d
  BY <1>1, <1>2, <1>5
<1>7. r = x % y
  BY <1>1, <1>6, SMT
<1> QED BY <1>5, <1>7 DEF d
\* A truncated division is one of the magnitudes, with its signs put back.
LEMMA Truncated ==
  ASSUME NEW x \in Int, NEW y \in Int, y # 0
  PROVE  LET q == Size0(x) \div Size0(y)
             r == Size0(x) % Size0(y)
         IN  /\ Quotient(x, y) = IF (x < 0) # (y < 0) THEN -q ELSE q
             /\ Remainder(x, y) = IF x < 0 THEN -r ELSE r
<1> DEFINE q == Quotient(x, y)
           r == Remainder(x, y)
           s == IF (x < 0) # (y < 0) THEN -q ELSE q
<1>1. q \in Int /\ r \in Int
  <2>1. FloorDiv(x, y) \in Int
    BY FloorFacts
  <2>2. q \in Int
    BY <2>1, SMT DEF Quotient
  <2>3. q * y \in Int
    BY <2>2, SMT
  <2> QED BY <2>2, <2>3 DEF Remainder
<1>2. q * y + r = x /\ Size0(r) < Size0(y) /\ (r = 0 \/ ((r < 0) <=> (x < 0)))
  BY DivisionTruncates
<1> HIDE DEF q, r
<1>3. Size0(x) \in Nat /\ Size0(y) \in Nat /\ Size0(y) > 0 /\ Size0(r) \in Nat
  BY <1>1, SMT DEF Size0
<1>4. (-q) * y = -(q * y) /\ q * (-y) = -(q * y) /\ (-q) * (-y) = q * y
  BY <1>1, NegTimes, SMT
<1>5. s \in Int /\ Size0(x) = s * Size0(y) + Size0(r)
  <2>1. CASE x >= 0 /\ y > 0
    BY <1>1, <1>2, <2>1, SMT DEF Size0
  <2>2. CASE x < 0 /\ y > 0
    BY <1>1, <1>2, <1>4, <2>2, SMT DEF Size0
  <2>3. CASE x >= 0 /\ y < 0
    BY <1>1, <1>2, <1>4, <2>3, SMT DEF Size0
  <2>4. CASE x < 0 /\ y < 0
    BY <1>1, <1>2, <1>4, <2>4, SMT DEF Size0
  <2> QED BY <2>1, <2>2, <2>3, <2>4, SMT
<1> HIDE DEF s
<1>6. s = Size0(x) \div Size0(y) /\ Size0(r) = Size0(x) % Size0(y)
  BY <1>2, <1>3, <1>5, OneQuotient
<1>7. q = IF (x < 0) # (y < 0) THEN -s ELSE s
  BY <1>1, SMT DEF s
<1>8. r = IF x < 0 THEN -Size0(r) ELSE Size0(r)
  BY <1>1, <1>2, SMT DEF Size0
<1> QED BY <1>6, <1>7, <1>8 DEF q, r

\* The magnitude of an operand is that of the number it stands for.
LEMMA Magnitudes ==
  ASSUME NEW o \in Operation
  PROVE  /\ o.a \in Word /\ o.b \in Word /\ o.unsign \in BOOLEAN /\ o.rem \in BOOLEAN
         /\ AbsDividend(o) \in Word /\ AbsDivisor(o) \in Word
         /\ o.b # 0 => AbsDivisor(o) > 0
         /\ o.unsign => /\ AbsDividend(o) = o.a /\ AbsDivisor(o) = o.b
                        /\ ~DividendNeg(o) /\ ~(DividendNeg(o) # DivisorNeg(o))
         /\ ~o.unsign => /\ AbsDividend(o) = Size0(Signed(o.a))
                         /\ AbsDivisor(o) = Size0(Signed(o.b))
                         /\ AbsDividend(o) <= Half
                         /\ DividendNeg(o) <=> Signed(o.a) < 0
                         /\ DivisorNeg(o) <=> Signed(o.b) < 0
                         /\ (DividendNeg(o) # DivisorNeg(o))
                              <=> ((Signed(o.a) < 0) # (Signed(o.b) < 0))
         /\ Signed(o.a) \in Int /\ Signed(o.b) \in Int
         /\ Signed(o.b) = 0 <=> o.b = 0
<1>1. o.a \in Word /\ o.b \in Word /\ o.unsign \in BOOLEAN /\ o.rem \in BOOLEAN
  BY DEF Operation
<1>2. \A w \in Word : w # 0 => Wrap(-w) = Modulus - w
  <2> SUFFICES ASSUME NEW w \in Word, w # 0 PROVE Wrap(-w) = Modulus - w
    OBVIOUS
  <2>1. (-w) % Modulus = Modulus - w
    BY PowerFacts, SMT DEF Word
  <2> QED BY <2>1 DEF Wrap
<1>3. \A w \in Word :
        /\ Signed(w) = IF w >= Half THEN w - Modulus ELSE w
        /\ w >= Half => Wrap(-w) = -Signed(w)
  BY <1>2, PowerFacts, SMT DEF Word, Signed
<1>4. /\ AbsDividend(o) = IF ~o.unsign /\ o.a >= Half THEN Wrap(-o.a) ELSE o.a
      /\ AbsDivisor(o) = IF ~o.unsign /\ o.b >= Half THEN Wrap(-o.b) ELSE o.b
  BY DEF AbsDividend, AbsDivisor, Negate, DividendNeg, DivisorNeg
<1> QED
  BY <1>1, <1>3, <1>4, PowerFacts, SMT DEF Word, Size0, DividendNeg, DivisorNeg

\* With the signs put back, the quotient and the remainder of the magnitudes
\* are the simulator's, the overflow among them.
LEMMA SignsBack ==
  ASSUME NEW o \in Operation, o.b # 0
  PROVE  LET q == AbsDividend(o) \div AbsDivisor(o)
             r == AbsDividend(o) % AbsDivisor(o)
         IN  /\ q \in Word /\ r \in Word
             /\ Reference(o) = IF o.rem THEN Negate(r, DividendNeg(o))
                               ELSE Negate(q, DividendNeg(o) # DivisorNeg(o))
<1> DEFINE x == AbsDividend(o)
           y == AbsDivisor(o)
           q == x \div y
           r == x % y
           neg == DividendNeg(o) # DivisorNeg(o)
<1>1. x \in Word /\ y \in Word /\ y > 0
  BY Magnitudes
<1>2. q \in 0..x /\ r \in 0..(y - 1) /\ r <= x /\ (y = 1 => q = x /\ r = 0)
  <2> HIDE DEF x, y
  <2>1. x \in Nat /\ y \in Nat /\ y > 0
    BY <1>1, PowerFacts, SMT DEF Word
  <2>2. q \in Int /\ r \in 0..(y - 1) /\ x = y * q + r
    BY <2>1, SMT
  <2> HIDE DEF q, r
  <2>3. q >= 0
    <3>1. q <= -1 => y * q <= -y
      BY <2>1, <2>2, SMT
    <3> QED BY <2>1, <2>2, <3>1, SMT
  <2>4. y * q >= q
    BY <2>1, <2>2, <2>3, SMT
  <2> QED BY <2>1, <2>2, <2>3, <2>4, SMT
<1>3. q \in Word /\ r \in Word
  BY <1>1, <1>2, PowerFacts, SMT DEF Word
<1>4. CASE o.unsign
  <2>1. Reference(o) = IF o.rem THEN o.a % o.b ELSE o.a \div o.b
    BY <1>4 DEF Reference, Remu, Divu
  <2>2. x = o.a /\ y = o.b /\ ~DividendNeg(o) /\ ~neg
    BY <1>4, Magnitudes
  <2> QED BY <1>3, <2>1, <2>2 DEF Negate
<1>5. CASE ~o.unsign
  <2> DEFINE a == Signed(o.a)
             b == Signed(o.b)
  <2>1. a \in Int /\ b \in Int /\ b # 0 /\ x = Size0(a) /\ y = Size0(b) /\ x <= Half
    BY <1>5, Magnitudes
  <2>2. DividendNeg(o) <=> a < 0
    BY <1>5, Magnitudes
  <2>3. neg <=> ((a < 0) # (b < 0))
    BY <1>5, Magnitudes
  <2>4. Quotient(a, b) = (IF neg THEN -q ELSE q)
        /\ Remainder(a, b) = (IF DividendNeg(o) THEN -r ELSE r)
    BY <2>1, <2>2, <2>3, Truncated
  <2>5. Wrap(q) = q /\ Wrap(r) = r
    <3> HIDE DEF q, r
    <3> QED BY <1>3, PowerFacts, SMT DEF Word, Wrap
  <2>6. CASE ~Overflows(o.a, o.b)
    <3>1. Reference(o) = IF o.rem THEN Wrap(Remainder(a, b)) ELSE Wrap(Quotient(a, b))
      BY <1>5, <2>1, <2>6 DEF Reference, Rem, Div
    <3> QED BY <1>3, <2>4, <2>5, <3>1 DEF Negate
  <2>7. CASE Overflows(o.a, o.b)
    <3>1. a = -Half /\ b = -1
      BY <2>7, PowerFacts DEF Overflows
    <3>2. x = Half /\ y = 1 /\ a < 0 /\ b < 0
      <4> HIDE DEF a, b, x, y
      <4>1. a < 0 /\ -a = Half /\ b + 1 = 0
        BY <2>1, <3>1, PowerFacts, SMT
      <4>2. b < 0 /\ -b = 1
        BY <2>1, <4>1, SMT
      <4>3. Size0(a) = -a /\ Size0(b) = -b
        BY <4>1, <4>2 DEF Size0
      <4> QED BY <2>1, <4>1, <4>2, <4>3
    <3>3. ~neg /\ DividendNeg(o)
      BY <2>2, <2>3, <3>2
    <3>4. q = Half /\ r = 0
      BY <1>2, <3>2
    <3>5. Wrap(-0) = 0
      BY PowerFacts, SMT DEF Wrap
    <3>6. Reference(o) = IF o.rem THEN 0 ELSE Half
      BY <1>5, <2>1, <2>7, PowerFacts DEF Reference, Rem, Div
    <3>7. Reference(o) = IF o.rem THEN Negate(r, DividendNeg(o)) ELSE Negate(q, neg)
      <4> HIDE DEF q, r, neg
      <4> QED BY <3>3, <3>4, <3>5, <3>6 DEF Negate
    <3> QED BY <1>3, <3>7
  <2> QED BY <2>6, <2>7
<1> QED BY <1>4, <1>5, Magnitudes
-----------------------------------------------------------------------------
(* The shortcut.                                                           *)

\* What the shortcut latches is a word, on the slow path too.
LEMMA ShortcutFits ==
  ASSUME NEW o \in Operation
  PROVE  ResultFast(o) \in Word
<1>1. \A v \in Word, n \in BOOLEAN : Negate(v, n) \in Word
  BY PowerFacts, SMT DEF Negate, Wrap, Word
<1>2. DividendNeg(o) \in BOOLEAN /\ (DividendNeg(o) # DivisorNeg(o)) \in BOOLEAN
  BY Magnitudes DEF DividendNeg
<1>3. 0 \in Word /\ Modulus - 1 \in Word /\ Half \in Word
  BY PowerFacts, SMT DEF Word
<1>4. o.a \in Word /\ AbsDividend(o) \in Word /\ AbsDivisor(o) \in Word
  BY Magnitudes
<1>5. SmallNum(o) /\ o.b # 0 => /\ SmallQuot(AbsDividend(o), AbsDivisor(o)) \in Word
                               /\ SmallRem(AbsDividend(o), AbsDivisor(o)) \in Word
  <2>1. ASSUME NEW x \in Word, NEW y \in Word, y > 0
        PROVE  x \div y \in Word /\ x % y \in Word
    BY <2>1, PowerFacts, SMT DEF Word
  <2> QED BY <1>4, <2>1, Magnitudes DEF SmallQuot, SmallRem
<1>6. QuotMag(o) \in Word /\ RemMag(o) \in Word
  BY <1>3, <1>4, <1>5 DEF QuotMag, RemMag
<1> QED BY <1>1, <1>2, <1>6 DEF ResultFast

\* On the fast path it is the simulator's result, negated when a negative
\* dividend meets zero, whichever branch computes it.
LEMMA ShortcutRight ==
  ASSUME NEW o \in Operation, FastPath(o)
  PROVE  /\ ResultFast(o) = Negate(Reference(o), NegatedByZero(o))
         /\ ResultFast(o) \in Word
<1>1. \A v \in Word, n \in BOOLEAN : Negate(v, n) \in Word
  BY PowerFacts, SMT DEF Negate, Wrap, Word
<1>2. DividendNeg(o) \in BOOLEAN /\ (DividendNeg(o) # DivisorNeg(o)) \in BOOLEAN
  BY Magnitudes DEF DividendNeg
<1>3. CASE o.b = 0
  <2>1. QuotMag(o) = Modulus - 1 /\ RemMag(o) = o.a
    BY <1>3 DEF QuotMag, RemMag
  <2>2. ~DivisorNeg(o)
    BY <1>3, PowerFacts, SMT DEF DivisorNeg
  <2>3. NegatedByZero(o) = DividendNeg(o)
    BY <1>3 DEF NegatedByZero, DividendNeg
  <2>4. Reference(o) = IF o.rem THEN o.a ELSE Modulus - 1
    <3>1. Signed(o.b) = 0
      BY <1>3, Magnitudes
    <3>2. ~Overflows(o.a, o.b)
      BY <3>1, SMT DEF Overflows
    <3>3. Rem(o.a, o.b) = o.a /\ Div(o.a, o.b) = Modulus - 1
      BY <3>1, <3>2 DEF Rem, Div
    <3>4. Remu(o.a, o.b) = o.a /\ Divu(o.a, o.b) = Modulus - 1
      BY <1>3 DEF Remu, Divu
    <3> QED BY <3>3, <3>4 DEF Reference
  <2>5. (DividendNeg(o) # DivisorNeg(o)) <=> DividendNeg(o)
    <3>1. (DividendNeg(o) # FALSE) <=> DividendNeg(o)
      BY DEF DividendNeg
    <3>2. DivisorNeg(o) = FALSE
      BY <2>2 DEF DivisorNeg
    <3> QED BY <3>1, <3>2
  <2>6. ResultFast(o) = Negate(Reference(o), NegatedByZero(o))
    BY <2>1, <2>3, <2>4, <2>5 DEF ResultFast, Negate
  <2>7. Reference(o) \in Word
    BY <2>4, Magnitudes, PowerFacts, SMT DEF Word
  <2> QED BY <1>1, <1>2, <2>3, <2>6, <2>7
<1>4. CASE o.b # 0
  <2> DEFINE x == AbsDividend(o)
             y == AbsDivisor(o)
  <2>1. x \in Word /\ y \in Word /\ y > 0
    BY <1>4, Magnitudes
  <2>2. DivOverflow(o) => y = 1
    <3>1. (-(Modulus - 1)) % Modulus = 1
      BY PowerFacts, SMT
    <3> QED BY <3>1, PowerFacts, SMT DEF DivOverflow, AbsDivisor, DivisorNeg, Negate, Wrap
  <2>3. o.a = 0 => x = 0 /\ 0 = 0 \div y /\ 0 = 0 % y
    <3>1. o.a = 0 => x = 0
      BY PowerFacts, SMT DEF AbsDividend, Negate, DividendNeg
    <3> HIDE DEF x, y
    <3> QED BY <2>1, <3>1, PowerFacts, SMT DEF Word
  <2>4. x = x \div 1 /\ 0 = x % 1
    <3> HIDE DEF x
    <3> QED BY <2>1, PowerFacts, SMT DEF Word
  <2>5. /\ QuotMag(o) = IF o.a = 0 THEN 0 ELSE IF y = 1 THEN x ELSE x \div y
        /\ RemMag(o) = IF o.a = 0 \/ y = 1 THEN 0 ELSE x % y
    BY <1>4, <2>2 DEF FastPath, QuotMag, RemMag, SmallQuot, SmallRem
  <2>6. QuotMag(o) = x \div y /\ RemMag(o) = x % y
    <3> HIDE DEF x, y
    <3> QED BY <2>3, <2>4, <2>5
  <2>7. ResultFast(o) = Reference(o)
    BY <1>4, <2>6, SignsBack DEF ResultFast
  <2>8. Negate(Reference(o), NegatedByZero(o)) = Reference(o)
    BY <1>4 DEF Negate, NegatedByZero
  <2>9. ResultFast(o) \in Word
    BY <1>1, <1>2, <1>4, <2>6, SignsBack DEF ResultFast
  <2> QED BY <2>7, <2>8, <2>9
<1> QED BY <1>3, <1>4

-----------------------------------------------------------------------------
(* One bit.                                                                *)

\* In part_quot, a rest over t bits of quotient: the shift takes the top bit b of
\* the rest and adds one to the quotient.
ShiftsTo(h, t, p, v, bit) ==
  LET q == v % t
      rest == v \div t
      b == v \div h
      w == 2 * (v % h) + bit
  IN  /\ q \in Nat /\ rest \in Nat /\ b \in 0..1 /\ w \in 0..(2 * h - 1)
      /\ rest - b * p \in 0..(p - 1)
      /\ w % (2 * t) = 2 * q + bit
      /\ w \div (2 * t) = rest - b * p

LEMMA ShiftsOne ==
  ASSUME NEW h \in Nat, NEW t \in Nat, NEW p \in Nat, t > 0, p > 0, t * p = h,
         NEW v \in 0..(2 * h - 1), NEW bit \in 0..1
  PROVE  ShiftsTo(h, t, p, v, bit)
<1> DEFINE q == v % t
           rest == v \div t
           b == v \div h
           low == v % h
           w == 2 * low + bit
<1>1. h > 0
  BY SMT
<1>2. q \in 0..(t - 1) /\ rest \in Int /\ v = t * rest + q
  BY SMT
<1>3. low \in 0..(h - 1) /\ b \in Int /\ v = h * b + low
  BY <1>1, SMT
<1> HIDE DEF q, rest, b, low
<1>4. b \in 0..1
  <2>1. b >= 2 => h * b >= 2 * h
    BY <1>1, <1>3, SMT
  <2>2. b <= -1 => h * b <= -h
    BY <1>1, <1>3, SMT
  <2> QED BY <1>1, <1>3, <2>1, <2>2, SMT
<1>5. rest >= 0
  <2>1. rest <= -1 => t * rest <= -t
    BY <1>2, SMT
  <2> QED BY <1>2, <2>1, SMT
<1>6. w \in 0..(2 * h - 1)
  BY <1>1, <1>3, SMT
<1> DEFINE e == rest - b * p
<1>7. e \in Int /\ t * e = t * rest - b * h
  <2>1. b = 0 => b * p = 0 /\ b * h = 0
    BY SMT
  <2>2. b = 1 => b * p = p /\ b * h = h
    BY SMT
  <2>3. t * (rest - p) = t * rest - t * p
    BY <1>2, SMT
  <2>4. CASE b = 0
    BY <1>2, <2>1, <2>4, SMT
  <2>5. CASE b = 1
    BY <1>2, <2>2, <2>3, <2>5, SMT
  <2> QED BY <1>4, <2>4, <2>5, SMT
<1>8. low = t * e + q
  <2>1. h * b = b * h
    BY <1>3, SMT
  <2> QED BY <1>2, <1>3, <1>7, <2>1, SMT
<1> HIDE DEF e
<1>9. e \in 0..(p - 1)
  <2>1. e <= -1 => t * e <= -t
    BY <1>7, SMT
  <2>2. e >= p => t * e >= t * p
    BY <1>7, SMT
  <2> QED BY <1>2, <1>3, <1>7, <1>8, <2>1, <2>2, SMT
<1>10. w = e * (2 * t) + (2 * q + bit) /\ 2 * q + bit \in Nat /\ 2 * q + bit < 2 * t
  <2>1. e * (2 * t) = 2 * (t * e) /\ t * e \in Int
    BY <1>7, SMT
  <2>2. w = 2 * (t * e) + 2 * q + bit
    BY <1>2, <1>8, <2>1, SMT
  <2> QED BY <1>2, <2>1, <2>2, SMT
<1>11. w \in Nat /\ 2 * t \in Nat /\ 2 * t > 0
  BY <1>3, SMT
<1> HIDE DEF w
<1>12. e = w \div (2 * t) /\ 2 * q + bit = w % (2 * t)
  BY <1>7, <1>10, <1>11, OneQuotient
<1> QED BY <1>2, <1>4, <1>5, <1>6, <1>9, <1>12 DEF ShiftsTo, q, rest, b, low, w, e

\* The trial in Bits + 1 bits is twice the restored remainder, the next bit, less
\* the divisor: nothing is lost at the top, for any divisor.
LEMMA TrialFits ==
  ASSUME NEW m \in Nat, NEW d \in 1..(m - 1), NEW p \in 0..(2 * m - 1), NEW b \in 0..1,
         NEW r \in 0..(d - 1), r = IF p >= m THEN p - 2 * m + d ELSE p
  PROVE  LET t == (2 * (p % m) + b + IF p >= m THEN d ELSE 2 * m - d) % (2 * m)
             s == 2 * r + b - d
         IN  /\ t \in 0..(2 * m - 1)
             /\ t = IF s < 0 THEN s + 2 * m ELSE s
             /\ t >= m <=> s < 0
<1> DEFINE s == 2 * r + b - d
<1>1. s \in Int /\ -d <= s /\ s < d
  BY SMT
<1>2. p % m = IF p >= m THEN p - m ELSE p
  BY SMT
<1>3. 2 * (p % m) + b + (IF p >= m THEN d ELSE 2 * m - d) = s + 2 * m
  BY <1>2, SMT
<1>4. (s + 2 * m) % (2 * m) = IF s < 0 THEN s + 2 * m ELSE s
  <2>1. s + 2 * m \in 0..(4 * m - 1)
    BY <1>1, SMT
  <2> HIDE DEF s
  <2> QED BY <1>1, <2>1, SMT
<1> QED BY <1>1, <1>3, <1>4, SMT
-----------------------------------------------------------------------------
(* The invariant: the registers are those of the division taken, and the   *)
(* two weights of part_quot, of the quotient and of the rest, make a word. *)

Captured ==
  Busy =>
    /\ flags.rem = taken.rem
    /\ flags.aneg = DividendNeg(taken) /\ flags.bneg = DivisorNeg(taken)
    /\ abs_divisor_ff = AbsDivisor(taken) /\ out_addr = taken.rd
    /\ flags.fast => /\ FastPath(taken) /\ state = "done"
                  /\ result_latched = ResultFast(taken)
    /\ ~flags.fast => taken.b # 0

Slow == Busy /\ ~flags.fast
Weights == Slow => 2 ^ Steps * 2 ^ (Bits - Steps) = Modulus

Inv == TypeOK /\ Captured /\ Weights /\ DividedSoFar /\ AnswersRight

LEMMA StepBounds ==
  ASSUME TypeOK
  PROVE  /\ Steps \in 0..Bits /\ Bits - Steps \in 0..Bits
         /\ 2 ^ Steps \in Nat \ {0} /\ 2 ^ (Bits - Steps) \in Nat \ {0}
<1>1. Steps \in 0..Bits /\ Bits - Steps \in 0..Bits
  BY PowerFacts, SMT DEF TypeOK, Steps
<1> QED BY <1>1, PowerAssumption

\* With no bit left, part_quot is the quotient of the magnitudes and the restored
\* remainder their remainder.
LEMMA SlowEnds ==
  ASSUME Inv, state = "done", ~flags.fast
  PROVE  /\ part_quot = AbsDividend(taken) \div AbsDivisor(taken)
         /\ RemIter = AbsDividend(taken) % AbsDivisor(taken)
<1> DEFINE q == part_quot % 2 ^ Steps
           rest == part_quot \div 2 ^ Steps
           x == AbsDividend(taken)
           d == abs_divisor_ff
<1>1. Busy /\ Steps = Bits /\ taken \in Operation
  BY DEF Inv, TypeOK, Busy, Steps
<1>2. d = AbsDivisor(taken) /\ d \in Word /\ d > 0 /\ x \in Word
  BY <1>1, Magnitudes DEF Inv, Captured
<1>3. Bits - Bits = 0 /\ 2 ^ 0 = 1
  BY PowerFacts, SMT
<1>4. /\ x = (q * d + Restored) * 1 + rest
      /\ Restored \in 0..(d - 1) /\ rest < 1
  BY <1>1, <1>3 DEF Inv, DividedSoFar
<1>5. q = part_quot /\ rest = 0
  <2>1. part_quot \in 0..(Modulus - 1)
    BY DEF Inv, TypeOK, Word
  <2>2. part_quot % Modulus = part_quot /\ part_quot \div Modulus = 0
    BY <2>1, PowerFacts, SMT
  <2> QED BY <1>1, <2>2 DEF Modulus
<1>6. x = part_quot * d + Restored
  <2>1. part_quot * d \in Int /\ Restored \in Int
    BY <1>2, <1>4, PowerFacts, SMT DEF Inv, TypeOK, Word
  <2> QED BY <1>4, <1>5, <2>1, SMT
<1>7. part_quot = x \div d /\ Restored = x % d
  <2>1. x \in Nat /\ d \in Nat /\ part_quot \in Int /\ Restored \in Nat /\ Restored < d
    BY <1>2, <1>4, PowerFacts, SMT DEF Inv, TypeOK, Word
  <2> HIDE DEF x, d
  <2> QED BY <1>2, <1>6, <2>1, OneQuotient
<1>8. RemIter = Restored
  <2>1. part_rem \in 0..(2 * Modulus - 1) /\ d \in 0..(Modulus - 1)
    BY DEF Inv, TypeOK, Word
  <2>2. CASE part_rem >= Modulus
    <3>1. Restored = part_rem - 2 * Modulus + d
      BY <2>2 DEF Restored, Partial, Negative
    <3>2. (part_rem + d) % Modulus = part_rem + d - 2 * Modulus
      BY <1>4, <2>1, <2>2, <3>1, PowerFacts, SMT
    <3> QED BY <2>1, <2>2, <3>1, <3>2, PowerFacts, SMT DEF RemIter, Negative, Wrap
  <2>3. CASE ~(part_rem >= Modulus)
    BY <2>3 DEF RemIter, Restored, Partial, Negative
  <2> QED BY <2>2, <2>3
<1> QED BY <1>2, <1>7, <1>8

LEMMA DoneRight ==
  ASSUME Inv, state = "done"
  PROVE  /\ ResultDone = Negate(Reference(taken), NegatedByZero(taken))
         /\ ResultDone \in Word
<1>1. Busy /\ taken \in Operation
  BY DEF Inv, TypeOK, Busy
<1>2. CASE flags.fast
  BY <1>1, <1>2, ShortcutRight DEF Inv, Captured, ResultDone
<1>3. CASE ~flags.fast
  <2>1. taken.b # 0
    BY <1>1, <1>3 DEF Inv, Captured
  <2>2. ~NegatedByZero(taken)
    BY <2>1 DEF NegatedByZero
  <2>3. /\ flags.rem = taken.rem
        /\ flags.aneg = DividendNeg(taken) /\ flags.bneg = DivisorNeg(taken)
    BY <1>1 DEF Inv, Captured
  <2>4. ResultRun = Reference(taken)
    BY <1>1, <1>3, <2>1, <2>3, SlowEnds, SignsBack DEF ResultRun
  <2>5. Reference(taken) \in Word
    <3>1. \A v \in Word, n \in BOOLEAN : Negate(v, n) \in Word
      BY PowerFacts, SMT DEF Negate, Wrap, Word
    <3>2. DividendNeg(taken) \in BOOLEAN
          /\ (DividendNeg(taken) # DivisorNeg(taken)) \in BOOLEAN
      BY DEF DividendNeg
    <3> QED BY <1>1, <2>1, <3>1, <3>2, SignsBack
  <2> QED BY <1>3, <2>2, <2>4, <2>5 DEF ResultDone, Negate
<1> QED BY <1>2, <1>3
\* A step of the iteration keeps the invariant of the quotient.
LEMMA RunKeeps ==
  ASSUME Inv, Run
  PROVE  (Weights /\ DividedSoFar)' /\ Trial \in 0..(2 * Modulus - 1) /\ NextQuot \in Word
<1> DEFINE t == 2 ^ Steps
           p == 2 ^ (Bits - (Steps + 1))
           q == part_quot % t
           rest == part_quot \div t
           b == part_quot \div Half
           d == abs_divisor_ff
           x == AbsDividend(taken)
           bit == IF Negative(Trial) THEN 0 ELSE 1
           r == Restored
<1>1. Busy /\ ~flags.fast /\ Steps = iter /\ iter \in 0..(Bits - 1) /\ taken \in Operation
  BY DEF Inv, TypeOK, Captured, Busy, Run, Steps
<1>2. Steps' = Steps + 1 /\ flags' = flags /\ d' = d /\ taken' = taken
  BY <1>1, PowerFacts, SMT DEF Run, Held, Steps
<1>3. /\ Steps + 1 \in 0..Bits
      /\ t \in Nat \ {0} /\ p \in Nat \ {0}
      /\ 2 ^ (Steps + 1) = 2 * t /\ 2 ^ (Bits - Steps) = 2 * p
  <2>1. /\ Steps \in 0..(Bits - 1) /\ Steps \in 0..Bits /\ Steps + 1 \in 0..Bits
        /\ Bits - (Steps + 1) \in 0..(Bits - 1) /\ Bits - (Steps + 1) \in 0..Bits
        /\ (Bits - (Steps + 1)) + 1 = Bits - Steps
    BY <1>1, PowerFacts, SMT
  <2> QED BY <2>1, PowerAssumption
<1>4. x \in Word /\ d \in 1..(Modulus - 1) /\ part_quot \in 0..(2 * Half - 1)
  <2>1. d = AbsDivisor(taken) /\ taken.b # 0
    BY <1>1 DEF Inv, Captured
  <2>2. d \in Word /\ d > 0
    BY <1>1, <2>1, Magnitudes
  <2> QED BY <1>1, <2>2, Magnitudes, PowerFacts, SMT DEF Inv, TypeOK, Word
<1>5. t * (2 * p) = Modulus /\ t * p = Half
  <2>1. t * (2 * p) = Modulus
    BY <1>1, <1>3 DEF Inv, Weights, Slow
  <2>2. t * (2 * p) = 2 * (t * p) /\ t * p \in Nat
    <3> HIDE DEF t, p
    <3> QED BY <1>3, SMT
  <2> QED BY <2>1, <2>2, PowerFacts, SMT
<1>6. x = (q * d + r) * (2 * p) + rest /\ r \in 0..(d - 1)
  BY <1>1, <1>3 DEF Inv, DividedSoFar
<1>7. bit \in 0..1 /\ NextQuot = 2 * (part_quot % Half) + bit
  BY DEF NextQuot
<1>8. /\ q \in Nat /\ rest \in Nat /\ b \in 0..1 /\ NextQuot \in 0..(2 * Half - 1)
      /\ rest - b * p \in 0..(p - 1)
      /\ NextQuot % (2 * t) = 2 * q + bit /\ NextQuot \div (2 * t) = rest - b * p
  <2> HIDE DEF t, p, bit
  <2>1. t \in Nat /\ p \in Nat /\ t > 0 /\ p > 0 /\ Half \in Nat
    BY <1>3, PowerFacts, SMT
  <2>2. ShiftsTo(Half, t, p, part_quot, bit)
    BY <1>4, <1>5, <1>7, <2>1, ShiftsOne
  <2> QED BY <1>7, <2>2 DEF ShiftsTo
<1> DEFINE s == 2 * r + b - d
<1>9. /\ Trial \in 0..(2 * Modulus - 1)
      /\ Trial = IF s < 0 THEN s + 2 * Modulus ELSE s
      /\ Negative(Trial) <=> s < 0
  <2>1. r = IF part_rem >= Modulus THEN part_rem - 2 * Modulus + d ELSE part_rem
    BY DEF Restored, Partial, Negative
  <2>2. part_rem \in 0..(2 * Modulus - 1)
    BY DEF Inv, TypeOK
  <2>3. Trial = (2 * (part_rem % Modulus) + b
                   + IF part_rem >= Modulus THEN d ELSE 2 * Modulus - d) % (2 * Modulus)
    BY DEF Trial, Shifted, Negative
  <2>4. Modulus \in Nat /\ d \in 1..(Modulus - 1) /\ b \in 0..1 /\ r \in 0..(d - 1)
    BY <1>4, <1>6, <1>8, PowerFacts
  <2> DEFINE trial == (2 * (part_rem % Modulus) + b
                        + IF part_rem >= Modulus THEN d ELSE 2 * Modulus - d) % (2 * Modulus)
  <2> HIDE DEF r, b, d
  <2>5. /\ trial \in 0..(2 * Modulus - 1)
        /\ trial = IF s < 0 THEN s + 2 * Modulus ELSE s
        /\ trial >= Modulus <=> s < 0
    BY <2>1, <2>2, <2>4, TrialFits
  <2> QED BY <2>3, <2>5 DEF Negative
<1>10. part_rem' = Trial /\ part_quot' = NextQuot
  BY DEF Run
<1>11. Restored' = IF s < 0 THEN s + d ELSE s
  <2>1. Restored' = IF Negative(Trial) THEN Trial - 2 * Modulus + d ELSE Trial
    BY <1>2, <1>10 DEF Restored, Partial, Negative
  <2>2. s \in Int
    BY <1>4, <1>6, <1>8, PowerFacts, SMT
  <2> HIDE DEF s, d
  <2> QED BY <1>9, <2>1, <2>2, PowerFacts, SMT
<1>12. Restored' \in 0..(d - 1)
  BY <1>4, <1>6, <1>8, <1>11, PowerFacts, SMT
<1>13. /\ part_quot' % 2 ^ Steps' = 2 * q + bit
       /\ part_quot' \div 2 ^ Steps' = rest - b * p
       /\ 2 ^ (Bits - Steps') = p
  BY <1>2, <1>3, <1>8, <1>10
<1>14. (2 * q + bit) * d + Restored' = 2 * (q * d + r) + b
  <2>1. bit = IF s < 0 THEN 0 ELSE 1
    BY <1>9
  <2>2. q \in Nat /\ d \in Nat /\ r \in Int /\ b \in Int
    BY <1>4, <1>6, <1>8, PowerFacts, SMT
  <2>3. (2 * q) * d = 2 * (q * d) /\ (2 * q + 1) * d = 2 * (q * d) + d /\ q * d \in Int
    <3> HIDE DEF q, d
    <3> QED BY <2>2, SMT
  <2>4. CASE s < 0
    <3>1. bit = 0 /\ Restored' = s + d /\ 2 * q + 0 = 2 * q
      BY <1>11, <2>1, <2>2, <2>4, SMT
    <3> HIDE DEF q, d, r, b, bit
    <3> QED BY <2>2, <2>3, <3>1, SMT
  <2>5. CASE ~(s < 0)
    <3>1. bit = 1 /\ Restored' = s
      BY <1>11, <2>1, <2>5
    <3> HIDE DEF q, d, r, b, bit
    <3> QED BY <2>2, <2>3, <3>1, SMT
  <2> QED BY <2>4, <2>5
<1>15. x = ((2 * q + bit) * d + Restored') * p + (rest - b * p)
  <2> DEFINE y == q * d + r
  <2>1. y \in Int /\ b \in Int /\ p \in Int /\ rest \in Int
    BY <1>3, <1>4, <1>6, <1>8, PowerFacts, SMT
  <2> HIDE DEF y
  <2>2. (2 * y + b) * p = 2 * (y * p) + b * p /\ y * (2 * p) = 2 * (y * p)
        /\ y * p \in Int /\ b * p \in Int
    <3> HIDE DEF b, p
    <3> QED BY <2>1, SMT
  <2>3. x = y * (2 * p) + rest
    BY <1>6 DEF y
  <2>4. x = (2 * y + b) * p + (rest - b * p)
    <3> HIDE DEF b, p, rest, x
    <3> QED BY <2>1, <2>2, <2>3, SMT
  <2> QED BY <1>14, <2>4 DEF y
<1>16. DividedSoFar'
  <2>1. x' = x
    BY <1>2 DEF AbsDividend, Negate, DividendNeg, Wrap
  <2>2. rest - b * p < p
    BY <1>3, <1>8, SMT
  <2> QED BY <1>2, <1>12, <1>13, <1>15, <2>1, <2>2 DEF DividedSoFar
<1>17. Weights'
  <2>1. 2 ^ Steps' * 2 ^ (Bits - Steps') = Modulus
    <3>1. (2 * t) * p = t * (2 * p)
      <4> HIDE DEF t, p
      <4> QED BY <1>3, SMT
    <3> QED BY <1>2, <1>3, <1>5, <3>1
  <2> QED BY <2>1 DEF Weights, Modulus, Bits
<1> QED BY <1>8, <1>9, <1>16, <1>17, PowerFacts DEF Word
\* The writeback register takes the answer in DONE and is dropped in any other
\* state; the destination stays while the answer is shown.
LEMMA WritebackKeeps ==
  ASSUME Inv, Writeback, state = "done" => out_addr' = out_addr
  PROVE  /\ AnswersRight' /\ out' \in [q : Word, valid : BOOLEAN]
         /\ (out.valid => shown \in Operation)'
<1>1. CASE state = "done"
  <2>1. /\ out' = [q |-> ResultDone, valid |-> TRUE] /\ shown' = taken
        /\ out_addr' = taken.rd /\ taken \in Operation
    BY <1>1 DEF Inv, TypeOK, Captured, Busy, Writeback
  <2>2. out'.q = Negate(Reference(shown'), NegatedByZero(shown'))
    BY <1>1, <2>1, DoneRight
  <2>3. AnswersRight'
    <3>1. out'.q = Negate(Reference(shown), NegatedByZero(shown))'
      BY <2>2
    <3> QED BY <2>1, <3>1 DEF AnswersRight
  <2> QED BY <1>1, <2>1, <2>3, DoneRight
<1>2. CASE state # "done"
  <2>1. out' = [out EXCEPT !.valid = FALSE] /\ out \in [q : Word, valid : BOOLEAN]
    BY <1>2 DEF Inv, TypeOK, Writeback
  <2>2. out'.valid = FALSE /\ out' \in [q : Word, valid : BOOLEAN]
    BY <2>1
  <2> QED BY <2>2 DEF AnswersRight
<1> QED BY <1>1, <1>2

LEMMA IssueKeeps ==
  ASSUME Inv, NextDivision
  PROVE  Inv'
<1> DEFINE o == Head(todo)
<1>1. o \in Operation /\ Tail(todo) \in Seq(Operation) /\ todo' = Tail(todo) /\ Issue(o)
  BY DEF Inv, TypeOK, NextDivision
<1>2. state = "idle" /\ Capture(o) /\ Writeback
  BY <1>1 DEF Issue
<1>3. /\ AnswersRight' /\ out' \in [q : Word, valid : BOOLEAN]
      /\ (out.valid => shown \in Operation)'
  BY <1>2, WritebackKeeps
<1>4. /\ AbsDividend(o) \in Word /\ AbsDivisor(o) \in Word /\ ResultFast(o) \in Word
      /\ (o.b # 0 => AbsDivisor(o) > 0)
  BY <1>1, Magnitudes, ShortcutFits
<1>5. flags' \in [fast : BOOLEAN, rem : BOOLEAN, aneg : BOOLEAN, bneg : BOOLEAN]
  <2>1. /\ FastPath(o) \in BOOLEAN /\ o.rem \in BOOLEAN
        /\ DividendNeg(o) \in BOOLEAN /\ DivisorNeg(o) \in BOOLEAN
    BY <1>1, Magnitudes DEF FastPath, DividendNeg, DivisorNeg
  <2> QED BY <1>2, <2>1 DEF Capture
<1>6. /\ iter' \in 0..(Bits - 1) /\ part_rem' \in 0..(2 * Modulus - 1) /\ part_quot' \in Word
      /\ state' \in {"done", "run"}
      /\ FastPath(o) => state' = "done"
      /\ ~FastPath(o) => /\ state' = "run"
                         /\ iter' = 0 /\ part_rem' = 0 /\ part_quot' = AbsDividend(o)
  <2>1. CASE FastPath(o)
    BY <1>1, <2>1 DEF Issue, Inv, TypeOK
  <2>2. CASE ~FastPath(o)
    BY <1>1, <1>4, <2>2, PowerFacts, SMT DEF Issue
  <2> QED BY <2>1, <2>2
<1>7. TypeOK'
  BY <1>1, <1>2, <1>3, <1>4, <1>5, <1>6 DEF TypeOK, Capture
<1>8. Captured'
  <2>1. ~FastPath(o) => o.b # 0
    BY DEF FastPath
  <2>2. /\ (flags.rem = taken.rem)' /\ (out_addr = taken.rd)'
        /\ flags'.aneg = DividendNeg(o) /\ flags'.bneg = DivisorNeg(o)
        /\ abs_divisor_ff' = AbsDivisor(o) /\ result_latched' = ResultFast(o)
        /\ flags'.fast = FastPath(o) /\ taken' = o
    BY <1>2 DEF Capture
  <2>3. /\ DividendNeg(taken') = DividendNeg(o) /\ DivisorNeg(taken') = DivisorNeg(o)
        /\ AbsDivisor(taken') = AbsDivisor(o) /\ ResultFast(taken') = ResultFast(o)
    BY <2>2
  <2> HIDE DEF o
  <2>4. /\ (flags.aneg = DividendNeg(taken))' /\ (flags.bneg = DivisorNeg(taken))'
        /\ (abs_divisor_ff = AbsDivisor(taken))' /\ (result_latched = ResultFast(taken))'
    BY <2>2, <2>3
  <2> QED BY <1>6, <2>1, <2>2, <2>4 DEF Captured
<1>9. CASE FastPath(o)
  <2>1. flags'.fast
    BY <1>2, <1>9 DEF Capture
  <2> QED BY <1>3, <1>7, <1>8, <2>1 DEF Inv, Weights, Slow, DividedSoFar
<1>10. CASE ~FastPath(o)
  <2>1. Steps' = 0 /\ Bits - 0 = Bits /\ 2 ^ 0 = 1 /\ 2 ^ Bits = Modulus
    BY <1>6, <1>10, PowerFacts, SMT DEF Steps, Modulus
  <2>2. Weights'
    <3>1. 1 * Modulus = Modulus
      BY PowerFacts, SMT
    <3> QED BY <2>1, <3>1 DEF Weights
  <2> DEFINE x == AbsDividend(o)
             d == AbsDivisor(o)
  <2>3. abs_divisor_ff' = d /\ taken' = o /\ d \in Word /\ d > 0 /\ x \in Word
    BY <1>2, <1>4, <1>10 DEF Capture, FastPath
  <2>4. Restored' = 0
    BY <1>6, <1>10, PowerFacts, SMT DEF Restored, Partial, Negative
  <2>5. part_quot' = x
    BY <1>6, <1>10
  <2>6. x % 1 = 0 /\ x \div 1 = x /\ x = (0 * d + 0) * Modulus + x /\ x < Modulus
        /\ 0 \in 0..(d - 1)
    <3> HIDE DEF x, d
    <3> QED BY <2>3, PowerFacts, SMT DEF Word
  <2>7. AbsDividend(taken)' = x
    BY <2>3 DEF AbsDividend, Negate, DividendNeg, Wrap
  <2>8. DividedSoFar'
    <3> HIDE DEF x, d
    <3> QED BY <2>1, <2>3, <2>4, <2>5, <2>6, <2>7 DEF DividedSoFar
  <2> QED BY <1>3, <1>7, <1>8, <2>2, <2>8 DEF Inv
<1> QED BY <1>9, <1>10

\* The registers of a division do not change while it runs.
LEMMA HeldKeeps ==
  ASSUME Inv, Held, Busy, state' \in {"run", "done"}, flags.fast => state' = "done"
  PROVE  Captured'
<1>1. /\ DividendNeg(taken)' = DividendNeg(taken) /\ DivisorNeg(taken)' = DivisorNeg(taken)
      /\ AbsDivisor(taken)' = AbsDivisor(taken) /\ ResultFast(taken)' = ResultFast(taken)
  BY DEF Held, DividendNeg, DivisorNeg, AbsDivisor, ResultFast
<1> QED BY <1>1 DEF Held, Inv, Captured, Busy

LEMMA InvStep == Inv /\ [Next]_vars => Inv'
<1> SUFFICES ASSUME Inv, [Next]_vars PROVE Inv'
  OBVIOUS
<1>1. CASE NextDivision
  BY <1>1, IssueKeeps
<1>2. CASE Run
  <2>1. state = "run" /\ Held /\ Writeback /\ part_rem' = Trial /\ part_quot' = NextQuot
    BY <1>2 DEF Run
  <2>2. /\ AnswersRight' /\ out' \in [q : Word, valid : BOOLEAN]
        /\ (out.valid => shown \in Operation)'
    BY <2>1, WritebackKeeps
  <2>3. Busy /\ ~flags.fast
    BY <2>1 DEF Busy, Inv, Captured
  <2>4. iter' \in 0..(Bits - 1) /\ state' \in {"run", "done"}
    BY <1>2, PowerFacts, SMT DEF Run, Inv, TypeOK
  <2>5. Captured'
    BY <2>1, <2>3, <2>4, HeldKeeps
  <2>6. (Weights /\ DividedSoFar)' /\ Trial \in 0..(2 * Modulus - 1) /\ NextQuot \in Word
    BY <1>2, RunKeeps
  <2>7. TypeOK'
    BY <2>1, <2>2, <2>3, <2>4, <2>6 DEF Inv, TypeOK, Held
  <2> QED BY <2>2, <2>5, <2>6, <2>7 DEF Inv
<1>3. CASE Done \/ Wait
  <2>1. Held /\ Writeback /\ state' = "idle" /\ UNCHANGED <<iter, part_rem, part_quot>>
    BY <1>3 DEF Done, Wait
  <2>2. /\ AnswersRight' /\ out' \in [q : Word, valid : BOOLEAN]
        /\ (out.valid => shown \in Operation)'
    BY <2>1, WritebackKeeps DEF Held
  <2>3. ~Busy'
    BY <2>1 DEF Busy
  <2>4. TypeOK'
    BY <2>1, <2>2, <2>3 DEF Inv, TypeOK, Held
  <2> QED BY <2>2, <2>3, <2>4 DEF Inv, Captured, Weights, Slow, DividedSoFar
<1>4. CASE UNCHANGED vars
  <2>1. TypeOK' /\ AnswersRight'
    BY <1>4 DEF vars, Inv, TypeOK, Busy, AnswersRight
  <2>2. Captured'
    BY <1>4 DEF vars, Inv, Captured, Busy
  <2>3. Weights' /\ DividedSoFar'
    BY <1>4 DEF vars, Inv, Weights, Slow, DividedSoFar, Busy, Steps, Restored, Partial, Negative
  <2> QED BY <2>1, <2>2, <2>3 DEF Inv
<1> QED BY <1>1, <1>2, <1>3, <1>4 DEF Next

LEMMA InvStart == Init => Inv
<1> SUFFICES ASSUME Init PROVE Inv
  OBVIOUS
<1>1. TypeOK
  BY DividerAssumption, PowerFacts, SMT DEF Init, TypeOK, NoFlags, Busy, Word
<1>2. ~Busy /\ ~out.valid
  BY DEF Init, Busy
<1> QED BY <1>1, <1>2 DEF Inv, Captured, Weights, Slow, DividedSoFar, AnswersRight

\* Whatever the width, the operands and the order of the divisions, the answer on
\* the port is the simulator's to the division it belongs to, for its register;
\* a negative dividend over zero gets the negated one (div.sv:152, 296-302).
THEOREM DividerAgrees == Spec => []AnswersRight
<1>1. Inv => AnswersRight
  BY DEF Inv
<1> QED BY <1>1, InvStart, InvStep, PTL DEF Spec

\* After each step of the slow path the bits of the dividend shifted out are the
\* quotient so far times the divisor and a restored remainder below the divisor
\* (div.sv:171-206).
THEOREM DividerDivides == Spec => []DividedSoFar
<1>1. Inv => DividedSoFar
  BY DEF Inv
<1> QED BY <1>1, InvStart, InvStep, PTL DEF Spec

\* The partial remainder never needs more than Bits + 1 bits, nor any register
\* more than its width (div.sv:75-110).
THEOREM DividerFits == Spec => []TypeOK
<1>1. Inv => TypeOK
  BY DEF Inv
<1> QED BY <1>1, InvStart, InvStep, PTL DEF Spec
===============================================================================
