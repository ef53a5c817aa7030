------------------------------- MODULE MCDivider ------------------------------
(***************************************************************************)
(* Words of 8 bits and the small_div of the code: every dividend by the    *)
(* divisors around zero, half and both ends of small_div, alone, and pairs *)
(* of divisions of every path, the first leaving its registers behind.     *)
(***************************************************************************)
EXTENDS Divider

Op(r, u, a, b, rd) == [rem |-> r, unsign |-> u, a |-> a, b |-> b, rd |-> rd]
Divisors == 0..17 \cup Half - 3..Half + 3 \cup Modulus - 17..Modulus - 1
Each == {<<Op(r, u, a, b, 1)>> : r \in BOOLEAN, u \in BOOLEAN, a \in Word, b \in Divisors}

\* Over zero, the overflow, small operands, and slow ones of each sign.
Some ==
  {Op(r, u, ab[1], ab[2], rd) :
     r \in BOOLEAN, u \in BOOLEAN, rd \in Dests,
     ab \in {<<Modulus - 3, 0>>, <<Half, Modulus - 1>>, <<3, 2>>,
             <<Modulus - 2, 3>>, <<Half + 3, 5>>, <<Half - 1, Modulus - 20>>}}
MCDivisions == Each \cup {<<o, p>> : o, p \in Some}
===============================================================================
