------------------------------ MODULE MCSimSuite ------------------------------
(***************************************************************************)
(* Two programs, a loop of stores and a jump with a split store, and the   *)
(* tests that are built from them.                                         *)
(***************************************************************************)
EXTENDS SimSuite

T(name, kind, needs) == [name |-> name, kind |-> kind, needs |-> needs]
MCLists == {<<T("p1", "pyvedas", "none"), T("a1", "asm", "none"), T("v1", "asm", "vector")>>,
            <<T("c1", "c", "none")>>, <<T("v1", "asm", "vector")>>}

Dig(a, b, c, d, e, f, g, h) == <<a, b, c, d, e, f, g, h>>
Ev(pc, touch) == [pc |-> pc, ins |-> pc, touch |-> touch]
Reg(n, d) == [what |-> "x", at |-> n, dig |-> d]
To(d) == [what |-> "pc", at |-> 0, dig |-> d]
Seven == Dig(0, 0, 0, 0, 0, 0, 0, 7)
Cafe == Dig(12, 10, 15, 14, 11, 10, 11, 14)

\* A loop that stores a word twice.
Loop == <<Ev(4, Mem(8, Seven)), Ev(4, Mem(12, Seven))>>
\* jal, and a word at 0xE.
Split == <<Ev(4, <<Reg(1, Seven), To(Cafe)>>), Ev(12, Mem(14, Cafe))>>
MCTraces == <<Loop, Split>>
=============================================================================
