----------------------------- MODULE MCLsuEngine -----------------------------
(* Model-checking instances of LsuEngine. *)
EXTENDS LsuEngine

AllWords == Word
FirstTwoLines == 0..3
=============================================================================
