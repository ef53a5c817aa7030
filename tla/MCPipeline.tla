----------------------------- MODULE MCPipeline -----------------------------
(* Model-checking instance of Pipeline: the bits of a register address are *)
(* interchangeable.                                                        *)
EXTENDS Pipeline, TLC

Symmetry == Permutations(Bits)
=============================================================================
