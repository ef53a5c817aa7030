-------------------------------- MODULE MCCard --------------------------------
(***************************************************************************)
(* A small model with its heads on the core, a large one that falls back   *)
(* to its backbone, and tests that print, hang, use DRAM or do not fit.    *)
(***************************************************************************)
EXTENDS Card

Image(dram, eot, prints, big) ==
  [dram |-> dram, eot |-> eot, prints |-> prints, big |-> big]
MCImages ==
  [smoke |-> Image(FALSE, TRUE, 0, FALSE),
   small |-> Image(TRUE, TRUE, 0, FALSE),
   large |-> Image(TRUE, TRUE, 0, TRUE),
   back  |-> Image(TRUE, TRUE, 0, FALSE),
   hello |-> Image(FALSE, TRUE, 1, FALSE),
   hang  |-> Image(FALSE, FALSE, 1, FALSE),
   huge  |-> Image(FALSE, TRUE, 0, TRUE),
   net   |-> Image(TRUE, TRUE, 0, FALSE)]
MCDetects == [small |-> "back", large |-> "back"]
MCLists == {<<"hello", "net">>, <<"huge", "hang">>}
=============================================================================
