------------------------------- MODULE Storage -------------------------------
(***************************************************************************)
(* What an allocator of memory promises to the program that uses it: a     *)
(* piece it hands out has nothing in common with a piece still in use.     *)
(* Where it takes the piece from, and what it does with one that is given  *)
(* back, is its own business.                                              *)
(***************************************************************************)
CONSTANTS
  Owner,      \* who asks for memory
  Place       \* the addresses there are

VARIABLE held \* the addresses each owner holds; {} when it holds none

Init == held = [o \in Owner |-> {}]

Take(o) ==
  /\ held[o] = {}
  /\ held' \in [Owner -> SUBSET Place]
  /\ \A p \in Owner \ {o} : held'[p] = held[p] /\ held'[o] \cap held[p] = {}

Give(o) == held' = [held EXCEPT ![o] = {}]

Next == \E o \in Owner : Take(o) \/ Give(o)

Spec == Init /\ [][Next]_held

-----------------------------------------------------------------------------
\* Two owners never hold the same address.
Exclusive == \A o, p \in Owner : o # p => held[o] \cap held[p] = {}
=============================================================================
