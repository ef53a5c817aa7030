------------------------------ MODULE DramImage ------------------------------
(***************************************************************************)
(* The allocator of the DRAM image (pyvedas/jit/memory/dram.py): a cursor  *)
(* at the end of the image and a list of holes, searched first-fit, split  *)
(* and never merged.  Addresses are bytes from the start of the image.     *)
(*                                                                         *)
(* held is not in the code, which does not know who uses what: it is the   *)
(* region each buffer was last given and has not given back.               *)
(***************************************************************************)
EXTENDS Naturals, Sequences

CONSTANTS
  Buffer,     \* the names a buffer may have
  Bytes,      \* the sizes one may ask for
  Limit       \* dram_bytes of the hardware; 0 for no limit

ASSUME ImageAssumption == Bytes \subseteq Nat /\ Limit \in Nat

VARIABLES
  cursor,     \* the end of what was ever handed out
  holes,      \* the list of regions given back
  held        \* history: the region of each buffer in use

image == <<cursor, holes, held>>

-----------------------------------------------------------------------------
Region == [off : Nat, size : Nat]
Nowhere == [off |-> 0, size |-> 0]

\* int.to_bytes: a multiple of four that n bytes fit in.
Align4(n) == 4 * ((n + 3) \div 4)

Addresses(r) == r.off .. (r.off + r.size - 1)

Disjoint(r, s) ==
  r.size = 0 \/ s.size = 0 \/ r.off + r.size <= s.off \/ s.off + s.size <= r.off

\* list.pop(i)
Without(s, i) ==
  [j \in 1..(Len(s) - 1) |-> IF j < i THEN s[j] ELSE s[j + 1]]

-----------------------------------------------------------------------------
ImageInit == cursor = 0 /\ holes = <<>> /\ held = [b \in Buffer |-> Nowhere]

IsFirstFit(i, n) ==
  /\ holes[i].size >= n
  /\ \A j \in 1..(i - 1) : holes[j].size < n

\* Mutant: a tail of one word is forgotten.
RemainderAboveWord(h, n) ==
  IF h.size - n > 4
  THEN <<[off |-> h.off + n, size |-> h.size - n]>> ELSE <<>>

Remainder(h, n) ==
  IF h.size - n >= 4
  THEN <<[off |-> h.off + n, size |-> h.size - n]>> ELSE <<>>

\* The first hole that is large enough, its tail back at the end of the list.
TakeHole(b, n) ==
  \E i \in DOMAIN holes :
    /\ IsFirstFit(i, n)
    /\ holes' = Without(holes, i) \o Remainder(holes[i], n)
    /\ held' = [held EXCEPT ![b] = [off |-> holes[i].off, size |-> n]]
    /\ UNCHANGED cursor

NoHole(n) == \A i \in DOMAIN holes : holes[i].size < n

TooLarge(n) == Limit # 0 /\ Align4(cursor) + n > Limit

\* Mutant: the cursor is not moved past what was handed out.
ExtendInPlace(b, n) ==
  /\ NoHole(n) /\ ~ TooLarge(n)
  /\ held' = [held EXCEPT ![b] = [off |-> Align4(cursor), size |-> n]]
  /\ cursor' = Align4(cursor)
  /\ UNCHANGED holes

\* New memory at the cursor, within the limit of the hardware.
Extend(b, n) ==
  /\ NoHole(n) /\ ~ TooLarge(n)
  /\ held' = [held EXCEPT ![b] = [off |-> Align4(cursor), size |-> n]]
  /\ cursor' = Align4(cursor) + n
  /\ UNCHANGED holes

Alloc(b, n) == TakeHole(b, Align4(n)) \/ Extend(b, Align4(n))

\* RuntimeError: the image would not fit the DRAM.
AllocFails(n) == NoHole(Align4(n)) /\ TooLarge(Align4(n))

\* The code takes the region on trust: it may have been freed before.
PutBack(r) ==
  holes' = IF Align4(r.size) <= 0 THEN holes
           ELSE Append(holes, [off |-> r.off, size |-> Align4(r.size)])

-----------------------------------------------------------------------------
(* The client the allocator is written for asks once for a buffer and     *)
(* gives back what it holds.                                               *)

ClientAlloc(b) == held[b] = Nowhere /\ \E n \in Bytes : Alloc(b, n)

ClientFree(b) ==
  /\ held[b] # Nowhere
  /\ PutBack(held[b])
  /\ held' = [held EXCEPT ![b] = Nowhere]
  /\ UNCHANGED cursor

ImageNext == \E b \in Buffer : ClientAlloc(b) \/ ClientFree(b)

ImageSpec == ImageInit /\ [][ImageNext]_image

-----------------------------------------------------------------------------
\* The state of the allocator (dram.py:19-24): everything starts at a
\* multiple of four and ends before the cursor; a hole is never empty.
ImageTypeOK ==
  /\ cursor \in Nat /\ cursor % 4 = 0
  /\ holes \in Seq(Region)
  /\ held \in [Buffer -> Region]
  /\ \A i \in DOMAIN holes :
       /\ holes[i].size > 0 /\ holes[i].size % 4 = 0 /\ holes[i].off % 4 = 0
       /\ holes[i].off + holes[i].size <= cursor
  /\ \A b \in Buffer :
       /\ held[b].size % 4 = 0 /\ held[b].off % 4 = 0
       /\ held[b].off + held[b].size <= cursor

\* Two holes, a hole and a buffer in use, or two buffers in use share no
\* byte: what alloc hands out (dram.py:39-52) belongs to nobody else.
Apart ==
  /\ \A i, j \in DOMAIN holes : i # j => Disjoint(holes[i], holes[j])
  /\ \A i \in DOMAIN holes, b \in Buffer : Disjoint(holes[i], held[b])
  /\ \A b, c \in Buffer : b # c => Disjoint(held[b], held[c])

\* No byte of the image is lost: splitting a hole (dram.py:43-46) keeps its
\* tail, so each byte below the cursor is in a hole or in a buffer in use.
NoByteLost ==
  \A a \in 0..(cursor - 1) :
    \/ \E i \in DOMAIN holes : a \in Addresses(holes[i])
    \/ \E b \in Buffer : a \in Addresses(held[b])

\* Buffers and holes tile the image (dram.py:39-58): no byte is in two of
\* them, and none is in neither.
Tiled == Apart /\ NoByteLost

-----------------------------------------------------------------------------
Store == INSTANCE Storage WITH
  Owner <- Buffer, Place <- Nat,
  held <- [b \in Buffer |-> Addresses(held[b])]

\* The allocator implements Storage: first-fit with splitting (dram.py:39-58)
\* never hands out an address in use, and changes nothing else of a buffer.
StoreSpec == Store!Spec
=============================================================================
