------------------------------ MODULE JitProofs ------------------------------
(*************************************************************************)
(* Proofs about Jit and the image it fills: the allocator of the image   *)
(* holds for every set of buffers, sizes and limit, the compiler is a    *)
(* client of it for every set of graphs, and a GEMM that is cut into     *)
(* jobs is computed.                                                     *)
(*************************************************************************)
EXTENDS Jit, FiniteSetTheorems, WellFoundedInduction, TLAPS

------------------------------------------------------------------------------
(****************************************************************************)
(* The image: for every set of buffers, every set of sizes and every limit  *)
(* the regions of the allocator never overlap, no byte is lost, and the     *)
(* allocator implements Storage.                                            *)
(****************************************************************************)
LEMMA AlignFacts ==
  ASSUME NEW n \in Nat
  PROVE  /\ Align4(n) \in Nat /\ Align4(n) % 4 = 0 /\ Align4(n) >= n
         /\ n % 4 = 0 => Align4(n) = n
  BY DEF Align4

LEMMA SumAligned ==
  ASSUME NEW m \in Nat, NEW n \in Nat, m % 4 = 0, n % 4 = 0
  PROVE  /\ (m + n) % 4 = 0
         /\ m >= n => m - n \in Nat /\ (m - n) % 4 = 0
         /\ m > n => m - n >= 4
  OBVIOUS

\* A part of one of two regions that have nothing in common has nothing in
\* common with the other.
Part(r, s) ==
  r.size > 0 => s.off <= r.off /\ r.off + r.size <= s.off + s.size

LEMMA PartsApart ==
  ASSUME NEW r \in Region, NEW s \in Region, NEW q \in Region,
         Part(r, s), Disjoint(s, q)
  PROVE  Disjoint(r, q) /\ Disjoint(q, r)
  BY DEF Part, Disjoint, Region

LEMMA DisjointSym ==
  ASSUME NEW r \in Region, NEW s \in Region, Disjoint(r, s)
  PROVE  Disjoint(s, r)
  BY DEF Disjoint, Region

LEMMA DisjointAddresses ==
  ASSUME NEW r \in Region, NEW s \in Region, Disjoint(r, s)
  PROVE  Addresses(r) \cap Addresses(s) = {}
  BY DEF Disjoint, Region, Addresses

-----------------------------------------------------------------------------
LEMMA WithoutFacts ==
  ASSUME NEW S, NEW s \in Seq(S), NEW i \in 1..Len(s)
  PROVE  /\ Without(s, i) \in Seq(S)
         /\ Len(Without(s, i)) = Len(s) - 1
         /\ \A j \in 1..(Len(s) - 1) :
              /\ j < i => Without(s, i)[j] = s[j]
              /\ j >= i => Without(s, i)[j] = s[j + 1]
<1>1. Len(s) \in Nat /\ Len(s) - 1 \in Nat
  OBVIOUS
<1>2. \A j \in 1..(Len(s) - 1) : s[j] \in S /\ s[j + 1] \in S
  BY <1>1
<1> QED BY <1>1, <1>2 DEF Without

\* Where the element j of the new list comes from when element i of s is
\* replaced by at most one element at the end.
Origin(s, i, j) == IF j < i THEN j ELSE IF j < Len(s) THEN j + 1 ELSE i

LEMMA OriginFacts ==
  ASSUME NEW S, NEW s \in Seq(S), NEW i \in 1..Len(s)
  PROVE  /\ \A j \in 1..Len(s) : Origin(s, i, j) \in 1..Len(s)
         /\ \A j \in 1..Len(s) : Origin(s, i, j) = i <=> j = Len(s)
         /\ \A j, k \in 1..Len(s) : j # k => Origin(s, i, j) # Origin(s, i, k)
         /\ \A k \in 1..Len(s) : k # i =>
              \E j \in 1..(Len(s) - 1) : Origin(s, i, j) = k
<1> DEFINE L == Len(s)
<1>1. L \in Nat /\ i \in 1..L
  OBVIOUS
<1>2. ASSUME NEW k \in 1..L, k # i
      PROVE  \E j \in 1..(L - 1) : Origin(s, i, j) = k
  <2>1. CASE k < i
    <3>1. k \in 1..(L - 1) /\ Origin(s, i, k) = k
      BY <2>1, <1>1 DEF Origin
    <3> QED BY <3>1
  <2>2. CASE k > i
    <3>1. k - 1 \in 1..(L - 1) /\ Origin(s, i, k - 1) = k
      BY <2>2, <1>1 DEF Origin
    <3> QED BY <3>1
  <2> QED BY <2>1, <2>2, <1>1, <1>2
<1> QED BY <1>1, <1>2 DEF Origin

LEMMA MovedFacts ==
  ASSUME NEW S, NEW s \in Seq(S), NEW i \in 1..Len(s)
  PROVE  \A j \in 1..(Len(s) - 1) : Without(s, i)[j] = s[Origin(s, i, j)]
  BY WithoutFacts DEF Origin

LEMMA AppendFacts ==
  ASSUME NEW S, NEW w \in Seq(S), NEW t \in S
  PROVE  /\ w \o <<t>> \in Seq(S) /\ Len(w \o <<t>>) = Len(w) + 1
         /\ \A j \in 1..Len(w) : (w \o <<t>>)[j] = w[j]
         /\ (w \o <<t>>)[Len(w) + 1] = t
  OBVIOUS

-----------------------------------------------------------------------------
IInv == ImageTypeOK /\ Apart

LEMMA RegionFields ==
  ASSUME NEW r \in Region
  PROVE  r.off \in Nat /\ r.size \in Nat /\ r = [off |-> r.off, size |-> r.size]
  BY DEF Region

\* The holes after TakeHole: each is an old one or the tail of hole i.
LEMMA TakeHoleHoles ==
  ASSUME IInv, NEW i \in DOMAIN holes, NEW n \in Nat, n % 4 = 0,
         holes[i].size >= n,
         holes' = Without(holes, i) \o Remainder(holes[i], n)
  PROVE  /\ holes' \in Seq(Region)
         /\ DOMAIN holes' \subseteq 1..Len(holes)
         /\ \A j \in DOMAIN holes' :
              /\ Origin(holes, i, j) # i => holes'[j] = holes[Origin(holes, i, j)]
              /\ Origin(holes, i, j) = i =>
                   /\ holes'[j] = [off |-> holes[i].off + n, size |-> holes[i].size - n]
                   /\ holes[i].size > n
         /\ 1..(Len(holes) - 1) \subseteq DOMAIN holes'
         /\ holes[i].size > n =>
              \E j \in DOMAIN holes' :
                holes'[j] = [off |-> holes[i].off + n, size |-> holes[i].size - n]
<1> DEFINE t == [off |-> holes[i].off + n, size |-> holes[i].size - n]
<1>1. /\ holes \in Seq(Region) /\ i \in 1..Len(holes) /\ Len(holes) \in Nat
      /\ holes[i] \in Region /\ holes[i].size % 4 = 0
  BY DEF IInv, ImageTypeOK
<1>2. /\ holes[i].size - n \in Nat
      /\ holes[i].size > n <=> holes[i].size - n >= 4
  BY <1>1, SumAligned, RegionFields
<1>3. \A j \in 1..Len(holes) : Origin(holes, i, j) = i <=> j = Len(holes)
  BY <1>1, OriginFacts
<1>4. CASE holes[i].size > n
  <2>1. t \in Region
    <3>1. holes[i].off \in Nat
      BY <1>1, RegionFields
    <3>2. holes[i].off + n \in Nat
      BY <3>1
    <3> QED BY <1>2, <3>2 DEF Region
  <2>2. holes' = Without(holes, i) \o <<t>>
    BY <1>2, <1>4 DEF Remainder
  <2>3. /\ holes' \in Seq(Region) /\ Len(holes') = Len(holes)
        /\ \A j \in 1..(Len(holes) - 1) : holes'[j] = holes[Origin(holes, i, j)]
        /\ holes'[Len(holes)] = t
    <3> HIDE DEF t
    <3> DEFINE w == Without(holes, i)
    <3>1. /\ w \in Seq(Region) /\ Len(w) = Len(holes) - 1
          /\ \A j \in 1..(Len(holes) - 1) : w[j] = holes[Origin(holes, i, j)]
      BY <1>1, WithoutFacts, MovedFacts
    <3> HIDE DEF w
    <3>2. /\ w \o <<t>> \in Seq(Region) /\ Len(w \o <<t>>) = Len(w) + 1
          /\ \A j \in 1..Len(w) : (w \o <<t>>)[j] = w[j]
          /\ (w \o <<t>>)[Len(w) + 1] = t
      BY <2>1, <3>1, AppendFacts
    <3>3. holes' = w \o <<t>> /\ Len(w) + 1 = Len(holes)
      BY <1>1, <2>2, <3>1 DEF w
    <3>4. Len(holes') = Len(holes) /\ holes'[Len(holes)] = t
      BY <3>2, <3>3
    <3>5. \A j \in 1..(Len(holes) - 1) : holes'[j] = holes[Origin(holes, i, j)]
      BY <3>1, <3>2, <3>3
    <3> QED BY <3>2, <3>3, <3>4, <3>5
  <2>4. DOMAIN holes' = 1..Len(holes)
    BY <2>3
  <2>5. \A j \in 1..Len(holes) : j # Len(holes) => j \in 1..(Len(holes) - 1)
    BY <1>1
  <2> HIDE DEF t
  <2>6. \E j \in DOMAIN holes' : holes'[j] = t
    <3>1. Len(holes) \in 1..Len(holes)
      BY <1>1
    <3> QED BY <2>3, <2>4, <3>1
  <2>7. \A j \in DOMAIN holes' :
          /\ Origin(holes, i, j) # i => holes'[j] = holes[Origin(holes, i, j)]
          /\ Origin(holes, i, j) = i => holes'[j] = t
    BY <1>3, <2>3, <2>4, <2>5
  <2>8. 1..(Len(holes) - 1) \subseteq 1..Len(holes)
    BY <1>1
  <2>9. DOMAIN holes' \subseteq 1..Len(holes) /\ 1..(Len(holes) - 1) \subseteq DOMAIN holes'
    BY <2>4, <2>8
  <2> USE DEF t
  <2>10. \E j \in DOMAIN holes' :
           holes'[j] = [off |-> holes[i].off + n, size |-> holes[i].size - n]
    BY <2>6
  <2>11. \A j \in DOMAIN holes' : Origin(holes, i, j) = i =>
           holes'[j] = [off |-> holes[i].off + n, size |-> holes[i].size - n]
    BY <2>7
  <2> QED BY <2>3, <2>7, <2>9, <2>10, <2>11, <1>4
<1>5. CASE ~ (holes[i].size > n)
  <2>1. /\ Without(holes, i) \in Seq(Region)
        /\ Len(Without(holes, i)) = Len(holes) - 1
        /\ \A j \in 1..(Len(holes) - 1) :
             Without(holes, i)[j] = holes[Origin(holes, i, j)]
    BY <1>1, WithoutFacts, MovedFacts
  <2>2. Remainder(holes[i], n) = <<>>
    BY <1>2, <1>5 DEF Remainder
  <2>3. holes' = Without(holes, i)
    BY <2>1, <2>2
  <2>4. DOMAIN holes' = 1..(Len(holes) - 1)
    BY <2>1, <2>3
  <2>5. \A j \in 1..(Len(holes) - 1) : j \in 1..Len(holes) /\ j # Len(holes)
    BY <1>1
  <2> QED BY <2>1, <2>3, <2>4, <2>5, <1>3, <1>5
<1> QED BY <1>4, <1>5

\* The head and the tail of a hole.
LEMMA HeadFacts ==
  ASSUME NEW h \in Region, NEW n \in Nat, NEW top \in Nat, n % 4 = 0,
         h.off % 4 = 0, h.size >= n, h.off + h.size <= top
  PROVE  LET head == [off |-> h.off, size |-> n] IN
         /\ head \in Region /\ head.size % 4 = 0 /\ head.off % 4 = 0
         /\ Part(head, h) /\ head.off + head.size <= top
<1>1. h.off \in Nat /\ h.size \in Nat
  BY RegionFields
<1>2. [off |-> h.off, size |-> n] \in Region
  BY <1>1 DEF Region
<1>3. h.off + n <= top
  BY <1>1
<1> QED BY <1>1, <1>2, <1>3 DEF Part

LEMMA TailFacts ==
  ASSUME NEW h \in Region, NEW n \in Nat, NEW top \in Nat, n % 4 = 0,
         h.off % 4 = 0, h.size % 4 = 0, h.size > n, h.off + h.size <= top
  PROVE  LET head == [off |-> h.off, size |-> n]
             tail == [off |-> h.off + n, size |-> h.size - n] IN
         /\ tail \in Region /\ tail.size > 0
         /\ tail.size % 4 = 0 /\ tail.off % 4 = 0
         /\ tail.off + tail.size <= top /\ Part(tail, h)
         /\ Disjoint(tail, head)
<1>1. h.off \in Nat /\ h.size \in Nat
  BY RegionFields
<1>2. [off |-> h.off + n, size |-> h.size - n] \in Region
  BY <1>1 DEF Region
<1>3. /\ (h.off + n) % 4 = 0 /\ (h.size - n) % 4 = 0 /\ h.size - n > 0
      /\ (h.off + n) + (h.size - n) <= top
      /\ (h.off + n) + (h.size - n) <= h.off + h.size
  BY <1>1
<1> QED BY <1>1, <1>2, <1>3 DEF Part, Disjoint

LEMMA TakeHoleStep ==
  ASSUME IInv, NEW b \in Buffer, NEW n \in Nat, n % 4 = 0, TakeHole(b, n)
  PROVE  IInv'
<1>1. PICK i \in DOMAIN holes :
        /\ holes[i].size >= n
        /\ holes' = Without(holes, i) \o Remainder(holes[i], n)
        /\ held' = [held EXCEPT ![b] = [off |-> holes[i].off, size |-> n]]
        /\ cursor' = cursor
  BY DEF TakeHole, IsFirstFit
<1> DEFINE h == holes[i]
           O(j) == Origin(holes, i, j)
           t == [off |-> h.off + n, size |-> h.size - n]
           head == [off |-> h.off, size |-> n]
<1>2. /\ cursor \in Nat /\ cursor % 4 = 0
      /\ holes \in Seq(Region) /\ DOMAIN holes = 1..Len(holes)
      /\ held \in [Buffer -> Region]
      /\ \A j \in 1..Len(holes) :
           /\ holes[j].size > 0 /\ holes[j].size % 4 = 0 /\ holes[j].off % 4 = 0
           /\ holes[j].off + holes[j].size <= cursor
      /\ \A c \in Buffer :
           /\ held[c].size % 4 = 0 /\ held[c].off % 4 = 0
           /\ held[c].off + held[c].size <= cursor
  BY DEF IInv, ImageTypeOK
<1>3. /\ \A j, k \in 1..Len(holes) : j # k => Disjoint(holes[j], holes[k])
      /\ \A j \in 1..Len(holes), c \in Buffer : Disjoint(holes[j], held[c])
      /\ \A c, d \in Buffer : c # d => Disjoint(held[c], held[d])
  BY <1>2 DEF IInv, Apart
<1>4. /\ h \in Region /\ h.off \in Nat /\ h.size \in Nat /\ h.size >= n
      /\ h.off % 4 = 0 /\ h.size % 4 = 0 /\ h.off + h.size <= cursor
  BY <1>1, <1>2, RegionFields
<1>5. /\ head \in Region /\ head.size % 4 = 0 /\ head.off % 4 = 0
      /\ Part(head, h) /\ head.off + head.size <= cursor
  BY <1>2, <1>4, HeadFacts
<1>6. h.size > n => /\ t \in Region /\ t.size > 0
                    /\ t.size % 4 = 0 /\ t.off % 4 = 0
                    /\ t.off + t.size <= cursor /\ Part(t, h)
                    /\ Disjoint(t, head)
  BY <1>2, <1>4, TailFacts
<1>7. /\ holes' \in Seq(Region)
      /\ DOMAIN holes' \subseteq 1..Len(holes)
      /\ \A j \in DOMAIN holes' :
           /\ O(j) # i => holes'[j] = holes[O(j)]
           /\ O(j) = i => holes'[j] = t /\ h.size > n
  BY <1>1, <1>4, TakeHoleHoles
<1>8. /\ \A j \in 1..Len(holes) : O(j) \in 1..Len(holes)
      /\ \A j, k \in 1..Len(holes) : j # k => O(j) # O(k)
  BY <1>1, <1>2, OriginFacts
<1>9. /\ held' \in [Buffer -> Region] /\ held'[b] = head
      /\ \A c \in Buffer : c # b => held'[c] = held[c]
  BY <1>1, <1>2, <1>5
<1> HIDE DEF t, head, h, O
<1>10. \A j \in DOMAIN holes' : holes'[j] \in Region /\ Part(holes'[j], holes[O(j)])
  <2> SUFFICES ASSUME NEW j \in DOMAIN holes'
               PROVE  holes'[j] \in Region /\ Part(holes'[j], holes[O(j)])
    OBVIOUS
  <2>1. O(j) \in 1..Len(holes) /\ holes[O(j)] \in Region
    BY <1>2, <1>7, <1>8
  <2>2. CASE O(j) # i
    BY <1>7, <2>1, <2>2, RegionFields DEF Part
  <2>3. CASE O(j) = i
    BY <1>6, <1>7, <2>3 DEF h
  <2> QED BY <2>2, <2>3
<1>11. ImageTypeOK'
  <2>1. \A j \in DOMAIN holes' :
          /\ holes'[j].size > 0 /\ holes'[j].size % 4 = 0 /\ holes'[j].off % 4 = 0
          /\ holes'[j].off + holes'[j].size <= cursor
    BY <1>2, <1>6, <1>7, <1>8
  <2>2. \A c \in Buffer :
          /\ held'[c].size % 4 = 0 /\ held'[c].off % 4 = 0
          /\ held'[c].off + held'[c].size <= cursor
    BY <1>2, <1>4, <1>5, <1>9
  <2> QED BY <1>1, <1>2, <1>7, <1>9, <2>1, <2>2 DEF ImageTypeOK
<1>12. \A j, k \in DOMAIN holes' : j # k => Disjoint(holes'[j], holes'[k])
  <2> SUFFICES ASSUME NEW j \in DOMAIN holes', NEW k \in DOMAIN holes', j # k
               PROVE  Disjoint(holes'[j], holes'[k])
    OBVIOUS
  <2>1. /\ O(j) \in 1..Len(holes) /\ O(k) \in 1..Len(holes) /\ O(j) # O(k)
    BY <1>7, <1>8
  <2>2. Disjoint(holes[O(j)], holes[O(k)]) /\ holes[O(j)] \in Region /\ holes[O(k)] \in Region
    BY <2>1, <1>2, <1>3
  <2>3. Disjoint(holes'[j], holes[O(k)])
    BY <2>2, <1>10, PartsApart
  <2> QED BY <2>2, <2>3, <1>10, PartsApart, DisjointSym
<1>13. \A j \in DOMAIN holes', c \in Buffer : Disjoint(holes'[j], held'[c])
  <2> SUFFICES ASSUME NEW j \in DOMAIN holes', NEW c \in Buffer
               PROVE  Disjoint(holes'[j], held'[c])
    OBVIOUS
  <2>1. O(j) \in 1..Len(holes) /\ holes[O(j)] \in Region
    BY <1>2, <1>7, <1>8
  <2>2. CASE c # b
    BY <2>1, <2>2, <1>2, <1>3, <1>9, <1>10, PartsApart
  <2>3. CASE c = b /\ O(j) = i
    BY <2>3, <1>6, <1>7, <1>9
  <2>4. CASE c = b /\ O(j) # i
    <3>1. Disjoint(h, holes'[j])
      BY <2>1, <2>4, <1>1, <1>2, <1>3, <1>7 DEF h
    <3> QED BY <2>4, <3>1, <1>4, <1>5, <1>9, <1>10, PartsApart
  <2> QED BY <2>2, <2>3, <2>4
<1>14. \A c, d \in Buffer : c # d => Disjoint(held'[c], held'[d])
  <2>1. \A c \in Buffer : Disjoint(head, held[c]) /\ Disjoint(held[c], head)
    BY <1>1, <1>2, <1>3, <1>4, <1>5, PartsApart DEF h
  <2> QED BY <2>1, <1>3, <1>9
<1> QED BY <1>11, <1>12, <1>13, <1>14 DEF IInv, Apart

LEMMA ExtendStep ==
  ASSUME IInv, NEW b \in Buffer, NEW n \in Nat, n % 4 = 0, Extend(b, n)
  PROVE  IInv'
<1> DEFINE new == [off |-> cursor, size |-> n]
<1>1. /\ cursor \in Nat /\ cursor % 4 = 0 /\ Align4(cursor) = cursor
      /\ holes \in Seq(Region) /\ held \in [Buffer -> Region]
  BY AlignFacts DEF IInv, ImageTypeOK
<1>2. /\ cursor' = cursor + n /\ holes' = holes
      /\ held' = [held EXCEPT ![b] = new]
  BY <1>1 DEF Extend
<1>3. new \in Region /\ new.off = cursor /\ new.size = n
  BY <1>1 DEF Region
<1> HIDE DEF new
<1>4. /\ cursor' \in Nat /\ cursor' % 4 = 0 /\ cursor <= cursor'
      /\ new.off + new.size <= cursor' /\ new.off % 4 = 0 /\ new.size % 4 = 0
  BY <1>1, <1>2, <1>3, SumAligned
<1>5. /\ held' \in [Buffer -> Region] /\ held'[b] = new
      /\ \A c \in Buffer : c # b => held'[c] = held[c]
  BY <1>1, <1>2, <1>3
<1>6. ASSUME NEW r \in Region, r.off + r.size <= cursor
      PROVE  Disjoint(r, new) /\ Disjoint(new, r) /\ r.off + r.size <= cursor'
  BY <1>1, <1>3, <1>4, <1>6, RegionFields DEF Disjoint
<1>7. /\ \A i \in DOMAIN holes : holes[i] \in Region /\ holes[i].off + holes[i].size <= cursor
      /\ \A c \in Buffer : held[c] \in Region /\ held[c].off + held[c].size <= cursor
  BY <1>1 DEF IInv, ImageTypeOK
<1>8. ImageTypeOK'
  <2>1. \A i \in DOMAIN holes' :
          /\ holes'[i].size > 0 /\ holes'[i].size % 4 = 0 /\ holes'[i].off % 4 = 0
          /\ holes'[i].off + holes'[i].size <= cursor'
    BY <1>2, <1>6, <1>7 DEF IInv, ImageTypeOK
  <2>2. \A c \in Buffer :
          /\ held'[c].size % 4 = 0 /\ held'[c].off % 4 = 0
          /\ held'[c].off + held'[c].size <= cursor'
    BY <1>4, <1>5, <1>6, <1>7 DEF IInv, ImageTypeOK
  <2> QED BY <1>1, <1>2, <1>4, <1>5, <2>1, <2>2 DEF ImageTypeOK
<1>9. Apart'
  <2>1. \A i, j \in DOMAIN holes' : i # j => Disjoint(holes'[i], holes'[j])
    BY <1>2 DEF IInv, Apart
  <2>2. \A i \in DOMAIN holes', c \in Buffer : Disjoint(holes'[i], held'[c])
    BY <1>2, <1>5, <1>6, <1>7 DEF IInv, Apart
  <2>3. \A c, d \in Buffer : c # d => Disjoint(held'[c], held'[d])
    BY <1>5, <1>6, <1>7 DEF IInv, Apart
  <2> QED BY <2>1, <2>2, <2>3 DEF Apart
<1> QED BY <1>8, <1>9 DEF IInv

LEMMA FreeStep ==
  ASSUME IInv, NEW b \in Buffer, ClientFree(b)
  PROVE  IInv'
<1> DEFINE r == held[b]
<1>1. /\ cursor \in Nat /\ holes \in Seq(Region) /\ held \in [Buffer -> Region]
      /\ r \in Region /\ r.size \in Nat /\ r.off \in Nat
      /\ r.size % 4 = 0 /\ r.off % 4 = 0 /\ r.off + r.size <= cursor
  BY RegionFields DEF IInv, ImageTypeOK
<1>2. Align4(r.size) = r.size /\ r = [off |-> r.off, size |-> r.size]
  BY <1>1, AlignFacts, RegionFields
<1>3. /\ held' = [held EXCEPT ![b] = Nowhere] /\ cursor' = cursor
      /\ holes' = IF r.size <= 0 THEN holes ELSE Append(holes, r)
  BY <1>2 DEF ClientFree, PutBack
<1>4. /\ Nowhere \in Region /\ Nowhere.off = 0 /\ Nowhere.size = 0
  BY DEF Nowhere, Region
<1>5. /\ held' \in [Buffer -> Region] /\ held'[b] = Nowhere
      /\ \A c \in Buffer : c # b => held'[c] = held[c]
  BY <1>1, <1>3, <1>4
<1> HIDE DEF r
<1>6. \A q : Disjoint(Nowhere, q) /\ Disjoint(q, Nowhere)
  BY <1>4 DEF Disjoint
<1>7. \A c \in Buffer :
        /\ held'[c].size % 4 = 0 /\ held'[c].off % 4 = 0
        /\ held'[c].off + held'[c].size <= cursor'
  <2> SUFFICES ASSUME NEW c \in Buffer
               PROVE  /\ held'[c].size % 4 = 0 /\ held'[c].off % 4 = 0
                      /\ held'[c].off + held'[c].size <= cursor'
    OBVIOUS
  <2>1. CASE c = b
    <3>1. held'[c].size = 0 /\ held'[c].off = 0
      BY <1>4, <1>5, <2>1
    <3>2. 0 % 4 = 0 /\ 0 + 0 <= cursor'
      BY <1>1, <1>3
    <3> QED BY <3>1, <3>2
  <2>2. CASE c # b
    BY <1>3, <1>5, <2>2 DEF IInv, ImageTypeOK
  <2> QED BY <2>1, <2>2
<1>8. \A c, d \in Buffer : c # d => Disjoint(held'[c], held'[d])
  BY <1>5, <1>6 DEF IInv, Apart
<1>9. CASE r.size <= 0
  <2>1. holes' = holes
    BY <1>3, <1>9
  <2>2. ImageTypeOK'
    BY <1>1, <1>3, <1>5, <1>7, <2>1 DEF IInv, ImageTypeOK
  <2>3. \A i \in DOMAIN holes', c \in Buffer : Disjoint(holes'[i], held'[c])
    BY <1>5, <1>6, <2>1 DEF IInv, Apart
  <2>4. \A i, j \in DOMAIN holes' : i # j => Disjoint(holes'[i], holes'[j])
    BY <2>1 DEF IInv, Apart
  <2> QED BY <1>8, <2>2, <2>3, <2>4 DEF IInv, Apart
<1>10. CASE r.size > 0
  <2>1. /\ holes' \in Seq(Region) /\ DOMAIN holes' = 1..(Len(holes) + 1)
        /\ DOMAIN holes = 1..Len(holes) /\ Len(holes) \in Nat
        /\ holes'[Len(holes) + 1] = r
        /\ \A i \in 1..Len(holes) : holes'[i] = holes[i]
    BY <1>1, <1>3, <1>10
  <2>2. \A i \in DOMAIN holes' : i \in DOMAIN holes \/ i = Len(holes) + 1
    BY <2>1
  <2>3. \A i \in DOMAIN holes' :
          /\ holes'[i].size > 0 /\ holes'[i].size % 4 = 0 /\ holes'[i].off % 4 = 0
          /\ holes'[i].off + holes'[i].size <= cursor
    BY <1>1, <1>10, <2>1, <2>2 DEF IInv, ImageTypeOK
  <2>4. ImageTypeOK'
    BY <1>1, <1>3, <1>5, <1>7, <2>1, <2>3 DEF IInv, ImageTypeOK
  <2>5. \A i \in DOMAIN holes : Disjoint(holes[i], r) /\ Disjoint(r, holes[i])
    BY <1>1, DisjointSym DEF IInv, Apart, ImageTypeOK, r
  <2>6. \A i, j \in DOMAIN holes' : i # j => Disjoint(holes'[i], holes'[j])
    BY <2>1, <2>2, <2>5 DEF IInv, Apart
  <2>7. \A c \in Buffer : c # b => Disjoint(r, held[c])
    BY DEF IInv, Apart, r
  <2>8. \A i \in DOMAIN holes', c \in Buffer : Disjoint(holes'[i], held'[c])
    BY <1>5, <1>6, <2>1, <2>2, <2>7 DEF IInv, Apart
  <2> QED BY <1>8, <2>4, <2>6, <2>8 DEF IInv, Apart
<1> QED BY <1>1, <1>9, <1>10

LEMMA InitIInv == ImageInit => IInv
<1> SUFFICES ASSUME ImageInit PROVE IInv
  OBVIOUS
<1>1. Nowhere \in Region /\ Nowhere.size = 0 /\ Nowhere.off = 0
  BY DEF Nowhere, Region
<1>2. \A c \in Buffer : held[c] = Nowhere
  BY DEF ImageInit
<1>3. ImageTypeOK
  BY <1>1, <1>2 DEF ImageInit, ImageTypeOK
<1>4. Apart
  BY <1>1, <1>2 DEF ImageInit, Apart, Disjoint
<1> QED BY <1>3, <1>4 DEF IInv

LEMMA StepIInv == IInv /\ [ImageNext]_image => IInv'
<1> SUFFICES ASSUME IInv, [ImageNext]_image PROVE IInv'
  OBVIOUS
<1>1. ASSUME NEW b \in Buffer, ClientAlloc(b) PROVE IInv'
  <2>1. PICK n \in Bytes : Alloc(b, n)
    BY <1>1 DEF ClientAlloc
  <2>2. Align4(n) \in Nat /\ Align4(n) % 4 = 0
    BY ImageAssumption, AlignFacts
  <2> QED BY <2>1, <2>2, TakeHoleStep, ExtendStep DEF Alloc
<1>2. ASSUME NEW b \in Buffer, ClientFree(b) PROVE IInv'
  BY <1>2, FreeStep
<1>3. CASE UNCHANGED image
  BY <1>3 DEF IInv, ImageTypeOK, Apart, image
<1> QED BY <1>1, <1>2, <1>3 DEF ImageNext

\* For every set of buffers, sizes and limit, whatever the client asks for
\* and gives back: the allocator's state is well formed and the regions of
\* two buffers in use never share a byte (dram.py:39-58).
THEOREM RegionsApart == ImageSpec => [](ImageTypeOK /\ Apart)
<1>1. IInv => ImageTypeOK /\ Apart
  BY DEF IInv
<1> QED BY <1>1, InitIInv, StepIInv, PTL DEF ImageSpec

-----------------------------------------------------------------------------
LEMMA TakeHoleKeeps ==
  ASSUME IInv, NoByteLost, NEW b \in Buffer, held[b] = Nowhere,
         NEW n \in Nat, n % 4 = 0, TakeHole(b, n)
  PROVE  NoByteLost'
<1>1. PICK i \in DOMAIN holes :
        /\ holes[i].size >= n
        /\ holes' = Without(holes, i) \o Remainder(holes[i], n)
        /\ held' = [held EXCEPT ![b] = [off |-> holes[i].off, size |-> n]]
        /\ cursor' = cursor
  BY DEF TakeHole, IsFirstFit
<1>2. /\ holes \in Seq(Region) /\ DOMAIN holes = 1..Len(holes)
      /\ held \in [Buffer -> Region] /\ cursor \in Nat
      /\ holes[i].off \in Nat /\ holes[i].size \in Nat
  BY <1>1, RegionFields DEF IInv, ImageTypeOK
<1>3. /\ DOMAIN holes' \subseteq 1..Len(holes)
      /\ \A j \in DOMAIN holes' :
           Origin(holes, i, j) # i => holes'[j] = holes[Origin(holes, i, j)]
      /\ 1..(Len(holes) - 1) \subseteq DOMAIN holes'
      /\ holes[i].size > n =>
           \E j \in DOMAIN holes' :
             holes'[j] = [off |-> holes[i].off + n, size |-> holes[i].size - n]
  BY <1>1, TakeHoleHoles
<1>4. \A k \in 1..Len(holes) : k # i =>
        \E j \in 1..(Len(holes) - 1) : Origin(holes, i, j) = k
  BY <1>1, <1>2, OriginFacts
<1>5. SUFFICES ASSUME NEW a \in 0..(cursor - 1)
               PROVE  \/ \E j \in DOMAIN holes' : a \in Addresses(holes'[j])
                      \/ \E c \in Buffer : a \in Addresses(held'[c])
  BY <1>1 DEF NoByteLost
<1>6. ASSUME NEW c \in Buffer, a \in Addresses(held[c])
      PROVE  a \in Addresses(held'[c])
  <2>1. c # b
    BY <1>6, <1>2 DEF Addresses, Nowhere
  <2> QED BY <1>1, <1>2, <1>6, <2>1
<1>7. ASSUME NEW k \in DOMAIN holes, a \in Addresses(holes[k]), k # i
      PROVE  \E j \in DOMAIN holes' : a \in Addresses(holes'[j])
  <2>1. PICK j \in 1..(Len(holes) - 1) : Origin(holes, i, j) = k
    BY <1>2, <1>4, <1>7
  <2>2. j \in DOMAIN holes' /\ holes'[j] = holes[k]
    BY <1>3, <1>7, <2>1
  <2> QED BY <1>7, <2>2
<1>8. ASSUME a \in Addresses(holes[i])
      PROVE  \/ \E j \in DOMAIN holes' : a \in Addresses(holes'[j])
             \/ a \in Addresses(held'[b])
  <2>1. held'[b] = [off |-> holes[i].off, size |-> n]
    BY <1>1, <1>2
  <2>2. CASE a < holes[i].off + n
    BY <1>2, <1>8, <2>1, <2>2 DEF Addresses
  <2>3. CASE a >= holes[i].off + n
    <3>1. holes[i].size > n
      BY <1>2, <1>8, <2>3 DEF Addresses
    <3>2. a \in Addresses([off |-> holes[i].off + n, size |-> holes[i].size - n])
      <4>1. a \in (holes[i].off + n) .. ((holes[i].off + n) + (holes[i].size - n) - 1)
        BY <1>2, <1>8, <2>3 DEF Addresses
      <4> QED BY <4>1 DEF Addresses
    <3> QED BY <1>3, <3>1, <3>2
  <2> QED BY <1>2, <2>2, <2>3
<1> QED BY <1>6, <1>7, <1>8 DEF NoByteLost

LEMMA ExtendKeeps ==
  ASSUME IInv, NoByteLost, NEW b \in Buffer, held[b] = Nowhere,
         NEW n \in Nat, n % 4 = 0, Extend(b, n)
  PROVE  NoByteLost'
<1>1. /\ cursor \in Nat /\ Align4(cursor) = cursor /\ held \in [Buffer -> Region]
  BY AlignFacts DEF IInv, ImageTypeOK
<1>2. /\ cursor' = cursor + n /\ holes' = holes
      /\ held' = [held EXCEPT ![b] = [off |-> cursor, size |-> n]]
  BY <1>1 DEF Extend
<1> SUFFICES ASSUME NEW a \in 0..(cursor' - 1)
             PROVE  \/ \E j \in DOMAIN holes' : a \in Addresses(holes'[j])
                    \/ \E c \in Buffer : a \in Addresses(held'[c])
  BY DEF NoByteLost
<1>3. CASE a < cursor
  <2>1. a \in 0..(cursor - 1)
    BY <1>1, <1>2, <1>3
  <2>2. \A c \in Buffer : a \in Addresses(held[c]) => c # b
    BY <1>1 DEF Addresses, Nowhere
  <2> QED BY <1>1, <1>2, <2>1, <2>2 DEF NoByteLost
<1>4. CASE a >= cursor
  <2>1. held'[b] = [off |-> cursor, size |-> n]
    BY <1>1, <1>2
  <2>2. a \in Addresses(held'[b])
    BY <1>1, <1>2, <1>4, <2>1 DEF Addresses
  <2> QED BY <2>2
<1> QED BY <1>1, <1>2, <1>3, <1>4

LEMMA FreeKeeps ==
  ASSUME IInv, NoByteLost, NEW b \in Buffer, ClientFree(b)
  PROVE  NoByteLost'
<1> DEFINE r == held[b]
<1>1. /\ holes \in Seq(Region) /\ held \in [Buffer -> Region] /\ r \in Region
      /\ r.size \in Nat /\ r.off \in Nat /\ r.size % 4 = 0 /\ cursor \in Nat
  BY RegionFields DEF IInv, ImageTypeOK
<1>2. Align4(r.size) = r.size /\ r = [off |-> r.off, size |-> r.size]
  BY <1>1, AlignFacts, RegionFields
<1>3. /\ held' = [held EXCEPT ![b] = Nowhere] /\ cursor' = cursor
      /\ holes' = IF r.size <= 0 THEN holes ELSE Append(holes, r)
  BY <1>2 DEF ClientFree, PutBack
<1> HIDE DEF r
<1>4. /\ DOMAIN holes \subseteq DOMAIN holes'
      /\ \A i \in DOMAIN holes : holes'[i] = holes[i]
  BY <1>1, <1>3
<1>5. r.size > 0 => \E j \in DOMAIN holes' : holes'[j] = r
  <2> SUFFICES ASSUME r.size > 0 PROVE \E j \in DOMAIN holes' : holes'[j] = r
    OBVIOUS
  <2>1. holes' = Append(holes, r)
    BY <1>1, <1>3
  <2>2. Len(holes) + 1 \in DOMAIN holes' /\ holes'[Len(holes) + 1] = r
    BY <1>1, <2>1
  <2> QED BY <2>2
<1>6. \A a : a \in Addresses(r) => r.size > 0
  BY <1>1 DEF Addresses
<1>7. \A c \in Buffer : c # b => held'[c] = held[c]
  BY <1>1, <1>3
<1> QED BY <1>3, <1>4, <1>5, <1>6, <1>7 DEF NoByteLost, r

\* Every byte the image has grown by is in use or in a hole, for ever: what
\* is given back can be handed out again (dram.py:43-46, 54-58).
THEOREM NoByteIsLost == ImageSpec => []NoByteLost
<1>1. ImageInit => NoByteLost
  BY DEF ImageInit, NoByteLost
<1>2. IInv /\ NoByteLost /\ [ImageNext]_image => NoByteLost'
  <2> SUFFICES ASSUME IInv, NoByteLost, [ImageNext]_image PROVE NoByteLost'
    OBVIOUS
  <2>1. ASSUME NEW b \in Buffer, ClientAlloc(b) PROVE NoByteLost'
    <3>1. PICK n \in Bytes : Alloc(b, n)
      BY <2>1 DEF ClientAlloc
    <3>2. Align4(n) \in Nat /\ Align4(n) % 4 = 0 /\ held[b] = Nowhere
      BY <2>1, ImageAssumption, AlignFacts DEF ClientAlloc
    <3> QED BY <3>1, <3>2, TakeHoleKeeps, ExtendKeeps DEF Alloc
  <2>2. ASSUME NEW b \in Buffer, ClientFree(b) PROVE NoByteLost'
    BY <2>2, FreeKeeps
  <2>3. CASE UNCHANGED image
    BY <2>3 DEF NoByteLost, image
  <2> QED BY <2>1, <2>2, <2>3 DEF ImageNext
<1> QED BY <1>1, <1>2, InitIInv, StepIInv, PTL DEF ImageSpec

\* For every set of buffers, sizes and limit, the buffers in use and the
\* holes tile the image: no byte is in two of them, none is in neither.
THEOREM ImageTiled == ImageSpec => []Tiled
<1>1. ImageTypeOK /\ Apart /\ NoByteLost => Tiled
  BY DEF Tiled
<1> QED BY <1>1, RegionsApart, NoByteIsLost, PTL

-----------------------------------------------------------------------------
LEMMA AllocTakes ==
  ASSUME IInv, IInv', NEW b \in Buffer, NEW n \in Bytes,
         held[b] = Nowhere, Alloc(b, n)
  PROVE  Store!Take(b)
<1>1. held \in [Buffer -> Region] /\ held' \in [Buffer -> Region]
  BY DEF IInv, ImageTypeOK
<1>2. \A c \in Buffer : c # b => held'[c] = held[c]
  BY <1>1 DEF Alloc, TakeHole, Extend
<1>3. Addresses(held[b]) = {}
  BY DEF Addresses, Nowhere
<1>4. \A c \in Buffer : Addresses(held'[c]) \in SUBSET Nat
  BY <1>1, RegionFields DEF Addresses
<1>5. \A c \in Buffer \ {b} :
        Addresses(held'[b]) \cap Addresses(held[c]) = {}
  BY <1>1, <1>2, DisjointAddresses DEF IInv, Apart
<1> QED BY <1>2, <1>3, <1>4, <1>5 DEF Store!Take

LEMMA FreeGives ==
  ASSUME IInv, NEW b \in Buffer, ClientFree(b)
  PROVE  Store!Give(b)
<1>1. held \in [Buffer -> Region]
  BY DEF IInv, ImageTypeOK
<1>2. held' = [held EXCEPT ![b] = Nowhere]
  BY DEF ClientFree
<1>3. Addresses(Nowhere) = {}
  BY DEF Addresses, Nowhere
<1> QED BY <1>1, <1>2, <1>3 DEF Store!Give

\* The first-fit allocator implements the abstract storage: what it hands
\* out is disjoint from all that is in use, and a buffer given back takes
\* nothing else with it.
THEOREM AllocatorImplementsStorage == ImageSpec => StoreSpec
<1>1. ImageInit => Store!Init
  BY DEF ImageInit, Store!Init, Addresses, Nowhere
<1>2. IInv /\ IInv' /\ [ImageNext]_image =>
        [Store!Next]_([b \in Buffer |-> Addresses(held[b])])
  <2> SUFFICES ASSUME IInv, IInv', [ImageNext]_image
               PROVE  [Store!Next]_([b \in Buffer |-> Addresses(held[b])])
    OBVIOUS
  <2>1. ASSUME NEW b \in Buffer, ClientAlloc(b) PROVE Store!Next
    BY <2>1, AllocTakes DEF ClientAlloc, Store!Next
  <2>2. ASSUME NEW b \in Buffer, ClientFree(b) PROVE Store!Next
    BY <2>2, FreeGives DEF Store!Next
  <2>3. CASE UNCHANGED image
    BY <2>3 DEF image
  <2> QED BY <2>1, <2>2, <2>3 DEF ImageNext
<1> QED BY <1>1, <1>2, InitIInv, StepIInv, PTL DEF ImageSpec, StoreSpec, Store!Spec

------------------------------------------------------------------------------
(****************************************************************************)
(* What the theorems about the compiler assume of the graph, and the        *)
(* invariant of the compiler.                                               *)
(****************************************************************************)
\* The buffers the handler of a node makes; a conv2d of a baked image has three
\* for its scratch as well.
BufferNames(n) ==
  IF n.op = "meshgrid" THEN <<PartName(n.name, 0), PartName(n.name, 1)>>
  ELSE IF n.op = "conv2d"
       THEN <<n.name, n.name \o "_col", n.name \o "_wt", n.name \o "_gemm">>
  ELSE <<n.name>>

\* The names a node brings into the table of buffers.
NamesOf(n) == {n.name} \cup ToSet(BufferNames(n))

\* No element occurs twice.
Apart1(s) == \A i, j \in DOMAIN s : (s[i] = s[j]) => (i = j)

\* No two nodes bring in the same name, and no handler names two buffers alike.
NamesApart ==
  /\ \A i, j \in DOMAIN Nodes : i # j => NamesOf(Nodes[i]) \cap NamesOf(Nodes[j]) = {}
  /\ \A i \in DOMAIN Nodes : Apart1(BufferNames(Nodes[i]))

\* What a handler asks of the allocator is a size the image can have.
Asks ==
  phase = "alloc" /\ graph.stream =>
    /\ Numel(Head(todo).shape) \in Nat
    /\ Align4(Head(todo).eb * Numel(Head(todo).shape)) \in Bytes

\* The node that is done is the last to use one buffer under two names: it is
\* given back twice.
Twins ==
  /\ phase = "release"
  /\ \E x, y \in ToSet(Node.in) : x # y /\ buf[x] = buf[y] /\ IsDead(x) /\ IsDead(y)

\* A part of a meshgrid is named for the first time when its last use is over.
LatePart ==
  /\ OnOp("getitem")
  /\ LET part == PartName(Node.in[1], Node.at[1]) IN
     /\ part \in DOMAIN buf
     /\ \E f \in DOMAIN buf : buf[f] = buf[part] /\ LastUse(f) # 0
     /\ \A f \in DOMAIN buf : buf[f] = buf[part] => LastUse(f) < at

\* What the theorems about the compiler assume of every state.
Lawful == NamesApart /\ Asks /\ ~ Twins /\ ~ LatePart

\* s is a sequence.
IsSeq(s) == s \in Seq(ToSet(s))
\* The program is being compiled, or was and has not been run.
Compiling == phase \in {"visit", "alloc", "release", "ready"}
\* The buffers that are made and have no place yet.
Pending == {todo[i].name : i \in DOMAIN todo}
\* The nodes whose handler has run.
Seen == {i \in DOMAIN Nodes : i < at \/ (i = at /\ phase \in {"alloc", "release"})}

\* The place in the graph.
GraphOK ==
  /\ graph \in Graphs /\ at \in DOMAIN Nodes
  /\ phase \in {"alloc", "release"} => Node.op # "output"
  /\ phase = "ready" => at = Len(Nodes)

\* What is left to place: buffers of the node, each once.
TodoOK ==
  /\ IsSeq(todo)
  /\ (phase = "alloc") <=> (todo # <<>>)
  /\ \A i, j \in DOMAIN todo : (todo[i].name = todo[j].name) => (i = j)
  /\ \A i \in DOMAIN todo :
       /\ todo[i].eb \in {1, 4}
       /\ todo[i].bake => Node.in = <<>>
       /\ graph.stream => todo[i].name \in Buffer
       /\ todo[i].name \in NamesOf(Node)

\* What is left to look at for release: inputs of the node, each once.
DyingOK ==
  phase = "release" => IsSeq(dying) /\ Apart1(dying) /\ ToSet(dying) \subseteq ToSet(Node.in)

\* Every node that was seen has a buffer, and every name comes from such a node.
BufOK ==
  /\ \A i \in Seen : Nodes[i].op \notin {"skip", "output"} => Nodes[i].name \in DOMAIN buf
  /\ \A f \in DOMAIN buf :
       /\ \E i \in Seen : f \in NamesOf(Nodes[i])
       /\ buf[f] \in DOMAIN layout \/ (f \in NamesOf(Node) /\ buf[f] \in Pending)

\* Every buffer that has a place was made by a node that was seen.
LayoutOK ==
  /\ \A c \in DOMAIN layout : \E i \in Seen : c \in NamesOf(Nodes[i])
  /\ \A c \in Pending : c \notin DOMAIN layout
  /\ \A c \in DOMAIN layout :
       /\ layout[c].dram = graph.stream
       /\ graph.stream => /\ c \in Buffer /\ layout[c].off \in Nat
                          /\ layout[c].eb \in {1, 4} /\ layout[c].n \in Nat

\* The names: which are known, which are pending and which have a place.
NamesInv == GraphOK /\ TodoOK /\ DyingOK /\ BufOK /\ LayoutOK

\* The allocator holds the bytes the layout says.
Given(c) == held[c] = [off |-> layout[c].off, size |-> Align4(layout[c].eb * layout[c].n)]
\* Nothing uses the buffer any more.
GivenUp(c) ==
  \/ /\ \E f \in DOMAIN buf : buf[f] = c /\ LastUse(f) # 0
     /\ \A f \in DOMAIN buf : buf[f] = c => LastUse(f) < at
  \/ /\ phase = "release"
     /\ \E x \in ToSet(Node.in) \ ToSet(dying) : buf[x] = c /\ IsDead(x)

\* The allocator holds what the layout says until nothing uses it.
HeldInv ==
  /\ \A c \in Buffer : ~ graph.stream \/ c \notin DOMAIN layout => held[c] = Nowhere
  /\ graph.stream => \A c \in DOMAIN layout : Given(c) \/ (held[c] = Nowhere /\ GivenUp(c))

\* The bytes of a buffer, without the padding behind them.
Place(c) == [off |-> layout[c].off, size |-> layout[c].eb * layout[c].n]

\* A statement that writes a buffer reads no byte of it.
StmtInv ==
  /\ IsSeq(stmts)
  /\ \A s \in ToSet(stmts) : \A c \in ToSet(s.outs) \cup s.work :
       /\ \/ c \in DOMAIN layout
          \/ c \in Pending /\ ToSet(s.ins) \subseteq {buf[x] : x \in ToSet(Node.in)}
       /\ c \in DOMAIN layout =>
            \A d \in ToSet(s.ins) :
              /\ d \in DOMAIN layout /\ d # c
              /\ graph.stream => Disjoint(Place(c), Place(d))

\* Nothing ever reads the buffer.
Unused(c) == \A f \in DOMAIN buf : buf[f] = c => LastUse(f) = 0
\* A node that is not done yet reads the buffer.
InUse(c) ==
  \E f \in DOMAIN buf :
    /\ buf[f] = c
    /\ \/ LastUse(f) > at
       \/ LastUse(f) = at /\ (phase = "release" => f \in ToSet(dying))
\* A buffer that is held, and is not pinned, is in use or was never to be used.
UseInv ==
  graph.stream =>
    \A c \in DOMAIN layout \ pinned : held[c] # Nowhere => Unused(c) \/ InUse(c)

------------------------------------------------------------------------------
(****************************************************************************)
(* Sequences, and folds over them.                                          *)
(****************************************************************************)
\* A set of numbers with 0 and every successor has all of them.
LEMMA NatSetInduction ==
  ASSUME NEW S, 0 \in S, \A n \in Nat : n \in S => n + 1 \in S
  PROVE  Nat \subseteq S
<1> DEFINE T == Nat \ S
           R == OpToRel(<, Nat)
<1> SUFFICES ASSUME T # {} PROVE FALSE
  OBVIOUS
<1>1. IsWellFoundedOn(R, Nat)
  BY NatLessThanWellFounded
<1>2. T \subseteq Nat
  OBVIOUS
<1> HIDE DEF T, R
<1>3. PICK x \in T : \A y \in T : ~(<<y, x>> \in R)
  BY <1>1, <1>2, WFMin
<1> USE DEF T
<1>4. x \in Nat /\ x # 0
  BY <1>3
<1>5. x - 1 \in T
  BY <1>4
<1>6. <<x - 1, x>> \in R
  BY <1>4 DEF R, OpToRel
<1> QED BY <1>3, <1>5, <1>6

\* A sequence is one over the set of its elements.
LEMMA SeqSet ==
  ASSUME NEW S, NEW s \in Seq(S)
  PROVE  /\ IsSeq(s) /\ Len(s) \in Nat /\ DOMAIN s = 1..Len(s)
         /\ ToSet(s) \subseteq S
         /\ s # <<>> => Len(s) > 0 /\ Head(s) = s[1] /\ Head(s) \in ToSet(s)
<1>1. Len(s) \in Nat /\ DOMAIN s = 1..Len(s)
  OBVIOUS
<1>2. \A i \in 1..Len(s) : s[i] \in ToSet(s)
  BY <1>1 DEF ToSet
<1>3. s = [i \in 1..Len(s) |-> s[i]]
  OBVIOUS
<1>4. IsSeq(s)
  BY <1>1, <1>2, <1>3 DEF IsSeq
<1>5. s # <<>> => Len(s) > 0 /\ Head(s) = s[1]
  OBVIOUS
<1> QED BY <1>1, <1>2, <1>4, <1>5 DEF ToSet

\* One element more.
LEMMA AppendSet ==
  ASSUME NEW s, IsSeq(s), NEW e
  PROVE  IsSeq(Append(s, e)) /\ ToSet(Append(s, e)) = ToSet(s) \cup {e}
<1> DEFINE T == ToSet(s) \cup {e}
           t == Append(s, e)
<1>1. s \in Seq(T) /\ Len(s) \in Nat /\ DOMAIN s = 1..Len(s)
  <2>1. s \in Seq(ToSet(s))
    BY DEF IsSeq
  <2> HIDE DEF T
  <2>2. ToSet(s) \subseteq T
    BY DEF T
  <2> QED BY <2>1, <2>2
<1>2. t \in Seq(T) /\ DOMAIN t = 1..(Len(s) + 1) /\ t[Len(s) + 1] = e
        /\ \A i \in 1..Len(s) : t[i] = s[i]
  <2> HIDE DEF T
  <2> QED BY <1>1 DEF T
<1> HIDE DEF t
<1>3. ToSet(t) = T
  BY <1>1, <1>2 DEF ToSet
<1> QED BY <1>2, <1>3, SeqSet DEF t

\* One element less.
LEMMA TailSet ==
  ASSUME NEW s, IsSeq(s), s # <<>>
  PROVE  /\ IsSeq(Tail(s)) /\ ToSet(Tail(s)) \subseteq ToSet(s)
         /\ ToSet(s) = ToSet(Tail(s)) \cup {Head(s)}
         /\ \A i \in DOMAIN Tail(s) : i + 1 \in DOMAIN s /\ Tail(s)[i] = s[i + 1]
         /\ Len(s) \in Nat /\ Len(s) > 0 /\ 1 \in DOMAIN s /\ Head(s) = s[1]
         /\ (Len(s) > 1) <=> (Tail(s) # <<>>)
<1> DEFINE S == ToSet(s)
           t == Tail(s)
<1>1. s \in Seq(S) /\ Len(s) \in Nat /\ DOMAIN s = 1..Len(s) /\ Head(s) = s[1] /\ Len(s) > 0
  <2> HIDE DEF S
  <2>1. s \in Seq(S)
    BY DEF IsSeq, S
  <2> QED BY <2>1
<1>2. /\ t \in Seq(S) /\ DOMAIN t = 1..(Len(s) - 1) /\ Len(t) = Len(s) - 1
      /\ \A i \in 1..(Len(s) - 1) : t[i] = s[i + 1]
  <2> HIDE DEF S
  <2> QED BY <1>1
<1> HIDE DEF t
<1>3. \A i \in DOMAIN t : i + 1 \in DOMAIN s /\ t[i] = s[i + 1]
  BY <1>1, <1>2
<1>4. ToSet(s) = ToSet(t) \cup {s[1]}
  <2>1. ASSUME NEW i \in DOMAIN s PROVE s[i] \in ToSet(t) \cup {s[1]}
    <3>1. CASE i = 1
      BY <3>1
    <3>2. CASE i # 1
      <4>1. i - 1 \in DOMAIN t /\ t[i - 1] = s[i]
        BY <1>1, <1>2, <3>2
      <4> QED BY <4>1 DEF ToSet
    <3> QED BY <3>1, <3>2
  <2>2. \A i \in DOMAIN t : t[i] \in ToSet(s)
    BY <1>3 DEF ToSet
  <2>3. s[1] \in ToSet(s)
    BY <1>1 DEF ToSet
  <2> QED BY <2>1, <2>2, <2>3 DEF ToSet
<1>5. (Len(s) > 1) <=> (t # <<>>)
  BY <1>1, <1>2
<1>6. IsSeq(t)
  BY <1>2, SeqSet
<1> QED BY <1>1, <1>3, <1>4, <1>5, <1>6 DEF t

\* The rest of a sequence without repetition does not have its head.
LEMMA TailOnce ==
  ASSUME NEW s, IsSeq(s), s # <<>>, Apart1(s)
  PROVE  Apart1(Tail(s)) /\ Head(s) \notin ToSet(Tail(s))
<1>1. /\ \A i \in DOMAIN Tail(s) : i + 1 \in DOMAIN s /\ Tail(s)[i] = s[i + 1]
      /\ 1 \in DOMAIN s /\ Head(s) = s[1] /\ DOMAIN Tail(s) \subseteq Nat \ {0}
  <2>1. DOMAIN Tail(s) \subseteq Nat \ {0}
    BY TailSet, SeqSet
  <2> QED BY <2>1, TailSet
<1>2. Apart1(Tail(s))
  <2> SUFFICES ASSUME NEW i \in DOMAIN Tail(s), NEW j \in DOMAIN Tail(s),
                      Tail(s)[i] = Tail(s)[j]
               PROVE  i = j
    BY DEF Apart1
  <2>1. s[i + 1] = s[j + 1] /\ i + 1 \in DOMAIN s /\ j + 1 \in DOMAIN s
    BY <1>1
  <2>2. i + 1 = j + 1
    BY <2>1 DEF Apart1
  <2> QED BY <1>1, <2>2
<1>3. \A i \in DOMAIN Tail(s) : i + 1 # 1
  BY <1>1
<1> QED BY <1>1, <1>2, <1>3 DEF Apart1, ToSet

\* The largest of finitely many numbers.
LEMMA MaxExists ==
  ASSUME NEW n \in Nat, NEW S \in SUBSET (0..n), S # {}
  PROVE  Max(S) \in S /\ \A y \in S : Max(S) >= y
<1> DEFINE Good == {k \in Nat : \A T \in SUBSET (0..k) : T # {} => \E x \in T : \A y \in T : x >= y}
<1>1. 0 \in Good
  <2>1. ASSUME NEW T \in SUBSET (0..0), T # {} PROVE 0 \in T /\ \A y \in T : 0 >= y
    <3>1. PICK z \in T : z \in 0..0
      BY <2>1
    <3> QED BY <3>1
  <2> QED BY <2>1
<1>2. ASSUME NEW k \in Nat, k \in Good PROVE k + 1 \in Good
  <2> SUFFICES ASSUME NEW T \in SUBSET (0..(k + 1)), T # {}
               PROVE  \E x \in T : \A y \in T : x >= y
    OBVIOUS
  <2>1. CASE k + 1 \in T
    <3>1. \A y \in T : k + 1 >= y
      OBVIOUS
    <3> QED BY <2>1, <3>1
  <2>2. CASE k + 1 \notin T
    <3>1. T \in SUBSET (0..k)
      BY <2>2
    <3> QED BY <1>2, <3>1
  <2> QED BY <2>1, <2>2
<1>3. Nat \subseteq Good
  <2> HIDE DEF Good
  <2> QED BY <1>1, <1>2, NatSetInduction
<1>4. \E x \in S : \A y \in S : x >= y
  BY <1>3
<1> QED BY <1>4 DEF Max

\* The fold of step over l, by the set of the positions it has seen.
LoopRule(h, n, b, step, l) ==
  \A s \in SUBSET (1..n) :
    h[s] = IF s = {} THEN b ELSE step[<<h[s \ {Max(s)}], l[Max(s)]>>]

\* There is a function that satisfies the rule.
LEMMA LoopExists ==
  ASSUME NEW E, NEW l \in Seq(E), NEW St, NEW b \in St, NEW step \in [St \X E -> St]
  PROVE  \E h \in [SUBSET (1..Len(l)) -> St] : LoopRule(h, Len(l), b, step, l)
<1> DEFINE Good == {n \in Nat : n <= Len(l) =>
                      \E h \in [SUBSET (1..n) -> St] : LoopRule(h, n, b, step, l)}
<1>0. Len(l) \in Nat /\ \A i \in 1..Len(l) : l[i] \in E
  OBVIOUS
<1>1. 0 \in Good
  <2> DEFINE h == [s \in SUBSET (1..0) |-> b]
  <2>1. h \in [SUBSET (1..0) -> St]
    OBVIOUS
  <2>2. ASSUME NEW s \in SUBSET (1..0) PROVE s = {}
    <3> SUFFICES ASSUME s # {} PROVE FALSE
      OBVIOUS
    <3>1. PICK z \in s : z \in 1..0
      OBVIOUS
    <3> QED BY <3>1
  <2>3. LoopRule(h, 0, b, step, l)
    BY <2>2 DEF LoopRule
  <2> QED BY <2>1, <2>3
<1>2. ASSUME NEW n \in Nat, n \in Good PROVE n + 1 \in Good
  <2>0. n + 1 \in Nat
    OBVIOUS
  <2> SUFFICES ASSUME n + 1 <= Len(l)
               PROVE  \E h \in [SUBSET (1..(n + 1)) -> St] : LoopRule(h, n + 1, b, step, l)
    BY <2>0, Zenon
  <2>1. n <= Len(l) /\ n + 1 \in 1..Len(l) /\ l[n + 1] \in E
    BY <1>0
  <2>2. PICK h \in [SUBSET (1..n) -> St] : LoopRule(h, n, b, step, l)
    BY <1>2, <2>1
  <2> DEFINE k == [s \in SUBSET (1..(n + 1)) |->
                     IF n + 1 \in s THEN step[<<h[s \ {n + 1}], l[n + 1]>>] ELSE h[s]]
  <2>3. ASSUME NEW s \in SUBSET (1..(n + 1))
        PROVE  /\ s \ {n + 1} \in SUBSET (1..n) /\ n + 1 \notin s \ {n + 1}
               /\ n + 1 \notin s => s \in SUBSET (1..n)
               /\ n + 1 \in s => s # {} /\ Max(s) = n + 1
    <3>1. \A y \in s \ {n + 1} : y \in 1..n
      OBVIOUS
    <3>2. ASSUME n + 1 \in s PROVE Max(s) = n + 1
      <4>1. s \in SUBSET (0..(n + 1)) /\ n + 1 \in Nat /\ s # {}
        BY <3>2
      <4>2. Max(s) \in s /\ Max(s) >= n + 1
        BY <3>2, <4>1, MaxExists
      <4>3. Max(s) \in 1..(n + 1)
        BY <4>2
      <4> QED BY <4>2, <4>3
    <3>3. n + 1 \notin s => s = s \ {n + 1}
      OBVIOUS
    <3>4. s \ {n + 1} \in SUBSET (1..n)
      BY <3>1
    <3>5. n + 1 \notin s => s \in SUBSET (1..n)
      BY <3>3, <3>4
    <3>6. n + 1 \in s => s # {}
      OBVIOUS
    <3> QED BY <3>2, <3>4, <3>5, <3>6
  <2>4. k \in [SUBSET (1..(n + 1)) -> St]
    <3> SUFFICES ASSUME NEW s \in SUBSET (1..(n + 1)) PROVE k[s] \in St
      OBVIOUS
    <3>1. CASE n + 1 \in s
      <4>1. h[s \ {n + 1}] \in St
        BY <2>3
      <4> QED BY <2>1, <3>1, <4>1
    <3>2. CASE n + 1 \notin s
      BY <2>3, <3>2
    <3> QED BY <3>1, <3>2
  <2>5. ASSUME NEW s \in SUBSET (1..(n + 1))
        PROVE  k[s] = IF s = {} THEN b ELSE step[<<k[s \ {Max(s)}], l[Max(s)]>>]
    <3>1. \A t \in SUBSET (1..n) : k[t] = h[t]
      <4> SUFFICES ASSUME NEW t \in SUBSET (1..n) PROVE k[t] = h[t]
        OBVIOUS
      <4>1. n + 1 \notin 1..n /\ \A y \in 1..n : y \in 1..(n + 1)
        OBVIOUS
      <4>2. n + 1 \notin t /\ t \in SUBSET (1..(n + 1))
        BY <4>1
      <4> QED BY <4>2
    <3>2. CASE n + 1 \in s
      <4>1. k[s] = step[<<h[s \ {n + 1}], l[n + 1]>>]
        BY <3>2
      <4>2. k[s \ {n + 1}] = h[s \ {n + 1}] /\ Max(s) = n + 1 /\ s # {}
        BY <2>3, <3>1, <3>2
      <4> HIDE DEF k
      <4> QED BY <4>1, <4>2
    <3>3. CASE n + 1 \notin s
      <4>1. s \in SUBSET (1..n) /\ s \ {Max(s)} \in SUBSET (1..n)
        BY <2>3, <3>3
      <4>2. k[s] = h[s] /\ k[s \ {Max(s)}] = h[s \ {Max(s)}]
        BY <3>1, <4>1
      <4> HIDE DEF k
      <4> QED BY <2>2, <4>1, <4>2 DEF LoopRule
    <3> QED BY <3>2, <3>3
  <2>6. LoopRule(k, n + 1, b, step, l)
    <3> HIDE DEF k
    <3> QED BY <2>5 DEF LoopRule
  <2> HIDE DEF k
  <2> QED BY <2>4, <2>6
<1>3. Nat \subseteq Good
  <2> HIDE DEF Good
  <2> QED BY <1>1, <1>2, NatSetInduction
<1>4. Len(l) \in Good
  <2> HIDE DEF Good
  <2> QED BY <1>0, <1>3
<1>5. Len(l) <= Len(l)
  BY <1>0
<1> QED BY <1>4, <1>5, Zenon

\* The prefixes of a loop.
LEMMA PrefixFacts ==
  ASSUME NEW n \in Nat, NEW k \in 1..n
  PROVE  Max(1..k) = k /\ (1..k) \ {k} = 1..(k - 1) /\ 1..k # {} /\ 1..k \in SUBSET (1..n)
<1>0. k \in Nat /\ k >= 1 /\ k <= n /\ k \in 1..k
  OBVIOUS
<1>1. (1..k) \ {k} = 1..(k - 1)
  BY <1>0
<1>2. \A i \in 1..k : i \in 1..n /\ i \in 0..k
  BY <1>0
<1>3. 1..k # {} /\ 1..k \in SUBSET (1..n) /\ 1..k \in SUBSET (0..k)
  BY <1>0, <1>2
<1>4. Max(1..k) \in 1..k /\ Max(1..k) >= k
  BY <1>0, <1>3, MaxExists
<1> QED BY <1>0, <1>1, <1>3, <1>4

\* The empty prefix.
LEMMA NothingToFold == 1..0 = {} /\ \A D : {} \in SUBSET D
  OBVIOUS

\* The step of the loop over the arguments: a node is added if it is new.
Once(s, n) == IF n \in ToSet(s) THEN s ELSE Append(s, n)
\* The loop over the arguments, as a fold.
OnceRule(h, l) ==
  h = [s \in SUBSET DOMAIN l |-> IF s = {} THEN <<>> ELSE Once(h[s \ {Max(s)}], l[Max(s)])]

\* AllOnce is that fold.
LEMMA AllOnceFold ==
  ASSUME NEW E, NEW l \in Seq(E)
  PROVE  \E h : OnceRule(h, l) /\ AllOnce(l) = h[DOMAIN l]
<1> DEFINE step == [p \in Seq(E) \X E |-> Once(p[1], p[2])]
<1>1. step \in [Seq(E) \X E -> Seq(E)] /\ <<>> \in Seq(E)
  <2>1. \A s \in Seq(E), n \in E : Once(s, n) \in Seq(E)
    BY DEF Once
  <2> QED BY <2>1
<1>2. \A s \in Seq(E), n \in E : step[<<s, n>>] = Once(s, n)
  OBVIOUS
<1> HIDE DEF step
<1>3. PICK h \in [SUBSET (1..Len(l)) -> Seq(E)] : LoopRule(h, Len(l), <<>>, step, l)
  BY <1>1, LoopExists
<1>4. Len(l) \in Nat /\ DOMAIN l = 1..Len(l) /\ \A i \in 1..Len(l) : l[i] \in E
  OBVIOUS
<1>5. OnceRule(h, l)
  <2> SUFFICES ASSUME NEW s \in SUBSET (1..Len(l))
               PROVE  h[s] = IF s = {} THEN <<>> ELSE Once(h[s \ {Max(s)}], l[Max(s)])
    BY <1>4 DEF OnceRule
  <2>1. h[s] = IF s = {} THEN <<>> ELSE step[<<h[s \ {Max(s)}], l[Max(s)]>>]
    BY <1>3 DEF LoopRule
  <2>2. CASE s # {}
    <3>1. s \in SUBSET (0..Len(l))
      BY <1>4
    <3>2. Max(s) \in s
      BY <1>4, <2>2, <3>1, MaxExists
    <3>3. l[Max(s)] \in E /\ h[s \ {Max(s)}] \in Seq(E)
      BY <1>4, <3>2
    <3> QED BY <1>2, <2>1, <2>2, <3>3
  <2> QED BY <2>1, <2>2
<1> DEFINE it == CHOOSE g : OnceRule(g, l)
<1>6. OnceRule(it, l)
  BY <1>5, Zenon
<1>7. AllOnce(l) = it[DOMAIN l]
  BY Zenon DEF AllOnce, FoldLeft, MapThenFoldSet, OnceRule, Once
<1> HIDE DEF it
<1> QED BY <1>6, <1>7

\* One step adds one element and repeats none.
LEMMA OnceFacts ==
  ASSUME NEW s, IsSeq(s), Apart1(s), NEW n
  PROVE  IsSeq(Once(s, n)) /\ Apart1(Once(s, n)) /\ ToSet(Once(s, n)) = ToSet(s) \cup {n}
<1>1. CASE n \in ToSet(s)
  BY <1>1 DEF Once
<1>2. CASE n \notin ToSet(s)
  <2> DEFINE t == Append(s, n)
  <2>1. IsSeq(t) /\ ToSet(t) = ToSet(s) \cup {n}
    BY AppendSet
  <2>2. /\ Len(s) \in Nat /\ DOMAIN s = 1..Len(s) /\ DOMAIN t = 1..(Len(s) + 1)
        /\ t[Len(s) + 1] = n /\ \A i \in 1..Len(s) : t[i] = s[i]
    BY DEF IsSeq
  <2> HIDE DEF t
  <2>3. \A i \in 1..Len(s) : s[i] # n
    BY <1>2, <2>2 DEF ToSet
  <2>4. Apart1(t)
    <3> SUFFICES ASSUME NEW i \in DOMAIN t, NEW j \in DOMAIN t, t[i] = t[j] PROVE i = j
      BY DEF Apart1
    <3>1. i \in 1..Len(s) \/ i = Len(s) + 1
      BY <2>2
    <3>2. j \in 1..Len(s) \/ j = Len(s) + 1
      BY <2>2
    <3> QED BY <2>2, <2>3, <3>1, <3>2 DEF Apart1
  <2> QED BY <1>2, <2>1, <2>4 DEF Once, t
<1> QED BY <1>1, <1>2

\* all_input_nodes has every argument once.
LEMMA AllOnceFacts ==
  ASSUME NEW E, NEW l \in Seq(E)
  PROVE  IsSeq(AllOnce(l)) /\ Apart1(AllOnce(l)) /\ ToSet(AllOnce(l)) = ToSet(l)
<1>1. PICK h : OnceRule(h, l) /\ AllOnce(l) = h[DOMAIN l]
  BY AllOnceFold
<1>2. Len(l) \in Nat /\ DOMAIN l = 1..Len(l)
  OBVIOUS
<1> DEFINE Met(k) == {l[i] : i \in 1..k}
           Good == {k \in Nat : k <= Len(l) =>
                      IsSeq(h[1..k]) /\ Apart1(h[1..k]) /\ ToSet(h[1..k]) = Met(k)}
<1>3. 0 \in Good
  <2>1. h[1..0] = <<>>
    BY <1>1, NothingToFold DEF OnceRule
  <2>2. IsSeq(<<>>) /\ Apart1(<<>>) /\ ToSet(<<>>) = {}
    BY DEF IsSeq, Apart1, ToSet
  <2>3. Met(0) = {}
    BY NothingToFold
  <2> QED BY <2>1, <2>2, <2>3
<1>4. ASSUME NEW k \in Nat, k \in Good PROVE k + 1 \in Good
  <2> SUFFICES ASSUME k + 1 <= Len(l)
               PROVE  IsSeq(h[1..(k + 1)]) /\ Apart1(h[1..(k + 1)]) /\ ToSet(h[1..(k + 1)]) = Met(k + 1)
    OBVIOUS
  <2>1. k + 1 \in 1..Len(l) /\ k <= Len(l) /\ (k + 1) - 1 = k
    BY <1>2
  <2>2. Max(1..(k + 1)) = k + 1 /\ (1..(k + 1)) \ {k + 1} = 1..k /\ 1..(k + 1) # {}
          /\ 1..(k + 1) \in SUBSET (1..Len(l))
    BY <1>2, <2>1, PrefixFacts
  <2>3. h[1..(k + 1)] = Once(h[1..k], l[k + 1])
    BY <1>1, <1>2, <2>2 DEF OnceRule
  <2>4. IsSeq(h[1..k]) /\ Apart1(h[1..k]) /\ ToSet(h[1..k]) = Met(k)
    BY <1>4, <2>1
  <2>5. Met(k + 1) = Met(k) \cup {l[k + 1]}
    <3>1. \A i \in 1..(k + 1) : i \in 1..k \/ i = k + 1
      OBVIOUS
    <3>2. \A i \in 1..k : i \in 1..(k + 1)
      OBVIOUS
    <3>3. k + 1 \in 1..(k + 1)
      OBVIOUS
    <3> QED BY <3>1, <3>2, <3>3
  <2> DEFINE a == h[1..k]
  <2>6. h[1..(k + 1)] = Once(a, l[k + 1]) /\ IsSeq(a) /\ Apart1(a) /\ ToSet(a) = Met(k)
    BY <2>3, <2>4
  <2> HIDE DEF Met, a
  <2>7. /\ IsSeq(Once(a, l[k + 1])) /\ Apart1(Once(a, l[k + 1]))
        /\ ToSet(Once(a, l[k + 1])) = ToSet(a) \cup {l[k + 1]}
    BY <2>6, OnceFacts
  <2> QED BY <2>5, <2>6, <2>7
<1>5. Nat \subseteq Good
  <2> HIDE DEF Good
  <2> QED BY <1>3, <1>4, NatSetInduction
<1>6. Met(Len(l)) = ToSet(l)
  BY <1>2 DEF ToSet
<1>7. Len(l) \in Good /\ Len(l) <= Len(l)
  <2> HIDE DEF Good
  <2> QED BY <1>2, <1>5
<1>8. IsSeq(h[1..Len(l)]) /\ Apart1(h[1..Len(l)]) /\ ToSet(h[1..Len(l)]) = Met(Len(l))
  BY <1>7
<1> HIDE DEF Met, Good
<1> QED BY <1>1, <1>2, <1>6, <1>8

------------------------------------------------------------------------------
(****************************************************************************)
(* The graph, and what the handlers do to the tables of the compiler.       *)
(****************************************************************************)
\* What a node of a graph is, from the assumption on the graphs.
LEMMA NodeFacts ==
  ASSUME graph \in Graphs, NEW i \in DOMAIN Nodes
  PROVE  /\ graph.stream \in BOOLEAN
         /\ Nodes \in Seq(FxNode) /\ Len(Nodes) \in Nat /\ DOMAIN Nodes = 1..Len(Nodes)
         /\ Nodes[i] \in FxNode /\ Nodes[i].in \in Seq(STRING)
         /\ Nodes[i].op = "output" <=> i = Len(Nodes)
         /\ \A x \in ToSet(Nodes[i].in) :
              \E j \in 1..(i - 1) : Nodes[j].name = x /\ Nodes[j].op # "skip"
         /\ Nodes[i].op \in {"placeholder", "get_attr"} => Nodes[i].in = <<>>
         /\ Nodes[i].op \in {"alias", "view", "getitem"} => Nodes[i].in # <<>>
         /\ graph.stream => Made(Nodes[i]) \subseteq Buffer
<1>1. Nodes \in Seq(FxNode)
  BY GraphAssumption DEF Nodes
<1>2. Nodes[i] \in FxNode
  BY <1>1
<1>3. Nodes[i].in \in Seq(STRING)
  BY <1>2 DEF FxNode
<1>4. Len(Nodes) \in Nat /\ DOMAIN Nodes = 1..Len(Nodes)
  BY <1>1
<1> QED BY <1>1, <1>2, <1>3, <1>4, GraphAssumption DEF Nodes

\* The last use of a name, or 0.
LEMMA LastUseFacts ==
  ASSUME graph \in Graphs, NEW f
  PROVE  /\ LastUse(f) \in Nat /\ LastUse(f) <= Len(Nodes)
         /\ LastUse(f) # 0 => /\ LastUse(f) \in DOMAIN Nodes
                              /\ f \in ToSet(Nodes[LastUse(f)].in)
         /\ \A i \in DOMAIN Nodes : f \in ToSet(Nodes[i].in) => i <= LastUse(f)
<1> DEFINE U == {i \in DOMAIN Nodes : f \in ToSet(Nodes[i].in)}
<1>1. Len(Nodes) \in Nat /\ DOMAIN Nodes = 1..Len(Nodes)
  <2>1. Nodes \in Seq(FxNode)
    BY GraphAssumption DEF Nodes
  <2> QED BY <2>1
<1>2. {0} \cup U \in SUBSET (0..Len(Nodes)) /\ {0} \cup U # {}
  BY <1>1
<1>3. LastUse(f) = Max({0} \cup U)
  BY DEF LastUse
<1>4. LastUse(f) \in {0} \cup U /\ \A y \in {0} \cup U : LastUse(f) >= y
  <2> HIDE DEF U
  <2> QED BY <1>1, <1>2, <1>3, MaxExists
<1> QED BY <1>1, <1>4

\* A name is used behind the node that has it, or never.
LEMMA UseAfter ==
  ASSUME graph \in Graphs, NamesApart, NEW k \in DOMAIN Nodes, NEW f \in NamesOf(Nodes[k]),
         LastUse(f) # 0
  PROVE  LastUse(f) > k /\ LastUse(f) \in Nat
<1>1. LastUse(f) \in DOMAIN Nodes /\ f \in ToSet(Nodes[LastUse(f)].in) /\ LastUse(f) \in Nat
  BY LastUseFacts
<1>2. PICK j \in 1..(LastUse(f) - 1) : Nodes[j].name = f
  BY <1>1, NodeFacts
<1>3. j \in DOMAIN Nodes /\ k \in Int /\ DOMAIN Nodes = 1..Len(Nodes) /\ Len(Nodes) \in Nat
  BY <1>1, <1>2, NodeFacts
<1>4. f \in NamesOf(Nodes[j])
  BY <1>2 DEF NamesOf
<1>5. j = k
  BY <1>3, <1>4 DEF NamesApart
<1> QED BY <1>1, <1>2, <1>3, <1>5

\* The inputs of the node, and their last uses.
LEMMA InputFacts ==
  ASSUME graph \in Graphs, at \in DOMAIN Nodes
  PROVE  /\ IsSeq(Inputs) /\ Apart1(Inputs) /\ ToSet(Inputs) = ToSet(Node.in)
         /\ \A x \in ToSet(Node.in) : LastUse(x) >= at
         /\ \A f : LastUse(f) = at => f \in ToSet(Node.in)
         /\ at \in Nat /\ at > 0
<1>1. Node.in \in Seq(STRING)
  BY NodeFacts DEF Node
<1>2. Inputs = AllOnce(Node.in)
  BY DEF Inputs
<1>3. IsSeq(Inputs) /\ Apart1(Inputs) /\ ToSet(Inputs) = ToSet(Node.in)
  BY <1>1, <1>2, AllOnceFacts
<1>4. at \in Nat /\ at > 0
  BY NodeFacts
<1>5. \A x \in ToSet(Node.in) : LastUse(x) >= at
  <2> SUFFICES ASSUME NEW x \in ToSet(Node.in) PROVE LastUse(x) >= at
    OBVIOUS
  <2>1. at <= LastUse(x) /\ LastUse(x) \in Nat
    BY LastUseFacts DEF Node
  <2> QED BY <1>4, <2>1
<1>6. \A f : LastUse(f) = at => f \in ToSet(Node.in)
  BY <1>4, LastUseFacts DEF Node
<1> QED BY <1>3, <1>4, <1>5, <1>6

\* The statement of a handler that makes the buffers in todo.
Stated ==
  \/ stmts' = stmts
  \/ \E s : /\ stmts' = Append(stmts, s)
            /\ ToSet(s.outs) \cup s.work \subseteq Pending'
            /\ ToSet(s.ins) \subseteq {buf[x] : x \in ToSet(Node.in)}

\* Buffers of the node that are to be placed.
TodoMade ==
  /\ IsSeq(todo) /\ todo # <<>>
  /\ \A i, j \in DOMAIN todo : (todo[i].name = todo[j].name) => (i = j)
  /\ \A i \in DOMAIN todo :
       /\ todo[i].eb \in {1, 4}
       /\ todo[i].bake => Node.in = <<>>
       /\ graph.stream => todo[i].name \in Buffer
       /\ todo[i].name \in NamesOf(Node)

\* New names of buffers that are still to be allocated.
BufMade ==
  /\ DOMAIN buf' = DOMAIN buf \cup Pending' \cup {Node.name}
  /\ \A f \in DOMAIN buf' :
       IF f \in Pending' \cup {Node.name} THEN buf'[f] \in Pending' ELSE buf'[f] = buf[f]

\* Their shapes.
ShapeMade ==
  /\ DOMAIN shape' = DOMAIN shape \cup Pending' \cup {Node.name}
  /\ \A f \in DOMAIN shape' :
       IF f \in Pending' \cup {Node.name}
       THEN \A i \in DOMAIN todo' : todo'[i].name = buf'[f] => shape'[f] = todo'[i].shape
       ELSE shape'[f] = shape[f]

\* A handler that makes buffers and states what computes them.
Makes ==
  /\ phase = "visit" /\ phase' = "alloc" /\ Node.op \notin {"skip", "output"}
  /\ UNCHANGED <<image, graph, at, dying, layout, img, running>>
  /\ TodoMade' /\ BufMade /\ ShapeMade /\ Stated
  /\ pinned \subseteq pinned' /\ pinned' \subseteq pinned \cup Pending'

\* The buffer of x is one that nobody has used so far, or not for the last time.
StillUsed(c) ==
  \/ \E f \in DOMAIN buf : buf[f] = c /\ LastUse(f) >= at
  \/ \A f \in DOMAIN buf : buf[f] = c => LastUse(f) = 0

\* A handler that gives a buffer one more name.
Aliases(x) ==
  /\ phase = "visit" /\ phase' = "release" /\ Node.op \notin {"skip", "output"}
  /\ UNCHANGED <<image, graph, at, todo, layout, pinned, stmts, img, running>>
  /\ dying' = Inputs
  /\ x \in DOMAIN buf /\ buf' = Named(buf, Node.name, buf[x])
  /\ \E s : shape' = Named(shape, Node.name, s) /\ Numel(s) = Numel(shape[x])
  /\ ~ LatePart => StillUsed(buf[x])

\* A handler is about to run.
Visiting == GraphOK /\ phase = "visit" /\ NamesApart

\* A handler that allocates names of its own and appends a statement.
LEMMA AllocatesMakes ==
  ASSUME Visiting, NEW S, NEW names \in Seq(S), NEW shapes, names # <<>>, Apart1(names),
         ToSet(names) \subseteq NamesOf(Node), graph.stream => ToSet(names) \subseteq Buffer,
         Node.op \notin {"skip", "output"},
         Allocates(names, shapes), UNCHANGED <<image, graph, at, dying, layout, pinned, img, running>>,
         NEW s, stmts' = Append(stmts, s), ToSet(s.outs) \cup s.work \subseteq ToSet(names),
         s.ins = InBufs
  PROVE  Makes
<1>1. /\ Len(names) \in Nat /\ DOMAIN names = 1..Len(names) /\ Len(names) > 0
      /\ 1 \in DOMAIN names
  BY SeqSet
<1>2. /\ todo' = [i \in DOMAIN names |-> [name |-> names[i], shape |-> shapes[i],
                                      eb |-> 4, bake |-> FALSE]]
      /\ buf' = [n \in ToSet(names) |-> n] \uplus Named(buf, Node.name, names[1])
      /\ shape' = [n \in ToSet(names) |-> shapes[CHOOSE i \in DOMAIN names : names[i] = n]]
                  \uplus Named(shape, Node.name, shapes[1])
      /\ phase' = "alloc"
  BY DEF Allocates
<1>3. /\ DOMAIN todo' = DOMAIN names
      /\ \A i \in DOMAIN names : /\ todo'[i].name = names[i] /\ todo'[i].shape = shapes[i]
                                 /\ todo'[i].eb = 4 /\ todo'[i].bake = FALSE
  BY <1>2
<1>4. Pending' = ToSet(names)
  BY <1>3 DEF Pending, ToSet
<1>5. IsSeq(todo') /\ todo' # <<>>
  <2> DEFINE R == {[name |-> names[i], shape |-> shapes[i],
                    eb |-> 4, bake |-> FALSE] : i \in DOMAIN names}
  <2>0. \A i \in 1..Len(names) : todo'[i] \in R
    BY <1>1, <1>2 DEF R
  <2>1. todo' \in Seq(R)
    <3> HIDE DEF R
    <3>1. todo' = [i \in 1..Len(names) |-> todo'[i]]
      BY <1>1, <1>2
    <3> QED BY <1>1, <2>0, <3>1
  <2> HIDE DEF R
  <2> QED BY <1>1, <1>3, <2>1, SeqSet
<1>6. Node' = Node /\ Nodes' = Nodes
  BY DEF Node, Nodes
<1>7. TodoMade'
  <2>1. \A i, j \in DOMAIN todo' : (todo'[i].name = todo'[j].name) => (i = j)
    BY <1>3 DEF Apart1
  <2>2. \A i \in DOMAIN todo' :
         /\ todo'[i].eb \in {1, 4}
         /\ todo'[i].bake => Node.in = <<>>
         /\ graph.stream => todo'[i].name \in Buffer
         /\ todo'[i].name \in NamesOf(Node)
    BY <1>3 DEF ToSet
  <2> QED BY <1>5, <1>6, <2>1, <2>2 DEF TodoMade
<1>8. names[1] \in ToSet(names)
  BY <1>1 DEF ToSet
<1>9. BufMade
  <2> DEFINE F == [n \in ToSet(names) |-> n]
             G == Named(buf, Node.name, names[1])
  <2>1. DOMAIN F = ToSet(names) /\ \A n \in ToSet(names) : F[n] = n
    OBVIOUS
  <2>2. /\ DOMAIN G = DOMAIN buf \cup {Node.name}
        /\ \A y \in DOMAIN G : G[y] = IF y = Node.name THEN names[1] ELSE buf[y]
    BY DEF Named
  <2>3. buf' = F \uplus G
    BY <1>2
  <2> HIDE DEF F, G
  <2>4. DOMAIN buf' = ToSet(names) \cup DOMAIN buf \cup {Node.name}
    BY <2>1, <2>2, <2>3 DEF \uplus
  <2>5. \A y \in DOMAIN buf' : buf'[y] = IF y \in ToSet(names) THEN y
                                         ELSE IF y = Node.name THEN names[1] ELSE buf[y]
    BY <2>1, <2>2, <2>3 DEF \uplus
  <2> QED BY <1>4, <1>8, <2>4, <2>5 DEF BufMade
<1>10. ShapeMade
  <2> DEFINE F == [n \in ToSet(names) |-> shapes[CHOOSE i \in DOMAIN names : names[i] = n]]
             G == Named(shape, Node.name, shapes[1])
  <2>2. shape' = F \uplus G
    BY <1>2
  <2>3. /\ DOMAIN F = ToSet(names)
        /\ \A i \in DOMAIN names : F[names[i]] = shapes[i]
    <3> SUFFICES ASSUME NEW i \in DOMAIN names PROVE F[names[i]] = shapes[i]
      OBVIOUS
    <3> DEFINE j == CHOOSE j \in DOMAIN names : names[j] = names[i]
    <3>1. j \in DOMAIN names /\ names[j] = names[i]
      OBVIOUS
    <3>2. j = i
      BY <3>1 DEF Apart1
    <3>3. names[i] \in ToSet(names)
      BY DEF ToSet
    <3> QED BY <3>2, <3>3
  <2>7. /\ DOMAIN G = DOMAIN shape \cup {Node.name}
        /\ \A y \in DOMAIN G : G[y] = IF y = Node.name THEN shapes[1] ELSE shape[y]
    BY DEF Named
  <2> HIDE DEF F, G
  <2>8. DOMAIN shape' = ToSet(names) \cup DOMAIN shape \cup {Node.name}
    BY <2>2, <2>3, <2>7 DEF \uplus
  <2>4. \A y \in DOMAIN shape' : shape'[y] = IF y \in ToSet(names) THEN F[y]
                                         ELSE IF y = Node.name THEN shapes[1] ELSE shape[y]
    BY <2>2, <2>3, <2>7 DEF \uplus
  <2>5. /\ \A f \in ToSet(names) : buf'[f] = f
        /\ Node.name \notin ToSet(names) => buf'[Node.name] = names[1]
    BY <1>2 DEF \uplus, Named
  <2>6. ASSUME NEW f \in ToSet(names) \cup {Node.name}, NEW i \in DOMAIN todo',
               todo'[i].name = buf'[f]
        PROVE  shape'[f] = todo'[i].shape
    <3>0. f \in DOMAIN shape'
      BY <2>8
    <3>1. CASE f \in ToSet(names)
      <4>1. shape'[f] = F[f] /\ names[i] = f
        BY <1>3, <2>4, <2>5, <2>6, <3>0, <3>1
      <4> QED BY <1>3, <2>3, <4>1
    <3>2. CASE f \notin ToSet(names)
      <4>1. f = Node.name /\ names[i] = names[1] /\ i = 1
        BY <1>1, <1>3, <2>5, <2>6, <3>2 DEF Apart1
      <4> QED BY <1>3, <2>4, <3>0, <3>2, <4>1
    <3> QED BY <3>1, <3>2
  <2> QED BY <1>4, <2>4, <2>6, <2>8 DEF ShapeMade
<1>11. Stated
  <2>1. ToSet(s.ins) \subseteq {buf[x] : x \in ToSet(Node.in)}
    BY DEF InBufs, InBuf, ToSet
  <2> QED BY <1>4, <2>1 DEF Stated
<1> QED BY <1>2, <1>7, <1>9, <1>10, <1>11 DEF Makes, Visiting

\* Most handlers make one buffer, with the name of the node.
LEMMA OneName ==
  ASSUME Visiting, Node.op \notin {"skip", "output", "alias", "view", "getitem", "meshgrid"}
  PROVE  /\ <<Node.name>> \in Seq({Node.name}) /\ <<Node.name>> # <<>>
         /\ Apart1(<<Node.name>>) /\ ToSet(<<Node.name>>) = {Node.name}
         /\ ToSet(<<Node.name>>) \subseteq NamesOf(Node)
         /\ graph.stream => ToSet(<<Node.name>>) \subseteq Buffer
<1>1. ToSet(<<Node.name>>) = {Node.name}
  BY DEF ToSet
<1>2. graph.stream => Made(Node) \subseteq Buffer
  BY NodeFacts DEF Visiting, GraphOK, Node
<1>3. Made(Node) = {Node.name}
  BY DEF Made
<1> QED BY <1>1, <1>2, <1>3 DEF Apart1, NamesOf

\* A handler with one buffer.
LEMMA OneMakes ==
  ASSUME Visiting, Node.op \notin {"skip", "output", "alias", "view", "getitem", "meshgrid"},
         NEW o, NEW count, NEW scratch, NEW steps,
         Allocates(<<Node.name>>, <<o>>), Statement(<<Node.name>>, count, scratch, steps),
         UNCHANGED <<image, graph, at, dying, layout, pinned, img, running>>
  PROVE  Makes
<1> DEFINE s == [outs |-> <<Node.name>>, work |-> {}, ins |-> InBufs, count |-> count,
                 scratch |-> scratch, steps |-> steps]
<1>1. stmts' = Append(stmts, s)
  BY DEF Statement
<1>2. s.outs = <<Node.name>> /\ s.work = {} /\ s.ins = InBufs
  OBVIOUS
<1> HIDE DEF s
<1>3. ToSet(s.outs) \cup s.work \subseteq ToSet(<<Node.name>>)
  BY <1>2
<1> QED BY <1>1, <1>2, <1>3, OneName, AllocatesMakes

\* Emit, for the names a handler gives it.
LEMMA EmitMakes ==
  ASSUME Visiting, NEW S, NEW names \in Seq(S), NEW shapes, names # <<>>, Apart1(names),
         ToSet(names) \subseteq NamesOf(Node), graph.stream => ToSet(names) \subseteq Buffer,
         Node.op \notin {"skip", "output"},
         NEW count, NEW scratch, NEW steps, Emit(names, shapes, count, scratch, steps)
  PROVE  Fail \/ Makes
<1>1. CASE Bad \in ToSet(shapes) \/ steps = <<>>
  BY <1>1 DEF Emit
<1>2. CASE ~ (Bad \in ToSet(shapes) \/ steps = <<>>)
  <2> DEFINE s == [outs |-> names, work |-> {}, ins |-> InBufs, count |-> count,
                   scratch |-> scratch, steps |-> steps]
  <2>1. /\ Allocates(names, shapes) /\ stmts' = Append(stmts, s)
        /\ UNCHANGED <<image, graph, at, dying, layout, pinned, img, running>>
    BY <1>2 DEF Emit, Statement
  <2>2. s.outs = names /\ s.work = {} /\ s.ins = InBufs
    OBVIOUS
  <2> HIDE DEF s
  <2>3. ToSet(s.outs) \cup s.work \subseteq ToSet(names)
    BY <2>2
  <2> QED BY <2>1, <2>2, <2>3, AllocatesMakes
<1> QED BY <1>1, <1>2

\* Emit, for one name.
LEMMA EmitOne ==
  ASSUME Visiting, Node.op \notin {"skip", "output", "alias", "view", "getitem", "meshgrid"},
         NEW o, NEW count, NEW scratch, NEW steps,
         Emit(<<Node.name>>, <<o>>, count, scratch, steps)
  PROVE  Fail \/ Makes
  BY OneName, EmitMakes

\* The handlers that stage one call of the runtime.
LEMMA EmitCallMakes ==
  ASSUME Visiting, Node.op \notin {"skip", "output", "alias", "view", "getitem", "meshgrid"},
         NEW r, EmitCall(r)
  PROVE  Fail \/ Makes
  BY EmitOne DEF EmitCall

\* A handler fails, or makes buffers.
Lowered == Fail \/ Makes

\* The handlers, one by one.
LEMMA BinaryMakes == ASSUME Visiting, EmitBinary PROVE Lowered
<1>1. Node.op = "binary"
  BY DEF EmitBinary, OnOp
<1>2. CASE Len(Node.in) = 1 \/ (Len(Node.in) = 2 /\ InShape(1) = InShape(2))
  BY <1>1, <1>2, EmitCallMakes DEF EmitBinary, Lowered
<1>3. CASE ~ (Len(Node.in) = 1 \/ (Len(Node.in) = 2 /\ InShape(1) = InShape(2)))
  BY <1>1, <1>3, EmitOne DEF EmitBinary, Lowered
<1> QED BY <1>2, <1>3

LEMMA UnaryMakes == ASSUME Visiting, EmitUnary PROVE Lowered
<1>1. Node.op \in {"unary_same", "requant_i32"}
  BY DEF EmitUnary
<1> QED BY <1>1, OneMakes DEF EmitUnary, Lowered

LEMMA CallsMake ==
  ASSUME Visiting,
         \/ EmitArange \/ EmitStack \/ EmitCat \/ EmitPad \/ EmitPermute \/ EmitSlice
         \/ EmitSelect \/ EmitUpsample
  PROVE  Lowered
<1>1. Node.op \in {"arange", "stack", "cat", "pad", "permute", "slice", "select",
                   "upsample_nearest", "upsample_bilinear"}
  BY DEF OnOp, EmitArange, EmitStack, EmitCat, EmitPad, EmitPermute, EmitSlice, EmitSelect,
         EmitUpsample
<1>2. PICK r : EmitCall(r)
  BY DEF EmitArange, EmitStack, EmitCat, EmitPad, EmitPermute, EmitSlice, EmitSelect,
         EmitUpsample
<1> QED BY <1>1, <1>2, EmitCallMakes DEF Lowered

LEMMA MeshgridMakes == ASSUME Visiting, EmitMeshgrid PROVE Lowered
<1> DEFINE p0 == PartName(Node.name, 0)
           p1 == PartName(Node.name, 1)
<1>1. Node.op = "meshgrid" /\ BufferNames(Node) = <<p0, p1>> /\ Made(Node) = {p0, p1}
  BY DEF EmitMeshgrid, OnOp, BufferNames, Made
<1>2. Apart1(<<p0, p1>>) /\ ToSet(<<p0, p1>>) \subseteq NamesOf(Node)
  <2>1. at \in DOMAIN Nodes
    BY DEF Visiting, GraphOK
  <2> HIDE DEF p0, p1
  <2>2. Apart1(BufferNames(Node))
    BY <2>1 DEF Visiting, NamesApart, Node
  <2> QED BY <1>1, <2>2 DEF NamesOf
<1>3. graph.stream => Made(Node) \subseteq Buffer
  BY NodeFacts DEF Visiting, GraphOK, Node
<1>4. \E shapes, count : Emit(<<p0, p1>>, shapes, count, 0, Kernel)
  BY DEF EmitMeshgrid
<1> HIDE DEF p0, p1
<1>5. <<p0, p1>> \in Seq({p0, p1}) /\ <<p0, p1>> # <<>> /\ ToSet(<<p0, p1>>) = {p0, p1}
  BY DEF ToSet
<1> QED BY <1>1, <1>2, <1>3, <1>4, <1>5, EmitMakes DEF Lowered

LEMMA PoolMakes == ASSUME Visiting, EmitMaxPool PROVE Lowered
<1>1. Node.op = "max_pool2d"
  BY DEF EmitMaxPool, OnOp
<1> QED BY <1>1, OneMakes DEF EmitMaxPool, Lowered

LEMMA MatmulMakes == ASSUME Visiting, EmitMatmul PROVE Lowered
<1>1. Node.op = "gemm_mmio"
  BY DEF EmitMatmul, OnOp
<1> QED BY <1>1, EmitOne DEF EmitMatmul, Lowered

LEMMA ConvStreamMakes ==
  ASSUME Visiting, Node.op = "conv2d", NEW x, NEW w, NEW out, EmitConvStream(x, w, out)
  PROVE  Lowered
  BY OneMakes DEF EmitConvStream, Lowered

\* The names of a conv2d of a baked image.
LEMMA FourNames ==
  ASSUME NEW a, NEW b, NEW c, NEW d
  PROVE  LET s == <<a, b, c, d>> IN
         /\ s \in Seq(ToSet(s)) /\ s # <<>> /\ ToSet(<<a>>) \cup {b, c, d} \subseteq ToSet(s)
<1> DEFINE s == <<a, b, c, d>>
<1>1. ToSet(s) = {a, b, c, d} /\ ToSet(<<a>>) = {a}
  BY DEF ToSet
<1>2. s \in Seq({a, b, c, d}) /\ s # <<>>
  OBVIOUS
<1> QED BY <1>1, <1>2

LEMMA ConvPlainMakes ==
  ASSUME Visiting, Node.op = "conv2d", ~ graph.stream,
         NEW x, NEW w, NEW out, EmitConvPlain(x, w, out)
  PROVE  Lowered
<1> DEFINE names == <<Node.name, Node.name \o "_col", Node.name \o "_wt", Node.name \o "_gemm">>
           work == {Node.name \o "_col", Node.name \o "_wt", Node.name \o "_gemm"}
<1>1. names = BufferNames(Node)
  BY DEF BufferNames
<1>2. CASE ~ Fail
  <2>1. PICK s, shapes : /\ Allocates(names, shapes)
                         /\ stmts' = Append(stmts, s)
                         /\ s.outs = <<Node.name>> /\ s.work = work /\ s.ins = InBufs
                         /\ UNCHANGED <<image, graph, at, dying, layout, pinned, img, running>>
    BY <1>2 DEF EmitConvPlain
  <2>2. /\ names \in Seq(ToSet(names)) /\ names # <<>>
        /\ ToSet(<<Node.name>>) \cup work \subseteq ToSet(names)
    BY FourNames
  <2> HIDE DEF names, work
  <2>3. Apart1(names) /\ ToSet(names) \subseteq NamesOf(Node)
    <3>1. at \in DOMAIN Nodes
      BY DEF Visiting, GraphOK
    <3> QED BY <1>1, <3>1 DEF Visiting, NamesApart, Node, NamesOf
  <2> QED BY <2>1, <2>2, <2>3, AllocatesMakes DEF Lowered
<1> QED BY <1>2 DEF Lowered

LEMMA ConvMakes == ASSUME Visiting, EmitConv PROVE Lowered
<1>1. Node.op = "conv2d"
  BY DEF EmitConv, OnOp
<1> QED BY <1>1, ConvStreamMakes, ConvPlainMakes DEF EmitConv, Lowered

\* An input or a weight makes a buffer without a statement.
LEMMA InputMakes == ASSUME Visiting, VisitInput PROVE Makes
<1>1. Node.op \in {"placeholder", "get_attr"} /\ Node.in = <<>>
  BY NodeFacts DEF VisitInput, Visiting, GraphOK, Node
<1>2. PICK r : /\ todo' = <<r>> /\ r.name = Node.name /\ r.shape = Node.shape
               /\ r.eb \in {1, 4}
  <2> DEFINE i8 == graph.stream /\ Node.op = "get_attr" /\ Len(Node.shape) = 4 /\ Node.small
             r == [name |-> Node.name, shape |-> Node.shape,
                   eb |-> IF i8 THEN 1 ELSE 4, bake |-> TRUE]
  <2>1. todo' = <<r>>
    BY DEF VisitInput
  <2>2. r.name = Node.name /\ r.shape = Node.shape /\ r.eb \in {1, 4}
    OBVIOUS
  <2> QED BY <2>1, <2>2
<1>3. /\ Node' = Node /\ graph' = graph
      /\ Pending' = {Node.name} /\ DOMAIN todo' = {1} /\ todo'[1] = r
      /\ IsSeq(todo') /\ todo' # <<>>
  <2>1. Node' = Node /\ graph' = graph
    BY DEF VisitInput, Node, Nodes
  <2>2. DOMAIN todo' = {1} /\ todo'[1] = r /\ todo' # <<>> /\ todo' \in Seq({r})
    BY <1>2
  <2>3. IsSeq(todo')
    BY <2>2, SeqSet
  <2> QED BY <1>2, <2>1, <2>2, <2>3 DEF Pending
<1>4. TodoMade'
  <2>1. graph.stream => Node.name \in Buffer
    <3>1. Made(Node) = {Node.name}
      BY <1>1 DEF Made
    <3> QED BY <3>1, NodeFacts DEF Visiting, GraphOK, Node
  <2> QED BY <1>1, <1>2, <1>3, <2>1 DEF TodoMade, NamesOf
<1>5. BufMade
  <2>1. buf' = Named(buf, Node.name, Node.name)
    BY DEF VisitInput
  <2>2. /\ DOMAIN buf' = DOMAIN buf \cup {Node.name}
        /\ \A y \in DOMAIN buf' : buf'[y] = IF y = Node.name THEN Node.name ELSE buf[y]
    BY <2>1 DEF Named
  <2> QED BY <1>3, <2>2 DEF BufMade
<1>6. ShapeMade
  <2>1. shape' = Named(shape, Node.name, Node.shape)
    BY DEF VisitInput
  <2>2. /\ DOMAIN shape' = DOMAIN shape \cup {Node.name}
        /\ \A y \in DOMAIN shape' : shape'[y] = IF y = Node.name THEN Node.shape ELSE shape[y]
    BY <2>1 DEF Named
  <2> QED BY <1>2, <1>3, <2>2 DEF ShapeMade
<1>7. Stated
  BY DEF VisitInput, Stated
<1>8. pinned \subseteq pinned' /\ pinned' \subseteq pinned \cup Pending'
  BY <1>3 DEF VisitInput
<1>9. /\ phase' = "alloc" /\ UNCHANGED <<image, graph, at, dying, layout, img, running>>
  BY DEF VisitInput
<1> QED BY <1>1, <1>4, <1>5, <1>6, <1>7, <1>8, <1>9 DEF Makes, Visiting

\* The inputs of a node have a buffer.
LEMMA InputKnown ==
  ASSUME GraphOK, BufOK, NEW x \in ToSet(Node.in)
  PROVE  x \in DOMAIN buf
<1>1. PICK n \in Nat : n = Len(Nodes)
  BY NodeFacts DEF GraphOK
<1>2. at \in 1..n /\ DOMAIN Nodes = 1..n
  BY <1>1, NodeFacts DEF GraphOK
<1>3. PICK j \in 1..(at - 1) : Nodes[j].name = x /\ Nodes[j].op # "skip"
  BY NodeFacts DEF GraphOK, Node
<1>4. j \in 1..n /\ j < at /\ j # n
  BY <1>2
<1>5. Nodes[j].op # "output"
  BY <1>1, <1>2, <1>4, NodeFacts DEF GraphOK
<1> QED BY <1>2, <1>3, <1>4, <1>5 DEF BufOK, Seen

\* Alias, for a handler that keeps the elements of its input.
LEMMA AliasIsAlias ==
  ASSUME Visiting, Node.op \notin {"skip", "output"},
         NEW x \in DOMAIN buf, NEW s, Numel(s) = Numel(shape[x]), Alias(buf[x], s),
         ~ LatePart => StillUsed(buf[x])
  PROVE  Aliases(x)
<1>1. \E t : shape' = Named(shape, Node.name, t) /\ Numel(t) = Numel(shape[x])
  BY DEF Alias
<1>2. /\ UNCHANGED <<image, graph, at, todo, layout, pinned, stmts, img, running>>
      /\ dying' = Inputs /\ buf' = Named(buf, Node.name, buf[x]) /\ phase' = "release"
  BY DEF Alias
<1> QED BY <1>1, <1>2 DEF Aliases, Visiting

\* The first input of such a handler is in use.
LEMMA FirstInput ==
  ASSUME Visiting, BufOK, Node.op \in {"alias", "view", "getitem"}
  PROVE  /\ Node.in[1] \in DOMAIN buf
         /\ StillUsed(buf[Node.in[1]])
<1>1. at \in DOMAIN Nodes /\ graph \in Graphs
  BY DEF Visiting, GraphOK
<1>2. Node.in \in Seq(STRING) /\ Node.in # <<>>
  BY <1>1, NodeFacts DEF Node
<1>3. Node.in[1] \in ToSet(Node.in)
  <2>1. 1 \in DOMAIN Node.in
    BY <1>2
  <2> QED BY <2>1 DEF ToSet
<1>4. Node.in[1] \in DOMAIN buf
  BY <1>3, InputKnown DEF Visiting
<1>5. LastUse(Node.in[1]) >= at
  BY <1>1, <1>3, InputFacts
<1> QED BY <1>4, <1>5 DEF StillUsed

\* The handlers that make no buffer, one by one.
LEMMA PlainAlias == ASSUME Visiting, BufOK, EmitAlias PROVE \E x : Aliases(x)
<1>1. Node.op = "alias"
  BY DEF EmitAlias, OnOp
<1>2. Alias(buf[Node.in[1]], shape[Node.in[1]])
  BY DEF EmitAlias, InBuf, InShape
<1>3. Node.in[1] \in DOMAIN buf /\ StillUsed(buf[Node.in[1]])
  BY <1>1, FirstInput
<1> QED BY <1>1, <1>2, <1>3, AliasIsAlias

LEMMA ViewAlias == ASSUME Visiting, BufOK, EmitView PROVE Fail \/ \E x : Aliases(x)
<1>1. Node.op = "view"
  BY DEF EmitView, OnOp
<1> DEFINE s == InferView(Numel(InShape(1)), Node.at)
<1>2. CASE s # Bad
  <2>1. Alias(buf[Node.in[1]], s)
    BY <1>2 DEF EmitView, InBuf
  <2>2. Numel(s) = Numel(InShape(1))
    BY <1>2 DEF InferView
  <2>3. Node.in[1] \in DOMAIN buf /\ StillUsed(buf[Node.in[1]])
    BY <1>1, FirstInput
  <2>4. Numel(s) = Numel(shape[Node.in[1]])
    BY <2>2 DEF InShape
  <2> HIDE DEF s
  <2> QED BY <1>1, <2>1, <2>3, <2>4, AliasIsAlias
<1>3. CASE s = Bad
  BY <1>3 DEF EmitView
<1> QED BY <1>2, <1>3

LEMMA PartAlias == ASSUME Visiting, BufOK, EmitGetitem PROVE Fail \/ \E x : Aliases(x)
<1>1. Node.op = "getitem" /\ graph \in Graphs /\ at \in DOMAIN Nodes
  BY DEF EmitGetitem, OnOp, Visiting, GraphOK
<1> DEFINE part == PartName(Node.in[1], Node.at[1])
<1>2. CASE ~ Fail
  <2>1. part \in DOMAIN buf /\ Alias(buf[part], shape[part])
    BY <1>2 DEF EmitGetitem
  <2>2. ASSUME ~ LatePart PROVE StillUsed(buf[part])
    <3>1. \/ \A f \in DOMAIN buf : buf[f] = buf[part] => LastUse(f) = 0
          \/ \E f \in DOMAIN buf : buf[f] = buf[part] /\ ~ (LastUse(f) < at)
      BY <2>1, <2>2 DEF LatePart, EmitGetitem
    <3>2. \A f : LastUse(f) \in Nat
      BY <1>1, LastUseFacts
    <3>3. at \in Nat
      BY <1>1, InputFacts
    <3> QED BY <3>1, <3>2, <3>3 DEF StillUsed
  <2> HIDE DEF part
  <2> QED BY <1>1, <2>1, <2>2, AliasIsAlias
<1> QED BY <1>2

\* The handlers.
Visit ==
  \/ VisitInput \/ VisitSkip \/ VisitOutput
  \/ EmitBinary \/ EmitUnary \/ EmitAlias \/ EmitView \/ EmitGetitem \/ EmitArange
  \/ EmitMeshgrid \/ EmitStack \/ EmitCat \/ EmitPad \/ EmitPermute \/ EmitSlice
  \/ EmitSelect \/ EmitUpsample \/ EmitMaxPool \/ EmitMatmul \/ EmitConv

\* What a handler may do is one of five things.
LEMMA VisitCases ==
  ASSUME GraphOK, BufOK, NamesApart, Visit
  PROVE  phase = "visit" /\ (Fail \/ Makes \/ (\E x : Aliases(x)) \/ VisitSkip \/ VisitOutput)
<1>1. phase = "visit"
  BY DEF Visit, OnOp, VisitInput, VisitSkip, VisitOutput,
    EmitBinary, EmitUnary, EmitAlias, EmitView, EmitGetitem, EmitArange,
    EmitMeshgrid, EmitStack, EmitCat, EmitPad, EmitPermute, EmitSlice,
    EmitSelect, EmitUpsample, EmitMaxPool, EmitMatmul, EmitConv
<1>2. Visiting
  BY <1>1 DEF Visiting
<1>3. CASE VisitInput
  BY <1>2, <1>3, InputMakes, <1>1
<1>4. CASE EmitAlias \/ EmitView \/ EmitGetitem
  BY <1>1, <1>2, <1>4, PlainAlias, ViewAlias, PartAlias
<1>5. CASE VisitSkip \/ VisitOutput
  BY <1>1, <1>5
<1>6. CASE \/ EmitArange \/ EmitStack \/ EmitCat \/ EmitPad \/ EmitPermute \/ EmitSlice
           \/ EmitSelect \/ EmitUpsample
  BY <1>1, <1>2, <1>6, CallsMake DEF Lowered
<1>7. CASE \/ EmitBinary \/ EmitUnary \/ EmitMeshgrid \/ EmitMaxPool \/ EmitMatmul \/ EmitConv
  BY <1>1, <1>2, <1>7, BinaryMakes, UnaryMakes, MeshgridMakes, PoolMakes, MatmulMakes,
     ConvMakes DEF Lowered
<1> QED BY <1>3, <1>4, <1>5, <1>6, <1>7 DEF Visit

------------------------------------------------------------------------------
(****************************************************************************)
(* The names stay in order.                                                 *)
(****************************************************************************)
\* Two nodes have no name in common.
LEMMA NodesApart ==
  ASSUME NamesApart, NEW i \in DOMAIN Nodes, NEW j \in DOMAIN Nodes, i # j,
         NEW c, c \in NamesOf(Nodes[i])
  PROVE  c \notin NamesOf(Nodes[j])
  BY DEF NamesApart

\* The nodes that were seen are those before the place in the graph.
LEMMA SeenSet ==
  ASSUME GraphOK
  PROVE  /\ at \in Nat /\ at \in DOMAIN Nodes
         /\ phase = "visit" => at \notin Seen /\ \A i \in Seen : i < at
         /\ phase \in {"alloc", "release"} => at \in Seen /\ \A i \in Seen : i <= at
         /\ Seen \subseteq DOMAIN Nodes /\ DOMAIN Nodes \subseteq Nat
<1>1. PICK n \in Nat : n = Len(Nodes) /\ DOMAIN Nodes = 1..n
  BY NodeFacts DEF GraphOK
<1>2. at \in 1..n /\ at \in DOMAIN Nodes
  BY <1>1 DEF GraphOK
<1>3. \A i \in DOMAIN Nodes : i \in Nat
  BY <1>1
<1>4. Seen \subseteq DOMAIN Nodes
  BY DEF Seen
<1>5. phase = "visit" => at \notin Seen /\ \A i \in Seen : i < at
  BY <1>2, <1>3 DEF Seen
<1>6. phase \in {"alloc", "release"} => at \in Seen /\ \A i \in Seen : i <= at
  BY <1>2, <1>3 DEF Seen
<1> QED BY <1>2, <1>3, <1>4, <1>5, <1>6

\* At a visit nothing is pending, and no buffer has a name of the node.
LEMMA VisitFacts ==
  ASSUME NamesInv, NamesApart, phase = "visit"
  PROVE  /\ Pending = {} /\ todo = <<>>
         /\ \A f \in DOMAIN buf : buf[f] \in DOMAIN layout /\ f \notin NamesOf(Node)
         /\ \A c \in DOMAIN layout : c \notin NamesOf(Node)
         /\ Node.name \in NamesOf(Node)
<1>1. todo = <<>> /\ Pending = {}
  <2>1. todo = <<>>
    BY DEF NamesInv, TodoOK
  <2> QED BY <2>1 DEF Pending
<1>2. \A i \in Seen : i \in DOMAIN Nodes /\ i # at
  BY SeenSet DEF NamesInv
<1>3. at \in DOMAIN Nodes
  BY DEF NamesInv, GraphOK
<1>4. ASSUME NEW c, NEW i \in Seen, c \in NamesOf(Nodes[i]) PROVE c \notin NamesOf(Node)
  BY <1>2, <1>3, <1>4, NodesApart DEF Node
<1>5. \A f \in DOMAIN buf : buf[f] \in DOMAIN layout /\ f \notin NamesOf(Node)
  BY <1>1, <1>4 DEF NamesInv, BufOK
<1>6. \A c \in DOMAIN layout : c \notin NamesOf(Node)
  BY <1>4 DEF NamesInv, LayoutOK
<1> QED BY <1>1, <1>5, <1>6 DEF NamesOf

\* The last use of a name, for a list of nodes.
LastIn(nodes, f) ==
  Max({0} \cup {i \in DOMAIN nodes : f \in ToSet(nodes[i].in)})

\* What stays as it is when the graph and the place in it do.
LEMMA SameNode ==
  ASSUME graph' = graph, at' = at
  PROVE  /\ Nodes' = Nodes /\ Node' = Node /\ NamesApart' = NamesApart
         /\ \A f : LastUse(f)' = LastUse(f)
         /\ Inputs' = Inputs
<1>1. Nodes' = Nodes /\ Node' = Node
  BY DEF Nodes, Node
<1>2. NamesApart' = NamesApart
  BY <1>1 DEF NamesApart
<1>3. ASSUME NEW f PROVE LastUse(f)' = LastUse(f)
  <2>1. LastUse(f) = LastIn(Nodes, f)
    BY DEF LastUse, LastIn
  <2>2. LastUse(f)' = LastIn(Nodes', f)
    BY DEF LastUse, LastIn
  <2> QED BY <1>1, <2>1, <2>2
<1>4. Inputs' = Inputs
  <2>1. Inputs = AllOnce(Node.in)
    BY DEF Inputs
  <2>2. Inputs' = AllOnce(Node'.in)
    BY DEF Inputs
  <2> QED BY <1>1, <2>1, <2>2
<1> QED BY <1>1, <1>2, <1>3, <1>4

\* The names are in order after each step, one lemma for each kind of step.
LEMMA MakesNames ==
  ASSUME NamesInv, NamesApart, Makes
  PROVE  NamesInv'
<1>1. /\ phase = "visit" /\ phase' = "alloc" /\ Node.op \notin {"skip", "output"}
      /\ graph' = graph /\ at' = at /\ layout' = layout
      /\ TodoMade' /\ BufMade
  BY DEF Makes
<1>2. Nodes' = Nodes /\ Node' = Node
  BY <1>1, SameNode
<1>3. GraphOK'
  BY <1>1, <1>2 DEF NamesInv, GraphOK
<1>4. TodoOK'
  BY <1>1, <1>2 DEF TodoMade, TodoOK
<1>5. DyingOK'
  BY <1>1 DEF DyingOK
<1>6. Seen' = Seen \cup {at} /\ at \in DOMAIN Nodes
  <2>1. at \in DOMAIN Nodes
    BY DEF NamesInv, GraphOK
  <2> QED BY <1>1, <1>2, <2>1 DEF Seen
<1>7. \A c \in Pending' : c \in NamesOf(Node) /\ c \notin DOMAIN layout
  BY <1>1, <1>2, VisitFacts DEF TodoMade, Pending
<1>8. BufOK'
  <2>1. \A i \in Seen' : Nodes[i].op \notin {"skip", "output"} => Nodes[i].name \in DOMAIN buf'
    BY <1>1, <1>6 DEF NamesInv, BufOK, BufMade, Node
  <2>2. ASSUME NEW f \in DOMAIN buf'
        PROVE  /\ \E i \in Seen' : f \in NamesOf(Nodes[i])
               /\ buf'[f] \in DOMAIN layout \/ (f \in NamesOf(Node) /\ buf'[f] \in Pending')
    <3>1. CASE f \in Pending' \cup {Node.name}
      BY <1>1, <1>6, <1>7, <3>1, VisitFacts DEF BufMade, Node
    <3>2. CASE f \notin Pending' \cup {Node.name}
      <4>1. f \in DOMAIN buf /\ buf'[f] = buf[f]
        BY <1>1, <3>2 DEF BufMade
      <4> QED BY <1>1, <1>6, <4>1, VisitFacts DEF NamesInv, BufOK
    <3> QED BY <3>1, <3>2
  <2> QED BY <1>1, <1>2, <2>1, <2>2 DEF BufOK
<1>9. LayoutOK'
  BY <1>1, <1>2, <1>6, <1>7 DEF NamesInv, LayoutOK
<1> QED BY <1>3, <1>4, <1>5, <1>8, <1>9 DEF NamesInv

LEMMA AliasNames ==
  ASSUME NamesInv, NamesApart, NEW x, Aliases(x)
  PROVE  NamesInv'
<1>1. /\ phase = "visit" /\ phase' = "release" /\ Node.op \notin {"skip", "output"}
      /\ graph' = graph /\ at' = at /\ layout' = layout /\ todo' = todo
      /\ dying' = Inputs /\ x \in DOMAIN buf /\ buf' = Named(buf, Node.name, buf[x])
  BY DEF Aliases
<1>2. Nodes' = Nodes /\ Node' = Node
  BY <1>1, SameNode
<1>0. todo = <<>> /\ Pending' = {} /\ Pending = {}
  BY <1>1, VisitFacts DEF Pending
<1>3. GraphOK'
  BY <1>1, <1>2 DEF NamesInv, GraphOK
<1>4. TodoOK'
  BY <1>0, <1>1, <1>2 DEF NamesInv, TodoOK
<1>5. DyingOK'
  BY <1>1, <1>2, InputFacts DEF NamesInv, GraphOK, DyingOK
<1>6. Seen' = Seen \cup {at} /\ at \in DOMAIN Nodes
  <2>1. at \in DOMAIN Nodes
    BY DEF NamesInv, GraphOK
  <2> QED BY <1>1, <1>2, <2>1 DEF Seen
<1>7. /\ DOMAIN buf' = DOMAIN buf \cup {Node.name}
      /\ \A f \in DOMAIN buf' : buf'[f] = IF f = Node.name THEN buf[x] ELSE buf[f]
  BY <1>1 DEF Named
<1>8. BufOK'
  <2>1. \A i \in Seen' : Nodes[i].op \notin {"skip", "output"} => Nodes[i].name \in DOMAIN buf'
    BY <1>1, <1>6, <1>7 DEF NamesInv, BufOK, Node
  <2>2. ASSUME NEW f \in DOMAIN buf'
        PROVE  /\ \E i \in Seen' : f \in NamesOf(Nodes[i])
               /\ buf'[f] \in DOMAIN layout
    <3>1. buf'[f] \in DOMAIN layout
      BY <1>1, <1>7, VisitFacts
    <3>2. CASE f = Node.name
      BY <1>1, <1>6, <3>1, <3>2, VisitFacts DEF Node
    <3>3. CASE f # Node.name
      BY <1>6, <1>7, <3>1, <3>3 DEF NamesInv, BufOK
    <3> QED BY <3>2, <3>3
  <2> QED BY <1>1, <1>2, <2>1, <2>2 DEF BufOK
<1>9. LayoutOK'
  BY <1>0, <1>1, <1>2, <1>6 DEF NamesInv, LayoutOK
<1> QED BY <1>3, <1>4, <1>5, <1>8, <1>9 DEF NamesInv

LEMMA SkipNames ==
  ASSUME NamesInv, NamesApart, VisitSkip
  PROVE  NamesInv'
<1>1. /\ phase = "visit" /\ phase' = "release" /\ Node.op = "skip"
      /\ graph' = graph /\ at' = at /\ layout' = layout /\ todo' = todo
      /\ dying' = Inputs /\ buf' = buf
  BY DEF VisitSkip, OnOp
<1>2. Nodes' = Nodes /\ Node' = Node
  BY <1>1, SameNode
<1>0. todo = <<>> /\ Pending' = {} /\ Pending = {}
  BY <1>1, VisitFacts DEF Pending
<1>3. GraphOK'
  BY <1>1, <1>2 DEF NamesInv, GraphOK
<1>4. TodoOK'
  BY <1>0, <1>1, <1>2 DEF NamesInv, TodoOK
<1>5. DyingOK'
  BY <1>1, <1>2, InputFacts DEF NamesInv, GraphOK, DyingOK
<1>6. Seen' = Seen \cup {at} /\ at \in DOMAIN Nodes
  <2>1. at \in DOMAIN Nodes
    BY DEF NamesInv, GraphOK
  <2> QED BY <1>1, <1>2, <2>1 DEF Seen
<1>8. BufOK'
  BY <1>0, <1>1, <1>2, <1>6 DEF NamesInv, BufOK, Node
<1>9. LayoutOK'
  BY <1>0, <1>1, <1>2, <1>6 DEF NamesInv, LayoutOK
<1> QED BY <1>3, <1>4, <1>5, <1>8, <1>9 DEF NamesInv

LEMMA OutputNames ==
  ASSUME NamesInv, NamesApart, VisitOutput
  PROVE  NamesInv'
<1>1. /\ phase = "visit" /\ phase' = "ready" /\ Node.op = "output"
      /\ graph' = graph /\ at' = at /\ layout' = layout /\ todo' = todo
      /\ dying' = dying /\ buf' = buf
  BY DEF VisitOutput, OnOp, lowering
<1>2. Nodes' = Nodes /\ Node' = Node /\ at \in DOMAIN Nodes /\ graph \in Graphs
  BY <1>1, SameNode DEF NamesInv, GraphOK
<1>0. todo = <<>> /\ Pending' = {} /\ Pending = {}
  BY <1>1, VisitFacts DEF Pending
<1>3. GraphOK'
  <2>1. at = Len(Nodes)
    BY <1>1, <1>2, NodeFacts DEF Node
  <2> QED BY <1>1, <1>2, <2>1 DEF NamesInv, GraphOK
<1>4. TodoOK'
  BY <1>0, <1>1, <1>2 DEF NamesInv, TodoOK
<1>5. DyingOK'
  BY <1>1 DEF DyingOK
<1>6. Seen' = Seen
  BY <1>1, <1>2 DEF Seen
<1>8. BufOK'
  BY <1>0, <1>1, <1>2, <1>6 DEF NamesInv, BufOK
<1>9. LayoutOK'
  BY <1>0, <1>1, <1>2, <1>6 DEF NamesInv, LayoutOK
<1> QED BY <1>3, <1>4, <1>5, <1>8, <1>9 DEF NamesInv

LEMMA NextNames ==
  ASSUME NamesInv, NamesApart, NextNode
  PROVE  NamesInv'
<1>1. /\ phase = "release" /\ phase' = "visit" /\ at' = at + 1
      /\ graph' = graph /\ layout' = layout /\ todo' = todo
      /\ dying' = dying /\ buf' = buf /\ Nodes' = Nodes
  BY DEF NextNode, Nodes
<1>2. PICK n \in Nat : n = Len(Nodes) /\ DOMAIN Nodes = 1..n
  BY NodeFacts DEF NamesInv, GraphOK
<1>3. at \in 1..n /\ at # n /\ graph \in Graphs
  <2>1. at \in DOMAIN Nodes /\ Node.op # "output" /\ graph \in Graphs
    BY <1>1 DEF NamesInv, GraphOK
  <2> QED BY <1>2, <2>1, NodeFacts DEF Node
<1>4. GraphOK'
  <2>1. at + 1 \in 1..n
    BY <1>2, <1>3
  <2> QED BY <1>1, <1>2, <1>3, <2>1 DEF GraphOK
<1>0. todo = <<>> /\ Pending' = {} /\ Pending = {}
  <2>1. todo = <<>>
    BY <1>1 DEF NamesInv, TodoOK
  <2> QED BY <1>1, <2>1 DEF Pending
<1>5. TodoOK'
  BY <1>0, <1>1 DEF NamesInv, TodoOK
<1>6. DyingOK'
  BY <1>1 DEF DyingOK
<1>7. Seen' = Seen
  <2>1. Seen' = {i \in DOMAIN Nodes : i < at + 1} /\ Seen = {i \in DOMAIN Nodes : i < at \/ i = at}
    BY <1>1 DEF Seen
  <2> QED BY <1>2, <1>3, <2>1
<1>8. BufOK'
  BY <1>0, <1>1, <1>7 DEF NamesInv, BufOK
<1>9. LayoutOK'
  BY <1>0, <1>1, <1>7 DEF NamesInv, LayoutOK
<1> QED BY <1>4, <1>5, <1>6, <1>8, <1>9 DEF NamesInv

------------------------------------------------------------------------------
(****************************************************************************)
(* A buffer is placed.                                                      *)
(****************************************************************************)
\* The buffer that is placed next.
First == Head(todo)

\* What is known of that buffer.
LEMMA FirstFacts ==
  ASSUME NamesInv, phase = "alloc"
  PROVE  /\ IsSeq(todo) /\ todo # <<>> /\ 1 \in DOMAIN todo /\ First = todo[1]
         /\ First.eb \in {1, 4} /\ First.name \in NamesOf(Node)
         /\ graph.stream => First.name \in Buffer
         /\ First.bake => Node.in = <<>>
         /\ First.name \in Pending
<1>1. IsSeq(todo) /\ todo # <<>>
  BY DEF NamesInv, TodoOK
<1>2. 1 \in DOMAIN todo /\ First = todo[1]
  BY <1>1, TailSet DEF First
<1> QED BY <1>1, <1>2 DEF NamesInv, TodoOK, Pending

\* What AllocOne does to the layout and the list of what is left to do.
LEMMA PlacedFacts ==
  ASSUME NamesInv, phase = "alloc", AllocOne
  PROVE  /\ graph' = graph /\ at' = at /\ buf' = buf /\ pinned' = pinned /\ stmts' = stmts
         /\ First.name \notin DOMAIN layout
         /\ DOMAIN layout' = DOMAIN layout \cup {First.name}
         /\ \A c \in DOMAIN layout : layout'[c] = layout[c]
         /\ LET l == layout'[First.name] IN
            /\ l.dram = graph.stream /\ l.eb = First.eb /\ l.n = Numel(First.shape)
            /\ graph.stream => l.off = held'[First.name].off
         /\ IF graph.stream THEN Alloc(First.name, First.eb * Numel(First.shape))
            ELSE image' = image
         /\ todo' = Tail(todo)
         /\ IF Len(todo) > 1 THEN phase' = "alloc"
            ELSE phase' = "release" /\ dying' = IF First.bake THEN <<>> ELSE Inputs
<1> DEFINE n == Numel(First.shape)
           l == layout'[First.name]
<1>1. graph.stream \in BOOLEAN
  BY NodeFacts DEF NamesInv, GraphOK
<1>2. /\ graph' = graph /\ at' = at /\ buf' = buf /\ pinned' = pinned /\ stmts' = stmts
      /\ First.name \notin DOMAIN layout /\ todo' = Tail(todo)
      /\ IF Len(todo) > 1 THEN phase' = "alloc"
         ELSE phase' = "release" /\ dying' = IF First.bake THEN <<>> ELSE Inputs
  BY DEF AllocOne, First
<1>3. PICK r : /\ layout' = Named(layout, First.name, r)
               /\ r.dram = graph.stream /\ r.eb = First.eb /\ r.n = n
               /\ graph.stream => r.off = held'[First.name].off
  <2>1. CASE graph.stream
    <3> DEFINE r == [dram |-> TRUE, off |-> held'[First.name].off, eb |-> First.eb, n |-> n]
    <3>1. layout' = Named(layout, First.name, r)
      BY <2>1 DEF AllocOne, First
    <3>2. r.dram = TRUE /\ r.off = held'[First.name].off /\ r.eb = First.eb /\ r.n = n
      OBVIOUS
    <3> HIDE DEF r
    <3> QED BY <1>1, <2>1, <3>1, <3>2
  <2>2. CASE ~ graph.stream
    <3> DEFINE r == [dram |-> FALSE, off |-> 0, eb |-> First.eb, n |-> n]
    <3>1. layout' = Named(layout, First.name, r)
      BY <2>2 DEF AllocOne, First
    <3>2. r.dram = FALSE /\ r.eb = First.eb /\ r.n = n
      OBVIOUS
    <3> HIDE DEF r
    <3> QED BY <1>1, <2>2, <3>1, <3>2
  <2> QED BY <2>1, <2>2
<1>4. IF graph.stream THEN Alloc(First.name, First.eb * n) ELSE image' = image
  BY DEF AllocOne, First
<1>5. /\ DOMAIN layout' = DOMAIN layout \cup {First.name} /\ l = r
      /\ \A c \in DOMAIN layout : layout'[c] = layout[c]
  BY <1>2, <1>3 DEF Named
<1> QED BY <1>2, <1>3, <1>4, <1>5

\* A size that is aligned stays.
LEMMA AlignTwice ==
  ASSUME NEW n \in Nat PROVE Align4(Align4(n)) = Align4(n)
  BY AlignFacts

\* It is a step of the client the allocator is written for.
LEMMA AllocIsClient ==
  ASSUME NamesInv, HeldInv, IInv, Asks, AllocOne
  PROVE  /\ [ImageNext]_image /\ IInv'
         /\ \A c \in Buffer : c # First.name => held'[c] = held[c]
         /\ graph.stream =>
              /\ Numel(First.shape) \in Nat /\ First.eb * Numel(First.shape) \in Nat
              /\ held' \in [Buffer -> Region]
              /\ held'[First.name].size = Align4(First.eb * Numel(First.shape))
<1>0. phase = "alloc"
  BY DEF AllocOne
<1>1. CASE ~ graph.stream
  <2>1. image' = image
    BY <1>0, <1>1, PlacedFacts
  <2> QED BY <1>1, <2>1, StepIInv DEF image
<1>2. CASE graph.stream
  <2> DEFINE b == First.name
             k == First.eb * Numel(First.shape)
             m == Align4(k)
  <2>1. Numel(First.shape) \in Nat /\ m \in Bytes
    BY <1>0, <1>2 DEF Asks, First
  <2>2. k \in Nat
    BY <1>0, <2>1, FirstFacts
  <2>3. b \in Buffer /\ held[b] = Nowhere /\ Alloc(b, k)
    BY <1>0, <1>2, FirstFacts, PlacedFacts DEF HeldInv
  <2> HIDE DEF b, k
  <2>4. Align4(m) = m /\ m \in Nat
    BY <2>2, AlignTwice, AlignFacts
  <2>5. Alloc(b, m)
    BY <2>3, <2>4 DEF Alloc
  <2>6. ImageNext
    BY <2>1, <2>3, <2>5 DEF ImageNext, ClientAlloc
  <2>7. IInv'
    BY <2>6, StepIInv
  <2>8. held \in [Buffer -> Region] /\ held' \in [Buffer -> Region]
    BY <2>7 DEF IInv, ImageTypeOK
  <2>9. \E o : held' = [held EXCEPT ![b] = [off |-> o, size |-> m]]
    BY <2>3 DEF Alloc, TakeHole, Extend
  <2>10. held'[b].size = m /\ \A c \in Buffer : c # b => held'[c] = held[c]
    BY <2>3, <2>8, <2>9
  <2> QED BY <1>2, <2>1, <2>2, <2>6, <2>7, <2>8, <2>10 DEF b, k
<1>3. graph.stream \in BOOLEAN
  BY NodeFacts DEF NamesInv, GraphOK
<1> QED BY <1>1, <1>2, <1>3

\* The names are in order after a placement.
LEMMA AllocNames ==
  ASSUME NamesInv, NamesApart, HeldInv, IInv, Asks, AllocOne
  PROVE  NamesInv'
<1>0. phase = "alloc"
  BY DEF AllocOne
<1> DEFINE b == First.name
<1>1. /\ graph' = graph /\ at' = at /\ buf' = buf
      /\ b \notin DOMAIN layout /\ DOMAIN layout' = DOMAIN layout \cup {b}
      /\ \A c \in DOMAIN layout : layout'[c] = layout[c]
      /\ layout'[b].dram = graph.stream /\ layout'[b].eb = First.eb
      /\ layout'[b].n = Numel(First.shape)
      /\ graph.stream => layout'[b].off = held'[b].off
      /\ todo' = Tail(todo)
      /\ IF Len(todo) > 1 THEN phase' = "alloc"
         ELSE phase' = "release" /\ dying' = IF First.bake THEN <<>> ELSE Inputs
  BY <1>0, PlacedFacts
<1>2. /\ IsSeq(todo) /\ todo # <<>> /\ 1 \in DOMAIN todo /\ First = todo[1]
      /\ First.eb \in {1, 4} /\ b \in NamesOf(Node)
      /\ graph.stream => b \in Buffer
      /\ b \in Pending
  BY <1>0, FirstFacts
<1>3. Nodes' = Nodes /\ Node' = Node /\ Inputs' = Inputs /\ at \in DOMAIN Nodes
  BY <1>1, SameNode DEF NamesInv, GraphOK
<1>4. /\ IsSeq(todo') /\ (Len(todo) > 1 <=> todo' # <<>>)
      /\ \A i \in DOMAIN todo' : i + 1 \in DOMAIN todo /\ todo'[i] = todo[i + 1] /\ i \in Nat /\ i > 0
  <2>1. DOMAIN Tail(todo) \subseteq Nat \ {0}
    BY <1>2, TailSet, SeqSet DEF IsSeq
  <2> QED BY <1>1, <1>2, <2>1, TailSet
<1>5. phase' \in {"alloc", "release"} /\ (phase' = "alloc" <=> todo' # <<>>)
  BY <1>1, <1>4
<1>6. GraphOK'
  BY <1>0, <1>1, <1>3, <1>5 DEF NamesInv, GraphOK
<1>7. TodoOK'
  <2>1. \A i, j \in DOMAIN todo' : (todo'[i].name = todo'[j].name) => (i = j)
    <3> SUFFICES ASSUME NEW i \in DOMAIN todo', NEW j \in DOMAIN todo',
                        todo'[i].name = todo'[j].name
                 PROVE  i = j
      OBVIOUS
    <3>1. i + 1 = j + 1
      BY <1>4 DEF NamesInv, TodoOK
    <3> QED BY <1>4, <3>1
  <2>2. \A i \in DOMAIN todo' :
         /\ todo'[i].eb \in {1, 4}
         /\ todo'[i].bake => Node.in = <<>>
         /\ graph.stream => todo'[i].name \in Buffer
         /\ todo'[i].name \in NamesOf(Node)
    BY <1>4 DEF NamesInv, TodoOK
  <2> QED BY <1>1, <1>3, <1>4, <1>5, <2>1, <2>2 DEF TodoOK
<1>8. DyingOK'
  <2>1. ASSUME phase' = "release"
        PROVE  IsSeq(dying') /\ Apart1(dying') /\ ToSet(dying') \subseteq ToSet(Node.in)
    <3>1. dying' = <<>> \/ dying' = Inputs
      BY <1>1, <2>1
    <3>2. CASE dying' = Inputs
      BY <3>2, InputFacts DEF NamesInv, GraphOK
    <3>3. CASE dying' = <<>>
      BY <3>3 DEF IsSeq, Apart1, ToSet
    <3> QED BY <3>1, <3>2, <3>3
  <2> QED BY <1>3, <2>1 DEF DyingOK
<1>9. Seen' = Seen
  BY <1>0, <1>1, <1>3, <1>5 DEF Seen
<1>10. /\ Pending \subseteq Pending' \cup {b}
       /\ \A c \in Pending' : c \in Pending /\ c # b
  <2>1. ToSet(todo) = ToSet(Tail(todo)) \cup {Head(todo)}
    BY <1>2, TailSet
  <2>2. ASSUME NEW c \in Pending PROVE c \in Pending' \/ c = b
    <3>1. PICK i \in DOMAIN todo : c = todo[i].name
      BY DEF Pending
    <3>2. todo[i] \in ToSet(todo)
      BY DEF ToSet
    <3>3. todo[i] \in ToSet(todo') \/ todo[i] = First
      BY <1>1, <2>1, <3>2 DEF First
    <3> QED BY <3>1, <3>3 DEF Pending, ToSet
  <2>3. ASSUME NEW c \in Pending' PROVE c \in Pending /\ c # b
    <3>1. PICK i \in DOMAIN todo' : c = todo'[i].name
      BY DEF Pending
    <3>2. i + 1 \in DOMAIN todo /\ c = todo[i + 1].name /\ i + 1 # 1
      BY <1>4, <3>1
    <3> QED BY <1>2, <3>2 DEF NamesInv, TodoOK, Pending
  <2> QED BY <2>2, <2>3
<1>11. BufOK'
  BY <1>1, <1>3, <1>9, <1>10 DEF NamesInv, BufOK
<1>12. LayoutOK'
  <2>1. at \in Seen
    BY <1>0, SeenSet DEF NamesInv
  <2>2. \A c \in DOMAIN layout' : \E i \in Seen : c \in NamesOf(Nodes[i])
    BY <1>1, <1>2, <2>1 DEF NamesInv, LayoutOK, Node
  <2>3. \A c \in Pending' : c \notin DOMAIN layout'
    BY <1>1, <1>10 DEF NamesInv, LayoutOK
  <2>4. ASSUME graph.stream
        PROVE  layout'[b].off \in Nat /\ layout'[b].n \in Nat
    <3>1. held' \in [Buffer -> Region] /\ Numel(First.shape) \in Nat
      BY <2>4, AllocIsClient
    <3> QED BY <1>1, <1>2, <2>4, <3>1, RegionFields
  <2>5. \A c \in DOMAIN layout' :
          /\ layout'[c].dram = graph.stream
          /\ graph.stream => /\ c \in Buffer /\ layout'[c].off \in Nat
                             /\ layout'[c].eb \in {1, 4} /\ layout'[c].n \in Nat
    BY <1>1, <1>2, <2>4 DEF NamesInv, LayoutOK
  <2> QED BY <1>1, <1>3, <1>9, <2>2, <2>3, <2>5 DEF LayoutOK
<1> QED BY <1>6, <1>7, <1>8, <1>11, <1>12 DEF NamesInv

------------------------------------------------------------------------------
(****************************************************************************)
(* A buffer is released.                                                    *)
(****************************************************************************)
\* The input that is looked at next.
Leaving == Head(dying)

\* What is known of that input.
LEMMA LeavingFacts ==
  ASSUME NamesInv, NamesApart, ReleaseOne
  PROVE  /\ phase = "release" /\ phase' = "release"
         /\ graph' = graph /\ at' = at /\ buf' = buf /\ pinned' = pinned /\ stmts' = stmts
         /\ layout' = layout /\ todo' = todo /\ dying' = Tail(dying)
         /\ IsSeq(dying) /\ Apart1(dying) /\ ToSet(dying) \subseteq ToSet(Node.in)
         /\ Leaving \in ToSet(dying) /\ Leaving \notin ToSet(dying')
         /\ ToSet(dying) = ToSet(dying') \cup {Leaving}
         /\ IsSeq(dying') /\ Apart1(dying')
         /\ Leaving \in DOMAIN buf /\ buf[Leaving] \in DOMAIN layout
         /\ todo = <<>> /\ Pending = {} /\ Pending' = {}
<1>1. /\ phase = "release" /\ phase' = "release" /\ dying # <<>>
      /\ graph' = graph /\ at' = at /\ buf' = buf /\ pinned' = pinned /\ stmts' = stmts
      /\ layout' = layout /\ todo' = todo /\ dying' = Tail(dying)
  BY DEF ReleaseOne
<1>2. IsSeq(dying) /\ Apart1(dying) /\ ToSet(dying) \subseteq ToSet(Node.in)
  BY <1>1 DEF NamesInv, DyingOK
<1>3. /\ IsSeq(dying') /\ ToSet(dying) = ToSet(dying') \cup {Leaving}
  BY <1>1, <1>2, TailSet DEF Leaving
<1>4. Apart1(dying') /\ Leaving \notin ToSet(dying')
  BY <1>1, <1>2, TailOnce DEF Leaving
<1>5. todo = <<>> /\ Pending = {} /\ Pending' = {}
  <2>1. todo = <<>>
    BY <1>1 DEF NamesInv, TodoOK
  <2> QED BY <1>1, <2>1 DEF Pending
<1>6. Leaving \in DOMAIN buf
  BY <1>2, <1>3, InputKnown DEF NamesInv
<1>7. buf[Leaving] \in DOMAIN layout
  BY <1>5, <1>6 DEF NamesInv, BufOK
<1> QED BY <1>1, <1>2, <1>3, <1>4, <1>5, <1>6, <1>7

\* The names are in order after a release.
LEMMA ReleaseNames ==
  ASSUME NamesInv, NamesApart, ReleaseOne
  PROVE  NamesInv'
<1>1. /\ phase = "release" /\ phase' = "release"
      /\ graph' = graph /\ at' = at /\ buf' = buf /\ layout' = layout /\ todo' = todo
      /\ ToSet(dying) \subseteq ToSet(Node.in)
      /\ ToSet(dying) = ToSet(dying') \cup {Leaving}
      /\ IsSeq(dying') /\ Apart1(dying')
      /\ todo = <<>> /\ Pending = {} /\ Pending' = {}
  BY LeavingFacts
<1>2. Nodes' = Nodes /\ Node' = Node
  BY <1>1, SameNode
<1>3. GraphOK'
  BY <1>1, <1>2 DEF NamesInv, GraphOK
<1>4. TodoOK'
  BY <1>1, <1>2 DEF NamesInv, TodoOK
<1>5. DyingOK'
  BY <1>1, <1>2 DEF DyingOK
<1>6. Seen' = Seen
  BY <1>1, <1>2 DEF Seen
<1>7. BufOK'
  BY <1>1, <1>2, <1>6 DEF NamesInv, BufOK
<1>8. LayoutOK'
  BY <1>1, <1>2, <1>6 DEF NamesInv, LayoutOK
<1> QED BY <1>3, <1>4, <1>5, <1>7, <1>8 DEF NamesInv

\* What is given back was never given back before.
LEMMA StillGiven ==
  ASSUME NamesInv, NamesApart, HeldInv, ~ Twins, ReleaseOne, IsDead(Leaving)
  PROVE  Given(buf[Leaving]) /\ graph.stream
<1> DEFINE c == buf[Leaving]
<1>1. graph.stream /\ LastUse(Leaving) = at /\ c \in DOMAIN layout /\ Leaving \in DOMAIN buf
  BY LeavingFacts DEF IsDead
<1>2. at \in Nat
  BY SeenSet DEF NamesInv
<1>3. ASSUME GivenUp(c) PROVE FALSE
  <2>1. ~ (\A f \in DOMAIN buf : buf[f] = c => LastUse(f) < at)
    BY <1>1, <1>2
  <2>2. PICK y \in ToSet(Node.in) \ ToSet(dying) : buf[y] = c /\ IsDead(y)
    BY <1>3, <2>1 DEF GivenUp
  <2>3. Leaving \in ToSet(Node.in) /\ Leaving # y /\ phase = "release"
    BY <2>2, LeavingFacts
  <2> QED BY <2>2, <2>3 DEF Twins
<1> QED BY <1>1, <1>3 DEF HeldInv

\* A release is a step of the client the allocator is written for.
LEMMA ReleaseIsClient ==
  ASSUME NamesInv, NamesApart, HeldInv, IInv, ~ Twins, ReleaseOne
  PROVE  /\ [ImageNext]_image /\ IInv'
         /\ IF IsDead(Leaving)
            THEN /\ graph.stream
                 /\ held'[buf[Leaving]] = Nowhere
                 /\ \A d \in Buffer : d # buf[Leaving] => held'[d] = held[d]
            ELSE held' = held
<1> DEFINE c == buf[Leaving]
<1>1. CASE ~ IsDead(Leaving)
  <2>1. image' = image
    BY <1>1 DEF ReleaseOne, Leaving
  <2> QED BY <1>1, <2>1, StepIInv DEF image
<1>2. CASE IsDead(Leaving)
  <2> DEFINE k == layout[c].n * layout[c].eb
             r == [off |-> layout[c].off, size |-> k]
  <2>1. graph.stream /\ Given(c)
    BY <1>2, StillGiven
  <2>2. c \in DOMAIN layout /\ c \in Buffer /\ layout[c].n \in Nat /\ layout[c].eb \in {1, 4}
        /\ layout[c].off \in Nat
    BY <2>1, LeavingFacts DEF NamesInv, LayoutOK
  <2>3. k \in Nat /\ layout[c].eb * layout[c].n = k
    BY <2>2
  <2>4. PutBack(r) /\ held' = [held EXCEPT ![c] = Nowhere] /\ cursor' = cursor
    BY <1>2 DEF ReleaseOne, Leaving
  <2>5. held[c] = [off |-> layout[c].off, size |-> Align4(k)]
    BY <2>1, <2>3 DEF Given
  <2>6. held \in [Buffer -> Region]
    BY DEF IInv, ImageTypeOK
  <2>7. held'[c] = Nowhere /\ \A d \in Buffer : d # c => held'[d] = held[d]
    BY <2>2, <2>4, <2>6
  <2> HIDE DEF c, k
  <2>8. Align4(Align4(k)) = Align4(k) /\ Align4(k) \in Nat
    BY <2>3, AlignTwice, AlignFacts
  <2>9. holes' = IF Align4(k) <= 0 THEN holes
                 ELSE Append(holes, [off |-> layout[c].off, size |-> Align4(k)])
    BY <2>4 DEF PutBack
  <2>10. PutBack(held[c])
    BY <2>5, <2>8, <2>9 DEF PutBack
  <2>11. [ImageNext]_image
    <3>1. CASE held[c] # Nowhere
      BY <2>2, <2>4, <2>10, <3>1 DEF ImageNext, ClientFree
    <3>2. CASE held[c] = Nowhere
      <4>1. Align4(k) = 0
        BY <2>5, <3>2 DEF Nowhere
      <4>2. holes' = holes
        BY <2>9, <4>1
      <4>3. held' = held
        BY <2>2, <2>4, <2>6, <3>2
      <4> QED BY <2>4, <4>2, <4>3 DEF image
    <3> QED BY <3>1, <3>2
  <2>12. IInv'
    BY <2>11, StepIInv
  <2> QED BY <1>2, <2>1, <2>7, <2>11, <2>12 DEF c
<1> QED BY <1>1, <1>2

\* The buffers with a place are buffers of the allocator.
LEMMA HeldTyped ==
  ASSUME NamesInv
  PROVE  graph.stream \in BOOLEAN /\ (graph.stream => DOMAIN layout \subseteq Buffer)
  BY NodeFacts DEF NamesInv, GraphOK, LayoutOK

\* HeldInv after each kind of step.
LEMMA MakesHeld ==
  ASSUME NamesInv, NamesApart, HeldInv, Makes
  PROVE  HeldInv'
<1>1. /\ phase = "visit" /\ phase' = "alloc"
      /\ graph' = graph /\ at' = at /\ layout' = layout /\ held' = held
      /\ TodoMade' /\ BufMade
  BY DEF Makes, image
<1>2. /\ Node' = Node /\ \A f : LastUse(f)' = LastUse(f)
  BY <1>1, SameNode
<1>3. ASSUME NEW c \in DOMAIN layout
      PROVE  \A f : (f \in DOMAIN buf /\ buf[f] = c) <=> (f \in DOMAIN buf' /\ buf'[f] = c)
  <2>1. \A d \in Pending' : d \in NamesOf(Node)
    BY <1>1, <1>2 DEF TodoMade, Pending
  <2>2. c \notin Pending'
    BY <1>1, <2>1, VisitFacts
  <2>3. \A f \in DOMAIN buf : f \notin Pending' \cup {Node.name}
    BY <1>1, <2>1, VisitFacts
  <2> QED BY <1>1, <2>2, <2>3 DEF BufMade
<1>4. ASSUME NEW c \in DOMAIN layout, GivenUp(c) PROVE GivenUp(c)'
  BY <1>1, <1>2, <1>3, <1>4 DEF GivenUp
<1>5. ASSUME NEW c \in DOMAIN layout, Given(c) PROVE Given(c)'
  BY <1>1, <1>5 DEF Given
<1> QED BY <1>1, <1>4, <1>5 DEF HeldInv

LEMMA AliasHeld ==
  ASSUME NamesInv, NamesApart, HeldInv, ~ LatePart, NEW x, Aliases(x)
  PROVE  HeldInv'
<1>1. /\ phase = "visit" /\ phase' = "release"
      /\ graph' = graph /\ at' = at /\ layout' = layout /\ held' = held
      /\ x \in DOMAIN buf /\ buf' = Named(buf, Node.name, buf[x]) /\ StillUsed(buf[x])
  BY DEF Aliases, image
<1>2. /\ Node' = Node /\ \A f : LastUse(f)' = LastUse(f)
  BY <1>1, SameNode
<1>3. at \in Nat /\ \A f : LastUse(f) \in Nat
  BY SeenSet, LastUseFacts DEF NamesInv, GraphOK
<1>4. ASSUME NEW c \in DOMAIN layout, GivenUp(c) PROVE GivenUp(c)'
  <2>1. /\ \E f \in DOMAIN buf : buf[f] = c /\ LastUse(f) # 0
        /\ \A f \in DOMAIN buf : buf[f] = c => LastUse(f) < at
    BY <1>1, <1>4 DEF GivenUp
  <2>2. c # buf[x]
    BY <1>1, <1>3, <2>1 DEF StillUsed
  <2>3. \A f : (f \in DOMAIN buf /\ buf[f] = c) <=> (f \in DOMAIN buf' /\ buf'[f] = c)
    BY <1>1, <2>2, VisitFacts DEF Named
  <2> QED BY <1>1, <1>2, <2>1, <2>3 DEF GivenUp
<1>5. ASSUME NEW c \in DOMAIN layout, Given(c) PROVE Given(c)'
  BY <1>1, <1>5 DEF Given
<1> QED BY <1>1, <1>4, <1>5 DEF HeldInv

LEMMA QuietHeld ==
  ASSUME NamesInv, HeldInv, VisitSkip \/ VisitOutput
  PROVE  HeldInv'
<1>1. /\ phase = "visit"
      /\ graph' = graph /\ at' = at /\ layout' = layout /\ held' = held /\ buf' = buf
  BY DEF VisitSkip, VisitOutput, OnOp, image, lowering
<1>2. \A f : LastUse(f)' = LastUse(f)
  BY <1>1, SameNode
<1>4. ASSUME NEW c \in DOMAIN layout, GivenUp(c) PROVE GivenUp(c)'
  BY <1>1, <1>2, <1>4 DEF GivenUp
<1>5. ASSUME NEW c \in DOMAIN layout, Given(c) PROVE Given(c)'
  BY <1>1, <1>5 DEF Given
<1> QED BY <1>1, <1>4, <1>5 DEF HeldInv

LEMMA NextHeld ==
  ASSUME NamesInv, NamesApart, HeldInv, NextNode
  PROVE  HeldInv'
<1>1. /\ phase = "release" /\ phase' = "visit" /\ dying = <<>> /\ at' = at + 1
      /\ graph' = graph /\ layout' = layout /\ held' = held /\ buf' = buf /\ Nodes' = Nodes
  BY DEF NextNode, image, Nodes
<1>2. ASSUME NEW f PROVE LastUse(f)' = LastUse(f)
  <2>1. LastUse(f) = LastIn(Nodes, f)
    BY DEF LastUse, LastIn
  <2>2. LastUse(f)' = LastIn(Nodes', f)
    BY DEF LastUse, LastIn
  <2> QED BY <1>1, <2>1, <2>2
<1>3. at \in Nat /\ at > 0 /\ \A f : LastUse(f) \in Nat
  BY SeenSet, InputFacts, LastUseFacts DEF NamesInv, GraphOK
<1>4. ASSUME NEW c \in DOMAIN layout, GivenUp(c) PROVE GivenUp(c)'
  <2>1. /\ \E f \in DOMAIN buf : buf[f] = c /\ LastUse(f) # 0
        /\ \A f \in DOMAIN buf : buf[f] = c => LastUse(f) < at + 1
    <3>1. CASE /\ \E f \in DOMAIN buf : buf[f] = c /\ LastUse(f) # 0
               /\ \A f \in DOMAIN buf : buf[f] = c => LastUse(f) < at
      BY <1>3, <3>1
    <3>2. CASE \E x \in ToSet(Node.in) \ ToSet(dying) : buf[x] = c /\ IsDead(x)
      <4>1. PICK x \in ToSet(Node.in) : buf[x] = c /\ IsDead(x)
        BY <3>2
      <4>2. x \in DOMAIN buf
        BY <4>1, InputKnown DEF NamesInv
      <4>3. LastUse(x) = at /\ \A f \in DOMAIN buf : buf[f] = c => LastUse(f) <= at
        BY <4>1 DEF IsDead
      <4>4. \A f \in DOMAIN buf : buf[f] = c => LastUse(f) < at + 1
        BY <1>3, <4>3
      <4> QED BY <1>3, <4>1, <4>2, <4>3, <4>4
    <3> QED BY <1>4, <3>1, <3>2 DEF GivenUp
  <2> QED BY <1>1, <1>2, <2>1 DEF GivenUp
<1>5. ASSUME NEW c \in DOMAIN layout, Given(c) PROVE Given(c)'
  BY <1>1, <1>5 DEF Given
<1> QED BY <1>1, <1>4, <1>5 DEF HeldInv

LEMMA AllocHeld ==
  ASSUME NamesInv, NamesApart, HeldInv, IInv, Asks, AllocOne
  PROVE  HeldInv'
<1>0. phase = "alloc"
  BY DEF AllocOne
<1> PICK b : b = First.name
  OBVIOUS
<1>1. /\ graph' = graph /\ at' = at /\ buf' = buf
      /\ b \notin DOMAIN layout /\ DOMAIN layout' = DOMAIN layout \cup {b}
      /\ \A c \in DOMAIN layout : layout'[c] = layout[c]
      /\ layout'[b].eb = First.eb /\ layout'[b].n = Numel(First.shape)
      /\ graph.stream => layout'[b].off = held'[b].off
      /\ ~ graph.stream => image' = image
  BY <1>0, PlacedFacts
<1>2. \A f : LastUse(f)' = LastUse(f)
  BY <1>1, SameNode
<1>3. /\ \A c \in Buffer : c # b => held'[c] = held[c]
      /\ graph.stream => /\ held' \in [Buffer -> Region] /\ b \in Buffer
                         /\ held'[b].size = Align4(First.eb * Numel(First.shape))
  BY <1>0, AllocIsClient, FirstFacts
<1>4. ASSUME NEW c \in DOMAIN layout, GivenUp(c) PROVE GivenUp(c)'
  BY <1>0, <1>1, <1>2, <1>4 DEF GivenUp
<1>5. ASSUME NEW c \in DOMAIN layout, c \in Buffer, Given(c) PROVE Given(c)'
  BY <1>1, <1>3, <1>5 DEF Given
<1>6. ASSUME graph.stream PROVE Given(b)'
  <2>1. held'[b] \in Region
    BY <1>3, <1>6
  <2>2. held'[b] = [off |-> held'[b].off, size |-> held'[b].size]
    BY <2>1, RegionFields
  <2>3. held'[b] = [off |-> layout'[b].off, size |-> Align4(layout'[b].eb * layout'[b].n)]
    BY <1>1, <1>3, <1>6, <2>2
  <2> QED BY <2>3 DEF Given
<1>7. \A c \in Buffer : ~ graph'.stream \/ c \notin DOMAIN layout' => held'[c] = Nowhere
  <2>1. graph.stream \in BOOLEAN
    BY HeldTyped
  <2>2. CASE ~ graph.stream
    <3>1. held' = held
      BY <1>1, <2>2 DEF image
    <3> QED BY <1>1, <2>2, <3>1 DEF HeldInv
  <2>3. CASE graph.stream
    BY <1>1, <1>3, <2>3 DEF HeldInv
  <2> QED BY <2>1, <2>2, <2>3
<1>8. ASSUME graph.stream, NEW c \in DOMAIN layout'
      PROVE  Given(c)' \/ (held'[c] = Nowhere /\ GivenUp(c)')
  <2>1. CASE c = b
    BY <1>6, <1>8, <2>1
  <2>2. CASE c # b
    <3>1. c \in DOMAIN layout /\ c \in Buffer
      BY <1>1, <1>8, <2>2, HeldTyped
    <3> QED BY <1>3, <1>4, <1>5, <1>8, <2>2, <3>1 DEF HeldInv
  <2> QED BY <2>1, <2>2
<1> QED BY <1>1, <1>7, <1>8 DEF HeldInv

LEMMA ReleaseHeld ==
  ASSUME NamesInv, NamesApart, HeldInv, IInv, ~ Twins, ReleaseOne
  PROVE  HeldInv'
<1>1. /\ phase = "release" /\ phase' = "release"
      /\ graph' = graph /\ at' = at /\ buf' = buf /\ layout' = layout /\ pinned' = pinned
      /\ Leaving \in ToSet(Node.in) /\ Leaving \notin ToSet(dying')
      /\ ToSet(dying') \subseteq ToSet(dying) /\ buf[Leaving] \in DOMAIN layout
  BY LeavingFacts
<1> PICK x, c : x = Leaving /\ c = buf[Leaving]
  OBVIOUS
<1>2. /\ Node' = Node /\ \A f : LastUse(f)' = LastUse(f)
  BY <1>1, SameNode
<1>3. \A y : IsDead(y)' = IsDead(y)
  BY <1>1, <1>2 DEF IsDead
<1>4. ASSUME NEW d \in DOMAIN layout, GivenUp(d) PROVE GivenUp(d)'
  BY <1>1, <1>2, <1>3, <1>4 DEF GivenUp
<1>5. IF IsDead(Leaving)
      THEN /\ graph.stream
           /\ held'[buf[Leaving]] = Nowhere
           /\ \A d \in Buffer : d # buf[Leaving] => held'[d] = held[d]
      ELSE held' = held
  BY ReleaseIsClient
<1>6. ASSUME NEW d \in DOMAIN layout, held'[d] = held[d], Given(d) PROVE Given(d)'
  BY <1>1, <1>6 DEF Given
<1>7. CASE ~ IsDead(Leaving)
  BY <1>1, <1>4, <1>5, <1>6, <1>7 DEF HeldInv
<1>8. CASE IsDead(Leaving)
  <2>1. GivenUp(c)'
    <3>1. x \in ToSet(Node'.in) \ ToSet(dying') /\ buf'[x] = c /\ IsDead(x)'
      BY <1>1, <1>2, <1>3, <1>8
    <3> QED BY <1>1, <3>1 DEF GivenUp
  <2>2. DOMAIN layout \subseteq Buffer
    BY <1>5, <1>8, HeldTyped
  <2>3. ASSUME NEW d \in DOMAIN layout
        PROVE  Given(d)' \/ (held'[d] = Nowhere /\ GivenUp(d)')
    <3>1. CASE d = c
      BY <1>5, <1>8, <2>1, <3>1
    <3>2. CASE d # c
      BY <1>4, <1>5, <1>6, <1>8, <2>2, <3>2 DEF HeldInv
    <3> QED BY <3>1, <3>2
  <2> QED BY <1>1, <1>5, <1>8, <2>2, <2>3 DEF HeldInv
<1> QED BY <1>7, <1>8

------------------------------------------------------------------------------
(****************************************************************************)
(* The statements.                                                          *)
(****************************************************************************)
\* What a statement that is already there says of the buffers it makes.
Sound(s) ==
  \A c \in ToSet(s.outs) \cup s.work :
    /\ \/ c \in DOMAIN layout
       \/ c \in Pending /\ ToSet(s.ins) \subseteq {buf[x] : x \in ToSet(Node.in)}
    /\ c \in DOMAIN layout =>
         \A d \in ToSet(s.ins) :
           /\ d \in DOMAIN layout /\ d # c
           /\ graph.stream => Disjoint(Place(c), Place(d))

\* StmtInv says that of every statement.
LEMMA StmtSound == StmtInv <=> IsSeq(stmts) /\ \A s \in ToSet(stmts) : Sound(s)
  BY DEF StmtInv, Sound

\* A place is where the layout says.
LEMMA PlaceStays ==
  ASSUME NEW c, layout'[c] = layout[c]
  PROVE  Place(c)' = Place(c)
  BY DEF Place

\* Nothing changes for a statement while layout, inputs and what is pending do not.
LEMMA SoundStays ==
  ASSUME NEW s, Sound(s), layout' = layout, graph' = graph,
         \/ Pending = {}
         \/ Pending' = Pending /\ buf' = buf /\ Node' = Node
  PROVE  Sound(s)'
<1>1. \A c : Place(c)' = Place(c)
  BY DEF Place
<1>2. ASSUME NEW c \in ToSet(s.outs) \cup s.work
      PROVE  /\ \/ c \in DOMAIN layout
                \/ c \in Pending' /\ ToSet(s.ins) \subseteq {buf'[x] : x \in ToSet(Node'.in)}
             /\ c \in DOMAIN layout =>
                  \A d \in ToSet(s.ins) :
                    /\ d \in DOMAIN layout /\ d # c
                    /\ graph.stream => Disjoint(Place(c), Place(d))
  BY <1>2 DEF Sound
<1>3. \A c, d : Disjoint(Place(c), Place(d))' = Disjoint(Place(c), Place(d))
  BY <1>1 DEF Disjoint
<1> QED BY <1>2, <1>3 DEF Sound

\* StmtInv after each kind of step.
LEMMA VisitStmts ==
  ASSUME NamesInv, NamesApart, StmtInv, Makes \/ (\E x : Aliases(x)) \/ VisitSkip \/ VisitOutput
  PROVE  StmtInv'
<1>1. phase = "visit" /\ layout' = layout /\ graph' = graph /\ at' = at
  BY DEF Makes, Aliases, VisitSkip, VisitOutput, OnOp, lowering
<1>2. Pending = {} /\ Node' = Node
  BY <1>1, VisitFacts, SameNode
<1>3. IsSeq(stmts) /\ \A s \in ToSet(stmts) : Sound(s)'
  BY <1>1, <1>2, StmtSound, SoundStays
<1>4. CASE stmts' = stmts
  BY <1>3, <1>4 DEF StmtInv, Sound
<1>5. CASE stmts' # stmts
  <2>1. Makes
    BY <1>5 DEF Aliases, VisitSkip, VisitOutput, OnOp, lowering
  <2>2. PICK s : /\ stmts' = Append(stmts, s)
                 /\ ToSet(s.outs) \cup s.work \subseteq Pending'
                 /\ ToSet(s.ins) \subseteq {buf[x] : x \in ToSet(Node.in)}
    BY <1>5, <2>1 DEF Makes, Stated
  <2>3. IsSeq(stmts') /\ ToSet(stmts') = ToSet(stmts) \cup {s}
    BY <1>3, <2>2, AppendSet
  <2>4. \A c \in Pending' : c \in NamesOf(Node)
    BY <1>2, <2>1 DEF Makes, TodoMade, Pending
  <2>5. \A c \in Pending' : c \notin DOMAIN layout
    BY <1>1, <2>4, VisitFacts
  <2>6. \A x \in ToSet(Node.in) : buf'[x] = buf[x]
    <3> SUFFICES ASSUME NEW x \in ToSet(Node.in) PROVE buf'[x] = buf[x]
      OBVIOUS
    <3>1. x \in DOMAIN buf
      BY InputKnown DEF NamesInv
    <3>2. x \notin Pending' \cup {Node.name}
      BY <1>1, <2>4, <3>1, VisitFacts
    <3> QED BY <2>1, <3>1, <3>2 DEF Makes, BufMade
  <2>7. ToSet(s.ins) \subseteq {buf'[x] : x \in ToSet(Node'.in)}
    BY <1>2, <2>2, <2>6
  <2>8. Sound(s)'
    BY <1>1, <2>2, <2>5, <2>7 DEF Sound
  <2> QED BY <1>3, <2>3, <2>8 DEF StmtInv, Sound
<1> QED BY <1>4, <1>5

LEMMA QuietStmts ==
  ASSUME NamesInv, NamesApart, StmtInv, NextNode \/ ReleaseOne
  PROVE  StmtInv'
<1>1. /\ phase = "release" /\ layout' = layout /\ graph' = graph /\ stmts' = stmts
  BY DEF NextNode, ReleaseOne
<1>2. Pending = {}
  <2>1. todo = <<>>
    BY <1>1 DEF NamesInv, TodoOK
  <2> QED BY <2>1 DEF Pending
<1>3. IsSeq(stmts) /\ \A s \in ToSet(stmts) : Sound(s)'
  BY <1>1, <1>2, StmtSound, SoundStays
<1> QED BY <1>1, <1>3 DEF StmtInv, Sound

\* The inputs of a node are in use until it is done.
LEMMA InputGiven ==
  ASSUME NamesInv, NamesApart, HeldInv, phase = "alloc", NEW x \in ToSet(Node.in)
  PROVE  /\ x \in DOMAIN buf /\ buf[x] \in DOMAIN layout
         /\ graph.stream => Given(buf[x])
<1>1. x \in DOMAIN buf
  BY InputKnown DEF NamesInv
<1>2. at \in DOMAIN Nodes /\ graph \in Graphs
  BY DEF NamesInv, GraphOK
<1>3. PICK j \in 1..(at - 1) : Nodes[j].name = x
  BY <1>2, NodeFacts DEF Node
<1>4. j \in DOMAIN Nodes /\ j # at
  <2>1. PICK n \in Nat : n = Len(Nodes) /\ DOMAIN Nodes = 1..n
    BY <1>2, NodeFacts
  <2>2. at \in 1..n
    BY <1>2, <2>1
  <2>3. j \in 1..n /\ j # at
    BY <2>2
  <2> QED BY <2>1, <2>3
<1>5. x \notin NamesOf(Node)
  <2>1. x \in NamesOf(Nodes[j])
    BY <1>3 DEF NamesOf
  <2> QED BY <1>2, <1>4, <2>1, NodesApart DEF Node
<1>6. buf[x] \in DOMAIN layout
  BY <1>1, <1>5 DEF NamesInv, BufOK
<1>7. LastUse(x) >= at /\ LastUse(x) \in Nat /\ at \in Nat
  BY <1>2, InputFacts, LastUseFacts
<1>8. ~ GivenUp(buf[x])
  BY <1>1, <1>7 DEF GivenUp
<1> QED BY <1>1, <1>6, <1>8 DEF HeldInv

\* Regions that are apart are apart without their padding.
LEMMA PlacesApart ==
  ASSUME NEW a \in Nat, NEW m \in Nat, NEW b \in Nat, NEW n \in Nat,
         Disjoint([off |-> a, size |-> Align4(m)], [off |-> b, size |-> Align4(n)])
  PROVE  Disjoint([off |-> a, size |-> m], [off |-> b, size |-> n])
<1>1. /\ Align4(m) \in Nat /\ Align4(m) >= m /\ Align4(n) \in Nat /\ Align4(n) >= n
  BY AlignFacts
<1> QED BY <1>1 DEF Disjoint

\* A buffer is placed where none of the inputs of its statement is.
LEMMA AllocStmts ==
  ASSUME NamesInv, NamesInv', NamesApart, HeldInv, HeldInv', IInv, StmtInv, Asks, AllocOne
  PROVE  StmtInv'
<1>0. phase = "alloc"
  BY DEF AllocOne
<1> PICK b : b = First.name
  OBVIOUS
<1>1. /\ graph' = graph /\ at' = at /\ buf' = buf /\ stmts' = stmts
      /\ b \notin DOMAIN layout /\ DOMAIN layout' = DOMAIN layout \cup {b}
      /\ \A c \in DOMAIN layout : layout'[c] = layout[c]
      /\ layout'[b].eb = First.eb /\ layout'[b].n = Numel(First.shape)
      /\ graph.stream => layout'[b].off = held'[b].off
      /\ todo' = Tail(todo)
  BY <1>0, PlacedFacts
<1>2. Node' = Node
  BY <1>1, SameNode
<1>3. \A c \in Pending : c \in Pending' \/ c = b
  <2>1. IsSeq(todo) /\ todo # <<>>
    BY <1>0, FirstFacts
  <2>2. ToSet(todo) = ToSet(Tail(todo)) \cup {Head(todo)}
    BY <2>1, TailSet
  <2> SUFFICES ASSUME NEW c \in Pending PROVE c \in Pending' \/ c = b
    OBVIOUS
  <2>3. PICK i \in DOMAIN todo : c = todo[i].name
    BY DEF Pending
  <2>4. todo[i] \in ToSet(todo)
    BY DEF ToSet
  <2>5. todo[i] \in ToSet(todo') \/ todo[i] = First
    BY <1>1, <2>2, <2>4 DEF First
  <2> QED BY <2>3, <2>5 DEF Pending, ToSet
<1>4. \A x \in ToSet(Node.in) : buf[x] \in DOMAIN layout /\ (graph.stream => Given(buf[x]))
  BY <1>0, InputGiven
<1>5. ASSUME graph.stream, NEW d \in DOMAIN layout, Given(d)
      PROVE  Disjoint(Place(b)', Place(d)')
  <2>1. d # b /\ d \in Buffer /\ b \in Buffer
    BY <1>0, <1>1, <1>5, FirstFacts, HeldTyped
  <2>2. IInv' /\ held'[d] = held[d] /\ held'[b].size = Align4(First.eb * Numel(First.shape))
        /\ held'[b] \in Region /\ First.eb * Numel(First.shape) \in Nat
    BY <1>5, <2>1, AllocIsClient
  <2>3. Disjoint(held'[b], held'[d])
    BY <2>1, <2>2 DEF IInv, Apart
  <2> DEFINE m == layout'[b].eb * layout'[b].n
             n == layout'[d].eb * layout'[d].n
             o == layout'[b].off
             p == layout'[d].off
  <2>4. m \in Nat /\ n \in Nat /\ o \in Nat /\ p \in Nat
    <3>1. /\ layout[d].off \in Nat /\ layout[d].eb \in {1, 4} /\ layout[d].n \in Nat
      BY <1>5 DEF NamesInv, LayoutOK
    <3> QED BY <1>1, <1>5, <2>2, <3>1, RegionFields
  <2>5. held'[b] = [off |-> o, size |-> Align4(m)]
    BY <1>1, <1>5, <2>2, RegionFields
  <2>6. held'[d] = [off |-> p, size |-> Align4(n)]
    BY <1>1, <1>5, <2>2 DEF Given
  <2>7. Place(b)' = [off |-> o, size |-> m] /\ Place(d)' = [off |-> p, size |-> n]
    BY DEF Place
  <2> HIDE DEF m, n, o, p
  <2>8. Disjoint([off |-> o, size |-> m], [off |-> p, size |-> n])
    BY <2>3, <2>4, <2>5, <2>6, PlacesApart
  <2> QED BY <2>7, <2>8
<1>6. ASSUME NEW s \in ToSet(stmts) PROVE Sound(s)'
  <2>1. Sound(s)
    BY StmtSound
  <2> SUFFICES ASSUME NEW c \in ToSet(s.outs) \cup s.work
      PROVE  /\ \/ c \in DOMAIN layout'
                \/ c \in Pending' /\ ToSet(s.ins) \subseteq {buf'[x] : x \in ToSet(Node'.in)}
             /\ c \in DOMAIN layout' =>
                  \A d \in ToSet(s.ins) :
                    /\ d \in DOMAIN layout' /\ d # c
                    /\ graph'.stream => Disjoint(Place(c)', Place(d)')
    BY DEF Sound, Disjoint
  <2>2. CASE c \in DOMAIN layout
    <3>1. ASSUME NEW d \in ToSet(s.ins)
          PROVE  /\ d \in DOMAIN layout' /\ d # c
                 /\ graph'.stream => Disjoint(Place(c)', Place(d)')
      <4>1. /\ d \in DOMAIN layout /\ d # c
            /\ graph.stream => Disjoint(Place(c), Place(d))
        BY <2>1, <2>2 DEF Sound
      <4>2. Place(c)' = Place(c) /\ Place(d)' = Place(d)
        BY <1>1, <2>2, <4>1, PlaceStays
      <4> QED BY <1>1, <4>1, <4>2
    <3> QED BY <1>1, <2>2, <3>1
  <2>3. CASE c \notin DOMAIN layout
    <3>1. c \in Pending /\ ToSet(s.ins) \subseteq {buf[x] : x \in ToSet(Node.in)}
      BY <2>1, <2>3 DEF Sound
    <3>2. CASE c # b
      BY <1>1, <1>2, <1>3, <2>3, <3>1, <3>2
    <3>3. CASE c = b
      <4>1. ASSUME NEW d \in ToSet(s.ins)
            PROVE  /\ d \in DOMAIN layout' /\ d # c
                   /\ graph'.stream => Disjoint(Place(c)', Place(d)')
        <5>1. d \in DOMAIN layout /\ (graph.stream => Given(d))
          BY <1>4, <3>1
        <5> QED BY <1>1, <1>5, <2>3, <3>3, <5>1
      <4> QED BY <1>1, <3>3, <4>1
    <3> QED BY <3>2, <3>3
  <2> QED BY <2>2, <2>3
<1> QED BY <1>1, <1>6, StmtSound DEF StmtInv, Sound

------------------------------------------------------------------------------
(****************************************************************************)
(* The uses.                                                                *)
(****************************************************************************)
\* Numbers of the proofs below: the node, and the last uses.
LEMMA UseNumbers ==
  ASSUME NamesInv
  PROVE  /\ at \in Nat /\ at > 0 /\ at \in DOMAIN Nodes /\ graph \in Graphs
         /\ \A f : LastUse(f) \in Nat
         /\ \A f : LastUse(f) = at => f \in ToSet(Node.in)
         /\ \A x \in ToSet(Node.in) : LastUse(x) >= at
  BY SeenSet, InputFacts, LastUseFacts DEF NamesInv, GraphOK

\* UseInv after each kind of step.
LEMMA MakesUse ==
  ASSUME NamesInv, NamesApart, UseInv, Makes
  PROVE  UseInv'
<1>1. /\ phase = "visit" /\ phase' = "alloc" /\ pinned \subseteq pinned'
      /\ graph' = graph /\ at' = at /\ layout' = layout /\ held' = held
      /\ TodoMade' /\ BufMade
  BY DEF Makes, image
<1>2. /\ Node' = Node /\ \A f : LastUse(f)' = LastUse(f)
  BY <1>1, SameNode
<1>3. ASSUME NEW c \in DOMAIN layout
      PROVE  \A f : (f \in DOMAIN buf /\ buf[f] = c) <=> (f \in DOMAIN buf' /\ buf'[f] = c)
  <2>1. \A d \in Pending' : d \in NamesOf(Node)
    BY <1>1, <1>2 DEF TodoMade, Pending
  <2>2. c \notin Pending'
    BY <1>1, <2>1, VisitFacts
  <2>3. \A f \in DOMAIN buf : f \notin Pending' \cup {Node.name}
    BY <1>1, <2>1, VisitFacts
  <2> QED BY <1>1, <2>2, <2>3 DEF BufMade
<1>4. ASSUME NEW c \in DOMAIN layout, Unused(c) PROVE Unused(c)'
  BY <1>2, <1>3, <1>4 DEF Unused
<1>5. ASSUME NEW c \in DOMAIN layout, InUse(c) PROVE InUse(c)'
  <2>1. PICK f \in DOMAIN buf : buf[f] = c /\ (LastUse(f) > at \/ LastUse(f) = at)
    BY <1>5 DEF InUse
  <2>2. f \in DOMAIN buf' /\ buf'[f] = c
    BY <1>3, <2>1
  <2> QED BY <1>1, <1>2, <2>1, <2>2 DEF InUse
<1> QED BY <1>1, <1>4, <1>5 DEF UseInv

LEMMA AliasUse ==
  ASSUME NamesInv, NamesApart, UseInv, NEW x, Aliases(x)
  PROVE  UseInv'
<1>1. /\ phase = "visit" /\ phase' = "release" /\ dying' = Inputs /\ pinned' = pinned
      /\ graph' = graph /\ at' = at /\ layout' = layout /\ held' = held
      /\ x \in DOMAIN buf /\ buf' = Named(buf, Node.name, buf[x])
  BY DEF Aliases, image
<1>2. /\ Node' = Node /\ \A f : LastUse(f)' = LastUse(f)
  BY <1>1, SameNode
<1> PICK y : y = Node.name
  OBVIOUS
<1>3. /\ DOMAIN buf' = DOMAIN buf \cup {y} /\ y \notin DOMAIN buf /\ buf'[y] = buf[x]
      /\ \A f \in DOMAIN buf : buf'[f] = buf[f]
  BY <1>1, VisitFacts DEF Named
<1>4. LastUse(y) = 0 \/ LastUse(y) > at
  BY UseNumbers, UseAfter, VisitFacts, <1>1 DEF Node
<1>5. ASSUME NEW c \in DOMAIN layout, Unused(c) PROVE Unused(c)' \/ InUse(c)'
  <2>1. CASE buf[x] # c \/ LastUse(y) = 0
    BY <1>2, <1>3, <1>5, <2>1 DEF Unused
  <2>2. CASE buf[x] = c /\ LastUse(y) > at
    BY <1>1, <1>2, <1>3, <2>2 DEF InUse
  <2> QED BY <1>4, <2>1, <2>2
<1>6. ASSUME NEW c \in DOMAIN layout, InUse(c) PROVE InUse(c)'
  <2>1. PICK f \in DOMAIN buf : buf[f] = c /\ (LastUse(f) > at \/ LastUse(f) = at)
    BY <1>6 DEF InUse
  <2>2. f \in DOMAIN buf' /\ buf'[f] = c
    BY <1>3, <2>1
  <2>3. LastUse(f) = at => f \in ToSet(dying')
    BY <1>1, UseNumbers, InputFacts
  <2> QED BY <1>1, <1>2, <2>1, <2>2, <2>3 DEF InUse
<1> QED BY <1>1, <1>5, <1>6 DEF UseInv

LEMMA QuietUse ==
  ASSUME NamesInv, NamesApart, UseInv, VisitSkip \/ VisitOutput
  PROVE  UseInv'
<1>1. /\ phase = "visit" /\ (phase' = "release" => dying' = Inputs) /\ pinned' = pinned
      /\ graph' = graph /\ at' = at /\ layout' = layout /\ held' = held /\ buf' = buf
  BY DEF VisitSkip, VisitOutput, OnOp, image, lowering
<1>2. /\ Node' = Node /\ \A f : LastUse(f)' = LastUse(f)
  BY <1>1, SameNode
<1>5. ASSUME NEW c \in DOMAIN layout, Unused(c) PROVE Unused(c)'
  BY <1>1, <1>2, <1>5 DEF Unused
<1>6. ASSUME NEW c \in DOMAIN layout, InUse(c) PROVE InUse(c)'
  <2>1. PICK f \in DOMAIN buf : buf[f] = c /\ (LastUse(f) > at \/ LastUse(f) = at)
    BY <1>6 DEF InUse
  <2>3. LastUse(f) = at => (phase' = "release" => f \in ToSet(dying'))
    BY <1>1, UseNumbers, InputFacts
  <2> QED BY <1>1, <1>2, <2>1, <2>3 DEF InUse
<1> QED BY <1>1, <1>5, <1>6 DEF UseInv

LEMMA NextUse ==
  ASSUME NamesInv, NamesApart, UseInv, NextNode
  PROVE  UseInv'
<1>1. /\ phase = "release" /\ phase' = "visit" /\ dying = <<>> /\ at' = at + 1 /\ pinned' = pinned
      /\ graph' = graph /\ layout' = layout /\ held' = held /\ buf' = buf /\ Nodes' = Nodes
  BY DEF NextNode, image, Nodes
<1>2. ASSUME NEW f PROVE LastUse(f)' = LastUse(f)
  <2>1. LastUse(f) = LastIn(Nodes, f)
    BY DEF LastUse, LastIn
  <2>2. LastUse(f)' = LastIn(Nodes', f)
    BY DEF LastUse, LastIn
  <2> QED BY <1>1, <2>1, <2>2
<1>5. ASSUME NEW c \in DOMAIN layout, Unused(c) PROVE Unused(c)'
  BY <1>1, <1>2, <1>5 DEF Unused
<1>6. ASSUME NEW c \in DOMAIN layout, InUse(c) PROVE InUse(c)'
  <2>1. ToSet(dying) = {}
    BY <1>1 DEF ToSet
  <2>2. PICK f \in DOMAIN buf : buf[f] = c /\ LastUse(f) > at
    BY <1>1, <1>6, <2>1 DEF InUse
  <2>3. LastUse(f) > at + 1 \/ LastUse(f) = at + 1
    BY <2>2, UseNumbers
  <2> QED BY <1>1, <1>2, <2>2, <2>3 DEF InUse
<1> QED BY <1>1, <1>5, <1>6 DEF UseInv

LEMMA AllocUse ==
  ASSUME NamesInv, NamesApart, HeldInv, IInv, UseInv, Asks, AllocOne
  PROVE  UseInv'
<1>0. phase = "alloc"
  BY DEF AllocOne
<1> PICK b : b = First.name
  OBVIOUS
<1>1. /\ graph' = graph /\ at' = at /\ buf' = buf /\ pinned' = pinned
      /\ b \notin DOMAIN layout /\ DOMAIN layout' = DOMAIN layout \cup {b}
      /\ phase' = "release" => dying' = IF First.bake THEN <<>> ELSE Inputs
  BY <1>0, PlacedFacts
<1>2. /\ Node' = Node /\ \A f : LastUse(f)' = LastUse(f)
  BY <1>1, SameNode
<1>3. \A c \in Buffer : c # b => held'[c] = held[c]
  BY AllocIsClient
<1>4. \A f : LastUse(f) = at => (phase' = "release" => f \in ToSet(dying'))
  <2>1. First.bake => ToSet(Node.in) = {}
    BY <1>0, FirstFacts DEF ToSet
  <2> SUFFICES ASSUME NEW f, LastUse(f) = at, phase' = "release" PROVE f \in ToSet(dying')
    OBVIOUS
  <2>2. f \in ToSet(Node.in) /\ ToSet(Inputs) = ToSet(Node.in)
    BY UseNumbers, InputFacts
  <2> QED BY <1>1, <2>1, <2>2
<1>5. ASSUME NEW c \in DOMAIN layout, Unused(c) PROVE Unused(c)'
  BY <1>1, <1>2, <1>5 DEF Unused
<1>6. ASSUME NEW c \in DOMAIN layout, InUse(c) PROVE InUse(c)'
  <2>1. PICK f \in DOMAIN buf : buf[f] = c /\ (LastUse(f) > at \/ LastUse(f) = at)
    BY <1>6 DEF InUse
  <2> QED BY <1>1, <1>2, <1>4, <2>1 DEF InUse
<1>7. Unused(b)' \/ InUse(b)'
  <2>1. CASE \A f \in DOMAIN buf : buf[f] = b => LastUse(f) = 0
    BY <1>1, <1>2, <2>1 DEF Unused
  <2>2. CASE \E f \in DOMAIN buf : buf[f] = b /\ LastUse(f) # 0
    <3>1. PICK f \in DOMAIN buf : buf[f] = b /\ LastUse(f) # 0
      BY <2>2
    <3>2. f \in NamesOf(Node)
      BY <1>1, <3>1 DEF NamesInv, BufOK
    <3>3. LastUse(f) > at
      BY <3>1, <3>2, UseNumbers, UseAfter DEF Node
    <3> QED BY <1>1, <1>2, <3>1, <3>3 DEF InUse
  <2> QED BY <2>1, <2>2
<1>8. ASSUME graph.stream, NEW c \in DOMAIN layout \ pinned, held'[c] # Nowhere
      PROVE  Unused(c)' \/ InUse(c)'
  <2>1. c \in Buffer /\ c # b
    BY <1>1, <1>8, HeldTyped
  <2>2. held[c] # Nowhere
    BY <1>3, <1>8, <2>1
  <2> QED BY <1>5, <1>6, <1>8, <2>2 DEF UseInv
<1> QED BY <1>1, <1>7, <1>8 DEF UseInv

LEMMA ReleaseUse ==
  ASSUME NamesInv, NamesApart, HeldInv, IInv, UseInv, ~ Twins, ReleaseOne
  PROVE  UseInv'
<1> PICK x, b : x = Leaving /\ b = buf[Leaving]
  OBVIOUS
<1>1. /\ phase = "release" /\ phase' = "release" /\ pinned' = pinned
      /\ graph' = graph /\ at' = at /\ buf' = buf /\ layout' = layout
      /\ x \in ToSet(Node.in) /\ x \in DOMAIN buf /\ buf[x] = b
      /\ ToSet(dying) = ToSet(dying') \cup {x}
  BY LeavingFacts
<1>2. /\ Node' = Node /\ \A f : LastUse(f)' = LastUse(f)
  BY <1>1, SameNode
<1>3. IF IsDead(x)
      THEN /\ graph.stream /\ held'[b] = Nowhere
           /\ \A d \in Buffer : d # b => held'[d] = held[d]
      ELSE held' = held
  BY ReleaseIsClient
<1>5. ASSUME NEW c \in DOMAIN layout, Unused(c) PROVE Unused(c)'
  BY <1>1, <1>2, <1>5 DEF Unused
<1>6. ASSUME NEW c \in DOMAIN layout, InUse(c), c # b PROVE InUse(c)'
  <2>1. PICK f \in DOMAIN buf :
          /\ buf[f] = c
          /\ LastUse(f) > at \/ (LastUse(f) = at /\ f \in ToSet(dying))
    BY <1>1, <1>6 DEF InUse
  <2>2. f # x
    BY <1>1, <1>6, <2>1
  <2> QED BY <1>1, <1>2, <2>1, <2>2 DEF InUse
<1>7. ASSUME ~ IsDead(x), graph.stream, b \notin pinned PROVE InUse(b)'
  <2>1. \E f \in DOMAIN buf : buf[f] = b /\ LastUse(f) > at
    <3>1. CASE LastUse(x) # at
      BY <1>1, <3>1, UseNumbers
    <3>2. CASE LastUse(x) = at
      <4>1. \E f \in DOMAIN buf : buf[f] = b /\ ~ (LastUse(f) <= at)
        BY <1>1, <1>7, <3>2 DEF IsDead
      <4> QED BY <4>1, UseNumbers
    <3> QED BY <3>1, <3>2
  <2> QED BY <1>1, <1>2, <2>1 DEF InUse
<1>8. ASSUME graph.stream, NEW c \in DOMAIN layout \ pinned, held'[c] # Nowhere
      PROVE  Unused(c)' \/ InUse(c)'
  <2>1. c \in Buffer
    BY <1>8, HeldTyped
  <2>2. CASE c = b
    BY <1>3, <1>7, <1>8, <2>2
  <2>3. CASE c # b
    <3>1. held[c] # Nowhere
      BY <1>3, <1>8, <2>1, <2>3
    <3> QED BY <1>5, <1>6, <1>8, <2>3, <3>1 DEF UseInv
  <2> QED BY <2>2, <2>3
<1> QED BY <1>1, <1>8 DEF UseInv

------------------------------------------------------------------------------
(****************************************************************************)
(* The invariant, and what the compiler is to the image.                    *)
(****************************************************************************)
\* The invariant of the compiler: that of the allocator, and while it compiles
\* the four about the names, the bytes held, the statements and the uses.
CompilerInv == IInv /\ (Compiling => NamesInv /\ HeldInv /\ StmtInv /\ UseInv)

\* It holds when the compiler starts.
LEMMA StartInv == Init => CompilerInv
<1> SUFFICES ASSUME Init PROVE CompilerInv
  OBVIOUS
<1>1. /\ graph \in Graphs /\ phase = "visit" /\ at = 1 /\ todo = <<>> /\ dying = <<>>
      /\ DOMAIN buf = {} /\ DOMAIN layout = {} /\ stmts = <<>> /\ ImageInit
  BY DEF Init
<1>2. IInv
  BY <1>1, InitIInv
<1>3. GraphOK
  <2>1. Nodes \in Seq(FxNode) /\ Nodes # <<>>
    BY <1>1, GraphAssumption DEF Nodes
  <2>2. 1 \in DOMAIN Nodes
    BY <2>1
  <2> QED BY <1>1, <2>2 DEF GraphOK
<1>4. IsSeq(<<>>) /\ Pending = {} /\ ToSet(stmts) = {}
  BY <1>1 DEF IsSeq, Pending, ToSet
<1>5. Seen = {}
  <2>1. \A i \in DOMAIN Nodes : ~ (i < 1)
    BY <1>1, NodeFacts
  <2> QED BY <1>1, <2>1 DEF Seen
<1>6. NamesInv
  <2>1. TodoOK
    BY <1>1, <1>4 DEF TodoOK
  <2>2. DyingOK /\ BufOK /\ LayoutOK
    BY <1>1, <1>4, <1>5 DEF DyingOK, BufOK, LayoutOK
  <2> QED BY <1>3, <2>1, <2>2 DEF NamesInv
<1>7. HeldInv
  BY <1>1 DEF HeldInv, ImageInit
<1>8. StmtInv /\ UseInv
  BY <1>1, <1>4 DEF StmtInv, UseInv
<1> QED BY <1>2, <1>6, <1>7, <1>8 DEF CompilerInv

\* Every step of the compiler keeps it and is a step of the client.
LEMMA LowerStep ==
  ASSUME CompilerInv, Lawful, Lower
  PROVE  CompilerInv' /\ [ImageNext]_image
<1>1. IInv /\ NamesApart /\ Asks /\ ~ Twins /\ ~ LatePart
  BY DEF CompilerInv, Lawful
<1>2. ASSUME Fail PROVE CompilerInv' /\ [ImageNext]_image
  <2>1. phase' = "failed" /\ image' = image
    BY <1>2 DEF Fail
  <2>2. IInv'
    BY <1>1, <2>1, StepIInv DEF image
  <2> QED BY <2>1, <2>2 DEF CompilerInv, Compiling
<1>3. CASE Visit
  <2>1. phase = "visit"
    BY <1>3 DEF Visit, OnOp, VisitInput, VisitSkip, VisitOutput,
      EmitBinary, EmitUnary, EmitAlias, EmitView, EmitGetitem, EmitArange,
      EmitMeshgrid, EmitStack, EmitCat, EmitPad, EmitPermute, EmitSlice,
      EmitSelect, EmitUpsample, EmitMaxPool, EmitMatmul, EmitConv
  <2>2. NamesInv /\ HeldInv /\ StmtInv /\ UseInv
    BY <2>1 DEF CompilerInv, Compiling
  <2>3. Fail \/ Makes \/ (\E x : Aliases(x)) \/ VisitSkip \/ VisitOutput
    BY <1>1, <1>3, <2>2, VisitCases DEF NamesInv
  <2>4. CASE Makes \/ (\E x : Aliases(x)) \/ VisitSkip \/ VisitOutput
    <3>1. image' = image
      BY <2>4 DEF Makes, Aliases, VisitSkip, VisitOutput
    <3>2. IInv'
      BY <1>1, <3>1, StepIInv DEF image
    <3>3. NamesInv'
      BY <1>1, <2>2, <2>4, MakesNames, AliasNames, SkipNames, OutputNames
    <3>4. HeldInv'
      BY <1>1, <2>2, <2>4, MakesHeld, AliasHeld, QuietHeld
    <3>5. StmtInv'
      BY <1>1, <2>2, <2>4, VisitStmts
    <3>6. UseInv'
      BY <1>1, <2>2, <2>4, MakesUse, AliasUse, QuietUse
    <3> QED BY <3>1, <3>2, <3>3, <3>4, <3>5, <3>6 DEF CompilerInv
  <2> QED BY <1>2, <2>3, <2>4
<1>4. CASE AllocOne
  <2>1. phase = "alloc"
    BY <1>4 DEF AllocOne
  <2>2. NamesInv /\ HeldInv /\ StmtInv /\ UseInv
    BY <2>1 DEF CompilerInv, Compiling
  <2>3. [ImageNext]_image /\ IInv' /\ NamesInv' /\ HeldInv'
    BY <1>1, <1>4, <2>2, AllocIsClient, AllocNames, AllocHeld
  <2>4. StmtInv' /\ UseInv'
    BY <1>1, <1>4, <2>2, <2>3, AllocStmts, AllocUse
  <2> QED BY <2>3, <2>4 DEF CompilerInv
<1>5. CASE AllocFail
  BY <1>2, <1>5 DEF AllocFail
<1>6. CASE ReleaseOne
  <2>1. phase = "release"
    BY <1>6 DEF ReleaseOne
  <2>2. NamesInv /\ HeldInv /\ StmtInv /\ UseInv
    BY <2>1 DEF CompilerInv, Compiling
  <2>3. [ImageNext]_image /\ IInv' /\ NamesInv' /\ HeldInv'
    BY <1>1, <1>6, <2>2, ReleaseIsClient, ReleaseNames, ReleaseHeld
  <2>4. StmtInv' /\ UseInv'
    BY <1>1, <1>6, <2>2, QuietStmts, ReleaseUse
  <2> QED BY <2>3, <2>4 DEF CompilerInv
<1>7. CASE NextNode
  <2>1. phase = "release" /\ image' = image
    BY <1>7 DEF NextNode
  <2>2. NamesInv /\ HeldInv /\ StmtInv /\ UseInv
    BY <2>1 DEF CompilerInv, Compiling
  <2>3. IInv'
    BY <1>1, <2>1, StepIInv DEF image
  <2>4. NamesInv' /\ HeldInv' /\ StmtInv' /\ UseInv'
    BY <1>1, <1>7, <2>2, NextNames, NextHeld, QuietStmts, NextUse
  <2> QED BY <2>1, <2>3, <2>4 DEF CompilerInv
<1> QED BY <1>3, <1>4, <1>5, <1>6, <1>7 DEF Lower, Visit

\* A run of the program changes nothing the compiler keeps.
LEMMA RunQuiet ==
  ASSUME CompilerInv, Run
  PROVE  CompilerInv' /\ image' = image
<1>1. image' = image /\ phase' \in {"run", "eot", "spin"}
  <2>1. CASE Start
    BY <2>1 DEF Start
  <2>2. CASE RunStep
    BY <2>2 DEF RunStep
  <2>3. CASE GoldenCheck
    BY <2>3 DEF GoldenCheck
  <2> QED BY <2>1, <2>2, <2>3 DEF Run
<1>2. IInv'
  BY <1>1, StepIInv DEF CompilerInv, image
<1> QED BY <1>1, <1>2 DEF CompilerInv, Compiling

\* So does a step that changes nothing.
LEMMA SameVars ==
  ASSUME CompilerInv, UNCHANGED vars
  PROVE  CompilerInv' /\ image' = image
<1>1. /\ image' = image /\ phase' = phase
      /\ graph' = graph /\ at' = at /\ todo' = todo /\ dying' = dying /\ buf' = buf
      /\ layout' = layout /\ pinned' = pinned /\ stmts' = stmts /\ held' = held
  BY DEF vars, lowering, image
<1>2. IInv'
  BY <1>1, StepIInv DEF CompilerInv, image
<1>3. /\ Nodes' = Nodes /\ Node' = Node /\ Pending' = Pending
      /\ \A f : LastUse(f)' = LastUse(f)
  BY <1>1, SameNode DEF Pending
<1>4. Seen' = Seen
  BY <1>1, <1>3 DEF Seen
<1>5. NamesInv' = NamesInv
  <2>1. GraphOK' = GraphOK
    BY <1>1, <1>3 DEF GraphOK
  <2>2. TodoOK' = TodoOK
    BY <1>1, <1>3 DEF TodoOK
  <2>3. DyingOK' = DyingOK
    BY <1>1, <1>3 DEF DyingOK
  <2>4. BufOK' = BufOK
    BY <1>1, <1>3, <1>4 DEF BufOK
  <2>5. LayoutOK' = LayoutOK
    BY <1>1, <1>3, <1>4 DEF LayoutOK
  <2> QED BY <2>1, <2>2, <2>3, <2>4, <2>5 DEF NamesInv
<1>6. HeldInv' = HeldInv
  <2>1. \A c : Given(c)' = Given(c)
    BY <1>1 DEF Given
  <2>2. \A x : IsDead(x)' = IsDead(x)
    BY <1>1, <1>3 DEF IsDead
  <2>3. \A c : GivenUp(c)' = GivenUp(c)
    BY <1>1, <1>3, <2>2 DEF GivenUp
  <2> QED BY <1>1, <2>1, <2>3 DEF HeldInv
<1>7. StmtInv => StmtInv'
  <2>1. StmtInv => IsSeq(stmts) /\ \A s \in ToSet(stmts) : Sound(s)'
    BY <1>1, <1>3, StmtSound, SoundStays
  <2> QED BY <1>1, <2>1 DEF StmtInv, Sound
<1>8. UseInv' = UseInv
  <2>1. \A c : Unused(c)' = Unused(c)
    BY <1>1, <1>3 DEF Unused
  <2>2. \A c : InUse(c)' = InUse(c)
    BY <1>1, <1>3 DEF InUse
  <2> QED BY <1>1, <2>1, <2>2 DEF UseInv
<1> QED BY <1>1, <1>2, <1>5, <1>6, <1>7, <1>8 DEF CompilerInv, Compiling

\* The invariant is inductive, and every step is one of the image or a stutter.
LEMMA CompilerStep ==
  CompilerInv /\ Lawful /\ [Next]_vars => CompilerInv' /\ [ImageNext]_image
<1> SUFFICES ASSUME CompilerInv, Lawful, [Next]_vars
             PROVE  CompilerInv' /\ [ImageNext]_image
  OBVIOUS
<1>1. CASE Lower
  BY <1>1, LowerStep
<1>2. CASE Run
  BY <1>2, RunQuiet
<1>3. CASE Stopped \/ UNCHANGED vars
  BY <1>3, SameVars DEF Stopped
<1> QED BY <1>1, <1>2, <1>3 DEF Next

\* For every set of graphs: what the compiler asks of the allocator of the DRAM
\* image, the buffers it places and releases while it goes through the graph
\* (jit.py; MemLayout.alloc_dram and free_dram), is what the client of DramImage does.
THEOREM CompilerIsClient == Spec /\ []Lawful => ImageSpec
<1>1. Init => ImageInit
  BY DEF Init
<1> QED BY <1>1, StartInv, CompilerStep, PTL DEF Spec, ImageSpec

\* The compiler loses no byte of the image: after every handler and every release
\* the bytes it holds, the free list and the bytes behind the top are the image,
\* each byte once.
THEOREM CompilerTiles == Spec /\ []Lawful => []Tiled
  BY CompilerIsClient, ImageTiled, PTL

\* The compiler uses the image as a Storage: what it holds stays where it is until
\* it gives it back, and nothing it is given lies on what it holds.
THEOREM CompilerStores == Spec /\ []Lawful => StoreSpec
  BY CompilerIsClient, AllocatorImplementsStorage, PTL

\* An element lies in the bytes of its buffer.
LEMMA AddressBound ==
  ASSUME NEW o \in Nat, NEW e \in {1, 4}, NEW n \in Nat, NEW i \in 0..(n - 1)
  PROVE  o <= o + i * e /\ o + i * e < o + e * n
  OBVIOUS

\* Equal pairs.
LEMMA PairsEqual ==
  ASSUME NEW a, NEW b, NEW c, NEW d, <<a, b>> = <<c, d>> PROVE a = c /\ b = d
  OBVIOUS

\* Buffers with bytes apart have no cell in common.
LEMMA CellsApart ==
  ASSUME NamesInv, NEW c \in DOMAIN layout, NEW d \in DOMAIN layout, c # d,
         graph.stream => Disjoint(Place(c), Place(d))
  PROVE  Cells(c) \cap Cells(d) = {}
<1>1. graph.stream \in BOOLEAN
  BY HeldTyped
<1>2. layout[c].dram = graph.stream /\ layout[d].dram = graph.stream
  BY DEF NamesInv, LayoutOK
<1> SUFFICES ASSUME NEW i \in 0..(layout[c].n - 1), NEW j \in 0..(layout[d].n - 1),
                    Loc(c, i) = Loc(d, j)
             PROVE  FALSE
  BY DEF Cells, Range0
<1>3. CASE ~ graph.stream
  <2>1. Loc(c, i) = <<c, i>> /\ Loc(d, j) = <<d, j>>
    BY <1>2, <1>3 DEF Loc
  <2>2. <<c, i>> = <<d, j>>
    BY <2>1
  <2> QED BY <2>2, PairsEqual
<1>4. CASE graph.stream
  <2> DEFINE o == layout[c].off  e == layout[c].eb  n == layout[c].n
             p == layout[d].off  k == layout[d].eb  m == layout[d].n
  <2>1. /\ o \in Nat /\ e \in {1, 4} /\ n \in Nat
        /\ p \in Nat /\ k \in {1, 4} /\ m \in Nat
    BY <1>4 DEF NamesInv, LayoutOK
  <2>2. Loc(c, i) = <<"dram", o + i * e>> /\ Loc(d, j) = <<"dram", p + j * k>>
    BY <1>2, <1>4 DEF Loc
  <2>3. Disjoint([off |-> o, size |-> e * n], [off |-> p, size |-> k * m])
    BY <1>4 DEF Place
  <2> HIDE DEF o, e, n, p, k, m
  <2>4. o + i * e = p + j * k
    <3>1. <<"dram", o + i * e>> = <<"dram", p + j * k>>
      BY <2>2
    <3> QED BY <3>1, PairsEqual
  <2>5. i \in 0..(n - 1) /\ j \in 0..(m - 1)
    BY DEF n, m
  <2>6. /\ o <= o + i * e /\ o + i * e < o + e * n
        /\ p <= p + j * k /\ p + j * k < p + k * m
    BY <2>1, <2>5, AddressBound
  <2>7. \/ e * n = 0 \/ k * m = 0 \/ o + e * n <= p \/ p + k * m <= o
    BY <2>3 DEF Disjoint
  <2> DEFINE u == e * n  v == k * m  a == o + i * e
  <2>8. u \in Nat /\ v \in Nat /\ a \in Nat
    BY <2>1, <2>5
  <2>9. /\ o <= a /\ a < o + u /\ p <= a /\ a < p + v
        /\ u = 0 \/ v = 0 \/ o + u <= p \/ p + v <= o
    BY <2>4, <2>6, <2>7
  <2> HIDE DEF u, v, a
  <2> QED BY <2>1, <2>8, <2>9
<1> QED BY <1>1, <1>3, <1>4

\* The invariant at the end of the compilation.
LEMMA KeptAtEnd == CompilerInv => ReleasesRight
<1> SUFFICES ASSUME CompilerInv, phase = "ready" PROVE InputsKept /\ AllReleased
  BY DEF ReleasesRight, InputsKept, AllReleased
<1>1. NamesInv /\ HeldInv /\ StmtInv /\ UseInv
  BY DEF CompilerInv, Compiling
<1>2. Pending = {}
  <2>1. todo = <<>>
    BY <1>1 DEF NamesInv, TodoOK
  <2> QED BY <2>1 DEF Pending
<1>3. InputsKept
  <2> SUFFICES ASSUME NEW s \in ToSet(stmts), NEW c \in ToSet(s.outs) \cup s.work,
                      NEW d \in ToSet(s.ins)
               PROVE  Cells(c) \cap Cells(d) = {}
    BY DEF InputsKept
  <2>1. /\ c \in DOMAIN layout /\ d \in DOMAIN layout /\ d # c
        /\ graph.stream => Disjoint(Place(c), Place(d))
    BY <1>1, <1>2 DEF StmtInv
  <2> QED BY <1>1, <2>1, CellsApart
<1>4. AllReleased
  <2> SUFFICES ASSUME NEW c \in Buffer, held[c] # Nowhere, c \notin pinned, ~ Unused(c)
               PROVE  c \in Outputs
    BY DEF AllReleased, Unused
  <2>1. graph.stream /\ c \in DOMAIN layout
    BY <1>1, HeldTyped DEF HeldInv
  <2>2. PICK f \in DOMAIN buf : buf[f] = c /\ (LastUse(f) > at \/ LastUse(f) = at)
    BY <1>1, <2>1 DEF UseInv, InUse
  <2>3. at = Len(Nodes) /\ LastUse(f) <= Len(Nodes) /\ LastUse(f) \in Nat /\ Len(Nodes) \in Nat
    BY <1>1, LastUseFacts, NodeFacts DEF NamesInv, GraphOK
  <2>4. LastUse(f) = at
    BY <2>2, <2>3
  <2>5. f \in ToSet(Node.in)
    BY <1>1, <2>4, UseNumbers
  <2> QED BY <2>2, <2>3, <2>5 DEF Outputs, Node
<1> QED BY <1>3, <1>4

\* When the program is ready: no buffer that a statement writes lies on one the
\* same statement reads, and the bytes that are still held are those that are
\* pinned, that nothing reads, or that hold the outputs. _free_dead_inputs frees
\* neither too early nor too late.
THEOREM ReleasesAreRight == Spec /\ []Lawful => []ReleasesRight
  BY KeptAtEnd, StartInv, CompilerStep, PTL DEF Spec

------------------------------------------------------------------------------
(****************************************************************************)
(* The types.                                                               *)
(****************************************************************************)
\* Every statement takes a step: no handler stages a tensor without elements.
Stepped == \A s \in ToSet(stmts) : IsSeq(s.steps) /\ s.steps # <<>>

\* Every name has a shape, and as many elements as its buffer has or will have.
ShapesOK ==
  /\ DOMAIN buf = DOMAIN shape
  /\ \A f \in DOMAIN buf :
       /\ buf[f] \in DOMAIN layout => Numel(shape[f]) = layout[buf[f]].n
       /\ \A i \in DOMAIN todo : todo[i].name = buf[f] => Numel(shape[f]) = Numel(todo[i].shape)

\* What is released and what is pinned is known.
KnownOK == ToSet(dying) \subseteq DOMAIN buf /\ pinned \subseteq DOMAIN layout \cup Pending

\* The place in the program.
ProgramOK ==
  /\ IsSeq(stmts) /\ ip \in 1..(Len(stmts) + 1)
  /\ phase = "run" /\ ip <= Len(stmts) => tile \in DOMAIN Stmt.steps
  /\ opLimit \in Nat /\ runs \in 0..MaxRuns

\* The invariant for the types.
TypesInv ==
  CompilerInv /\ TypeOK /\ ProgramOK /\ (Compiling => ShapesOK /\ KnownOK)

\* The names of what is pending.
LEMMA PendingNames == {t.name : t \in ToSet(todo)} = Pending
  BY DEF Pending, ToSet

\* The types while the compiler works.
LEMMA CompilingTypes ==
  NamesInv /\ ShapesOK /\ KnownOK /\ ProgramOK /\ Compiling => TypeOK
<1> SUFFICES ASSUME NamesInv, ShapesOK, KnownOK, ProgramOK, Compiling PROVE TypeOK
  OBVIOUS
<1>1. at \in 1..Len(Nodes)
  BY NodeFacts DEF NamesInv, GraphOK
<1>2. \A f \in DOMAIN buf : buf[f] \in DOMAIN layout \cup Pending
  BY DEF NamesInv, BufOK
<1> QED BY <1>1, <1>2, PendingNames DEF TypeOK, ShapesOK, KnownOK, ProgramOK, Compiling

\* While the compiler works the program does not run, and gains statements only.
LEMMA CompilingProgram ==
  ASSUME ProgramOK, UNCHANGED running, phase' # "run", stmts' = stmts \/ \E s : stmts' = Append(stmts, s)
  PROVE  ProgramOK'
<1>1. ip' = ip /\ opLimit' = opLimit /\ runs' = runs
  BY DEF running
<1>2. CASE stmts' = stmts
  BY <1>1, <1>2 DEF ProgramOK
<1>3. ASSUME NEW s, stmts' = Append(stmts, s) PROVE ProgramOK'
  <2>1. IsSeq(stmts')
    BY <1>3, AppendSet DEF ProgramOK
  <2>2. Len(stmts) \in Nat /\ Len(stmts') = Len(stmts) + 1
    BY <1>3 DEF ProgramOK, IsSeq
  <2>3. ip' \in 1..(Len(stmts') + 1)
    BY <1>1, <2>2 DEF ProgramOK
  <2> QED BY <1>1, <2>1, <2>3 DEF ProgramOK
<1> QED BY <1>2, <1>3

\* The types when it starts.
LEMMA StartTypes == Init => TypesInv
<1> SUFFICES ASSUME Init PROVE TypesInv
  OBVIOUS
<1>1. CompilerInv /\ phase = "visit"
  BY StartInv DEF Init
<1>2. /\ DOMAIN buf = {} /\ DOMAIN shape = {} /\ DOMAIN layout = {} /\ pinned = {}
      /\ dying = <<>> /\ stmts = <<>> /\ ip = 1 /\ opLimit = 0 /\ runs = 0
  BY DEF Init
<1>3. ShapesOK
  BY <1>2 DEF ShapesOK
<1>4. KnownOK
  BY <1>2 DEF KnownOK, ToSet
<1>5. ProgramOK
  <2>1. IsSeq(stmts) /\ Len(stmts) = 0
    BY <1>2 DEF IsSeq
  <2> QED BY <1>1, <1>2, <2>1, RunsAssumption DEF ProgramOK
<1>6. NamesInv /\ Compiling
  BY <1>1 DEF CompilerInv, Compiling
<1> QED BY <1>1, <1>3, <1>4, <1>5, <1>6, CompilingTypes DEF TypesInv

\* The shapes after each kind of step.
LEMMA MakesShapes ==
  ASSUME NamesInv, NamesApart, ShapesOK, KnownOK, Makes
  PROVE  ShapesOK' /\ KnownOK'
<1>1. /\ phase = "visit" /\ layout' = layout /\ dying' = dying /\ graph' = graph /\ at' = at
      /\ TodoMade' /\ BufMade /\ ShapeMade
      /\ pinned' \subseteq pinned \cup Pending'
  BY DEF Makes
<1>2. Pending = {} /\ Node' = Node
  BY <1>1, VisitFacts, SameNode
<1>3. \A c \in Pending' : c \in NamesOf(Node) /\ c \notin DOMAIN layout
  BY <1>1, <1>2, VisitFacts DEF TodoMade, Pending
<1>4. ShapesOK'
  <2>1. DOMAIN buf' = DOMAIN shape'
    BY <1>1 DEF BufMade, ShapeMade, ShapesOK
  <2>2. ASSUME NEW f \in DOMAIN buf'
        PROVE  /\ buf'[f] \in DOMAIN layout => Numel(shape'[f]) = layout[buf'[f]].n
               /\ \A i \in DOMAIN todo' :
                    todo'[i].name = buf'[f] => Numel(shape'[f]) = Numel(todo'[i].shape)
    <3>1. CASE f \in Pending' \cup {Node.name}
      <4>1. buf'[f] \in Pending'
        BY <1>1, <3>1 DEF BufMade
      <4>2. \A i \in DOMAIN todo' : todo'[i].name = buf'[f] => shape'[f] = todo'[i].shape
        BY <1>1, <2>1, <3>1 DEF ShapeMade
      <4> QED BY <1>3, <4>1, <4>2
    <3>2. CASE f \notin Pending' \cup {Node.name}
      <4>1. f \in DOMAIN buf /\ buf'[f] = buf[f] /\ shape'[f] = shape[f]
        BY <1>1, <2>1, <3>2 DEF BufMade, ShapeMade
      <4>2. buf[f] \in DOMAIN layout
        BY <1>1, <4>1, VisitFacts
      <4>3. \A i \in DOMAIN todo' : todo'[i].name \in Pending'
        BY DEF Pending
      <4> QED BY <1>3, <4>1, <4>2, <4>3 DEF ShapesOK
    <3> QED BY <3>1, <3>2
  <2> QED BY <1>1, <2>1, <2>2 DEF ShapesOK
<1>5. KnownOK'
  <2>1. DOMAIN buf \subseteq DOMAIN buf'
    BY <1>1 DEF BufMade
  <2> QED BY <1>1, <1>2, <2>1 DEF KnownOK
<1> QED BY <1>4, <1>5

LEMMA AliasShapes ==
  ASSUME NamesInv, NamesApart, ShapesOK, KnownOK, NEW x, Aliases(x)
  PROVE  ShapesOK' /\ KnownOK'
<1>1. /\ phase = "visit" /\ layout' = layout /\ todo' = todo /\ pinned' = pinned
      /\ graph' = graph /\ at' = at
      /\ dying' = Inputs /\ x \in DOMAIN buf /\ buf' = Named(buf, Node.name, buf[x])
  BY DEF Aliases
<1>2. PICK s : shape' = Named(shape, Node.name, s) /\ Numel(s) = Numel(shape[x])
  BY DEF Aliases
<1>3. /\ DOMAIN buf' = DOMAIN buf \cup {Node.name}
      /\ \A f \in DOMAIN buf' : buf'[f] = IF f = Node.name THEN buf[x] ELSE buf[f]
  BY <1>1 DEF Named
<1>4. /\ DOMAIN shape' = DOMAIN shape \cup {Node.name}
      /\ \A f \in DOMAIN shape' : shape'[f] = IF f = Node.name THEN s ELSE shape[f]
  BY <1>2 DEF Named
<1>5. ShapesOK'
  <2>1. DOMAIN buf' = DOMAIN shape'
    BY <1>3, <1>4 DEF ShapesOK
  <2>2. ASSUME NEW f \in DOMAIN buf'
        PROVE  \E g \in DOMAIN buf : buf'[f] = buf[g] /\ Numel(shape'[f]) = Numel(shape[g])
    BY <1>1, <1>2, <1>3, <1>4, <2>1, <2>2 DEF ShapesOK
  <2> QED BY <1>1, <2>1, <2>2 DEF ShapesOK
<1>6. Inputs' = Inputs /\ Pending' = Pending /\ todo = <<>>
  BY <1>1, SameNode, VisitFacts DEF Pending
<1>7. ToSet(Inputs) \subseteq DOMAIN buf
  BY InputFacts, InputKnown DEF NamesInv, GraphOK
<1>8. KnownOK'
  BY <1>1, <1>3, <1>6, <1>7 DEF KnownOK
<1> QED BY <1>5, <1>8

LEMMA QuietShapes ==
  ASSUME NamesInv, ShapesOK, KnownOK, VisitSkip \/ VisitOutput \/ NextNode \/ ReleaseOne,
         NamesApart
  PROVE  ShapesOK' /\ KnownOK'
<1>1. buf' = buf /\ shape' = shape /\ layout' = layout /\ todo' = todo /\ pinned' = pinned
  BY DEF VisitSkip, VisitOutput, NextNode, ReleaseOne, lowering
<1>2. Pending' = Pending
  BY <1>1 DEF Pending
<1>3. ToSet(dying') \subseteq DOMAIN buf
  <2>1. CASE VisitSkip
    BY <2>1, InputFacts, InputKnown DEF VisitSkip, NamesInv, GraphOK
  <2>2. CASE VisitOutput \/ NextNode
    BY <2>2 DEF VisitOutput, NextNode, lowering, KnownOK
  <2>3. CASE ReleaseOne
    BY <2>3, LeavingFacts DEF KnownOK
  <2> QED BY <2>1, <2>2, <2>3
<1> QED BY <1>1, <1>2, <1>3 DEF ShapesOK, KnownOK

LEMMA AllocShapes ==
  ASSUME NamesInv, NamesApart, ShapesOK, KnownOK, AllocOne
  PROVE  ShapesOK' /\ KnownOK'
<1>0. phase = "alloc"
  BY DEF AllocOne
<1> DEFINE b == First.name
<1>1. /\ graph' = graph /\ at' = at /\ buf' = buf /\ pinned' = pinned
      /\ b \notin DOMAIN layout /\ DOMAIN layout' = DOMAIN layout \cup {b}
      /\ \A c \in DOMAIN layout : layout'[c] = layout[c]
      /\ layout'[b].n = Numel(First.shape)
      /\ todo' = Tail(todo)
      /\ IF Len(todo) > 1 THEN phase' = "alloc"
         ELSE phase' = "release" /\ dying' = IF First.bake THEN <<>> ELSE Inputs
  BY <1>0, PlacedFacts
<1>2. IsSeq(todo) /\ todo # <<>> /\ 1 \in DOMAIN todo /\ First = todo[1]
  BY <1>0, FirstFacts
<1>3. \A i \in DOMAIN todo' : i + 1 \in DOMAIN todo /\ todo'[i] = todo[i + 1]
  BY <1>1, <1>2, TailSet
<1>4. shape' = shape
  BY DEF AllocOne
<1>5. ShapesOK'
  <2>1. ASSUME NEW f \in DOMAIN buf, buf[f] \in DOMAIN layout'
        PROVE  Numel(shape[f]) = layout'[buf[f]].n
    <3>1. CASE buf[f] \in DOMAIN layout
      BY <1>1, <3>1 DEF ShapesOK
    <3>2. CASE buf[f] = b
      BY <1>1, <1>2, <3>2 DEF ShapesOK
    <3> QED BY <1>1, <2>1, <3>1, <3>2
  <2>2. \A f \in DOMAIN buf : \A i \in DOMAIN todo' :
          todo'[i].name = buf[f] => Numel(shape[f]) = Numel(todo'[i].shape)
    BY <1>3 DEF ShapesOK
  <2> QED BY <1>1, <1>4, <2>1, <2>2 DEF ShapesOK
<1>6. KnownOK'
  <2>1. ToSet(dying') \subseteq DOMAIN buf
    <3>1. dying' = dying \/ dying' = <<>> \/ dying' = Inputs
      BY DEF AllocOne
    <3>2. ToSet(<<>>) = {}
      BY DEF ToSet
    <3> QED BY <3>1, <3>2, InputFacts, InputKnown DEF NamesInv, GraphOK, KnownOK
  <2>2. Pending \subseteq Pending' \cup {b}
    <3> SUFFICES ASSUME NEW i \in DOMAIN todo PROVE todo[i].name \in Pending' \cup {b}
      BY DEF Pending
    <3>1. todo[i] \in ToSet(Tail(todo)) \/ todo[i] = First
      <4>1. ToSet(todo) = ToSet(Tail(todo)) \cup {Head(todo)}
        BY <1>2, TailSet
      <4>2. todo[i] \in ToSet(todo)
        BY DEF ToSet
      <4> QED BY <4>1, <4>2 DEF First
    <3> QED BY <1>1, <3>1 DEF Pending, ToSet
  <2> QED BY <1>1, <2>1, <2>2 DEF KnownOK
<1> QED BY <1>5, <1>6

\* The types after a step of the compiler.
LEMMA LowerTypes ==
  ASSUME TypesInv, Lawful, Lower
  PROVE  TypesInv'
<1>1. CompilerInv' /\ NamesApart
  BY LowerStep DEF TypesInv, Lawful
<1>2. ASSUME Fail PROVE TypesInv'
  <2>1. /\ phase' = "failed" /\ graph' = graph /\ at' = at /\ todo' = todo /\ dying' = dying
        /\ buf' = buf /\ shape' = shape /\ layout' = layout /\ pinned' = pinned
        /\ stmts' = stmts /\ UNCHANGED running
    BY <1>2 DEF Fail, lowering
  <2>2. ProgramOK'
    BY <2>1, CompilingProgram DEF TypesInv
  <2>3. Nodes' = Nodes
    BY <2>1 DEF Nodes
  <2>4. ip' = ip /\ opLimit' = opLimit /\ runs' = runs
    BY <2>1 DEF running
  <2>5. TypeOK'
    BY <2>1, <2>3, <2>4 DEF TypesInv, TypeOK
  <2> QED BY <1>1, <2>1, <2>2, <2>5 DEF TypesInv, Compiling
<1>3. ASSUME NamesInv, ShapesOK', KnownOK', Compiling', UNCHANGED running, phase' # "run",
             stmts' = stmts \/ \E s : stmts' = Append(stmts, s)
      PROVE  TypesInv'
  <2>1. ProgramOK'
    BY <1>3, CompilingProgram DEF TypesInv
  <2>2. NamesInv'
    BY <1>1, <1>3 DEF CompilerInv
  <2>3. (NamesInv /\ ShapesOK /\ KnownOK /\ ProgramOK /\ Compiling => TypeOK)'
    BY CompilingTypes, PTL
  <2>4. TypeOK'
    BY <1>3, <2>1, <2>2, <2>3
  <2> QED BY <1>1, <1>3, <2>1, <2>4 DEF TypesInv
<1>4. CASE Visit
  <2>1. phase = "visit"
    BY <1>4 DEF Visit, OnOp, VisitInput, VisitSkip, VisitOutput,
      EmitBinary, EmitUnary, EmitAlias, EmitView, EmitGetitem, EmitArange,
      EmitMeshgrid, EmitStack, EmitCat, EmitPad, EmitPermute, EmitSlice,
      EmitSelect, EmitUpsample, EmitMaxPool, EmitMatmul, EmitConv
  <2>2. NamesInv /\ ShapesOK /\ KnownOK
    BY <2>1 DEF TypesInv, CompilerInv, Compiling
  <2>3. Fail \/ Makes \/ (\E x : Aliases(x)) \/ VisitSkip \/ VisitOutput
    BY <1>1, <1>4, <2>2, VisitCases DEF NamesInv
  <2>4. CASE Makes \/ (\E x : Aliases(x)) \/ VisitSkip \/ VisitOutput
    <3>1. ShapesOK' /\ KnownOK'
      BY <1>1, <2>2, <2>4, MakesShapes, AliasShapes, QuietShapes
    <3>2. /\ phase' \in {"alloc", "release", "ready"} /\ UNCHANGED running
          /\ stmts' = stmts \/ \E s : stmts' = Append(stmts, s)
      BY <2>4 DEF Makes, Stated, Aliases, VisitSkip, VisitOutput, lowering
    <3> QED BY <1>3, <2>2, <3>1, <3>2 DEF Compiling
  <2> QED BY <1>2, <2>3, <2>4
<1>5. CASE AllocOne
  <2>1. phase = "alloc"
    BY <1>5 DEF AllocOne
  <2>2. NamesInv /\ ShapesOK /\ KnownOK
    BY <2>1 DEF TypesInv, CompilerInv, Compiling
  <2>3. ShapesOK' /\ KnownOK'
    BY <1>1, <1>5, <2>2, AllocShapes
  <2>4. phase' \in {"alloc", "release"} /\ UNCHANGED running /\ stmts' = stmts
    BY <1>5, <2>1 DEF AllocOne
  <2> QED BY <1>3, <2>2, <2>3, <2>4 DEF Compiling
<1>6. CASE AllocFail
  BY <1>2, <1>6 DEF AllocFail
<1>7. CASE ReleaseOne \/ NextNode
  <2>1. phase = "release"
    BY <1>7 DEF ReleaseOne, NextNode
  <2>2. NamesInv /\ ShapesOK /\ KnownOK
    BY <2>1 DEF TypesInv, CompilerInv, Compiling
  <2>3. ShapesOK' /\ KnownOK'
    BY <1>1, <1>7, <2>2, QuietShapes
  <2>4. phase' \in {"visit", "release"} /\ UNCHANGED running /\ stmts' = stmts
    BY <1>7, <2>1 DEF ReleaseOne, NextNode
  <2> QED BY <1>3, <2>2, <2>3, <2>4 DEF Compiling
<1> QED BY <1>4, <1>5, <1>6, <1>7 DEF Lower, Visit

\* The types after a step of the program.
LEMMA RunTypes ==
  ASSUME TypesInv, Stepped, Run
  PROVE  TypesInv'
<1>1. CompilerInv'
  BY RunQuiet DEF TypesInv
<1>2. /\ phase \in {"ready", "eot", "run"} /\ phase' \in {"run", "eot", "spin"} /\ UNCHANGED lowering
  BY DEF Run, Start, RunStep, GoldenCheck
<1>3. /\ graph' = graph /\ at' = at /\ todo' = todo /\ dying' = dying
      /\ buf' = buf /\ shape' = shape /\ layout' = layout /\ pinned' = pinned
      /\ stmts' = stmts /\ Nodes' = Nodes
  BY <1>2 DEF lowering, Nodes
<1>4. PICK n \in Nat : n = Len(stmts) /\ DOMAIN stmts = 1..n
  BY SeqSet DEF TypesInv, ProgramOK, IsSeq
<1>5. ASSUME NEW i \in 1..n
      PROVE  /\ Len(stmts[i].steps) \in Nat /\ Len(stmts[i].steps) > 0
             /\ DOMAIN stmts[i].steps = 1..Len(stmts[i].steps)
  <2>1. stmts[i] \in ToSet(stmts)
    BY <1>4 DEF ToSet
  <2> QED BY <2>1, SeqSet DEF Stepped, IsSeq
<1>6. ProgramOK'
  <2>1. CASE Start
    <3>1. phase' = "run" /\ ip' = 1 /\ tile' = 1 /\ runs' = runs + 1 /\ runs < MaxRuns
      BY <2>1 DEF Start
    <3>2. opLimit' \in 1..(n + 1) \/ opLimit' = opLimit + 1
      BY <1>4, <2>1 DEF Start
    <3>3. opLimit' \in Nat /\ runs' \in 0..MaxRuns
      BY <1>4, <3>1, <3>2, RunsAssumption DEF TypesInv, ProgramOK
    <3>4. ip' <= n => tile' \in DOMAIN stmts[ip'].steps
      BY <1>5, <3>1
    <3> QED BY <1>3, <1>4, <3>1, <3>3, <3>4 DEF TypesInv, ProgramOK, Stmt
  <2>2. CASE RunStep
    <3>1. /\ phase = "run" /\ ip <= n /\ opLimit' = opLimit /\ runs' = runs
          /\ IF tile < Len(Stmt.steps) THEN tile' = tile + 1 /\ ip' = ip /\ phase' = phase
             ELSE tile' = 1 /\ ip' = ip + 1
      BY <1>4, <2>2 DEF RunStep
    <3>2. ip \in 1..n /\ tile \in DOMAIN Stmt.steps
      BY <1>4, <3>1 DEF TypesInv, ProgramOK
    <3>3. ip' \in 1..(n + 1)
      BY <1>4, <3>1, <3>2
    <3>4. ip' <= n => tile' \in DOMAIN stmts[ip'].steps
      <4>1. CASE tile < Len(Stmt.steps)
        BY <1>5, <3>1, <3>2, <4>1 DEF Stmt
      <4>2. CASE ~ (tile < Len(Stmt.steps))
        BY <1>5, <3>1, <3>3, <4>2
      <4> QED BY <4>1, <4>2
    <3> QED BY <1>3, <1>4, <3>1, <3>3, <3>4 DEF TypesInv, ProgramOK, Stmt
  <2>3. CASE GoldenCheck
    <3>1. phase' # "run" /\ ip' = ip /\ opLimit' = opLimit /\ runs' = runs
      BY <2>3 DEF GoldenCheck, running
    <3> QED BY <1>3, <3>1 DEF TypesInv, ProgramOK
  <2> QED BY <2>1, <2>2, <2>3 DEF Run
<1>7. TypeOK'
  BY <1>2, <1>3, <1>6 DEF TypesInv, TypeOK, ProgramOK
<1> QED BY <1>1, <1>2, <1>6, <1>7 DEF TypesInv, Compiling

\* The invariant for the types is inductive.
LEMMA TypesStep == TypesInv /\ Lawful /\ Stepped /\ [Next]_vars => TypesInv'
<1> SUFFICES ASSUME TypesInv, Lawful, Stepped, [Next]_vars PROVE TypesInv'
  OBVIOUS
<1>1. CASE Stopped \/ UNCHANGED vars
  <2>1. CompilerInv' /\ UNCHANGED vars
    BY <1>1, SameVars DEF TypesInv, Stopped
  <2>2. /\ phase' = phase /\ graph' = graph /\ at' = at /\ todo' = todo /\ dying' = dying
        /\ buf' = buf /\ shape' = shape /\ layout' = layout /\ pinned' = pinned
        /\ stmts' = stmts /\ ip' = ip /\ tile' = tile /\ opLimit' = opLimit /\ runs' = runs
        /\ Nodes' = Nodes /\ Stmt' = Stmt /\ Pending' = Pending
    BY <2>1 DEF vars, lowering, running, Nodes, Stmt, Pending
  <2>3. TypeOK' /\ ProgramOK'
    BY <2>2 DEF TypesInv, TypeOK, ProgramOK
  <2>4. (Compiling => ShapesOK /\ KnownOK)'
    BY <2>2 DEF TypesInv, Compiling, ShapesOK, KnownOK
  <2> QED BY <2>1, <2>3, <2>4 DEF TypesInv
<1> QED BY <1>1, LowerTypes, RunTypes DEF Next

\* The type invariant of the compiler and of the program it makes, for every set
\* of graphs whose handlers stage at least one element.
THEOREM CompilerTypes == Spec /\ []Lawful /\ []Stepped => []TypeOK
<1>1. TypesInv => TypeOK
  BY DEF TypesInv
<1> QED BY <1>1, StartTypes, TypesStep, PTL DEF Spec

------------------------------------------------------------------------------
(****************************************************************************)
(* How a GEMM is cut into jobs: one dimension, and the nest of its loops.   *)
(****************************************************************************)
\* Products of numbers that are not smaller.
LEMMA TimesMonotone ==
  ASSUME NEW a \in Nat, NEW b \in Nat, NEW c \in Nat, NEW d \in Nat, a <= b, c <= d
  PROVE  a * c \in Nat /\ b * d \in Nat /\ a * c <= b * d
<1>1. a * c <= b * c
  <2>1. PICK e \in Nat : b = a + e
    <3>1. b - a \in Nat /\ b = a + (b - a)
      OBVIOUS
    <3> QED BY <3>1
  <2>2. b * c = a * c + e * c /\ e * c >= 0
    BY <2>1
  <2> QED BY <2>2
<1>2. b * c <= b * d
  <2>1. PICK e \in Nat : d = c + e
    <3>1. d - c \in Nat /\ d = c + (d - c)
      OBVIOUS
    <3> QED BY <3>1
  <2>2. b * d = b * c + b * e /\ b * e >= 0
    BY <2>1
  <2> QED BY <2>2
<1>3. a * c \in Nat /\ b * c \in Nat /\ b * d \in Nat
  OBVIOUS
<1> DEFINE u == a * c  v == b * c  w == b * d
<1>4. u <= v /\ v <= w /\ u \in Nat /\ v \in Nat /\ w \in Nat
  BY <1>1, <1>2, <1>3
<1> HIDE DEF u, v, w
<1>5. u <= w
  BY <1>4
<1> USE DEF u, v, w
<1> QED BY <1>3, <1>5

\* Quotient and rest.
LEMMA DivFacts ==
  ASSUME NEW x \in Nat, NEW t \in Nat, t > 0
  PROVE  /\ x \div t \in Nat /\ x % t \in 0..(t - 1)
         /\ x = t * (x \div t) + (x % t)
<1>1. x \div t \in Int /\ x % t \in 0..(t - 1) /\ x = t * (x \div t) + (x % t)
  OBVIOUS
<1>2. x \div t >= 0
  <2> DEFINE q == x \div t  r == x % t
  <2> HIDE DEF q, r
  <2>1. q \in Int /\ r \in 0..(t - 1) /\ x = t * q + r
    BY <1>1 DEF q, r
  <2>2. ASSUME q < 0 PROVE FALSE
    <3>1. PICK e \in Nat : q = -1 - e
      <4>1. -1 - q \in Nat /\ q = -1 - (-1 - q)
        BY <2>1, <2>2
      <4> QED BY <4>1
    <3>2. t * q = -t - t * e
      BY <3>1
    <3>3. t * e \in Nat
      BY <3>1
    <3> QED BY <2>1, <3>2, <3>3
  <2> QED BY <2>1, <2>2 DEF q
<1> QED BY <1>1, <1>2

\* One multiple of t, and one rest, give x.
LEMMA DivUnique ==
  ASSUME NEW t \in Nat, t > 0, NEW p \in Nat, NEW q \in Nat,
         NEW r \in 0..(t - 1), NEW u \in 0..(t - 1), t * p + r = t * q + u
  PROVE  p = q /\ r = u
<1>1. ASSUME NEW a \in Nat, NEW b \in Nat, NEW c \in 0..(t - 1), NEW d \in 0..(t - 1),
             t * a + c = t * b + d, a < b
      PROVE  FALSE
  <2>1. PICK e \in Nat : b = a + 1 + e
    <3>1. b - a - 1 \in Nat /\ b = a + 1 + (b - a - 1)
      BY <1>1
    <3> QED BY <3>1
  <2>2. t * b = t * a + t + t * e
    BY <2>1
  <2>3. t * e \in Nat /\ t * a \in Nat
    BY <2>1
  <2> QED BY <1>1, <2>2, <2>3
<1>2. ~ (p < q) /\ ~ (q < p)
  BY <1>1
<1>3. p = q
  BY <1>2
<1> QED BY <1>3

\* The smaller of two.
LEMMA MinOfTwo ==
  ASSUME NEW a \in Int, NEW b \in Int
  PROVE  Min({a, b}) = IF a <= b THEN a ELSE b
<1>1. \A x \in {a, b} : (\A y \in {a, b} : x <= y) <=> x = IF a <= b THEN a ELSE b
  OBVIOUS
<1>2. Min({a, b}) = CHOOSE x \in {a, b} : \A y \in {a, b} : x <= y
  BY DEF Min
<1>3. (IF a <= b THEN a ELSE b) \in {a, b}
  OBVIOUS
<1> QED BY <1>1, <1>2, <1>3

\* Where the pieces of a dimension start.
LEMMA StartsFacts ==
  ASSUME NEW n \in Nat, NEW t \in Nat, t > 0
  PROVE  /\ CeilDiv(n, t) \in Nat /\ DOMAIN Starts(n, t) = 1..CeilDiv(n, t)
         /\ Len(Starts(n, t)) = CeilDiv(n, t)
         /\ \A i \in 1..CeilDiv(n, t) :
              /\ Starts(n, t)[i] = (i - 1) * t
              /\ (i - 1) * t \in Nat /\ (i - 1) * t < n
<1> DEFINE c == CeilDiv(n, t)
<1>0. n + t - 1 \in Nat /\ c = (n + t - 1) \div t
  BY DEF CeilDiv
<1>1. PICK r \in 0..(t - 1) : c \in Nat /\ n + t - 1 = t * c + r
  BY <1>0, DivFacts
<1>2. Starts(n, t) = [i \in 1..c |-> (i - 1) * t]
  BY DEF Starts
<1>3. DOMAIN Starts(n, t) = 1..c /\ \A i \in 1..c : Starts(n, t)[i] = (i - 1) * t
  BY <1>2
<1>4. Len(Starts(n, t)) = c
  BY <1>1, <1>2
<1>5. ASSUME NEW i \in 1..c PROVE (i - 1) * t \in Nat /\ (i - 1) * t < n
  <2> HIDE DEF c
  <2>1. PICK d \in Nat : c = i + d
    <3>1. c - i \in Nat /\ c = i + (c - i)
      BY <1>1
    <3> QED BY <3>1
  <2>2. t * c = (i - 1) * t + t + t * d
    BY <2>1
  <2>3. t * d \in Nat /\ (i - 1) * t \in Nat
    BY <1>1, <2>1
  <2> QED BY <1>1, <2>2, <2>3
<1> QED BY <1>1, <1>3, <1>4, <1>5

\* x is in the piece of length t, or less at the end, that starts at s.
In(x, s, t, n) == s <= x /\ x < s + Min({t, n - s})

\* Every element is in exactly one piece.
LEMMA PieceOf ==
  ASSUME NEW n \in Nat, NEW t \in Nat, t > 0, NEW x \in 0..(n - 1)
  PROVE  /\ x \div t + 1 \in 1..CeilDiv(n, t)
         /\ \A i \in 1..CeilDiv(n, t) :
              In(x, (i - 1) * t, t, n) <=> i = x \div t + 1
<1> DEFINE c == CeilDiv(n, t)  q == x \div t
<1>1. PICK r \in 0..(t - 1) : q \in Nat /\ x = t * q + r
  BY DivFacts
<1>2. c \in Nat /\ \A i \in 1..c : (i - 1) * t \in Nat /\ (i - 1) * t < n
  BY StartsFacts
<1>3. PICK u \in 0..(t - 1) : n + t - 1 = t * c + u
  <2>1. n + t - 1 \in Nat /\ c = (n + t - 1) \div t
    BY DEF CeilDiv
  <2> QED BY <2>1, DivFacts
<1> HIDE DEF c, q
<1>4. q + 1 \in 1..c
  <2>1. ASSUME q >= c PROVE FALSE
    <3>1. t * c <= t * q /\ t * c \in Nat /\ t * q \in Nat
      BY <1>1, <1>2, <2>1, TimesMonotone
    <3> QED BY <1>1, <1>3, <3>1
  <2> QED BY <1>1, <1>2, <2>1
<1>5. ASSUME NEW i \in 1..c
      PROVE  In(x, (i - 1) * t, t, n) <=> i = q + 1
  <2> DEFINE s == (i - 1) * t
  <2>1. s \in Nat /\ s < n
    BY <1>2
  <2>2. Min({t, n - s}) = IF t <= n - s THEN t ELSE n - s
    BY <2>1, MinOfTwo
  <2>3. In(x, s, t, n) <=> s <= x /\ x < s + t
    BY <2>1, <2>2 DEF In
  <2>4. ASSUME i = q + 1 PROVE s <= x /\ x < s + t
    <3>1. s = t * q
      BY <1>1, <2>4
    <3> QED BY <1>1, <2>1, <3>1
  <2>5. ASSUME s <= x, x < s + t PROVE i = q + 1
    <3> DEFINE v == x - s
    <3>1. v \in 0..(t - 1) /\ i - 1 \in Nat
      BY <1>2, <2>1, <2>5
    <3>2. t * (i - 1) + v = t * q + r
      <4>1. s = t * (i - 1)
        BY <1>2
      <4> QED BY <1>1, <2>1, <4>1
    <3> HIDE DEF v
    <3>3. i - 1 = q
      BY <1>1, <3>1, <3>2, DivUnique
    <3> QED BY <1>1, <1>2, <3>3
  <2> QED BY <2>3, <2>4, <2>5
<1> QED BY <1>4, <1>5 DEF c, q

\* The places of the outer and of the inner loop at turn i.
Outer(i, b) == ((i - 1) \div b) + 1
Inner(i, b) == ((i - 1) % b) + 1

\* Turn i is one pair of places.
LEMMA PairFacts ==
  ASSUME NEW a \in Nat, NEW b \in Nat, b > 0, NEW i \in 1..(a * b)
  PROVE  /\ Outer(i, b) \in 1..a /\ Inner(i, b) \in 1..b
         /\ i = b * (Outer(i, b) - 1) + Inner(i, b)
<1>1. i - 1 \in Nat /\ a * b \in Nat /\ i <= a * b
  OBVIOUS
<1>2. PICK q \in Nat, r \in 0..(b - 1) :
        q = (i - 1) \div b /\ r = (i - 1) % b /\ i - 1 = b * q + r
  BY <1>1, DivFacts
<1>3. q < a
  <2>1. ASSUME a <= q PROVE FALSE
    <3>1. b * a <= b * q /\ b * a \in Nat /\ b * q \in Nat /\ b * a = a * b
      BY <2>1, TimesMonotone
    <3> QED BY <1>1, <1>2, <3>1
  <2> QED BY <2>1
<1>4. Outer(i, b) = q + 1 /\ Inner(i, b) = r + 1
  BY <1>2 DEF Outer, Inner
<1>5. i = b * q + (r + 1)
  BY <1>1, <1>2
<1> QED BY <1>3, <1>4, <1>5

\* Every pair has a turn.
LEMMA PairIndex ==
  ASSUME NEW a \in Nat, NEW b \in Nat, b > 0, NEW p \in 1..a, NEW q \in 1..b
  PROVE  \E i \in 1..(a * b) : Outer(i, b) = p /\ Inner(i, b) = q
<1> DEFINE i == b * (p - 1) + q
<1>1. i \in 1..(a * b)
  <2>1. PICK d \in Nat : a = p + d
    <3>1. a - p \in Nat /\ a = p + (a - p)
      OBVIOUS
    <3> QED BY <3>1
  <2>2. a * b = b * (p - 1) + b + b * d
    BY <2>1
  <2>3. b * d \in Nat /\ b * (p - 1) \in Nat
    BY <2>1
  <2> QED BY <2>2, <2>3
<1>2. i - 1 \in Nat /\ i - 1 = b * (p - 1) + (q - 1)
  <2>1. b * (p - 1) \in Nat
    OBVIOUS
  <2> QED BY <2>1
<1>3. PICK u \in Nat, r \in 0..(b - 1) :
        u = (i - 1) \div b /\ r = (i - 1) % b /\ i - 1 = b * u + r
  BY <1>2, DivFacts
<1>4. u = p - 1 /\ r = q - 1
  <2>1. b * (p - 1) + (q - 1) = b * u + r
    BY <1>2, <1>3
  <2>2. p - 1 \in Nat /\ q - 1 \in 0..(b - 1)
    OBVIOUS
  <2> QED BY <1>3, <2>1, <2>2, DivUnique
<1>5. Outer(i, b) = p /\ Inner(i, b) = q
  BY <1>3, <1>4 DEF Outer, Inner
<1> HIDE DEF i
<1> QED BY <1>1, <1>5

------------------------------------------------------------------------------
(****************************************************************************)
(* The tile of a GEMM.                                                      *)
(****************************************************************************)
\* What a tile is chosen from is no longer than the dimension.
LEMMA CandidateFacts ==
  ASSUME NEW dim \in Nat, NEW align \in Nat, align > 0, NEW c \in DimCandidates(dim, align)
  PROVE  c \in Nat /\ c > 0 /\ c <= dim /\ dim > 0
<1>1. dim > 0
  BY DEF DimCandidates
<1>2. CASE c = dim
  BY <1>1, <1>2
<1>3. CASE c # dim
  <2>1. PICK i \in 1..(dim \div align) : c = align * i
    BY <1>1, <1>3 DEF DimCandidates
  <2>2. PICK q \in Nat, r \in 0..(align - 1) : q = dim \div align /\ dim = align * q + r
    BY DivFacts
  <2>3. PICK d \in Nat : q = i + d
    <3>1. q - i \in Nat /\ q = i + (q - i)
      BY <2>1, <2>2
    <3> QED BY <3>1
  <2>4. align * q = align * i + align * d
    BY <2>1, <2>3
  <2>5. PICK e \in Nat : i = 1 + e
    <3>1. i - 1 \in Nat /\ i = 1 + (i - 1)
      BY <2>1
    <3> QED BY <3>1
  <2>6. align * i = align + align * e
    BY <2>5
  <2>7. align * d \in Nat /\ align * e \in Nat
    BY <2>3, <2>5
  <2> QED BY <1>1, <2>1, <2>2, <2>4, <2>6, <2>7
<1> QED BY <1>2, <1>3

\* The tiles a GEMM may be cut into, and those that fit.
Candidates(m, n, k) ==
  DimCandidates(m, PeDim) \X DimCandidates(n, PeDim) \X DimCandidates(k, KStep)

Fits(m, n, k, scratch) ==
  {c \in Candidates(m, n, k) : TileScratchBytes(c[1], c[2], c[3], n, k) <= scratch}

\* The order in which tiles are preferred.
TileKey(c) == <<c[1] * c[2] * c[3], c[3], c[2], c[1]>>

\* A tile is not larger than the GEMM.
LEMMA CandidateSizes ==
  ASSUME NEW m \in Nat, NEW n \in Nat, NEW k \in Nat, NEW c \in Candidates(m, n, k)
  PROVE  /\ c = <<c[1], c[2], c[3]>>
         /\ c[1] \in Nat /\ c[1] > 0 /\ c[1] <= m
         /\ c[2] \in Nat /\ c[2] > 0 /\ c[2] <= n
         /\ c[3] \in Nat /\ c[3] > 0 /\ c[3] <= k
<1>1. /\ c = <<c[1], c[2], c[3]>>
      /\ c[1] \in DimCandidates(m, PeDim) /\ c[2] \in DimCandidates(n, PeDim)
      /\ c[3] \in DimCandidates(k, KStep)
  BY DEF Candidates
<1>2. PeDim \in Nat /\ PeDim > 0 /\ KStep \in Nat /\ KStep > 0
  BY TilesAssumption
<1> QED BY <1>1, <1>2, CandidateFacts

\* The candidate of most work, then of the longest K, N and M, is there.
LEMMA LargestExists ==
  ASSUME NEW S, S # {}, NEW f, NEW b \in Nat, \A c \in S : f[c] \in 0..b
  PROVE  \E c \in S : \A d \in S : f[c] >= f[d]
<1> DEFINE V == {f[c] : c \in S}
<1>1. V \in SUBSET (0..b) /\ V # {}
  OBVIOUS
<1>2. PICK v \in V : \A w \in V : v >= w
  <2> HIDE DEF V
  <2>1. Max(V) \in V /\ \A w \in V : Max(V) >= w
    BY <1>1, MaxExists
  <2> QED BY <2>1
<1> QED BY <1>2

\* The best of some tiles is one of them.
LEMMA TileExists ==
  ASSUME NEW m \in Nat, NEW n \in Nat, NEW k \in Nat,
         NEW S \in SUBSET Candidates(m, n, k), S # {}
  PROVE  Best(S, [c \in S |-> TileKey(c)]) \in S
<1> DEFINE f == [c \in S |-> c[1] * c[2] * c[3]]
           b == (m * n) * k
<1>1. \A c \in S : /\ c = <<c[1], c[2], c[3]>>
                   /\ c[1] \in Nat /\ c[1] <= m /\ c[2] \in Nat /\ c[2] <= n
                   /\ c[3] \in Nat /\ c[3] <= k
  BY CandidateSizes
<1>2. b \in Nat /\ \A c \in S : f[c] \in 0..b
  <2>1. m * n \in Nat /\ (m * n) * k \in Nat
    BY TimesMonotone
  <2>2. ASSUME NEW c \in S PROVE f[c] \in 0..b
    <3>1. c[1] * c[2] <= m * n /\ c[1] * c[2] \in Nat
      BY <1>1, TimesMonotone
    <3>2. (c[1] * c[2]) * c[3] <= (m * n) * k /\ (c[1] * c[2]) * c[3] \in Nat
      BY <1>1, <2>1, <3>1, TimesMonotone
    <3> QED BY <2>1, <3>2
  <2> QED BY <2>1, <2>2
<1> DEFINE S1 == {c \in S : \A d \in S : f[c] >= f[d]}
           S2 == {c \in S1 : \A d \in S1 : c[3] >= d[3]}
           S3 == {c \in S2 : \A d \in S2 : c[2] >= d[2]}
           S4 == {c \in S3 : \A d \in S3 : c[1] >= d[1]}
<1>3. S1 # {}
  <2> HIDE DEF f, b
  <2>1. \E c \in S : \A d \in S : f[c] >= f[d]
    BY <1>2, LargestExists
  <2> QED BY <2>1
<1>4. ASSUME NEW T \in SUBSET S, T # {}, NEW x \in {1, 2, 3}
      PROVE  \E c \in T : \A d \in T : c[x] >= d[x]
  <2> DEFINE g == [c \in T |-> c[x]]
             h == m + n + k
  <2>1. h \in Nat /\ \A c \in T : g[c] \in 0..h
    BY <1>1
  <2>2. \A c \in T : g[c] = c[x]
    OBVIOUS
  <2> HIDE DEF g, h
  <2>3. \E c \in T : \A d \in T : g[c] >= g[d]
    BY <1>4, <2>1, LargestExists
  <2> QED BY <2>2, <2>3
<1>5. S2 # {}
  <2> HIDE DEF f
  <2>1. \E c \in S1 : \A d \in S1 : c[3] >= d[3]
    BY <1>3, <1>4
  <2> QED BY <2>1
<1>6. S3 # {}
  <2>0. S2 \in SUBSET S
    OBVIOUS
  <2> HIDE DEF S2
  <2>1. \E c \in S2 : \A d \in S2 : c[2] >= d[2]
    BY <1>4, <1>5, <2>0
  <2> QED BY <2>1
<1>7. S4 # {}
  <2>0. S3 \in SUBSET S
    OBVIOUS
  <2> HIDE DEF S3
  <2>1. \E c \in S3 : \A d \in S3 : c[1] >= d[1]
    BY <1>4, <1>6, <2>0
  <2> QED BY <2>1
<1>8. PICK c \in S4 : TRUE
  BY <1>7
<1> DEFINE key == [a \in S |-> TileKey(a)]
<1>9. ASSUME NEW d \in S, d # c PROVE LexGreater(key[c], key[d])
  <2>1. /\ c \in S /\ key[c] = TileKey(c) /\ key[d] = TileKey(d)
        /\ f[c] = c[1] * c[2] * c[3] /\ f[d] = d[1] * d[2] * d[3]
    OBVIOUS
  <2>2. PICK u, v : u = f[c] /\ v = f[d]
    OBVIOUS
  <2>3. u \in Nat /\ v \in Nat
    BY <1>2, <2>1, <2>2
  <2>4. key[c] = <<u, c[3], c[2], c[1]>> /\ key[d] = <<v, d[3], d[2], d[1]>>
    BY <2>1, <2>2 DEF TileKey
  <2>5. \/ u > v
        \/ u = v /\ c[3] > d[3]
        \/ u = v /\ c[3] = d[3] /\ c[2] > d[2]
        \/ u = v /\ c[3] = d[3] /\ c[2] = d[2] /\ c[1] > d[1]
    <3>1. c \in S1 /\ c \in S2 /\ c \in S3 /\ c \in S4
      OBVIOUS
    <3>2. u >= v /\ (u = v => d \in S1)
      <4>1. u >= v
        BY <2>2
      <4>2. ASSUME u = v PROVE d \in S1
        BY <2>2, <3>1, <4>2
      <4> QED BY <4>1, <4>2
    <3>3. d \in S1 => c[3] >= d[3] /\ (c[3] = d[3] => d \in S2)
      BY <3>1
    <3>4. d \in S2 => c[2] >= d[2] /\ (c[2] = d[2] => d \in S3)
      BY <3>1
    <3>5. d \in S3 => c[1] >= d[1]
      BY <3>1
    <3>6. c[1] # d[1] \/ c[2] # d[2] \/ c[3] # d[3]
      BY <1>1, <1>9, <2>1
    <3>7. /\ c[1] \in Nat /\ c[2] \in Nat /\ c[3] \in Nat
          /\ d[1] \in Nat /\ d[2] \in Nat /\ d[3] \in Nat
      BY <1>1, <2>1
    <3> HIDE DEF S1, S2, S3, S4
    <3> QED BY <2>3, <3>2, <3>3, <3>4, <3>5, <3>6, <3>7
  <2> HIDE DEF S1, S2, S3, S4, f, key
  <2>6. PICK x, y : x = key[c] /\ y = key[d]
    OBVIOUS
  <2>7. /\ x[1] = u /\ x[2] = c[3] /\ x[3] = c[2] /\ x[4] = c[1]
        /\ y[1] = v /\ y[2] = d[3] /\ y[3] = d[2] /\ y[4] = d[1]
        /\ DOMAIN x = 1..4
    BY <2>4, <2>6
  <2>8. LexGreater(x, y)
    BY <2>5, <2>7 DEF LexGreater
  <2> QED BY <2>6, <2>8
<1>10. c \in S
  OBVIOUS
<1>11. \E a \in S : \A d \in S : d # a => LexGreater(key[a], key[d])
  BY <1>9, <1>10
<1> HIDE DEF key, S1, S2, S3, S4, f
<1>12. Best(S, key) \in S
  BY <1>11, Zenon DEF Best
<1> QED BY <1>12 DEF key

\* A GEMM without a tile has no jobs; its tile is a candidate that fits.
LEMMA TileFacts ==
  ASSUME NEW m \in Nat, NEW n \in Nat, NEW k \in Nat, NEW s, GemmJobs(m, n, k, s) # <<>>
  PROVE  /\ ChooseTile(m, n, k, s) \in Fits(m, n, k, s)
         /\ ChooseTile(m, n, k, s) # NoTile
<1>1. ChooseTile(m, n, k, s) # NoTile
  BY DEF GemmJobs
<1>2. Fits(m, n, k, s) \in SUBSET Candidates(m, n, k)
  BY DEF Fits
<1>3. ChooseTile(m, n, k, s) =
        IF Fits(m, n, k, s) = {} THEN NoTile
        ELSE Best(Fits(m, n, k, s), [c \in Fits(m, n, k, s) |-> TileKey(c)])
  BY DEF ChooseTile, Fits, Candidates, TileKey
<1> QED BY <1>1, <1>2, <1>3, TileExists

------------------------------------------------------------------------------
(****************************************************************************)
(* The jobs of a GEMM.                                                      *)
(****************************************************************************)
\* A triple, put together as the nest of loops does.
LEMMA AppendThird ==
  ASSUME NEW x \in Int, NEW y \in Int, NEW z \in Int
  PROVE  LET a == Append(<<x, y>>, z) IN a[1] = x /\ a[2] = y /\ a[3] = z
  OBVIOUS

\* The turns of a nest of three loops.
Volume(a, b, c) == (a * b) * c

\* Where the pieces of a dimension may start.
Offsets(a) == [1..a -> Nat]

\* The nest visits every triple of starts, the last dimension innermost.
LEMMA NestFacts ==
  ASSUME NEW a \in Nat, NEW b \in Nat, NEW c \in Nat, b > 0, c > 0,
         NEW u \in Offsets(a), NEW v \in Offsets(b), NEW w \in Offsets(c)
  PROVE  /\ DOMAIN Nest3(u, v, w) = 1..Volume(a, b, c)
         /\ \A i \in 1..Volume(a, b, c) :
              LET x == Nest3(u, v, w)[i] IN
              /\ Outer(i, c) \in 1..(a * b)
              /\ x[1] = u[Outer(Outer(i, c), b)]
              /\ x[2] = v[Inner(Outer(i, c), b)]
              /\ x[3] = w[Inner(i, c)]
<1> USE DEF Volume, Offsets
<1>1. Len(u) = a /\ Len(v) = b /\ Len(w) = c
  OBVIOUS
<1> DEFINE g == Nest2(u, v)
<1>2. a * b \in Nat /\ (a * b) * c \in Nat
  <2>1. a * b \in Nat
    OBVIOUS
  <2> QED BY <2>1
<1>3. g = [i \in 1..(a * b) |-> <<u[Outer(i, b)], v[Inner(i, b)]>>]
  BY <1>1 DEF Nest2, Outer, Inner
<1>4. Len(g) = a * b
  BY <1>2, <1>3
<1> HIDE DEF g
<1>5. Nest3(u, v, w) = [i \in 1..Volume(a, b, c) |-> Append(g[Outer(i, c)], w[Inner(i, c)])]
  BY <1>1, <1>4 DEF Nest3, Outer, Inner, g
<1>6. ASSUME NEW i \in 1..Volume(a, b, c)
      PROVE  LET x == Nest3(u, v, w)[i] IN
              /\ Outer(i, c) \in 1..(a * b)
              /\ x[1] = u[Outer(Outer(i, c), b)]
              /\ x[2] = v[Inner(Outer(i, c), b)]
              /\ x[3] = w[Inner(i, c)]
  <2>1. PICK o \in 1..(a * b), r \in 1..c : o = Outer(i, c) /\ r = Inner(i, c)
    BY <1>2, PairFacts
  <2>2. PICK p \in 1..a, q \in 1..b : p = Outer(o, b) /\ q = Inner(o, b)
    BY PairFacts
  <2>3. Nest3(u, v, w)[i] = Append(<<u[p], v[q]>>, w[r])
    BY <1>3, <1>5, <2>1, <2>2
  <2>4. u[p] \in Int /\ v[q] \in Int /\ w[r] \in Int
    OBVIOUS
  <2> QED BY <2>1, <2>2, <2>3, <2>4, AppendThird
<1> QED BY <1>5, <1>6

\* The pieces of the three dimensions a job is made of, and which job that is.
JobIndex(p, b, c) == c * ((b * (p[1] - 1) + p[2]) - 1) + p[3]

Panels(i, b, c) == <<Outer(Outer(i, c), b), Inner(Outer(i, c), b), Inner(i, c)>>

\* p is a piece of each dimension.
InPanels(p, a, b, c) == p[1] \in 1..a /\ p[2] \in 1..b /\ p[3] \in 1..c

\* Every turn is at a piece of each dimension.
LEMMA PanelFacts ==
  ASSUME NEW a \in Nat, NEW b \in Nat, NEW c \in Nat, b > 0, c > 0,
         NEW i \in 1..Volume(a, b, c)
  PROVE  InPanels(Panels(i, b, c), a, b, c) /\ i = JobIndex(Panels(i, b, c), b, c)
<1> USE DEF Volume, JobIndex, InPanels
<1>0. a * b \in Nat
  OBVIOUS
<1>1. /\ Outer(i, c) \in 1..(a * b) /\ Inner(i, c) \in 1..c
      /\ i = c * (Outer(i, c) - 1) + Inner(i, c)
  BY <1>0, PairFacts
<1> DEFINE o == Outer(i, c)
<1>2. /\ Outer(o, b) \in 1..a /\ Inner(o, b) \in 1..b
      /\ o = b * (Outer(o, b) - 1) + Inner(o, b)
  BY <1>1, PairFacts
<1> QED BY <1>1, <1>2 DEF Panels

\* The nest comes to that piece of each dimension.
HasJob(a, b, c, p, q, r) == \E i \in 1..Volume(a, b, c) : Panels(i, b, c) = <<p, q, r>>

\* It comes to all of them.
LEMMA PanelExists ==
  ASSUME NEW a \in Nat, NEW b \in Nat, NEW c \in Nat, b > 0, c > 0,
         NEW p \in 1..a, NEW q \in 1..b, NEW r \in 1..c
  PROVE  HasJob(a, b, c, p, q, r)
<1> USE DEF Volume, HasJob
<1>0. a * b \in Nat
  OBVIOUS
<1>1. PICK o \in 1..(a * b) : Outer(o, b) = p /\ Inner(o, b) = q
  BY PairIndex
<1>2. PICK i \in 1..((a * b) * c) : Outer(i, c) = o /\ Inner(i, c) = r
  BY <1>0, <1>1, PairIndex
<1> QED BY <1>1, <1>2 DEF Panels

\* Job i is the piece of each dimension its panels say.
JobAt(j, t, p, m, n, k) ==
  /\ j.m0 = (p[1] - 1) * t[1] /\ j.mt = Min({t[1], m - (p[1] - 1) * t[1]})
  /\ j.n0 = (p[2] - 1) * t[2] /\ j.nt = Min({t[2], n - (p[2] - 1) * t[2]})
  /\ j.k0 = (p[3] - 1) * t[3] /\ j.kt = Min({t[3], k - (p[3] - 1) * t[3]})

\* The jobs of a GEMM, by its tile.
LEMMA JobFacts ==
  ASSUME NEW m \in Nat, NEW n \in Nat, NEW k \in Nat, NEW s, GemmJobs(m, n, k, s) # <<>>
  PROVE  LET t == ChooseTile(m, n, k, s)
             a == CeilDiv(m, t[1])
             b == CeilDiv(n, t[2])
             c == CeilDiv(k, t[3])
         IN /\ a \in Nat /\ b \in Nat /\ c \in Nat /\ b > 0 /\ c > 0
            /\ DOMAIN GemmJobs(m, n, k, s) = 1..Volume(a, b, c)
            /\ \A i \in 1..Volume(a, b, c) : JobAt(GemmJobs(m, n, k, s)[i], t, Panels(i, b, c), m, n, k)
<1>1. PICK t : t = ChooseTile(m, n, k, s)
  OBVIOUS
<1>2. /\ t \in Candidates(m, n, k) /\ t # NoTile
  BY <1>1, TileFacts DEF Fits
<1>3. /\ t[1] \in Nat /\ t[1] > 0 /\ t[1] <= m
      /\ t[2] \in Nat /\ t[2] > 0 /\ t[2] <= n
      /\ t[3] \in Nat /\ t[3] > 0 /\ t[3] <= k
  BY <1>2, CandidateSizes
<1>4. ASSUME NEW d \in Nat, NEW l \in Nat, l > 0, d > 0
      PROVE  /\ CeilDiv(d, l) \in Nat /\ CeilDiv(d, l) > 0
             /\ Starts(d, l) \in [1..CeilDiv(d, l) -> Nat]
             /\ \A i \in 1..CeilDiv(d, l) : Starts(d, l)[i] = (i - 1) * l
  <2>1. /\ CeilDiv(d, l) \in Nat
        /\ \A i \in 1..CeilDiv(d, l) : Starts(d, l)[i] = (i - 1) * l /\ (i - 1) * l \in Nat
        /\ Starts(d, l) = [i \in 1..CeilDiv(d, l) |-> (i - 1) * l]
    BY <1>4, StartsFacts DEF Starts
  <2>2. 0 \div l + 1 \in 1..CeilDiv(d, l)
    BY <1>4, PieceOf
  <2>3. CeilDiv(d, l) > 0
    BY <2>1, <2>2
  <2> QED BY <2>1, <2>3
<1>5. PICK a \in Nat, b \in Nat, c \in Nat :
        /\ a = CeilDiv(m, t[1]) /\ b = CeilDiv(n, t[2]) /\ c = CeilDiv(k, t[3])
        /\ a > 0 /\ b > 0 /\ c > 0
  <2>1. m > 0 /\ n > 0 /\ k > 0
    BY <1>3
  <2>2. CeilDiv(m, t[1]) \in Nat /\ CeilDiv(m, t[1]) > 0
    BY <1>3, <1>4, <2>1
  <2>3. CeilDiv(n, t[2]) \in Nat /\ CeilDiv(n, t[2]) > 0
    BY <1>3, <1>4, <2>1
  <2>4. CeilDiv(k, t[3]) \in Nat /\ CeilDiv(k, t[3]) > 0
    BY <1>3, <1>4, <2>1
  <2> QED BY <2>2, <2>3, <2>4
<1>6. PICK u \in Offsets(a), v \in Offsets(b), w \in Offsets(c) :
        /\ u = Starts(m, t[1]) /\ v = Starts(n, t[2]) /\ w = Starts(k, t[3])
        /\ \A i \in 1..a : u[i] = (i - 1) * t[1]
        /\ \A i \in 1..b : v[i] = (i - 1) * t[2]
        /\ \A i \in 1..c : w[i] = (i - 1) * t[3]
  <2>1. m > 0 /\ n > 0 /\ k > 0
    BY <1>3
  <2>2. /\ Starts(m, t[1]) \in [1..a -> Nat]
        /\ \A i \in 1..a : Starts(m, t[1])[i] = (i - 1) * t[1]
    BY <1>3, <1>4, <1>5, <2>1
  <2>3. /\ Starts(n, t[2]) \in [1..b -> Nat]
        /\ \A i \in 1..b : Starts(n, t[2])[i] = (i - 1) * t[2]
    BY <1>3, <1>4, <1>5, <2>1
  <2>4. /\ Starts(k, t[3]) \in [1..c -> Nat]
        /\ \A i \in 1..c : Starts(k, t[3])[i] = (i - 1) * t[3]
    BY <1>3, <1>4, <1>5, <2>1
  <2> QED BY <2>2, <2>3, <2>4 DEF Offsets
<1>7. GemmJobs(m, n, k, s) =
        [i \in DOMAIN Nest3(u, v, w) |->
          [m0 |-> Nest3(u, v, w)[i][1], n0 |-> Nest3(u, v, w)[i][2], k0 |-> Nest3(u, v, w)[i][3],
           mt |-> Min({t[1], m - Nest3(u, v, w)[i][1]}),
           nt |-> Min({t[2], n - Nest3(u, v, w)[i][2]}),
           kt |-> Min({t[3], k - Nest3(u, v, w)[i][3]})]]
  BY <1>1, <1>2, <1>6 DEF GemmJobs
<1>8. DOMAIN Nest3(u, v, w) = 1..Volume(a, b, c)
  BY <1>5, <1>6, NestFacts
<1>9. DOMAIN GemmJobs(m, n, k, s) = 1..Volume(a, b, c)
  BY <1>7, <1>8
<1>10. ASSUME NEW i \in 1..Volume(a, b, c)
       PROVE  JobAt(GemmJobs(m, n, k, s)[i], t, Panels(i, b, c), m, n, k)
  <2>1. PICK x : x = Nest3(u, v, w)[i]
    OBVIOUS
  <2>2. PICK p, q, r : <<p, q, r>> = Panels(i, b, c)
    BY DEF Panels
  <2>3. p \in 1..a /\ q \in 1..b /\ r \in 1..c
    <3>1. InPanels(Panels(i, b, c), a, b, c)
      BY <1>5, PanelFacts
    <3> QED BY <2>2, <3>1 DEF InPanels
  <2>4. x[1] = u[p] /\ x[2] = v[q] /\ x[3] = w[r]
    <3>1. /\ x[1] = u[Outer(Outer(i, c), b)] /\ x[2] = v[Inner(Outer(i, c), b)]
          /\ x[3] = w[Inner(i, c)]
      <4>1. a \in Nat /\ b \in Nat /\ c \in Nat /\ b > 0 /\ c > 0
        BY <1>5
      <4>2. u \in Offsets(a) /\ v \in Offsets(b) /\ w \in Offsets(c)
        BY <1>6
      <4> QED BY <2>1, <4>1, <4>2, NestFacts
    <3> QED BY <2>2, <3>1 DEF Panels
  <2>5. x[1] = (p - 1) * t[1] /\ x[2] = (q - 1) * t[2] /\ x[3] = (r - 1) * t[3]
    BY <1>6, <2>3, <2>4
  <2>6. PICK j : j = GemmJobs(m, n, k, s)[i]
    OBVIOUS
  <2>7. /\ j.m0 = x[1] /\ j.n0 = x[2] /\ j.k0 = x[3]
        /\ j.mt = Min({t[1], m - x[1]}) /\ j.nt = Min({t[2], n - x[2]}) /\ j.kt = Min({t[3], k - x[3]})
    BY <1>7, <1>8, <2>1, <2>6
  <2>8. PICK z : z = Panels(i, b, c) /\ z[1] = p /\ z[2] = q /\ z[3] = r
    BY <2>2
  <2>9. JobAt(j, t, z, m, n, k)
    BY <2>5, <2>7, <2>8 DEF JobAt
  <2> QED BY <2>6, <2>8, <2>9
<1> QED BY <1>1, <1>5, <1>9, <1>10

\* The job multiplies A[x, z] with B[z, y].
Covers(j, x, y, z) ==
  /\ j.m0 <= x /\ x < j.m0 + j.mt
  /\ j.n0 <= y /\ y < j.n0 + j.nt
  /\ j.k0 <= z /\ z < j.k0 + j.kt

\* Every GEMM that is cut into jobs is computed: each product A[x, z] * B[z, y] is
\* in exactly one job, and the jobs of one piece of C come in the order of K, so
\* that the one that overwrites it (k0 = 0) is the first.
THEOREM JobsCoverProduct ==
  ASSUME NEW m \in Nat, NEW n \in Nat, NEW k \in Nat, NEW s, GemmJobs(m, n, k, s) # <<>>
  PROVE  LET jobs == GemmJobs(m, n, k, s) IN
         /\ \A x \in 0..(m - 1), y \in 0..(n - 1), z \in 0..(k - 1) :
              \E i \in DOMAIN jobs :
                \A h \in DOMAIN jobs : Covers(jobs[h], x, y, z) <=> h = i
         /\ \A i, h \in DOMAIN jobs :
              jobs[i].m0 = jobs[h].m0 /\ jobs[i].n0 = jobs[h].n0 /\ i < h =>
                jobs[i].k0 < jobs[h].k0
<1>1. PICK t, jobs : t = ChooseTile(m, n, k, s) /\ jobs = GemmJobs(m, n, k, s)
  OBVIOUS
<1>2. /\ t[1] \in Nat /\ t[1] > 0 /\ t[2] \in Nat /\ t[2] > 0 /\ t[3] \in Nat /\ t[3] > 0
  <2>1. t \in Candidates(m, n, k)
    BY <1>1, TileFacts DEF Fits
  <2> QED BY <2>1, CandidateSizes
<1>3. PICK a \in Nat, b \in Nat, c \in Nat :
        /\ a = CeilDiv(m, t[1]) /\ b = CeilDiv(n, t[2]) /\ c = CeilDiv(k, t[3])
        /\ b > 0 /\ c > 0
        /\ DOMAIN jobs = 1..Volume(a, b, c)
        /\ \A i \in 1..Volume(a, b, c) : JobAt(jobs[i], t, Panels(i, b, c), m, n, k)
  BY <1>1, JobFacts
<1>0. a \in Nat /\ b \in Nat /\ c \in Nat /\ b > 0 /\ c > 0
  BY <1>3
<1>4. ASSUME NEW x \in 0..(m - 1), NEW y \in 0..(n - 1), NEW z \in 0..(k - 1)
      PROVE  \E i \in DOMAIN jobs : \A h \in DOMAIN jobs : Covers(jobs[h], x, y, z) <=> h = i
  <2>1. PICK p \in 1..a : \A i \in 1..a : In(x, (i - 1) * t[1], t[1], m) <=> i = p
    BY <1>2, <1>3, PieceOf
  <2>2. PICK q \in 1..b : \A i \in 1..b : In(y, (i - 1) * t[2], t[2], n) <=> i = q
    BY <1>2, <1>3, PieceOf
  <2>3. PICK r \in 1..c : \A i \in 1..c : In(z, (i - 1) * t[3], t[3], k) <=> i = r
    BY <1>2, <1>3, PieceOf
  <2>4. PICK i \in 1..Volume(a, b, c) : Panels(i, b, c) = <<p, q, r>>
    <3>1. p \in 1..a /\ q \in 1..b /\ r \in 1..c
      BY <2>1, <2>2, <2>3
    <3>2. HasJob(a, b, c, p, q, r)
      BY <1>0, <3>1, PanelExists
    <3> QED BY <3>2 DEF HasJob
  <2>5. ASSUME NEW h \in 1..Volume(a, b, c) PROVE Covers(jobs[h], x, y, z) <=> h = i
    <3>1. PICK v : v = Panels(h, b, c)
      OBVIOUS
    <3>2. /\ v[1] \in 1..a /\ v[2] \in 1..b /\ v[3] \in 1..c
          /\ h = JobIndex(v, b, c)
      <4>1. InPanels(v, a, b, c) /\ h = JobIndex(v, b, c)
        BY <1>3, <3>1, PanelFacts
      <4> QED BY <4>1 DEF InPanels
    <3>3. JobAt(jobs[h], t, v, m, n, k)
      BY <1>3, <3>1
    <3>4. Covers(jobs[h], x, y, z) <=> v[1] = p /\ v[2] = q /\ v[3] = r
      BY <2>1, <2>2, <2>3, <3>2, <3>3 DEF JobAt, Covers, In
    <3>5. i = JobIndex(<<p, q, r>>, b, c)
      <4>1. i = JobIndex(Panels(i, b, c), b, c)
        BY <1>0, <2>4, PanelFacts
      <4> QED BY <2>4, <4>1
    <3>6. v[1] = p /\ v[2] = q /\ v[3] = r => h = i
      BY <3>2, <3>5 DEF JobIndex
    <3>7. h = i => v[1] = p /\ v[2] = q /\ v[3] = r
      BY <2>4, <3>1
    <3> QED BY <3>4, <3>6, <3>7
  <2>6. i \in DOMAIN jobs /\ \A h \in DOMAIN jobs : Covers(jobs[h], x, y, z) <=> h = i
    BY <1>3, <2>4, <2>5
  <2> QED BY <2>6
<1>5. ASSUME NEW i \in DOMAIN jobs, NEW h \in DOMAIN jobs,
             jobs[i].m0 = jobs[h].m0, jobs[i].n0 = jobs[h].n0, i < h
      PROVE  jobs[i].k0 < jobs[h].k0
  <2>1. PICK v, w : v = Panels(i, b, c) /\ w = Panels(h, b, c)
    OBVIOUS
  <2>2. /\ v[1] \in 1..a /\ v[2] \in 1..b /\ v[3] \in 1..c
        /\ i = JobIndex(v, b, c)
        /\ w[1] \in 1..a /\ w[2] \in 1..b /\ w[3] \in 1..c
        /\ h = JobIndex(w, b, c)
    <3>1. InPanels(v, a, b, c) /\ i = JobIndex(v, b, c) /\ InPanels(w, a, b, c) /\ h = JobIndex(w, b, c)
      BY <1>3, <2>1, PanelFacts
    <3> QED BY <3>1 DEF InPanels
  <2>3. JobAt(jobs[i], t, v, m, n, k) /\ JobAt(jobs[h], t, w, m, n, k)
    BY <1>3, <2>1
  <2>4. ASSUME NEW e \in Nat, e > 0, NEW f \in Nat, f > 0, NEW l \in Nat, l > 0,
               (e - 1) * l = (f - 1) * l
        PROVE  e = f
    <3>1. e - 1 \in Nat /\ f - 1 \in Nat /\ 0 \in 0..(l - 1)
      BY <2>4
    <3>2. l * (e - 1) + 0 = l * (f - 1) + 0
      BY <2>4
    <3>3. e - 1 = f - 1
      BY <2>4, <3>1, <3>2, DivUnique
    <3> QED BY <2>4, <3>3
  <2>5. v[1] = w[1] /\ v[2] = w[2]
    <3>1. (v[1] - 1) * t[1] = (w[1] - 1) * t[1] /\ (v[2] - 1) * t[2] = (w[2] - 1) * t[2]
      BY <1>5, <2>3 DEF JobAt
    <3>2. \A d \in {v[1], v[2], w[1], w[2]} : d \in Nat /\ d > 0
      BY <2>2
    <3> QED BY <1>2, <2>4, <3>1, <3>2
  <2>6. v[3] < w[3]
    <3>0. PICK p \in Int, q \in Int : p = v[1] /\ q = v[2]
      BY <2>2
    <3> DEFINE e == c * ((b * (p - 1) + q) - 1)
    <3>1. i = e + v[3] /\ h = e + w[3]
      BY <2>2, <2>5, <3>0 DEF JobIndex
    <3>2. e \in Int
      <4>1. b * (p - 1) \in Int
        OBVIOUS
      <4> QED BY <4>1
    <3>3. PICK f \in Int : f = e
      BY <3>2
    <3> HIDE DEF e
    <3> QED BY <1>5, <2>2, <3>1, <3>3
  <2>7. (v[3] - 1) * t[3] < (w[3] - 1) * t[3]
    <3>1. PICK e \in Nat, f \in Nat, l \in Nat : v[3] = e + 1 /\ w[3] = f + 1 /\ l = t[3] /\ l > 0
      <4>1. v[3] - 1 \in Nat /\ w[3] - 1 \in Nat
        BY <2>2
      <4>2. v[3] = (v[3] - 1) + 1 /\ w[3] = (w[3] - 1) + 1
        BY <2>2
      <4> QED BY <1>2, <4>1, <4>2
    <3>2. PICK d \in Nat : f = e + 1 + d
      <4>1. f - e - 1 \in Nat /\ f = e + 1 + (f - e - 1)
        BY <2>6, <3>1
      <4> QED BY <4>1
    <3>3. f * l = e * l + l + d * l
      BY <3>2
    <3>4. d * l \in Nat /\ e * l \in Nat
      OBVIOUS
    <3>5. e * l < f * l
      <4> DEFINE x == e * l  y == f * l  z == d * l
      <4>1. x \in Nat /\ z \in Nat /\ y = x + l + z
        BY <3>3, <3>4
      <4> HIDE DEF x, y, z
      <4>2. x < y
        BY <3>1, <4>1
      <4> QED BY <4>2 DEF x, y
    <3> QED BY <3>1, <3>5
  <2> QED BY <2>3, <2>7 DEF JobAt
<1> QED BY <1>1, <1>4, <1>5
\* The length of piece e of a dimension d, and its start.
Piece(d, l, e) == Min({l, d - (e - 1) * l})
PieceStart(l, e) == (e - 1) * l

\* A piece is not longer than the tile, and is the dimension when they are equal.
LEMMA PieceFacts ==
  ASSUME NEW d \in Nat, NEW l \in Nat, l > 0, l <= d, NEW e \in 1..CeilDiv(d, l)
  PROVE  /\ Piece(d, l, e) \in Nat /\ Piece(d, l, e) <= l
         /\ l = d => PieceStart(l, e) = 0 /\ Piece(d, l, e) = d
<1>1. PICK x \in Nat : x = (e - 1) * l /\ x < d
  BY StartsFacts
<1>2. Min({l, d - x}) = IF l <= d - x THEN l ELSE d - x
  BY <1>1, MinOfTwo
<1>3. l = d => e = 1
  <2>1. CeilDiv(l, l) = 1
    <3>1. l + l - 1 \in Nat /\ CeilDiv(l, l) = (l + l - 1) \div l
      BY DEF CeilDiv
    <3>2. PICK u \in Nat, g \in 0..(l - 1) : u = CeilDiv(l, l) /\ l + l - 1 = l * u + g
      <4>1. PICK w \in Nat : w = l + l - 1
        BY <3>1
      <4>2. w \div l \in Nat /\ w % l \in 0..(l - 1) /\ w = l * (w \div l) + (w % l)
        BY DivFacts
      <4> QED BY <3>1, <4>1, <4>2
    <3>3. l * 1 + (l - 1) = l * u + g /\ l - 1 \in 0..(l - 1)
      BY <3>2
    <3> QED BY <3>2, <3>3, DivUnique
  <2> QED BY <2>1
<1>4. l = d => x = 0
  BY <1>1, <1>3
<1> QED BY <1>1, <1>2, <1>3, <1>4 DEF Piece, PieceStart

\* A whole job needs no more than the scratch bytes its tile was counted with.
THEOREM JobsFitScratch ==
  ASSUME NEW m \in Nat, NEW n \in Nat, NEW k \in Nat, NEW s \in Nat,
         NEW i \in DOMAIN GemmJobs(m, n, k, s)
  PROVE  JobBytes(GemmJobs(m, n, k, s)[i], n) <= Scratch(m, n, k, s) /\ Scratch(m, n, k, s) <= s
<1>1. PICK t, jobs : t = ChooseTile(m, n, k, s) /\ jobs = GemmJobs(m, n, k, s)
  OBVIOUS
<1>2. GemmJobs(m, n, k, s) # <<>>
  OBVIOUS
<1>3. t \in Candidates(m, n, k) /\ t # NoTile /\ TileScratchBytes(t[1], t[2], t[3], n, k) <= s
  BY <1>1, <1>2, TileFacts DEF Fits
<1>4. PICK p, q, r : /\ p = t[1] /\ p \in Nat /\ p > 0 /\ p <= m
                     /\ q = t[2] /\ q \in Nat /\ q > 0 /\ q <= n
                     /\ r = t[3] /\ r \in Nat /\ r > 0 /\ r <= k
  BY <1>3, CandidateSizes
<1>5. PICK S \in Nat : S = Scratch(m, n, k, s) /\ S = TileScratchBytes(p, q, r, n, k) /\ S <= s
  <2>1. Scratch(m, n, k, s) = TileScratchBytes(p, q, r, n, k)
    BY <1>1, <1>3, <1>4 DEF Scratch
  <2>2. p * r \in Nat /\ r * q \in Nat /\ p * q * 4 + AlignPad \in Nat
    BY <1>4, TilesAssumption
  <2>3. TileScratchBytes(p, q, r, n, k) \in Nat
    BY <2>2 DEF TileScratchBytes
  <2> QED BY <1>3, <1>4, <2>1, <2>3
<1>6. PICK a \in Nat, b \in Nat, c \in Nat :
        /\ a = CeilDiv(m, p) /\ b = CeilDiv(n, q) /\ c = CeilDiv(k, r)
        /\ b > 0 /\ c > 0
        /\ DOMAIN jobs = 1..Volume(a, b, c)
        /\ \A h \in 1..Volume(a, b, c) : JobAt(jobs[h], t, Panels(h, b, c), m, n, k)
  BY <1>1, <1>2, <1>4, JobFacts
<1>7. PICK v : v = Panels(i, b, c)
  OBVIOUS
<1>8. i \in 1..Volume(a, b, c) /\ a \in Nat /\ b \in Nat /\ c \in Nat /\ b > 0 /\ c > 0
  BY <1>1, <1>6
<1>9. v[1] \in 1..a /\ v[2] \in 1..b /\ v[3] \in 1..c
  <2>1. InPanels(v, a, b, c)
    BY <1>7, <1>8, PanelFacts
  <2> QED BY <2>1 DEF InPanels
<1>11. PICK j : j = jobs[i]
  OBVIOUS
<1>12. JobAt(j, t, v, m, n, k)
  BY <1>6, <1>7, <1>8, <1>11
<1>13. PICK x \in Nat, y \in Nat, z \in Nat :
         /\ x = j.mt /\ y = j.nt /\ z = j.kt /\ x <= p /\ y <= q /\ z <= r
         /\ q = n => y = n
         /\ r = k => j.k0 = 0
  <2>1. /\ j.mt = Piece(m, p, v[1]) /\ j.nt = Piece(n, q, v[2])
        /\ j.kt = Piece(k, r, v[3]) /\ j.k0 = PieceStart(r, v[3])
    BY <1>4, <1>12 DEF JobAt, Piece, PieceStart
  <2>2. j.mt \in Nat /\ j.mt <= p
    <3>1. v[1] \in 1..CeilDiv(m, p)
      BY <1>6, <1>9
    <3>2. Piece(m, p, v[1]) \in Nat /\ Piece(m, p, v[1]) <= p
      BY <1>4, <3>1, PieceFacts
    <3> QED BY <2>1, <3>2
  <2>3. j.nt \in Nat /\ j.nt <= q /\ (q = n => j.nt = n)
    <3>1. v[2] \in 1..CeilDiv(n, q)
      BY <1>6, <1>9
    <3>2. /\ Piece(n, q, v[2]) \in Nat /\ Piece(n, q, v[2]) <= q
          /\ q = n => Piece(n, q, v[2]) = n
      BY <1>4, <3>1, PieceFacts
    <3> QED BY <2>1, <3>2
  <2>4. j.kt \in Nat /\ j.kt <= r /\ (r = k => j.k0 = 0)
    <3>1. v[3] \in 1..CeilDiv(k, r)
      BY <1>6, <1>9
    <3>2. /\ Piece(k, r, v[3]) \in Nat /\ Piece(k, r, v[3]) <= r
          /\ r = k => PieceStart(r, v[3]) = 0
      BY <1>4, <3>1, PieceFacts
    <3> QED BY <2>1, <3>2
  <2> QED BY <2>2, <2>3, <2>4
<1>14. PICK A \in Nat, B \in Nat, C \in Nat, D \in Nat, E \in Nat, F \in Nat :
         /\ A = x * z /\ B = z * y /\ C = p * r /\ D = r * q /\ E = x * y /\ F = p * q
         /\ A <= C /\ B <= D /\ E <= F
  <2>1. x * z \in Nat /\ p * r \in Nat /\ x * z <= p * r
    BY <1>4, <1>13, TimesMonotone
  <2>2. z * y \in Nat /\ r * q \in Nat /\ z * y <= r * q
    BY <1>4, <1>13, TimesMonotone
  <2>3. x * y \in Nat /\ p * q \in Nat /\ x * y <= p * q
    BY <1>4, <1>13, TimesMonotone
  <2> QED BY <2>1, <2>2, <2>3, Zenon
<1>15. JobBytes(j, n) <= S
  <2>1. JobBytes(j, n) = IF y = n /\ j.k0 = 0 THEN A + B ELSE Align4(A + B) + 4 * E
    <3>1. 4 * x * y = 4 * E
      BY <1>14
    <3> QED BY <1>13, <1>14, <3>1 DEF JobBytes
  <2>2. S = C + D + (IF r = k /\ q = n THEN 0 ELSE F * 4 + AlignPad)
    BY <1>5, <1>14 DEF TileScratchBytes
  <2>3. AlignPad \in Nat /\ AlignPad >= 3
    BY TilesAssumption
  <2>4. Align4(A + B) <= A + B + 3 /\ Align4(A + B) \in Nat
    <3>1. PICK w \in Nat : w = A + B
      OBVIOUS
    <3>2. Align4(w) <= w + 3 /\ Align4(w) \in Nat
      BY DEF Align4
    <3> QED BY <3>1, <3>2
  <2>5. r = k /\ q = n => y = n /\ j.k0 = 0
    BY <1>13
  <2> QED BY <1>14, <2>1, <2>2, <2>3, <2>4, <2>5
<1> QED BY <1>1, <1>5, <1>11, <1>15
==============================================================================
