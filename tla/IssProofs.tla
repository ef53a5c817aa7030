------------------------------- MODULE IssProofs -------------------------------
(***************************************************************************)
(* Theorems about Iss, for every size of word, program, placement of the   *)
(* devices and length of the vector registers.                             *)
(***************************************************************************)
EXTENDS Iss, FiniteSetTheorems, WellFoundedInduction, TLAPS

-----------------------------------------------------------------------------
(* Folds.                                                                  *)

LEMMA NatSetInduction ==
  ASSUME NEW S, 0 \in S, \A n \in Nat : n \in S => n + 1 \in S
  PROVE  Nat \subseteq S
<1> DEFINE T == Nat \ S
           R == OpToRel(<, Nat)
<1> SUFFICES ASSUME T # {} PROVE FALSE
  OBVIOUS
<1>1. IsWellFoundedOn(R, Nat)
  BY NatLessThanWellFounded
<1>2. T \subseteq Nat
  OBVIOUS
<1> HIDE DEF T, R
<1>3. PICK x \in T : \A y \in T : ~(<<y, x>> \in R)
  BY <1>1, <1>2, WFMin
<1> USE DEF T
<1>4. x \in Nat /\ x # 0
  BY <1>3
<1>5. x - 1 \in T
  BY <1>4
<1>6. <<x - 1, x>> \in R
  BY <1>4 DEF R, OpToRel
<1> QED BY <1>3, <1>5, <1>6

\* The step of a fold over the subsets of D: g is what it leaves of each
\* smaller set, c the element it takes next.
FoldStep(D, c, b, step, g) ==
  [s \in SUBSET D |-> IF s = {} THEN b ELSE step[<<c[s], g[s \ {c[s]}]>>]]
\* There is one fold, and it stays in St.
Folds(D, St, b, step, c) ==
  \E h \in [SUBSET D -> St] :
    /\ h = FoldStep(D, c, b, step, h)
    /\ \A g : g = FoldStep(D, c, b, step, g) => g = h
Takes(D, c) == \A s \in SUBSET D : s # {} => c[s] \in s

\* Folding over a finite set is well defined, and stays among the states that
\* one step stays in.
LEMMA FoldExists ==
  ASSUME NEW D, IsFiniteSet(D), NEW St, NEW b \in St, NEW step \in [D \X St -> St],
         NEW c, Takes(D, c)
  PROVE  Folds(D, St, b, step, c)
<1> DEFINE Small(n) == {s \in SUBSET D : Cardinality(s) <= n}
           Rule(h, n) == \A s \in Small(n) :
                           h[s] = IF s = {} THEN b ELSE step[<<c[s], h[s \ {c[s]}]>>]
           Solved == {n \in Nat : \E h \in [Small(n) -> St] : Rule(h, n)}
<1>1. \A s \in SUBSET D : IsFiniteSet(s) /\ Cardinality(s) \in Nat
                            /\ (Cardinality(s) = 0 <=> s = {})
  BY FS_Subset, FS_CardinalityType, FS_EmptySet
<1>2. ASSUME NEW s \in SUBSET D, s # {}
      PROVE  /\ c[s] \in s /\ s \ {c[s]} \in SUBSET D
             /\ Cardinality(s \ {c[s]}) = Cardinality(s) - 1
  BY <1>1, <1>2, FS_RemoveElement DEF Takes
<1>3. 0 \in Solved
  <2> DEFINE h == [s \in Small(0) |-> b]
  <2>1. h \in [Small(0) -> St]
    OBVIOUS
  <2>2. \A s \in Small(0) : s = {}
    BY <1>1
  <2>3. Rule(h, 0)
    BY <2>2
  <2> QED BY <2>1, <2>3
<1>4. ASSUME NEW n \in Nat, n \in Solved PROVE n + 1 \in Solved
  <2>1. PICK h \in [Small(n) -> St] : Rule(h, n)
    BY <1>4
  <2> DEFINE k == [s \in Small(n + 1) |->
                     IF s = {} THEN b ELSE step[<<c[s], h[s \ {c[s]}]>>]]
  <2>2. \A s \in Small(n + 1) : s # {} => s \ {c[s]} \in Small(n)
    BY <1>1, <1>2
  <2>3. k \in [Small(n + 1) -> St]
    <3> SUFFICES ASSUME NEW s \in Small(n + 1) PROVE k[s] \in St
      OBVIOUS
    <3>1. CASE s = {}
      BY <3>1
    <3>2. CASE s # {}
      <4>1. c[s] \in D /\ h[s \ {c[s]}] \in St
        BY <1>2, <2>2, <3>2
      <4> QED BY <3>2, <4>1
    <3> QED BY <3>1, <3>2
  <2>4. \A s \in Small(n) : k[s] = h[s]
    <3> SUFFICES ASSUME NEW s \in Small(n) PROVE k[s] = h[s]
      OBVIOUS
    <3>1. s \in Small(n + 1)
      BY <1>1
    <3> QED BY <2>1, <3>1
  <2>5. Rule(k, n + 1)
    <3> SUFFICES ASSUME NEW s \in Small(n + 1)
                 PROVE  k[s] = IF s = {} THEN b ELSE step[<<c[s], k[s \ {c[s]}]>>]
      OBVIOUS
    <3> HIDE DEF Small
    <3> QED BY <2>2, <2>4
  <2>6. \E f \in [Small(n + 1) -> St] : Rule(f, n + 1)
    <3> HIDE DEF k, Rule, Small
    <3> QED BY <2>3, <2>5
  <2>7. n + 1 \in Nat
    OBVIOUS
  <2> HIDE DEF k, Rule, Small
  <2> QED BY <2>6, <2>7, Zenon
<1>5. Nat \subseteq Solved
  <2> HIDE DEF Solved
  <2> QED BY <1>3, <1>4, NatSetInduction
<1>6. Cardinality(D) \in Nat /\ Small(Cardinality(D)) = SUBSET D
  BY <1>1, FS_Subset
<1>7. PICK h \in [SUBSET D -> St] : Rule(h, Cardinality(D))
  BY <1>5, <1>6
<1>8. h = FoldStep(D, c, b, step, h)
  BY <1>6, <1>7 DEF FoldStep
<1>9. ASSUME NEW g, g = FoldStep(D, c, b, step, g) PROVE g = h
  <2> DEFINE Same == {n \in Nat : \A s \in Small(n) : g[s] = h[s]}
  <2>1. \A s \in SUBSET D : g[s] = IF s = {} THEN b ELSE step[<<c[s], g[s \ {c[s]}]>>]
    BY <1>9 DEF FoldStep
  <2>2. \A s \in SUBSET D : h[s] = IF s = {} THEN b ELSE step[<<c[s], h[s \ {c[s]}]>>]
    BY <1>8 DEF FoldStep
  <2>3. 0 \in Same
    <3> SUFFICES ASSUME NEW s \in Small(0) PROVE g[s] = h[s]
      OBVIOUS
    <3>1. s \in SUBSET D /\ s = {}
      BY <1>1
    <3> QED BY <2>1, <2>2, <3>1
  <2>4. ASSUME NEW n \in Nat, n \in Same PROVE n + 1 \in Same
    <3> SUFFICES ASSUME NEW s \in Small(n + 1) PROVE g[s] = h[s]
      OBVIOUS
    <3>1. CASE s = {}
      BY <2>1, <2>2, <3>1
    <3>2. CASE s # {}
      <4>1. s \ {c[s]} \in Small(n)
        BY <1>1, <1>2, <3>2
      <4>2. g[s \ {c[s]}] = h[s \ {c[s]}]
        BY <2>4, <4>1
      <4> QED BY <2>1, <2>2, <3>2, <4>2
    <3> QED BY <3>1, <3>2
  <2>5. Nat \subseteq Same
    <3> HIDE DEF Same
    <3> QED BY <2>3, <2>4, NatSetInduction
  <2>6. \A s \in SUBSET D : g[s] = h[s]
    BY <1>6, <2>5
  <2>7. DOMAIN g = SUBSET D /\ g = [s \in SUBSET D |-> g[s]]
    BY <1>9 DEF FoldStep
  <2> QED BY <2>6, <2>7
<1> QED BY <1>8, <1>9 DEF Folds

-----------------------------------------------------------------------------
(* Sums.                                                                   *)

\* The step of a sum, as MapThenSumSet takes it.
SumStep(D, F, g) ==
  [s \in SUBSET D |-> IF s = {} THEN 0
                      ELSE F[CHOOSE x \in s : TRUE] + g[s \ {CHOOSE x \in s : TRUE}]]
\* The sums over the subsets of D: every element can be taken first, and the
\* sum over a subset, made on its own, is the same.
Sums(D, F, h) ==
  /\ h \in [SUBSET D -> Int] /\ h[{}] = 0
  /\ \A s \in SUBSET D : \A x \in s : h[s] = F[x] + h[s \ {x}]
  /\ \A s \in SUBSET D : /\ \E g : g = SumStep(s, F, g)
                         /\ \A g : g = SumStep(s, F, g) => g[s] = h[s]

LEMMA OneSum ==
  ASSUME NEW D, IsFiniteSet(D), NEW F, \A x \in D : F[x] \in Int
  PROVE  \E h \in [SUBSET D -> Int] :
           h = SumStep(D, F, h) /\ \A g : g = SumStep(D, F, g) => g = h
<1> DEFINE step == [p \in D \X Int |-> F[p[1]] + p[2]]
           c == [s \in SUBSET D |-> CHOOSE x \in s : TRUE]
<1>1. step \in [D \X Int -> Int]
  OBVIOUS
<1>2. Takes(D, c)
  BY DEF Takes
<1>3. 0 \in Int /\ IsFiniteSet(D)
  OBVIOUS
<1>4. Folds(D, Int, 0, step, c)
  <2> HIDE DEF c, step
  <2> QED BY <1>1, <1>2, <1>3, FoldExists
<1>5. ASSUME NEW s \in SUBSET D, s # {}
      PROVE  c[s] = (CHOOSE x \in s : TRUE) /\ c[s] \in D
  BY <1>5
<1>6. ASSUME NEW h \in [SUBSET D -> Int], NEW s \in SUBSET D, s # {}
      PROVE  step[<<c[s], h[s \ {c[s]}]>>] = F[c[s]] + h[s \ {c[s]}]
  <2>1. \A y \in D, v \in Int : step[<<y, v>>] = F[y] + v
    OBVIOUS
  <2>2. c[s] \in D /\ h[s \ {c[s]}] \in Int
    BY <1>5, <1>6
  <2> HIDE DEF c, step
  <2> QED BY <2>1, <2>2
<1> HIDE DEF c, step
<1>7. PICK h \in [SUBSET D -> Int] :
        /\ h = FoldStep(D, c, 0, step, h)
        /\ \A g : g = FoldStep(D, c, 0, step, g) => g = h
  BY <1>4 DEF Folds
<1>8. h = SumStep(D, F, h)
  <2> SUFFICES ASSUME NEW s \in SUBSET D
               PROVE  h[s] = SumStep(D, F, h)[s]
    BY DEF SumStep
  <2>1. h[s] = IF s = {} THEN 0 ELSE step[<<c[s], h[s \ {c[s]}]>>]
    BY <1>7 DEF FoldStep
  <2>2. SumStep(D, F, h)[s] = IF s = {} THEN 0
           ELSE F[CHOOSE x \in s : TRUE] + h[s \ {CHOOSE x \in s : TRUE}]
    BY DEF SumStep
  <2>3. CASE s = {}
    BY <2>1, <2>2, <2>3
  <2>4. CASE s # {}
    <3>1. h[s] = F[c[s]] + h[s \ {c[s]}]
      BY <1>6, <2>1, <2>4
    <3> QED BY <1>5, <2>2, <2>4, <3>1
  <2> QED BY <2>3, <2>4
<1>9. ASSUME NEW g, g = SumStep(D, F, g) PROVE g = h
  <2> DEFINE Same == {n \in Nat : \A s \in SUBSET D : Cardinality(s) = n => g[s] = h[s]}
  <2>1. \A s \in SUBSET D : IsFiniteSet(s) /\ Cardinality(s) \in Nat
                              /\ (Cardinality(s) = 0 <=> s = {})
    BY FS_Subset, FS_CardinalityType, FS_EmptySet
  <2>2. \A s \in SUBSET D :
          g[s] = IF s = {} THEN 0
                 ELSE F[CHOOSE x \in s : TRUE] + g[s \ {CHOOSE x \in s : TRUE}]
    BY <1>9 DEF SumStep
  <2>3. \A s \in SUBSET D :
          h[s] = IF s = {} THEN 0
                 ELSE F[CHOOSE x \in s : TRUE] + h[s \ {CHOOSE x \in s : TRUE}]
    BY <1>8 DEF SumStep
  <2>4. 0 \in Same
    <3> SUFFICES ASSUME NEW s \in SUBSET D, Cardinality(s) = 0 PROVE g[s] = h[s]
      OBVIOUS
    <3> QED BY <2>1, <2>2, <2>3
  <2>5. ASSUME NEW n \in Nat, n \in Same PROVE n + 1 \in Same
    <3> SUFFICES ASSUME NEW s \in SUBSET D, Cardinality(s) = n + 1 PROVE g[s] = h[s]
      OBVIOUS
    <3> DEFINE x == CHOOSE x \in s : TRUE
    <3>1. s # {} /\ x \in s
      BY <2>1
    <3>2. Cardinality(s \ {x}) = n
      <4>1. IsFiniteSet(s)
        BY <2>1
      <4> HIDE DEF x
      <4>2. Cardinality(s \ {x}) = Cardinality(s) - 1
        BY <3>1, <4>1, FS_RemoveElement, Zenon
      <4> QED BY <4>2
    <3>3. g[s \ {x}] = h[s \ {x}]
      BY <2>5, <3>2
    <3> QED BY <2>2, <2>3, <3>1, <3>3
  <2>6. Nat \subseteq Same
    <3> HIDE DEF Same
    <3> QED BY <2>4, <2>5, NatSetInduction
  <2>7. \A s \in SUBSET D : g[s] = h[s]
    BY <2>1, <2>6
  <2>8. g = [s \in SUBSET D |-> g[s]] /\ h = [s \in SUBSET D |-> h[s]]
    BY <1>9 DEF SumStep
  <2> QED BY <2>7, <2>8
<1> QED BY <1>8, <1>9

LEMMA SumFacts ==
  ASSUME NEW D, IsFiniteSet(D), NEW F, \A x \in D : F[x] \in Int
  PROVE  \E h : Sums(D, F, h)
<1>1. PICK h \in [SUBSET D -> Int] : h = SumStep(D, F, h)
  BY OneSum
<1>2. \A s \in SUBSET D :
        h[s] = IF s = {} THEN 0
               ELSE F[CHOOSE x \in s : TRUE] + h[s \ {CHOOSE x \in s : TRUE}]
  BY <1>1 DEF SumStep
<1>3. \A s \in SUBSET D : IsFiniteSet(s) /\ Cardinality(s) \in Nat
                            /\ (Cardinality(s) = 0 <=> s = {})
  BY FS_Subset, FS_CardinalityType, FS_EmptySet
<1>4. \A s \in SUBSET D : \A x \in s : h[s] = F[x] + h[s \ {x}]
  <2> DEFINE Peels == {n \in Nat : \A s \in SUBSET D :
                          Cardinality(s) = n => \A x \in s : h[s] = F[x] + h[s \ {x}]}
  <2>1. 0 \in Peels
    <3> SUFFICES ASSUME NEW s \in SUBSET D, Cardinality(s) = 0, NEW x \in s PROVE FALSE
      OBVIOUS
    <3> QED BY <1>3
  <2>2. ASSUME NEW n \in Nat, n \in Peels PROVE n + 1 \in Peels
    <3> SUFFICES ASSUME NEW s \in SUBSET D, Cardinality(s) = n + 1, NEW x \in s
                 PROVE  h[s] = F[x] + h[s \ {x}]
      OBVIOUS
    <3> DEFINE y == CHOOSE y \in s : TRUE
    <3>1. y \in s /\ h[s] = F[y] + h[s \ {y}]
      BY <1>2
    <3> HIDE DEF y
    <3>2. CASE x = y
      BY <3>1, <3>2
    <3>3. CASE x # y
      <4>1. \A z \in s : s \ {z} \in SUBSET D /\ Cardinality(s \ {z}) = n
        <5> SUFFICES ASSUME NEW z \in s PROVE Cardinality(s \ {z}) = n
          OBVIOUS
        <5>1. IsFiniteSet(s)
          BY <1>3
        <5>2. Cardinality(s \ {z}) = Cardinality(s) - 1
          BY <5>1, FS_RemoveElement, Zenon
        <5> QED BY <5>2
      <4>2. h[s \ {y}] = F[x] + h[(s \ {y}) \ {x}]
        BY <2>2, <3>1, <3>3, <4>1
      <4>3. h[s \ {x}] = F[y] + h[(s \ {x}) \ {y}]
        BY <2>2, <3>1, <3>3, <4>1
      <4>4. (s \ {y}) \ {x} = (s \ {x}) \ {y}
        OBVIOUS
      <4>5. F[x] \in Int /\ F[y] \in Int /\ h[(s \ {x}) \ {y}] \in Int
        BY <3>1
      <4>6. h[s \ {y}] = F[x] + h[(s \ {x}) \ {y}]
        BY <4>2, <4>4, Zenon
      <4> QED BY <3>1, <4>3, <4>5, <4>6
    <3> QED BY <3>2, <3>3
  <2>3. Nat \subseteq Peels
    <3> HIDE DEF Peels
    <3> QED BY <2>1, <2>2, NatSetInduction
  <2> QED BY <1>3, <2>3
<1>5. ASSUME NEW s \in SUBSET D
      PROVE  /\ \E g : g = SumStep(s, F, g)
             /\ \A g : g = SumStep(s, F, g) => g[s] = h[s]
  <2> DEFINE k == [t \in SUBSET s |-> h[t]]
  <2>1. k = SumStep(s, F, k)
    <3> SUFFICES ASSUME NEW t \in SUBSET s PROVE k[t] = SumStep(s, F, k)[t]
      BY DEF SumStep
    <3>1. t \in SUBSET D /\ t \ {CHOOSE x \in t : TRUE} \in SUBSET s
      OBVIOUS
    <3>2. k[t] = h[t] /\ k[t \ {CHOOSE x \in t : TRUE}] = h[t \ {CHOOSE x \in t : TRUE}]
      BY <3>1
    <3> HIDE DEF k
    <3> QED BY <1>2, <3>1, <3>2 DEF SumStep
  <2>2. IsFiniteSet(s) /\ \A x \in s : F[x] \in Int
    BY <1>3
  <2>3. PICK m : \A g : g = SumStep(s, F, g) => g = m
    BY <2>2, OneSum
  <2>4. k[s] = h[s]
    OBVIOUS
  <2> HIDE DEF k
  <2> QED BY <2>1, <2>3, <2>4
<1>6. h[{}] = 0
  BY <1>2
<1> QED BY <1>4, <1>5, <1>6 DEF Sums

-----------------------------------------------------------------------------
(* Powers of two and bits.                                                 *)

LEMMA Sizes ==
  /\ Bits \in Nat /\ Bits >= 4 /\ ByteBits \in Nat /\ ByteBits >= 1 /\ Bits = 4 * ByteBits
  /\ 2 ^ ByteBits \in Nat /\ 2 ^ ByteBits > 0
  /\ 2 ^ (Bits - 1) \in Nat /\ 2 ^ (Bits - 1) > 0 /\ Modulus = 2 * 2 ^ (Bits - 1)
  /\ Modulus \in Nat /\ Modulus > 1 /\ Modulus \div 2 = 2 ^ (Bits - 1)
<1>1. Bits \in Nat /\ Bits >= 4 /\ ByteBits \in Nat /\ ByteBits >= 1 /\ Bits = 4 * ByteBits
  BY ByteBitsAssumption, SMT DEF Bits
<1>2. ByteBits \in 0..Bits /\ Bits - 1 \in 0..(Bits - 1) /\ Bits - 1 \in 0..Bits
        /\ (Bits - 1) + 1 = Bits
  BY <1>1, SMT
<1>3. 2 ^ (Bits - 1) \in Nat \ {0} /\ 2 ^ ByteBits \in Nat \ {0}
        /\ 2 ^ ((Bits - 1) + 1) = 2 * 2 ^ (Bits - 1)
  BY <1>2, PowerAssumption
<1>4. Modulus = 2 * 2 ^ (Bits - 1)
  BY <1>2, <1>3 DEF Modulus
<1>5. \A x \in Nat : x > 0 => 2 * x \in Nat /\ 2 * x > 1 /\ (2 * x) \div 2 = x
  BY SMT
<1> QED BY <1>1, <1>3, <1>4, <1>5

LEMMA Powers ==
  ASSUME NEW n \in 0..Bits
  PROVE  2 ^ n \in Nat /\ 2 ^ n > 0 /\ (n < Bits => 2 ^ (n + 1) = 2 * 2 ^ n)
<1>1. 2 ^ n \in Nat \ {0}
  BY PowerAssumption
<1>2. n < Bits => n \in 0..(Bits - 1)
  BY Sizes, SMT
<1>3. n < Bits => 2 ^ (n + 1) = 2 * 2 ^ n
  BY <1>2, PowerAssumption
<1> QED BY <1>1, <1>3

\* An exponent can be split.
LEMMA PowerSum ==
  ASSUME NEW m \in Nat, NEW n \in Nat, m + n <= Bits
  PROVE  2 ^ (m + n) = 2 ^ m * 2 ^ n
<1> DEFINE Split == {i \in Nat : m + i <= Bits => 2 ^ (m + i) = 2 ^ m * 2 ^ i}
<1>0. m \in 0..Bits /\ 2 ^ m \in Nat
  <2>1. m \in 0..Bits
    BY Sizes, SMT
  <2> QED BY <2>1, Powers
<1>1. 0 \in Split
  <2>1. m + 0 = m /\ 2 ^ m * 1 = 2 ^ m
    BY <1>0, SMT
  <2> QED BY <2>1, PowerAssumption
<1>2. ASSUME NEW i \in Nat, i \in Split PROVE i + 1 \in Split
  <2> SUFFICES ASSUME m + (i + 1) <= Bits PROVE 2 ^ (m + (i + 1)) = 2 ^ m * 2 ^ (i + 1)
    OBVIOUS
  <2>1. /\ m + i \in 0..Bits /\ m + i < Bits /\ i \in 0..Bits /\ i < Bits
        /\ m + (i + 1) = (m + i) + 1 /\ m + i <= Bits
    BY Sizes, SMT
  <2>2. 2 ^ ((m + i) + 1) = 2 * 2 ^ (m + i) /\ 2 ^ (i + 1) = 2 * 2 ^ i /\ 2 ^ i \in Nat
    BY <2>1, Powers
  <2>3. 2 ^ (m + i) = 2 ^ m * 2 ^ i
    BY <1>2, <2>1
  <2>4. \A x, y \in Nat : 2 * (x * y) = x * (2 * y)
    BY SMT
  <2>5. 2 ^ m * (2 * 2 ^ i) = 2 * (2 ^ m * 2 ^ i)
    BY <1>0, <2>2, <2>4
  <2> QED BY <2>1, <2>2, <2>3, <2>5, Zenon
<1>3. Nat \subseteq Split
  <2> HIDE DEF Split
  <2> QED BY <1>1, <1>2, NatSetInduction
<1> QED BY <1>3

\* Powers grow.
LEMMA PowerOrder ==
  ASSUME NEW m \in 0..Bits, NEW n \in 0..Bits, m <= n
  PROVE  2 ^ m <= 2 ^ n
<1>1. n - m \in Nat /\ n - m \in 0..Bits /\ m + (n - m) = n /\ m + (n - m) <= Bits /\ m \in Nat
  BY Sizes, SMT
<1>2. 2 ^ (m + (n - m)) = 2 ^ m * 2 ^ (n - m)
  BY <1>1, PowerSum
<1>3. 2 ^ m \in Nat /\ 2 ^ (n - m) \in Nat /\ 2 ^ (n - m) > 0 /\ 2 ^ m > 0
  BY <1>1, Powers
<1>4. \A x, y \in Nat : y > 0 => x <= x * y
  BY SMT
<1> QED BY <1>1, <1>2, <1>3, <1>4

\* Every bit stands for its power: the sum of a set of bits loses that power
\* with the bit.
BitPowers == [i \in 0..(Bits - 1) |-> 2 ^ i]
LEMMA BitSums ==
  \E h : /\ Sums(0..(Bits - 1), BitPowers, h)
         /\ \A S \in SUBSET (0..(Bits - 1)) : OfBits(S) = h[S]
<1>1. IsFiniteSet(0..(Bits - 1))
  BY Sizes, FS_Interval
<1>2. \A i \in 0..(Bits - 1) : BitPowers[i] = 2 ^ i /\ BitPowers[i] \in Int
  <2>1. \A i \in 0..(Bits - 1) : i \in 0..Bits
    BY Sizes, SMT
  <2> QED BY <2>1, Powers DEF BitPowers
<1>3. PICK h : Sums(0..(Bits - 1), BitPowers, h)
  BY <1>1, <1>2, SumFacts
<1>4. ASSUME NEW S \in SUBSET (0..(Bits - 1)) PROVE OfBits(S) = h[S]
  <2> DEFINE Step(g) == [s \in SUBSET S |->
                           IF s = {} THEN 0
                           ELSE 2 ^ (CHOOSE x \in s : TRUE) + g[s \ {CHOOSE x \in s : TRUE}]]
  <2>1. ASSUME NEW g PROVE Step(g) = SumStep(S, BitPowers, g)
    <3> SUFFICES ASSUME NEW s \in SUBSET S
                 PROVE  Step(g)[s] = SumStep(S, BitPowers, g)[s]
      BY DEF SumStep
    <3>1. s # {} => BitPowers[CHOOSE x \in s : TRUE] = 2 ^ (CHOOSE x \in s : TRUE)
      BY <1>2
    <3> QED BY <3>1 DEF SumStep
  <2>2. PICK g : g = SumStep(S, BitPowers, g)
    BY <1>3 DEF Sums
  <2> DEFINE it == CHOOSE k : k = Step(k)
  <2>3. OfBits(S) = it[S]
    BY Zenon DEF OfBits, MapThenSumSet, MapThenFoldSet
  <2>4. it = Step(it)
    <3>1. g = Step(g)
      BY <2>1, <2>2
    <3> HIDE DEF Step
    <3> QED BY <3>1, Zenon
  <2>5. it = SumStep(S, BitPowers, it)
    <3> HIDE DEF it, Step
    <3> QED BY <2>1, <2>4, Zenon
  <2> HIDE DEF it
  <2> QED BY <1>3, <2>3, <2>5 DEF Sums
<1> QED BY <1>3, <1>4

LEMMA OfBitsFacts ==
  /\ OfBits({}) = 0
  /\ \A S \in SUBSET (0..(Bits - 1)) :
       OfBits(S) \in Int /\ \A x \in S : OfBits(S) = 2 ^ x + OfBits(S \ {x})
<1>1. PICK h : /\ Sums(0..(Bits - 1), BitPowers, h)
               /\ \A S \in SUBSET (0..(Bits - 1)) : OfBits(S) = h[S]
  BY BitSums
<1>2. \A S \in SUBSET (0..(Bits - 1)) : \A x \in S :
        S \ {x} \in SUBSET (0..(Bits - 1)) /\ BitPowers[x] = 2 ^ x
  BY DEF BitPowers
<1>3. h \in [SUBSET (0..(Bits - 1)) -> Int] /\ h[{}] = 0
        /\ \A s \in SUBSET (0..(Bits - 1)) : \A x \in s : h[s] = BitPowers[x] + h[s \ {x}]
  BY <1>1 DEF Sums
<1>4. OfBits({}) = 0
  BY <1>1, <1>3
<1>5. ASSUME NEW S \in SUBSET (0..(Bits - 1))
      PROVE  OfBits(S) \in Int /\ \A x \in S : OfBits(S) = 2 ^ x + OfBits(S \ {x})
  <2>1. OfBits(S) = h[S] /\ OfBits(S) \in Int
    BY <1>1, <1>3
  <2>2. ASSUME NEW x \in S PROVE OfBits(S) = 2 ^ x + OfBits(S \ {x})
    <3>1. OfBits(S \ {x}) = h[S \ {x}] /\ BitPowers[x] = 2 ^ x
      BY <1>1, <1>2
    <3> QED BY <1>3, <2>1, <3>1
  <2> QED BY <2>1, <2>2
<1> QED BY <1>4, <1>5

Below(n) == {i \in 0..(Bits - 1) : i < n}

\* Bits below n make a number below 2 ^ n.
LEMMA OfBitsBound ==
  ASSUME NEW n \in 0..Bits, NEW S, S \subseteq Below(n)
  PROVE  OfBits(S) \in Nat /\ OfBits(S) < 2 ^ n
<1> DEFINE Bound == {k \in Nat : k <= Bits =>
                       \A T \in SUBSET Below(k) : OfBits(T) \in Nat /\ OfBits(T) < 2 ^ k}
<1>1. 0 \in Bound
  <2> SUFFICES ASSUME NEW T \in SUBSET Below(0) PROVE OfBits(T) \in Nat /\ OfBits(T) < 2 ^ 0
    OBVIOUS
  <2>1. T = {}
    BY DEF Below
  <2>2. 2 ^ 0 = 1
    BY PowerAssumption
  <2>3. OfBits(T) = 0
    BY <2>1, OfBitsFacts
  <2> QED BY <2>2, <2>3
<1>2. ASSUME NEW k \in Nat, k \in Bound PROVE k + 1 \in Bound
  <2> SUFFICES ASSUME k + 1 <= Bits, NEW T \in SUBSET Below(k + 1)
               PROVE  OfBits(T) \in Nat /\ OfBits(T) < 2 ^ (k + 1)
    OBVIOUS
  <2>1. k \in 0..Bits /\ k < Bits /\ k <= Bits
    BY Sizes, SMT
  <2>2. 2 ^ k \in Nat /\ 2 ^ k > 0 /\ 2 ^ (k + 1) = 2 * 2 ^ k
    BY <2>1, Powers
  <2>3. T \ {k} \in SUBSET Below(k)
    BY DEF Below
  <2>4. OfBits(T \ {k}) \in Nat /\ OfBits(T \ {k}) < 2 ^ k
    BY <1>2, <2>1, <2>3
  <2>5. CASE k \in T
    <3>1. T \in SUBSET (0..(Bits - 1))
      BY DEF Below
    <3>2. OfBits(T) = 2 ^ k + OfBits(T \ {k})
      BY <2>5, <3>1, OfBitsFacts
    <3> QED BY <2>2, <2>4, <3>2
  <2>6. CASE k \notin T
    <3>1. T \ {k} = T
      BY <2>6
    <3> QED BY <2>2, <2>4, <3>1
  <2> QED BY <2>5, <2>6
<1>3. Nat \subseteq Bound
  <2> HIDE DEF Bound
  <2> QED BY <1>1, <1>2, NatSetInduction
<1>4. n \in Nat /\ n <= Bits
  BY Sizes, SMT
<1> QED BY <1>3, <1>4

LEMMA OfBitsWord ==
  ASSUME NEW S \in SUBSET (0..(Bits - 1))
  PROVE  OfBits(S) \in Word
<1>1. S \subseteq Below(Bits) /\ Bits \in 0..Bits
  BY Sizes, SMT DEF Below
<1>2. OfBits(S) \in Nat /\ OfBits(S) < 2 ^ Bits
  BY <1>1, OfBitsBound
<1> QED BY <1>2, Sizes, SMT DEF Word, Modulus

LEMMA LogicWord ==
  ASSUME NEW a, NEW b
  PROVE  And(a, b) \in Word /\ Or(a, b) \in Word /\ Xor(a, b) \in Word
<1>1. BitsOf(a) \subseteq 0..(Bits - 1) /\ BitsOf(b) \subseteq 0..(Bits - 1)
  BY DEF BitsOf
<1>2. /\ BitsOf(a) \cap BitsOf(b) \in SUBSET (0..(Bits - 1))
      /\ BitsOf(a) \cup BitsOf(b) \in SUBSET (0..(Bits - 1))
      /\ (BitsOf(a) \ BitsOf(b)) \cup (BitsOf(b) \ BitsOf(a)) \in SUBSET (0..(Bits - 1))
  BY <1>1
<1> QED BY <1>2, OfBitsWord DEF And, Or, Xor

-----------------------------------------------------------------------------
(* What the operations return.                                             *)

LEMMA DivMod ==
  ASSUME NEW v \in Int, NEW d \in Int, d > 0
  PROVE  v \div d \in Int /\ v % d \in 0..(d - 1) /\ v = d * (v \div d) + (v % d)
BY SMT

LEMMA WrapWord == \A v \in Int : Wrap(v) \in Word /\ (v \in Word => Wrap(v) = v)
<1> SUFFICES ASSUME NEW v \in Int PROVE Wrap(v) \in Word /\ (v \in Word => Wrap(v) = v)
  OBVIOUS
<1>1. v % Modulus \in 0..(Modulus - 1)
  BY Sizes, DivMod
<1>2. \A x, m \in Nat : x < m => x % m = x
  BY SMT
<1>3. v \in Word => v \in Nat /\ v < Modulus
  BY Sizes DEF Word
<1> QED BY <1>1, <1>2, <1>3, Sizes DEF Wrap, Word

LEMMA WordInt == \A w \in Word : w \in Nat /\ w \in Int /\ w < Modulus /\ Signed(w) \in Int
BY Sizes DEF Word, Signed

LEMMA SignExtendWord ==
  ASSUME NEW v \in Int, NEW n \in 1..Bits
  PROVE  SignExtend(v, n) \in Word
<1>1. n \in 0..Bits /\ n - 1 \in 0..Bits /\ Bits \in 0..Bits /\ n <= Bits
  BY Sizes, SMT
<1>2. 2 ^ n \in Nat /\ 2 ^ n > 0
  BY <1>1, Powers
<1>3. 2 ^ n <= 2 ^ Bits
  BY <1>1, PowerOrder
<1>4. v % 2 ^ n \in 0..(2 ^ n - 1)
  BY <1>2, DivMod
<1> DEFINE p == 2 ^ n
           x == v % 2 ^ n
<1>5. p <= Modulus /\ p \in Nat /\ x \in 0..(p - 1) /\ p > 0
  BY <1>2, <1>3, <1>4 DEF Modulus
<1>6. SignExtend(v, n) = x + Modulus - p \/ SignExtend(v, n) = x
  BY DEF SignExtend
<1> HIDE DEF p, x
<1> QED BY <1>5, <1>6, Sizes, SMT DEF Word

LEMMA ShiftFacts ==
  ASSUME NEW x \in Int, NEW s \in 0..Bits
  PROVE  Shift(x, s) \in Int /\ (x \in Word => Shift(x, s) \in Word)
<1>1. 2 ^ s \in Nat /\ 2 ^ s > 0
  BY Powers
<1>2. x \div 2 ^ s \in Int
  BY <1>1, DivMod
<1>3. \A y, d \in Nat : d > 0 => y \div d \in Nat /\ y \div d <= y
  <2> SUFFICES ASSUME NEW y \in Nat, NEW d \in Nat, d > 0
               PROVE  y \div d \in Nat /\ y \div d <= y
    OBVIOUS
  <2> DEFINE q == y \div d
             r == y % d
  <2>1. q \in Int /\ r \in 0..(d - 1) /\ y = d * q + r
    BY DivMod
  <2> HIDE DEF q, r
  <2>2. q < 0 => d * q <= -d
    BY <2>1, SMT
  <2>3. q >= 0
    BY <2>1, <2>2, SMT
  <2>4. q <= d * q
    BY <2>1, <2>3, SMT
  <2>5. q \in Nat /\ q <= y
    BY <2>1, <2>3, <2>4, SMT
  <2> QED BY <2>5 DEF q
<1>4. x \in Word => x \in Nat
  BY WordInt
<1>5. x \in Word => x \div 2 ^ s \in Nat /\ x \div 2 ^ s <= x
  BY <1>1, <1>3, <1>4
<1> QED BY <1>2, <1>5, Sizes DEF Shift, Word

LEMMA AmountFacts ==
  ASSUME NEW b \in Int
  PROVE  Amount(b) \in 0..(Bits - 1) /\ Amount(b) \in 0..Bits /\ Amount(b) \in Nat
<1>1. b % Bits \in 0..(Bits - 1)
  BY Sizes, DivMod, SMT
<1> QED BY <1>1, Sizes DEF Amount

LEMMA FloorFacts ==
  ASSUME NEW a \in Int, NEW b \in Int, b # 0
  PROVE  /\ FloorDiv(a, b) \in Int /\ FloorMod(a, b) \in Int
         /\ a = b * FloorDiv(a, b) + FloorMod(a, b)
         /\ b > 0 => 0 <= FloorMod(a, b) /\ FloorMod(a, b) < b
         /\ b < 0 => b < FloorMod(a, b) /\ FloorMod(a, b) <= 0
<1>1. FloorDiv(a, b) \in Int
  <2>1. CASE b > 0
    BY <2>1, DivMod DEF FloorDiv
  <2>2. CASE ~(b > 0)
    <3>1. -a \in Int /\ -b \in Int /\ -b > 0
      BY <2>2, SMT
    <3>2. (-a) \div (-b) \in Int
      BY <3>1, DivMod
    <3> QED BY <2>2, <3>2 DEF FloorDiv
  <2> QED BY <2>1, <2>2
<1> DEFINE q == FloorDiv(a, b)
           r == FloorMod(a, b)
<1>2. r = a - b * q
  BY DEF FloorMod
<1>3. r \in Int /\ a = b * q + r
  <2> HIDE DEF q, r
  <2>1. q \in Int
    BY <1>1 DEF q
  <2> QED BY <1>2, <2>1
<1>4. b > 0 => 0 <= r /\ r < b
  <2> SUFFICES ASSUME b > 0 PROVE 0 <= r /\ r < b
    OBVIOUS
  <2>1. q = a \div b
    BY DEF FloorDiv
  <2> DEFINE m == a % b
  <2>2. m \in 0..(b - 1) /\ a = b * q + m
    BY <2>1, DivMod
  <2>3. q \in Int
    BY <1>1
  <2> HIDE DEF q, r, m
  <2> QED BY <1>2, <2>2, <2>3
<1>5. b < 0 => b < r /\ r <= 0
  <2> SUFFICES ASSUME b < 0 PROVE b < r /\ r <= 0
    OBVIOUS
  <2> DEFINE c == -a
             d == -b
             m == c % d
  <2>0. c \in Int /\ d \in Int /\ d > 0
    BY SMT
  <2>1. q = c \div d
    BY DEF FloorDiv
  <2>2. m \in 0..(d - 1) /\ c = d * q + m
    <3> HIDE DEF c, d
    <3> QED BY <2>0, <2>1, DivMod
  <2>3. q \in Int
    BY <1>1
  <2>4. (-b) * q = -(b * q)
    <3> HIDE DEF q
    <3> QED BY <2>3, SMT
  <2> HIDE DEF q, r, m
  <2> QED BY <1>2, <2>2, <2>3, <2>4
<1> QED BY <1>1, <1>3, <1>4, <1>5

LEMMA DivisionInt ==
  ASSUME NEW a \in Int, NEW b \in Int, b # 0
  PROVE  Quotient(a, b) \in Int /\ Remainder(a, b) \in Int
<1> DEFINE q == FloorDiv(a, b)
<1>1. q \in Int
  BY FloorFacts
<1>2. Quotient(a, b) = q + 1 \/ Quotient(a, b) = q
  BY DEF Quotient
<1>3. Quotient(a, b) \in Int
  <2> HIDE DEF q
  <2> QED BY <1>1, <1>2
<1> QED BY <1>3 DEF Remainder

\* The divisions of two words are words.
LEMMA DivWord ==
  ASSUME NEW a \in Word, NEW b \in Word
  PROVE  /\ Div(a, b) \in Word /\ Rem(a, b) \in Word
         /\ Divu(a, b) \in Word /\ Remu(a, b) \in Word
<1>1. /\ Signed(a) \in Int /\ Signed(b) \in Int /\ a \in Nat /\ b \in Nat
      /\ 0 \in Word /\ Modulus - 1 \in Word /\ Modulus \div 2 \in Word
  <2>1. 0 \in Word /\ Modulus - 1 \in Word /\ Modulus \div 2 \in Word
    BY Sizes, SMT DEF Word
  <2> QED BY <2>1, WordInt
<1>2. Signed(b) # 0 => Wrap(Quotient(Signed(a), Signed(b))) \in Word
                        /\ Wrap(Remainder(Signed(a), Signed(b))) \in Word
  BY <1>1, DivisionInt, WrapWord
<1>3. Div(a, b) \in Word /\ Rem(a, b) \in Word
  BY <1>1, <1>2 DEF Div, Rem
<1>4. b # 0 => a \div b \in Nat /\ a \div b <= a /\ a % b \in Nat /\ a % b <= a
  <2> SUFFICES ASSUME b # 0
               PROVE  a \div b \in Nat /\ a \div b <= a /\ a % b \in Nat /\ a % b <= a
    OBVIOUS
  <2> DEFINE q == a \div b
             r == a % b
  <2>1. q \in Int /\ r \in 0..(b - 1) /\ a = b * q + r
    BY <1>1, DivMod
  <2>2. a \in Nat /\ b \in Nat
    BY <1>1
  <2> HIDE DEF q, r
  <2>3. q < 0 => b * q <= -b
    BY <2>1, <2>2, SMT
  <2>4. q >= 0
    BY <2>1, <2>2, <2>3, SMT
  <2>5. q <= b * q /\ b * q >= 0
    BY <2>1, <2>2, <2>4, SMT
  <2>6. q \in Nat /\ q <= a /\ r \in Nat /\ r <= a
    BY <2>1, <2>2, <2>4, <2>5, SMT
  <2> QED BY <2>6 DEF q, r
<1>5. \A x \in Nat : x <= a => x \in Word
  BY Sizes, SMT DEF Word
<1>6. Divu(a, b) \in Word /\ Remu(a, b) \in Word
  BY <1>1, <1>4, <1>5 DEF Divu, Remu
<1> QED BY <1>3, <1>6

LEMMA ShiftedInt ==
  ASSUME NEW a \in Int, NEW b \in Int
  PROVE  a * 2 ^ Amount(b) \in Int /\ Shift(a, Amount(b)) \in Int
<1>1. 2 ^ Amount(b) \in Int
  BY AmountFacts, Powers
<1>2. a * 2 ^ Amount(b) \in Int
  <2> DEFINE p == 2 ^ Amount(b)
  <2> HIDE DEF p
  <2>1. p \in Int
    BY <1>1 DEF p
  <2>2. a * p \in Int
    BY <2>1
  <2> QED BY <2>2 DEF p
<1> QED BY <1>2, AmountFacts, ShiftFacts

LEMMA UpperWord == \A p \in Int : Upper(p) \in Word
<1> SUFFICES ASSUME NEW p \in Int PROVE Upper(p) \in Word
  OBVIOUS
<1>1. Bits \in 0..Bits
  BY Sizes, SMT
<1> QED BY <1>1, ShiftFacts, WrapWord DEF Upper

LEMMA FlagWord == \A c : Flag(c) \in Word
BY Sizes, SMT DEF Flag, Word

\* The scalar unit returns words.
LEMMA AluWord ==
  ASSUME NEW f, NEW a \in Word, NEW b \in Word
  PROVE  Alu(f, a, b) \in Word
<1> DEFINE s == Signed(a)
           t == Signed(b)
<1>1. a \in Int /\ b \in Int /\ s \in Int /\ t \in Int
  BY WordInt
<1>2. a + b \in Int /\ a - b \in Int /\ a * b \in Int /\ s * t \in Int /\ s * b \in Int
  <2> HIDE DEF s, t
  <2> QED BY <1>1
<1>3. /\ a * 2 ^ Amount(b) \in Int /\ Shift(s, Amount(b)) \in Int
      /\ Shift(a, Amount(b)) \in Word
  BY <1>1, ShiftedInt, AmountFacts, ShiftFacts
<1>4. 0 \in Word
  BY Sizes, SMT DEF Word
<1>5. /\ Wrap(a + b) \in Word /\ Wrap(a - b) \in Word /\ Wrap(a * b) \in Word
      /\ Wrap(a * 2 ^ Amount(b)) \in Word /\ Wrap(Shift(s, Amount(b))) \in Word
      /\ Upper(s * t) \in Word /\ Upper(s * b) \in Word /\ Upper(a * b) \in Word
  BY <1>2, <1>3, WrapWord, UpperWord
<1>6. \A c : Flag(c) \in Word
  BY FlagWord
<1> QED BY <1>3, <1>4, <1>5, <1>6, LogicWord, DivWord, Zenon DEF Alu

LEMMA AluImmWord ==
  ASSUME NEW f, NEW a \in Word, NEW b \in Word
  PROVE  AluImm(f, a, b) \in Word
<1>1. a \in Int /\ b \in Int /\ Signed(a) \in Int
  BY WordInt
<1>2. a + b \in Int /\ a * 2 ^ Amount(b) \in Int /\ Shift(Signed(a), Amount(b)) \in Int
        /\ Shift(a, Amount(b)) \in Word
  BY <1>1, ShiftedInt, AmountFacts, ShiftFacts
<1>3. 0 \in Word
  BY Sizes, SMT DEF Word
<1>4. /\ Wrap(a + b) \in Word /\ Wrap(a * 2 ^ Amount(b)) \in Word
      /\ Wrap(Shift(Signed(a), Amount(b))) \in Word
  BY <1>2, WrapWord
<1> QED BY <1>2, <1>3, <1>4, FlagWord, LogicWord, Zenon DEF AluImm

\* So does the vector unit, for what it decodes.
LEMMA ValuWord ==
  ASSUME NEW f, NEW a \in Word, NEW b \in Word, Forms(f) # {}, f \notin Compares
  PROVE  ValuOp(f, a, b) \in Word
<1>1. a \in Int /\ b \in Int /\ Signed(a) \in Int
  BY WordInt
<1>2. /\ a + b \in Int /\ a - b \in Int /\ b - a \in Int /\ a * 2 ^ Amount(b) \in Int
      /\ Shift(Signed(a), Amount(b)) \in Int /\ Shift(a, Amount(b)) \in Word
  BY <1>1, ShiftedInt, AmountFacts, ShiftFacts
<1>3. /\ Wrap(a + b) \in Word /\ Wrap(a - b) \in Word /\ Wrap(b - a) \in Word /\ Wrap(b) \in Word
      /\ Wrap(a * 2 ^ Amount(b)) \in Word /\ Wrap(Shift(Signed(a), Amount(b))) \in Word
  BY <1>1, <1>2, WrapWord
<1>4. f \in {"vadd", "vsub", "vrsub", "vminu", "vmin", "vmaxu", "vmax", "vand", "vor", "vxor",
             "vmv", "vsll", "vsrl", "vsra"}
  BY DEF Forms, Compares, Shifts
<1> QED BY <1>2, <1>3, <1>4, LogicWord DEF ValuOp

-----------------------------------------------------------------------------
(* Memory.                                                                 *)

Bytes(m) == DOMAIN m \subseteq Int /\ \A a \in DOMAIN m : m[a] \in Byte

LEMMA ByteAtByte ==
  ASSUME NEW m, Bytes(m), NEW a
  PROVE  ByteAt(m, a) \in Byte /\ ByteAt(m, a) \in Int
<1>1. 0 \in Byte
  BY Sizes, SMT DEF Byte
<1>2. \A x \in Byte : x \in Int
  BY DEF Byte
<1> QED BY <1>1, <1>2 DEF ByteAt, Bytes

\* The bytes of a value from a on, each with its weight.
Weighted(m, a, n) == [i \in 0..(n - 1) |-> ByteAt(m, a + i) * 2 ^ (ByteBits * i)]

LEMMA ByteWeights ==
  ASSUME NEW i \in 0..3
  PROVE  /\ ByteBits * i \in 0..Bits /\ 2 ^ (ByteBits * i) \in Nat
         /\ 2 ^ (ByteBits * (i + 1)) = 2 ^ ByteBits * 2 ^ (ByteBits * i)
<1>1. /\ ByteBits * i \in 0..Bits /\ ByteBits * i \in Nat
      /\ ByteBits + ByteBits * i <= Bits /\ ByteBits * (i + 1) = ByteBits + ByteBits * i
  BY Sizes, SMT
<1>2. 2 ^ (ByteBits + ByteBits * i) = 2 ^ ByteBits * 2 ^ (ByteBits * i)
  BY <1>1, Sizes, PowerSum
<1> QED BY <1>1, <1>2, Powers

LEMMA ValueWord ==
  ASSUME NEW m, Bytes(m), NEW a \in Int, NEW n \in 1..4
  PROVE  ValueAt(m, a, n) \in Word
<1> DEFINE D == 0..(n - 1)
           F == Weighted(m, a, n)
           b(i) == ByteAt(m, a + i)
<1>1. IsFiniteSet(D)
  BY FS_Interval
<1>2. \A i \in D : i \in 0..3 /\ F[i] = b(i) * 2 ^ (ByteBits * i) /\ b(i) \in Byte /\ b(i) \in Int
                     /\ 2 ^ (ByteBits * i) \in Nat
  <2> SUFFICES ASSUME NEW i \in D
               PROVE  i \in 0..3 /\ F[i] = b(i) * 2 ^ (ByteBits * i) /\ b(i) \in Byte /\ b(i) \in Int
                        /\ 2 ^ (ByteBits * i) \in Nat
    OBVIOUS
  <2>1. i \in 0..3
    BY SMT
  <2>2. F[i] = b(i) * 2 ^ (ByteBits * i)
    BY DEF Weighted
  <2> QED BY <2>1, <2>2, ByteWeights, ByteAtByte
<1>3. \A i \in D : F[i] \in Int
  <2> SUFFICES ASSUME NEW i \in D PROVE F[i] \in Int
    OBVIOUS
  <2>1. \A x, y \in Int : x * y \in Int
    OBVIOUS
  <2>2. b(i) * 2 ^ (ByteBits * i) \in Int
    BY <1>2, <2>1
  <2> QED BY <1>2, <2>2
<1>4. PICK h : Sums(D, F, h)
  <2> HIDE DEF D, F
  <2> QED BY <1>1, <1>3, SumFacts
<1>5. ValueAt(m, a, n) = h[D]
  <2> DEFINE Step(g) == [s \in SUBSET D |->
                           IF s = {} THEN 0
                           ELSE ByteAt(m, a + (CHOOSE x \in s : TRUE))
                                  * 2 ^ (ByteBits * (CHOOSE x \in s : TRUE))
                                + g[s \ {CHOOSE x \in s : TRUE}]]
  <2>1. ASSUME NEW g PROVE Step(g) = SumStep(D, F, g)
    <3> SUFFICES ASSUME NEW s \in SUBSET D
                 PROVE  Step(g)[s] = SumStep(D, F, g)[s]
      BY DEF SumStep
    <3>1. s # {} => F[CHOOSE x \in s : TRUE]
                      = ByteAt(m, a + (CHOOSE x \in s : TRUE))
                          * 2 ^ (ByteBits * (CHOOSE x \in s : TRUE))
      BY <1>2
    <3> HIDE DEF D, F
    <3> QED BY <3>1 DEF SumStep
  <2>2. PICK g : g = SumStep(D, F, g)
    <3> HIDE DEF D, F
    <3> QED BY <1>4 DEF Sums
  <2> DEFINE it == CHOOSE k : k = Step(k)
  <2>3. ValueAt(m, a, n) = it[D]
    BY Zenon DEF ValueAt, MapThenSumSet, MapThenFoldSet
  <2>4. it = Step(it)
    <3>1. g = Step(g)
      BY <2>1, <2>2
    <3> HIDE DEF Step
    <3> QED BY <3>1, Zenon
  <2>5. it = SumStep(D, F, it)
    <3> HIDE DEF it, Step
    <3> QED BY <2>1, <2>4, Zenon
  <2>6. D \in SUBSET D
    OBVIOUS
  <2> HIDE DEF it, D, F
  <2> QED BY <1>4, <2>3, <2>5, <2>6 DEF Sums
<1> DEFINE Low(k) == {i \in D : i < k}
           Bound == {k \in Nat : k <= n => h[Low(k)] \in Nat /\ h[Low(k)] < 2 ^ (ByteBits * k)}
<1>6. 0 \in Bound
  <2>1. Low(0) = {} /\ ByteBits * 0 = 0
    BY Sizes
  <2>2. h[{}] = 0
    BY <1>4 DEF Sums
  <2>3. 2 ^ (ByteBits * 0) = 1
    BY <2>1, PowerAssumption
  <2>4. h[Low(0)] = 0
    BY <2>1, <2>2
  <2> HIDE DEF Low
  <2> QED BY <2>3, <2>4
<1>7. ASSUME NEW k \in Nat, k \in Bound PROVE k + 1 \in Bound
  <2> SUFFICES ASSUME k + 1 <= n
               PROVE  h[Low(k + 1)] \in Nat /\ h[Low(k + 1)] < 2 ^ (ByteBits * (k + 1))
    OBVIOUS
  <2>1. k <= n /\ k \in D /\ k \in Low(k + 1) /\ Low(k + 1) \ {k} = Low(k) /\ k \in 0..3
          /\ Low(k + 1) \in SUBSET D
    BY SMT
  <2> DEFINE v == h[Low(k)]
             w == 2 ^ (ByteBits * k)
             p == 2 ^ ByteBits
             x == b(k)
  <2>2. v \in Nat /\ v < w
    BY <1>7, <2>1
  <2>3. h[Low(k + 1)] = F[k] + h[Low(k + 1) \ {k}]
    <3> HIDE DEF D, F, Low
    <3> QED BY <1>4, <2>1 DEF Sums
  <2>4. h[Low(k + 1)] = x * w + v
    BY <1>2, <2>1, <2>3
  <2>5. w \in Nat /\ 2 ^ (ByteBits * (k + 1)) = p * w
    BY <2>1, ByteWeights
  <2>6. x \in 0..(p - 1) /\ p \in Nat
    BY <1>2, <2>1, Sizes DEF Byte
  <2> HIDE DEF v, w, p, x
  <2>7. x * w \in Nat /\ (x + 1) * w = x * w + w /\ (x + 1) * w <= p * w
    BY <2>5, <2>6, SMT
  <2>8. x * w + v \in Nat /\ x * w + v < p * w
    <3> DEFINE y == x * w
               z == p * w
    <3>1. y \in Nat /\ z \in Int /\ y + w <= z
      BY <2>5, <2>6, <2>7
    <3> HIDE DEF y, z
    <3>2. y + v \in Nat /\ y + v < z
      BY <2>2, <2>5, <3>1
    <3> QED BY <3>2 DEF y, z
  <2> QED BY <2>4, <2>5, <2>8
<1>8. n \in Bound
  <2>1. Nat \subseteq Bound
    <3> HIDE DEF Bound
    <3> QED BY <1>6, <1>7, NatSetInduction
  <2> HIDE DEF Bound
  <2> QED BY <2>1
<1>9. h[D] \in Nat /\ h[D] < 2 ^ (ByteBits * n)
  <2>1. Low(n) = D
    OBVIOUS
  <2> HIDE DEF D, F
  <2> QED BY <1>8, <2>1
<1>10. 2 ^ (ByteBits * n) <= Modulus
  <2>1. ByteBits * n \in 0..Bits /\ Bits \in 0..Bits /\ ByteBits * n <= Bits
    BY Sizes, SMT
  <2> QED BY <2>1, PowerOrder DEF Modulus
<1>11. h[D] < Modulus
  <2>1. ByteBits * n \in 0..Bits
    BY Sizes, SMT
  <2>2. 2 ^ (ByteBits * n) \in Nat
    BY <2>1, Powers
  <2> HIDE DEF D, F
  <2> QED BY <1>9, <1>10, <2>2, Sizes
<1> HIDE DEF D, F
<1> QED BY <1>5, <1>9, <1>11, Sizes DEF Word

\* q has the addresses of m and n more, from a on.
Covers(q, m, a, n) == DOMAIN q = DOMAIN m \cup a..(a + n - 1)

LEMMA PutValueFacts ==
  ASSUME NEW m, Bytes(m), NEW a \in Int, NEW v \in Int, NEW n \in 0..4
  PROVE  Bytes(PutValue(m, a, v, n)) /\ Covers(PutValue(m, a, v, n), m, a, n)
<1> DEFINE p == PutValue(m, a, v, n)
<1>1. DOMAIN p = DOMAIN m \cup a..(a + n - 1)
  BY DEF PutValue
<1>2. DOMAIN p \subseteq Int
  BY <1>1 DEF Bytes
<1>3. ASSUME NEW x \in DOMAIN p PROVE p[x] \in Byte
  <2>1. CASE x \in a..(a + n - 1)
    <3>1. x - a \in 0..3
      BY <2>1, SMT
    <3>2. Shift(v, ByteBits * (x - a)) \in Int
      BY <3>1, ByteWeights, ShiftFacts
    <3>3. Shift(v, ByteBits * (x - a)) % 2 ^ ByteBits \in Byte
      BY <3>2, DivMod, Sizes DEF Byte
    <3> QED BY <1>1, <2>1, <3>3 DEF PutValue
  <2>2. CASE x \notin a..(a + n - 1)
    <3>1. x \in DOMAIN m /\ p[x] = m[x]
      BY <1>1, <2>2 DEF PutValue
    <3> QED BY <3>1 DEF Bytes
  <2> QED BY <2>1, <2>2
<1> QED BY <1>1, <1>2, <1>3 DEF Bytes, Covers

LEMMA PutWordsFacts ==
  ASSUME NEW m, Bytes(m), NEW a \in Int, NEW c \in Nat, NEW ws,
         DOMAIN ws = 0..(c - 1), \A i \in 0..(c - 1) : ws[i] \in Int
  PROVE  /\ Bytes(PutWords(m, a, ws)) /\ Covers(PutWords(m, a, ws), m, a, 4 * c)
         /\ \A x \in DOMAIN m \ a..(a + 4 * c - 1) : PutWords(m, a, ws)[x] = m[x]
<1> DEFINE p == PutWords(m, a, ws)
<1>1. Cardinality(DOMAIN ws) = c
  BY FS_Interval
<1>2. p = [x \in DOMAIN m \cup {a + i : i \in 0..(4 * c - 1)} |->
             IF x - a \in 0..(4 * c - 1)
             THEN Shift(Wrap(ws[(x - a) \div 4]), ByteBits * ((x - a) % 4)) % 2 ^ ByteBits
             ELSE m[x]]
  BY <1>1 DEF PutWords
<1> HIDE DEF p
<1>3. DOMAIN p = DOMAIN m \cup a..(a + 4 * c - 1)
  <2>1. {a + i : i \in 0..(4 * c - 1)} = a..(a + 4 * c - 1)
    <3>1. ASSUME NEW x \in a..(a + 4 * c - 1) PROVE x \in {a + i : i \in 0..(4 * c - 1)}
      <4>1. x - a \in 0..(4 * c - 1) /\ a + (x - a) = x
        OBVIOUS
      <4> QED BY <4>1
    <3>2. \A i \in 0..(4 * c - 1) : a + i \in a..(a + 4 * c - 1)
      OBVIOUS
    <3> QED BY <3>1, <3>2
  <2> QED BY <1>2, <2>1
<1>4. DOMAIN p \subseteq Int
  BY <1>3 DEF Bytes
<1>5. \A x \in DOMAIN p : x - a \in 0..(4 * c - 1) <=> x \in a..(a + 4 * c - 1)
  BY <1>4
<1>6. ASSUME NEW x \in DOMAIN p, x \in a..(a + 4 * c - 1) PROVE p[x] \in Byte
  <2> DEFINE y == x - a
             q == y \div 4
             r == y % 4
  <2>1. y \in 0..(4 * c - 1)
    BY <1>6
  <2>2. q \in 0..(c - 1) /\ r \in 0..3
    <3> HIDE DEF y
    <3> QED BY <2>1, SMT
  <2>3. p[x] = Shift(Wrap(ws[q]), ByteBits * r) % 2 ^ ByteBits
    BY <1>2, <1>3, <1>6, <2>1
  <2> HIDE DEF q, r
  <2>4. Wrap(ws[q]) \in Int
    BY <2>2, WrapWord, WordInt
  <2>5. Shift(Wrap(ws[q]), ByteBits * r) \in Int
    BY <2>2, <2>4, ByteWeights, ShiftFacts
  <2> QED BY <2>3, <2>5, DivMod, Sizes DEF Byte
<1>7. ASSUME NEW x \in DOMAIN p, x \notin a..(a + 4 * c - 1)
      PROVE  x \in DOMAIN m /\ p[x] = m[x]
  BY <1>2, <1>3, <1>5, <1>7
<1>8. \A x \in DOMAIN p : p[x] \in Byte
  BY <1>6, <1>7 DEF Bytes
<1>9. Bytes(p)
  BY <1>4, <1>8 DEF Bytes
<1>10. \A x \in DOMAIN m \ a..(a + 4 * c - 1) : p[x] = m[x]
  BY <1>3, <1>7
<1> QED BY <1>3, <1>9, <1>10 DEF p, Covers

-----------------------------------------------------------------------------
(* Folds over a sequence, the last element first.                          *)

LEMMA MaxExists ==
  ASSUME NEW n \in Nat, NEW s \in SUBSET (1..n), s # {}
  PROVE  Max(s) \in s /\ \A y \in s : Max(s) >= y
<1> DEFINE Ends == {k \in Nat : \A t \in SUBSET (1..k) :
                      t # {} => \E x \in t : \A y \in t : x >= y}
<1>1. 0 \in Ends
  <2> SUFFICES ASSUME NEW t \in SUBSET (1..0), t # {} PROVE FALSE
    OBVIOUS
  <2>1. PICK z \in t : z \in 1..0
    OBVIOUS
  <2> QED BY <2>1
<1>2. ASSUME NEW k \in Nat, k \in Ends PROVE k + 1 \in Ends
  <2> SUFFICES ASSUME NEW t \in SUBSET (1..(k + 1)), t # {}
               PROVE  \E x \in t : \A y \in t : x >= y
    OBVIOUS
  <2>1. CASE k + 1 \in t
    BY <2>1
  <2>2. CASE k + 1 \notin t
    <3>1. t \in SUBSET (1..k)
      <4> SUFFICES ASSUME NEW y \in t PROVE y \in 1..k
        OBVIOUS
      <4>1. y \in 1..(k + 1) /\ y # k + 1
        BY <2>2
      <4> QED BY <4>1
    <3> QED BY <1>2, <3>1
  <2> QED BY <2>1, <2>2
<1>3. Nat \subseteq Ends
  <2> HIDE DEF Ends
  <2> QED BY <1>1, <1>2, NatSetInduction
<1>4. \E x \in s : \A y \in s : x >= y
  BY <1>3
<1> QED BY <1>4 DEF Max

\* What a memory file leaves: the address it writes next and the bytes.
Stores == UNION {[A -> Byte] : A \in SUBSET Nat}
LEMMA StoreBytes ==
  \A m : m \in Stores => Bytes(m) /\ DOMAIN m \subseteq Nat
<1> SUFFICES ASSUME NEW m \in Stores PROVE Bytes(m) /\ DOMAIN m \subseteq Nat
  OBVIOUS
<1>1. PICK A \in SUBSET Nat : m \in [A -> Byte]
  BY DEF Stores
<1> QED BY <1>1 DEF Bytes

LEMMA PutStore ==
  ASSUME NEW m \in Stores, NEW a \in Nat, NEW v \in Int, NEW n \in 0..4
  PROVE  PutValue(m, a, v, n) \in Stores
<1> DEFINE p == PutValue(m, a, v, n)
<1>1. Bytes(m) /\ DOMAIN m \subseteq Nat
  BY StoreBytes
<1>2. Bytes(p) /\ DOMAIN p = DOMAIN m \cup a..(a + n - 1)
  <2>1. a \in Int /\ Bytes(m) /\ n \in 0..4 /\ v \in Int
    BY <1>1
  <2>2. Bytes(PutValue(m, a, v, n)) /\ Covers(PutValue(m, a, v, n), m, a, n)
    BY <2>1, PutValueFacts
  <2> QED BY <2>2 DEF Covers
<1>3. DOMAIN p \in SUBSET Nat
  BY <1>1, <1>2
<1>4. p = [x \in DOMAIN p |-> p[x]]
  BY DEF PutValue
<1> HIDE DEF p
<1>5. p \in [DOMAIN p -> Byte]
  BY <1>2, <1>4 DEF Bytes
<1>6. p \in Stores
  BY <1>3, <1>5 DEF Stores
<1> QED BY <1>6 DEF p

\* One line of a memory file.
FileState == [addr : Nat, mem : Stores]
FileStep(s, l, base) ==
  IF l.at THEN [s EXCEPT !.addr = base + l.v * 4]
  ELSE [addr |-> s.addr + 4, mem |-> PutValue(s.mem, s.addr, Wrap(l.v), 4)]

LEMMA LoadHexStore ==
  ASSUME NEW m \in Stores, NEW lines \in Seq(HexLine), NEW base \in Nat
  PROVE  LoadHex(m, lines, base) \in Stores
<1> DEFINE D == 1..Len(lines)
           b == [addr |-> base, mem |-> m]
           step == [p \in D \X FileState |-> FileStep(p[2], lines[p[1]], base)]
           c == [s \in SUBSET D |-> Max(s)]
<1>0. Len(lines) \in Nat /\ DOMAIN lines = D /\ \A i \in D : lines[i] \in HexLine
  OBVIOUS
<1>1. \A s \in FileState, l \in HexLine : FileStep(s, l, base) \in FileState
  <2> SUFFICES ASSUME NEW s \in FileState, NEW l \in HexLine
               PROVE  FileStep(s, l, base) \in FileState
    OBVIOUS
  <2>1. CASE l.at
    <3>1. l.v \in Nat /\ l.v * 4 \in Nat
      BY DEF HexLine
    <3>2. base + l.v * 4 \in Nat
      BY <3>1
    <3> QED BY <2>1, <3>2 DEF FileStep, FileState
  <2>2. CASE ~l.at
    <3>1. s.mem \in Stores /\ s.addr \in Nat /\ l.v \in Nat
      BY DEF FileState, HexLine
    <3>2. Wrap(l.v) \in Int
      BY <3>1, WrapWord, WordInt
    <3>3. PutValue(s.mem, s.addr, Wrap(l.v), 4) \in Stores /\ s.addr + 4 \in Nat
      <4>1. 4 \in 0..4 /\ s.addr + 4 \in Nat
        BY <3>1
      <4>2. PutValue(s.mem, s.addr, Wrap(l.v), 4) \in Stores
        BY <3>1, <3>2, <4>1, PutStore
      <4> QED BY <4>1, <4>2
    <3> QED BY <2>2, <3>3 DEF FileStep, FileState
  <2> QED BY <2>1, <2>2
<1>2. step \in [D \X FileState -> FileState]
  BY <1>0, <1>1
<1>3. Takes(D, c) /\ \A s \in SUBSET D : s # {} => c[s] = Max(s) /\ Max(s) \in D
  <2>1. ASSUME NEW s \in SUBSET D, s # {} PROVE Max(s) \in s
    BY <1>0, <2>1, MaxExists
  <2> QED BY <2>1 DEF Takes
<1>4. b \in FileState /\ IsFiniteSet(D)
  BY <1>0, FS_Interval DEF FileState
<1>5. Folds(D, FileState, b, step, c)
  <2> HIDE DEF D, b, step, c
  <2> QED BY <1>2, <1>3, <1>4, FoldExists
<1>6. PICK h \in [SUBSET D -> FileState] :
        /\ h = FoldStep(D, c, b, step, h)
        /\ \A g : g = FoldStep(D, c, b, step, g) => g = h
  BY <1>5 DEF Folds
<1> DEFINE Rule(g) == [s \in SUBSET D |->
                         IF s = {} THEN b
                         ELSE FileStep(g[s \ {Max(s)}], lines[Max(s)], base)]
<1>7. ASSUME NEW g, \A s \in SUBSET D : g[s] \in FileState
      PROVE  Rule(g) = FoldStep(D, c, b, step, g)
  <2> SUFFICES ASSUME NEW s \in SUBSET D
               PROVE  Rule(g)[s] = FoldStep(D, c, b, step, g)[s]
    BY DEF FoldStep
  <2>1. CASE s = {}
    BY <2>1 DEF FoldStep
  <2>2. CASE s # {}
    <3>1. c[s] = Max(s) /\ Max(s) \in D /\ g[s \ {Max(s)}] \in FileState
      BY <1>3, <1>7, <2>2
    <3>2. step[<<Max(s), g[s \ {Max(s)}]>>] = FileStep(g[s \ {Max(s)}], lines[Max(s)], base)
      <4>1. \A y \in D, v \in FileState : step[<<y, v>>] = FileStep(v, lines[y], base)
        OBVIOUS
      <4> HIDE DEF step, D
      <4> QED BY <3>1, <4>1
    <3> HIDE DEF step, c
    <3> QED BY <2>2, <3>1, <3>2 DEF FoldStep
  <2> QED BY <2>1, <2>2
<1>8. h = Rule(h)
  <2> HIDE DEF Rule
  <2> QED BY <1>6, <1>7
<1> DEFINE it == CHOOSE g : g = Rule(g)
<1>9. it = Rule(it)
  <2> HIDE DEF Rule
  <2> QED BY <1>8, Zenon
<1>10. LoadHex(m, lines, base) = it[D].mem
  <2>1. LoadHex(m, lines, base)
          = (CHOOSE g : g = [s \in SUBSET DOMAIN lines |->
                         IF s = {} THEN b
                         ELSE FileStep(g[s \ {Max(s)}], lines[Max(s)], base)])[DOMAIN lines].mem
    BY Zenon DEF LoadHex, FoldLeft, MapThenFoldSet, FileStep
  <2> QED BY <1>0, <2>1
<1>11. \A s \in SUBSET D : it[s] \in FileState
  <2> DEFINE Good == {n \in Nat : \A s \in SUBSET D : Cardinality(s) = n => it[s] \in FileState}
  <2>1. \A s \in SUBSET D : IsFiniteSet(s) /\ Cardinality(s) \in Nat
                              /\ (Cardinality(s) = 0 <=> s = {})
    BY <1>4, FS_Subset, FS_CardinalityType, FS_EmptySet
  <2>2. \A s \in SUBSET D :
          it[s] = IF s = {} THEN b ELSE FileStep(it[s \ {Max(s)}], lines[Max(s)], base)
    <3> HIDE DEF it, D, b
    <3> QED BY <1>9
  <2> HIDE DEF it, D, b
  <2>3. 0 \in Good
    <3> SUFFICES ASSUME NEW s \in SUBSET D, Cardinality(s) = 0 PROVE it[s] \in FileState
      OBVIOUS
    <3> QED BY <1>4, <2>1, <2>2
  <2>4. ASSUME NEW n \in Nat, n \in Good PROVE n + 1 \in Good
    <3> SUFFICES ASSUME NEW s \in SUBSET D, Cardinality(s) = n + 1 PROVE it[s] \in FileState
      OBVIOUS
    <3>1. s # {} /\ IsFiniteSet(s)
      BY <2>1
    <3>2. Max(s) \in s /\ Max(s) \in D
      BY <1>3, <3>1 DEF Takes
    <3>3. Cardinality(s \ {Max(s)}) = Cardinality(s) - 1
      <4> DEFINE x == Max(s)
      <4>1. x \in s
        BY <3>2
      <4> HIDE DEF x
      <4>2. Cardinality(s \ {x}) = Cardinality(s) - 1
        BY <3>1, <4>1, FS_RemoveElement, Zenon
      <4> QED BY <4>2 DEF x
    <3>4. it[s \ {Max(s)}] \in FileState
      BY <2>4, <3>3
    <3>5. lines[Max(s)] \in HexLine
      BY <1>0, <3>2
    <3> QED BY <1>1, <2>2, <3>1, <3>4, <3>5
  <2>5. Nat \subseteq Good
    <3> HIDE DEF Good
    <3> QED BY <2>3, <2>4, NatSetInduction
  <2> QED BY <2>1, <2>5
<1>12. it[D] \in FileState
  <2> HIDE DEF it, D
  <2> QED BY <1>11
<1> QED BY <1>10, <1>12 DEF FileState

-----------------------------------------------------------------------------
(* The GEMM reference and the mask of a compare.                           *)

LEMMA S8Int == \A v \in Int : S8(v) \in Int
<1> SUFFICES ASSUME NEW v \in Int PROVE S8(v) \in Int
  OBVIOUS
<1>1. v % 2 ^ ByteBits \in Int /\ 2 ^ ByteBits \in Int
  BY Sizes, DivMod
<1> QED BY <1>1 DEF S8

\* The offset of an element in its matrix.
LEMMA OffsetBound ==
  ASSUME NEW m \in Nat, NEW k \in Nat, NEW i \in 0..(m - 1), NEW t \in 0..(k - 1)
  PROVE  i * k + t \in 0..(m * k - 1)
<1>1. i * k \in Nat /\ (i + 1) * k = i * k + k /\ (i + 1) * k <= m * k /\ m * k \in Nat
  BY SMT
<1> DEFINE x == i * k
           y == m * k
<1>2. x \in Nat /\ y \in Nat /\ x + k <= y
  BY <1>1
<1> HIDE DEF x, y
<1>3. x + t \in 0..(y - 1)
  BY <1>2
<1> QED BY <1>3 DEF x, y

LEMMA GemmInt ==
  ASSUME NEW m \in Nat, NEW n \in Nat, NEW k \in Nat, m > 0, n > 0,
         NEW a \in [0..(m * k - 1) -> Int], NEW b \in [0..(k * n - 1) -> Int]
  PROVE  LET g == GemmInt8(a, b, m, n, k)
         IN  DOMAIN g = 0..(m * n - 1) /\ \A c \in 0..(m * n - 1) : g[c] \in Int
<1> SUFFICES ASSUME NEW c \in 0..(m * n - 1)
             PROVE  GemmInt8(a, b, m, n, k)[c] \in Int
  BY DEF GemmInt8
<1> DEFINE i == c \div n
           j == c % n
           D == 0..(k - 1)
           e(t) == S8(a[i * k + t]) * S8(b[t * n + j])
           F == [t \in D |-> e(t)]
<1>1. i \in 0..(m - 1) /\ j \in 0..(n - 1)
  <2> DEFINE p == m * n
  <2>1. p \in Int /\ c \in 0..(p - 1)
    OBVIOUS
  <2>2. i \in Int /\ j \in 0..(n - 1) /\ c = n * i + j
    BY <2>1, DivMod
  <2>3. p = n * m
    OBVIOUS
  <2> HIDE DEF i, j, p
  <2>4. i < 0 => n * i <= -n
    BY <2>2, SMT
  <2>5. i >= m => n * i >= n * m
    BY <2>2, SMT
  <2> DEFINE x == n * i
             y == n * m
  <2>6. x \in Int /\ y \in Int /\ (i < 0 => x <= -n) /\ (i >= m => x >= y) /\ c = x + j /\ p = y
    BY <2>2, <2>3, <2>4, <2>5
  <2> HIDE DEF x, y
  <2> QED BY <2>1, <2>2, <2>6
<1>2. \A t \in D : e(t) \in Int
  <2> SUFFICES ASSUME NEW t \in D PROVE e(t) \in Int
    OBVIOUS
  <2> HIDE DEF i, j
  <2>1. i * k + t \in 0..(m * k - 1) /\ t * n + j \in 0..(k * n - 1)
    BY <1>1, OffsetBound
  <2>2. a[i * k + t] \in Int /\ b[t * n + j] \in Int
    BY <2>1
  <2>3. S8(a[i * k + t]) \in Int /\ S8(b[t * n + j]) \in Int
    BY <2>2, S8Int
  <2>4. \A x, y \in Int : x * y \in Int
    OBVIOUS
  <2> QED BY <2>3, <2>4
<1>3. \A t \in D : F[t] = e(t) /\ F[t] \in Int
  <2> HIDE DEF e
  <2> QED BY <1>2
<1>4. IsFiniteSet(D)
  BY FS_Interval
<1>5. PICK h : Sums(D, F, h)
  <2> HIDE DEF D, F
  <2> QED BY <1>3, <1>4, SumFacts
<1> DEFINE Step(g) == [s \in SUBSET D |->
                         IF s = {} THEN 0
                         ELSE e(CHOOSE x \in s : TRUE) + g[s \ {CHOOSE x \in s : TRUE}]]
           it == CHOOSE g : g = Step(g)
<1>6. ASSUME NEW g PROVE Step(g) = SumStep(D, F, g)
  <2> SUFFICES ASSUME NEW s \in SUBSET D
               PROVE  Step(g)[s] = SumStep(D, F, g)[s]
    BY DEF SumStep
  <2>1. s # {} => F[CHOOSE x \in s : TRUE] = e(CHOOSE x \in s : TRUE)
    BY <1>3
  <2> HIDE DEF D, F, e
  <2> QED BY <2>1 DEF SumStep
<1>7. PICK g : g = SumStep(D, F, g)
  <2> HIDE DEF D, F
  <2> QED BY <1>5 DEF Sums
<1>8. it = Step(it)
  <2>1. g = Step(g)
    BY <1>6, <1>7
  <2> HIDE DEF Step
  <2> QED BY <2>1, Zenon
<1>9. it = SumStep(D, F, it)
  <2> HIDE DEF it, Step
  <2> QED BY <1>6, <1>8, Zenon
<1>10. it[D] \in Int
  <2>1. D \in SUBSET D
    OBVIOUS
  <2> HIDE DEF it, D, F
  <2> QED BY <1>5, <1>9, <2>1 DEF Sums
<1>11. GemmInt8(a, b, m, n, k)[c] = Signed(Wrap(it[D]))
  BY Zenon DEF GemmInt8, MapThenSumSet, MapThenFoldSet
<1>12. Signed(Wrap(it[D])) \in Int
  <2> HIDE DEF it, D
  <2> QED BY <1>10, WrapWord, WordInt
<1> QED BY <1>11, <1>12

LEMMA MaskWord ==
  ASSUME NEW hits, NEW n \in Nat, NEW vm \in Nat,
         hits \subseteq 0..(vm - 1), vm <= Bits
  PROVE  Mask(hits, n, vm) \in Word
<1>1. hits \cup n..(vm - 1) \in SUBSET (0..(Bits - 1))
  BY Sizes
<1>2. OfBits(hits \cup n..(vm - 1)) \in Int
  BY <1>1, OfBitsWord, WordInt
<1>3. Bits \div 2 \in 0..Bits /\ Bits \in 0..Bits /\ Bits \div 2 <= Bits
  BY Sizes, SMT
<1> DEFINE p == 2 ^ (Bits \div 2)
           x == OfBits(hits \cup n..(vm - 1)) % 2 ^ (Bits \div 2)
<1>4. p \in Nat /\ p > 0 /\ p <= Modulus
  BY <1>3, Powers, PowerOrder DEF Modulus
<1>5. x \in 0..(p - 1)
  BY <1>2, <1>4, DivMod
<1>6. Mask(hits, n, vm) = Modulus - p + x
  BY DEF Mask
<1> HIDE DEF p, x
<1> QED BY <1>4, <1>5, <1>6, Sizes DEF Word

-----------------------------------------------------------------------------
(* The invariant of the types.                                             *)

RegsOK(rs) == rs \in [Reg -> Word] /\ rs[0] = 0
GemmOK(g) == g \in [GemmRegs -> Word]
VectorOK ==
  /\ vl \in 0..Vlmax /\ vtype \in {0, VtypeLegal, VtypeVill}
  /\ vtype # VtypeLegal => vl = 0
  /\ Vlmax = 0 => vtype = 0 /\ vregs = [r \in {} |-> 0]
  /\ Vlmax # 0 => vregs \in [Reg -> [Elements -> Word]]
MemoryOK == Bytes(mem) /\ hidden \subseteq DOMAIN mem
ControlOK ==
  text \in Programs /\ pc \in Word /\ stop \in {"run", "stopped", "error"}
    /\ count \in 0..MaxInstructions
Typed == ControlOK /\ RegsOK(regs) /\ MemoryOK /\ VectorOK /\ GemmOK(gemm)

LEMMA RegFacts ==
  /\ Reg \subseteq Word /\ 0 \in Reg /\ RegBits \in 1..Bits /\ \A r \in Reg : r \in Nat
  /\ {0, 4, 8, 12, 16, 20, 24, 28} \subseteq GemmRegs
<1>1. RegBits \in 1..Bits /\ RegBits \in 0..Bits /\ Bits \in 0..Bits /\ RegBits <= Bits
  BY IssAssumption, Sizes, SMT
<1>2. 2 ^ RegBits \in Nat /\ 2 ^ RegBits > 0 /\ 2 ^ RegBits <= Modulus
  BY <1>1, Powers, PowerOrder DEF Modulus
<1>3. Reg \subseteq Word /\ 0 \in Reg /\ \A r \in Reg : r \in Nat
  BY <1>2, Sizes DEF Reg, Word
<1>4. GemmSpan \in Nat /\ GemmSpan >= 32
  BY IssAssumption
<1>5. GemmSpan \div 4 - 1 \in Nat /\ GemmSpan \div 4 - 1 >= 7
  BY <1>4, SMT
<1>6. \A i \in 0..7 : 4 * i \in GemmRegs
  BY <1>5 DEF GemmRegs
<1>7. 4*0 = 0 /\ 4*1 = 4 /\ 4*2 = 8 /\ 4*3 = 12 /\ 4*4 = 16 /\ 4*5 = 20 /\ 4*6 = 24 /\ 4*7 = 28
  OBVIOUS
<1>8. /\ 0 \in 0..7 /\ 1 \in 0..7 /\ 2 \in 0..7 /\ 3 \in 0..7
      /\ 4 \in 0..7 /\ 5 \in 0..7 /\ 6 \in 0..7 /\ 7 \in 0..7
  OBVIOUS
<1>9. /\ 4*0 \in GemmRegs /\ 4*1 \in GemmRegs /\ 4*2 \in GemmRegs /\ 4*3 \in GemmRegs
      /\ 4*4 \in GemmRegs /\ 4*5 \in GemmRegs /\ 4*6 \in GemmRegs /\ 4*7 \in GemmRegs
  BY <1>6, <1>8, Zenon
<1>10. {0, 4, 8, 12, 16, 20, 24, 28} \subseteq GemmRegs
  BY <1>7, <1>9
<1> QED BY <1>1, <1>3, <1>10

\* What a fetched instruction is.
LEMMA FetchedFacts ==
  ASSUME Typed, NEW op, Fetched(op)
  PROVE  /\ Inst \in Instruction /\ pc % 4 = 0 /\ InText(pc)
         /\ Next4 = pc + 4 /\ pc + 4 \in Word /\ pc \in Int
         /\ stop = "run" /\ count + 1 \in 0..MaxInstructions
<1>1. /\ text \in Seq(Instruction) /\ TextStart + 4 * Len(text) < Modulus
      /\ TextStart % 4 = 0 /\ TextStart \in Word
  BY TextAssumption, IssAssumption DEF Typed, ControlOK
<1>2. /\ pc \in Word /\ pc % 4 = 0 /\ pc >= TextStart /\ pc < TextStart + 4 * Len(text)
      /\ InText(pc) /\ stop = "run" /\ count < MaxInstructions
  BY DEF Typed, ControlOK, Fetched, Live, InText
<1>3. pc \in Nat /\ TextStart \in Nat /\ Len(text) \in Nat
  BY <1>1, <1>2, WordInt
<1>4. (pc - TextStart) \div 4 + 1 \in 1..Len(text) /\ pc + 4 <= TextStart + 4 * Len(text)
  BY <1>1, <1>2, <1>3, SMT
<1>5. Inst \in Instruction
  BY <1>1, <1>4 DEF Inst, Code
<1>6. pc + 4 \in Word
  BY <1>1, <1>3, <1>4, Sizes, SMT DEF Word
<1>7. Next4 = pc + 4
  BY <1>6, WrapWord, WordInt DEF Next4
<1>8. count + 1 \in 0..MaxInstructions
  BY <1>2, IssAssumption DEF Typed, ControlOK
<1> QED BY <1>2, <1>3, <1>5, <1>6, <1>7, <1>8

LEMMA FieldFacts ==
  ASSUME NEW i \in Instruction
  PROVE  /\ i.rd \in Reg /\ i.rs1 \in Reg /\ i.rs2 \in Reg /\ i.imm \in Nat
         /\ Imm(i) \in Int /\ (i.op \notin {"LUI", "AUIPC"} => Imm(i) \in Word)
<1>1. i.rd \in Reg /\ i.rs1 \in Reg /\ i.rs2 \in Reg /\ i.imm \in Nat
  BY DEF Instruction
<1>2. ImmBits \in 0..Bits /\ ImmBits \in 1..Bits /\ ImmBits + 1 \in 1..Bits /\ Bits \in 1..Bits
  BY IssAssumption, Sizes, SMT
<1>3. /\ SignExtend(i.imm, Bits) \in Word /\ SignExtend(i.imm, ImmBits + 1) \in Word
      /\ SignExtend(i.imm, ImmBits) \in Word
  BY <1>1, <1>2, SignExtendWord
<1>4. i.imm * 2 ^ ImmBits \in Int
  <2>1. 2 ^ ImmBits \in Nat
    BY <1>2, Powers
  <2>2. \A x, y \in Nat : x * y \in Int
    OBVIOUS
  <2> QED BY <1>1, <2>1, <2>2
<1>5. i.op \notin {"LUI", "AUIPC"} => Imm(i) \in Word
  BY <1>3 DEF Imm
<1>6. i.op \in {"LUI", "AUIPC"} => Imm(i) = i.imm * 2 ^ ImmBits
  BY DEF Imm
<1>7. Imm(i) \in Int
  BY <1>4, <1>5, <1>6, WordInt
<1> QED BY <1>1, <1>5, <1>7

LEMMA ReadWord ==
  ASSUME RegsOK(regs), NEW r \in Reg
  PROVE  Read(r) \in Word /\ Read(r) = regs[r]
<1>1. regs[r] \in Word /\ regs[0] = 0
  BY DEF RegsOK
<1>2. Wrap(regs[r]) \in Word /\ Wrap(regs[r]) = regs[r] /\ 0 \in Word
  BY <1>1, WrapWord, WordInt, RegFacts
<1> QED BY <1>1, <1>2 DEF Read

LEMMA WriteRegOK ==
  ASSUME NEW rs, RegsOK(rs), NEW r \in Reg, NEW v \in Int
  PROVE  RegsOK(WriteReg(rs, r, v))
<1>1. Wrap(v) \in Word
  BY WrapWord
<1>2. 0 \in Reg
  BY RegFacts
<1> QED BY <1>1, <1>2 DEF RegsOK, WriteReg

LEMMA TypedInit == Init => Typed
<1> SUFFICES ASSUME Init PROVE Typed
  OBVIOUS
<1>0. {Entry, StackTop} \subseteq Word /\ Vlmax \in 0..Bits /\ 0 \in Word
        /\ MaxInstructions \in Nat
  BY IssAssumption, RegFacts
<1>1. ControlOK
  BY <1>0 DEF ControlOK, Init
<1>2. RegsOK(regs)
  <2>1. regs[0] = 0
    BY RegFacts DEF Init
  <2> QED BY <1>0, <2>1 DEF RegsOK, Init
<1>3. MemoryOK
  <2>1. NoBytes \in Stores
    <3>1. NoBytes \in [{} -> Byte] /\ {} \in SUBSET Nat
      BY DEF NoBytes
    <3> QED BY <3>1 DEF Stores
  <2>2. LoadHex(NoBytes, HexLines, 0) \in Stores
    BY <2>1, IssAssumption, LoadHexStore
  <2> DEFINE m == LoadHex(LoadHex(NoBytes, HexLines, 0), DramLines, DramBase)
  <2>3. m \in Stores
    BY <2>2, IssAssumption, LoadHexStore
  <2> HIDE DEF m
  <2>4. Bytes(m) /\ DOMAIN m \subseteq Int
    BY <2>3, StoreBytes DEF Bytes
  <2>5. Bytes(LoadElf(m))
    <3>1. DOMAIN Data \subseteq Int /\ \A a \in DOMAIN Data : Data[a] \in Byte
      BY IssAssumption
    <3> QED BY <2>4, <3>1 DEF LoadElf, Bytes
  <2> QED BY <2>5 DEF MemoryOK, Init, m
<1>4. VectorOK
  <2>1. CASE Vlmax = 0
    BY <1>0, <2>1 DEF VectorOK, Init
  <2>2. CASE Vlmax # 0
    <3>1. vregs = [r \in Reg |-> [i \in 0..(Vlmax - 1) |-> 0]]
      BY <2>2 DEF Init
    <3>2. vregs \in [Reg -> [Elements -> Word]]
      BY <1>0, <3>1 DEF Elements
    <3>3. vtype # VtypeLegal => vl = 0
      BY DEF Init
    <3> QED BY <1>0, <2>2, <3>2, <3>3 DEF VectorOK, Init
  <2> QED BY <2>1, <2>2
<1>5. GemmOK(gemm)
  BY <1>0 DEF GemmOK, Init
<1> QED BY <1>1, <1>2, <1>3, <1>4, <1>5 DEF Typed

\* An instruction that retires keeps the control in its types.
LEMMA RetireOK ==
  ASSUME Typed, NEW op, Fetched(op), NEW t, NEW next \in Word, Retire(t, next)
  PROVE  ControlOK'
BY FetchedFacts DEF ControlOK, Typed, Retire

LEMMA WriteRdOK ==
  ASSUME Typed, NEW op, Fetched(op), NEW v \in Int, WriteRd(v)
  PROVE  Typed'
<1>1. Inst.rd \in Reg /\ Next4 \in Word
  BY FetchedFacts, FieldFacts
<1>2. RegsOK(regs')
  BY <1>1, WriteRegOK DEF Typed, WriteRd
<1>3. ControlOK'
  BY <1>1, RetireOK DEF WriteRd
<1> QED BY <1>2, <1>3
    DEF WriteRd, NoMemory, NoVector, Typed, MemoryOK, VectorOK, GemmOK, RegsOK

\* What an instruction loads from memory or the GEMM block.
LEMMA LoadedInt ==
  ASSUME Typed, NEW f, NEW a \in Int
  PROVE  Loaded(f, a) \in Int
<1>1. Bytes(mem) /\ gemm \in [GemmRegs -> Word]
  BY DEF Typed, MemoryOK, GemmOK
<1>2. /\ ValueAt(mem, a, 1) \in Word /\ ValueAt(mem, a, 2) \in Word
      /\ ValueAt(mem, a, 4) \in Word
  <2>1. 1 \in 1..4 /\ 2 \in 1..4 /\ 4 \in 1..4
    OBVIOUS
  <2> QED BY <1>1, <2>1, ValueWord
<1>3. /\ SignExtend(ValueAt(mem, a, 1), ByteBits) \in Word
      /\ SignExtend(ValueAt(mem, a, 2), 2 * ByteBits) \in Word
  <2>1. ByteBits \in 1..Bits /\ 2 * ByteBits \in 1..Bits
    BY Sizes, SMT
  <2> QED BY <1>2, <2>1, WordInt, SignExtendWord
<1>4. GemmHit(a) => GemmOff(a) \in GemmRegs
  <2> SUFFICES ASSUME GemmHit(a) PROVE GemmOff(a) \in GemmRegs
    OBVIOUS
  <2>1. GemmAddr \in Int /\ GemmSpan \in Nat /\ GemmSpan % 4 = 0 /\ GemmSpan >= 32
    BY IssAssumption, WordInt
  <2> DEFINE o == (a - GemmAddr) % GemmSpan
  <2>2. o \in 0..(GemmSpan - 1) /\ a - GemmAddr \in Int
    BY <2>1, DivMod
  <2> HIDE DEF o
  <2>3. o \div 4 \in 0..(GemmSpan \div 4 - 1) /\ o - (o % 4) = 4 * (o \div 4)
    BY <2>1, <2>2, SMT
  <2>4. o - (o % 4) \in GemmRegs
    BY <2>3 DEF GemmRegs
  <2> QED BY <2>4 DEF GemmOff, o
<1>5. GemmHit(a) => gemm[GemmOff(a)] \in Word
  BY <1>1, <1>4
<1> QED BY <1>2, <1>3, <1>5, WordInt DEF Loaded

LEMMA ScalarOK ==
  ASSUME Typed, Lui \/ ImmOp \/ RegOp \/ Auipc \/ Load
  PROVE  Typed'
<1> USE DEF Typed
<1>1. CASE Lui
  <2>1. Fetched("LUI") /\ WriteRd(Imm(Inst))
    BY <1>1 DEF Lui
  <2> QED BY <2>1, FetchedFacts, FieldFacts, WriteRdOK
<1>2. CASE ImmOp
  <2>1. Fetched("IMM") /\ Inst.op = "IMM"
          /\ WriteRd(AluImm(Inst.f, Read(Inst.rs1), Imm(Inst)))
    BY <1>2 DEF ImmOp, Fetched
  <2>2. Imm(Inst) \in Word /\ Read(Inst.rs1) \in Word
    BY <2>1, FetchedFacts, FieldFacts, ReadWord
  <2>3. AluImm(Inst.f, Read(Inst.rs1), Imm(Inst)) \in Int
    BY <2>2, AluImmWord, WordInt
  <2> QED BY <2>1, <2>3, WriteRdOK
<1>3. CASE RegOp
  <2>1. Fetched("OP") /\ WriteRd(Alu(Inst.f, Read(Inst.rs1), Read(Inst.rs2)))
    BY <1>3 DEF RegOp
  <2>2. Read(Inst.rs1) \in Word /\ Read(Inst.rs2) \in Word
    BY <2>1, FetchedFacts, FieldFacts, ReadWord
  <2>3. Alu(Inst.f, Read(Inst.rs1), Read(Inst.rs2)) \in Int
    BY <2>2, AluWord, WordInt
  <2> QED BY <2>1, <2>3, WriteRdOK
<1>4. CASE Auipc
  <2> DEFINE v == Wrap(pc + Imm(Inst))
  <2>1. /\ Fetched("AUIPC") /\ regs' = WriteReg(regs, Inst.rd, v)
        /\ Retire({RegIs(Inst.rd, v)}, Next4) /\ NoMemory /\ NoVector
    BY <1>4 DEF Auipc
  <2>2. Imm(Inst) \in Int /\ pc \in Int /\ Inst.rd \in Reg /\ Next4 \in Word
    BY <2>1, FetchedFacts, FieldFacts
  <2>3. v \in Int
    BY <2>2, WrapWord, WordInt
  <2> HIDE DEF v
  <2>4. RegsOK(regs')
    BY <2>1, <2>2, <2>3, WriteRegOK
  <2>5. ControlOK'
    BY <2>1, <2>2, RetireOK
  <2> QED BY <2>1, <2>4, <2>5 DEF NoMemory, NoVector, MemoryOK, VectorOK, GemmOK, RegsOK
<1>5. CASE Load
  <2>1. Fetched("LOAD") /\ Inst.op = "LOAD" /\ WriteRd(Loaded(Inst.f, Address))
    BY <1>5 DEF Load, Fetched
  <2>2. Imm(Inst) \in Int /\ Read(Inst.rs1) \in Int
    BY <2>1, FetchedFacts, FieldFacts, ReadWord, WordInt
  <2>3. Address \in Int
    BY <2>2, WrapWord, WordInt DEF Address
  <2> QED BY <2>1, <2>3, LoadedInt, WriteRdOK
<1> QED BY <1>1, <1>2, <1>3, <1>4, <1>5

LEMMA JumpOK ==
  ASSUME Typed, Jal \/ Jalr \/ Branch
  PROVE  Typed'
<1> USE DEF Typed
<1>1. ASSUME NEW op, Fetched(op), NEW t \in Word, Jump(t) PROVE Typed'
  <2>1. pc + 4 \in Int /\ Inst.rd \in Reg
    BY <1>1, FetchedFacts, FieldFacts, WordInt
  <2>2. RegsOK(regs')
    BY <1>1, <2>1, WriteRegOK DEF Jump
  <2>3. ControlOK'
    BY <1>1, RetireOK DEF Jump
  <2> QED BY <1>1, <2>2, <2>3 DEF Jump, NoMemory, NoVector, MemoryOK, VectorOK, GemmOK, RegsOK
<1>2. CASE Jal
  <2>1. Fetched("JAL") /\ Jump(Wrap(pc + Imm(Inst)))
    BY <1>2 DEF Jal
  <2>2. pc + Imm(Inst) \in Int
    BY <2>1, FetchedFacts, FieldFacts
  <2> QED BY <1>1, <2>1, <2>2, WrapWord
<1>3. CASE Jalr
  <2> DEFINE t == Wrap(Read(Inst.rs1) + Imm(Inst))
  <2>1. Fetched("JALR") /\ Jump(t - (t % 2))
    BY <1>3 DEF Jalr
  <2>2. Read(Inst.rs1) + Imm(Inst) \in Int
    BY <2>1, FetchedFacts, FieldFacts, ReadWord, WordInt
  <2>3. t \in Word
    BY <2>2, WrapWord
  <2> HIDE DEF t
  <2>4. t - (t % 2) \in Word
    BY <2>3, Sizes, SMT DEF Word
  <2> QED BY <1>1, <2>1, <2>4
<1>4. CASE Branch
  <2>1. Fetched("BRANCH") /\ UNCHANGED regs /\ NoMemory /\ NoVector
          /\ \E s, n : n \in {Wrap(pc + Imm(Inst)), Next4} /\ Retire(s, n)
    BY <1>4 DEF Branch
  <2>2. pc + Imm(Inst) \in Int /\ Next4 \in Word
    BY <2>1, FetchedFacts, FieldFacts
  <2>3. ControlOK'
    BY <2>1, <2>2, WrapWord, RetireOK
  <2> QED BY <2>1, <2>3 DEF NoMemory, NoVector, MemoryOK, VectorOK, GemmOK, RegsOK
<1> QED BY <1>2, <1>3, <1>4

\* A job of the GEMM block writes its product, and that is all hidden gains.
LEMMA RunGemmFacts ==
  ASSUME Typed, NEW csr, GemmOK(csr), RunGemm(csr)
  PROVE  /\ GemmOK(gemm') /\ MemoryOK'
         /\ gemm' = GemmDone(csr)
         /\ hidden \subseteq hidden' /\ DOMAIN mem \subseteq DOMAIN mem'
         /\ \A x \in DOMAIN mem' \ hidden' : x \in DOMAIN mem /\ mem'[x] = mem[x]
<1> DEFINE m == csr[12]
           n == csr[16]
           k == csr[20]
           a == [i \in 0..(m * k - 1) |-> ByteAt(mem, csr[0] + i)]
           b == [i \in 0..(k * n - 1) |-> ByteAt(mem, csr[4] + i)]
           g == GemmInt8(a, b, m, n, k)
<1>1. m \in Nat /\ n \in Nat /\ k \in Nat /\ csr[8] \in Int
  <2>1. 8 \in GemmRegs /\ 12 \in GemmRegs /\ 16 \in GemmRegs /\ 20 \in GemmRegs
    BY RegFacts
  <2>2. csr[8] \in Word /\ csr[12] \in Word /\ csr[16] \in Word /\ csr[20] \in Word
    BY <2>1 DEF GemmOK
  <2> QED BY <2>2, WordInt
<1>2. Bytes(mem) /\ hidden \subseteq DOMAIN mem
  BY DEF Typed, MemoryOK
<1>3. gemm' = GemmDone(csr) /\ GemmOK(gemm')
  <2>1. gemm' = GemmDone(csr)
    BY DEF RunGemm
  <2>2. 2 \in Word
    <3>1. 1 \in 0..Bits /\ 0 \in 0..Bits /\ 2 \in 0..Bits /\ Bits \in 0..Bits /\ 2 <= Bits
      BY Sizes, SMT
    <3>2. 2 ^ (0 + 1) = 2 * 2 ^ 0 /\ 2 ^ (1 + 1) = 2 * 2 ^ 1
      BY <3>1, Sizes, Powers
    <3>3. 0 + 1 = 1 /\ 1 + 1 = 2
      OBVIOUS
    <3>4. 2 ^ 1 = 2
      BY <3>2, <3>3, PowerAssumption
    <3>5. 2 ^ 2 = 4
      BY <3>2, <3>3, <3>4
    <3>6. 2 ^ 2 <= Modulus
      BY <3>1, PowerOrder DEF Modulus
    <3> QED BY <3>5, <3>6, Sizes DEF Word
  <2> QED BY <2>1, <2>2 DEF GemmDone, GemmOK
<1>4. CASE m = 0 \/ n = 0 \/ k = 0
  <2>1. UNCHANGED <<mem, hidden>>
    BY <1>4 DEF RunGemm
  <2> QED BY <1>2, <1>3, <2>1 DEF MemoryOK
<1>5. CASE ~(m = 0 \/ n = 0 \/ k = 0)
  <2>1. /\ mem' = PutWords(mem, csr[8], g)
        /\ hidden' = hidden \cup csr[8]..(csr[8] + 4 * m * n - 1)
    BY <1>5 DEF RunGemm
  <2>2. a \in [0..(m * k - 1) -> Int] /\ b \in [0..(k * n - 1) -> Int]
    BY <1>2, ByteAtByte
  <2>3. m > 0 /\ n > 0
    BY <1>1, <1>5
  <2> DEFINE c == m * n
  <2>4. c \in Nat /\ 4 * m * n = 4 * c
    BY <1>1, SMT
  <2>5. DOMAIN g = 0..(c - 1) /\ \A i \in 0..(c - 1) : g[i] \in Int
    <3> HIDE DEF m, n, k, a, b
    <3> QED BY <1>1, <2>2, <2>3, GemmInt
  <2> HIDE DEF m, n, k, a, b, c, g
  <2>6. /\ Bytes(mem') /\ Covers(mem', mem, csr[8], 4 * c)
        /\ \A x \in DOMAIN mem \ csr[8]..(csr[8] + 4 * c - 1) : mem'[x] = mem[x]
    <3> DEFINE at == csr[8]
    <3>1. at \in Int /\ c \in Nat /\ Bytes(mem) /\ mem' = PutWords(mem, at, g)
      BY <1>1, <1>2, <2>1, <2>4
    <3> HIDE DEF at
    <3>2. /\ Bytes(PutWords(mem, at, g)) /\ Covers(PutWords(mem, at, g), mem, at, 4 * c)
          /\ \A x \in DOMAIN mem \ at..(at + 4 * c - 1) : PutWords(mem, at, g)[x] = mem[x]
      BY <2>5, <3>1, PutWordsFacts, Zenon
    <3>3. /\ Bytes(mem') /\ Covers(mem', mem, at, 4 * c)
          /\ \A x \in DOMAIN mem \ at..(at + 4 * c - 1) : mem'[x] = mem[x]
      BY <3>1, <3>2, Zenon
    <3> QED BY <3>3 DEF at
  <2>7. hidden' = hidden \cup csr[8]..(csr[8] + 4 * c - 1)
    BY <2>1, <2>4
  <2>8. DOMAIN mem' = DOMAIN mem \cup csr[8]..(csr[8] + 4 * c - 1)
    BY <2>6 DEF Covers
  <2>9. MemoryOK'
    BY <1>2, <2>6, <2>7, <2>8 DEF MemoryOK
  <2>10. \A x \in DOMAIN mem' \ hidden' : x \in DOMAIN mem /\ mem'[x] = mem[x]
    BY <2>6, <2>7, <2>8
  <2> QED BY <1>3, <2>7, <2>8, <2>9, <2>10
<1> QED BY <1>4, <1>5

LEMMA SizeFacts == \A f : Size(f) \in 0..4
  BY DEF Size

LEMMA StoreCsrOK ==
  ASSUME Typed, NEW a \in Int, NEW f, NEW v \in Word, StoreCsr(a, f, v)
  PROVE  GemmOK(gemm') /\ MemoryOK'
<1> DEFINE csr == [gemm EXCEPT ![GemmOff(a)] = v]
<1>1. GemmOK(csr)
  BY DEF GemmOK, Typed
<1>2. CASE f = "SW" /\ GemmOff(a) = 24 /\ v % 2 = 1
  <2>1. RunGemm(csr)
    BY <1>2 DEF StoreCsr
  <2> HIDE DEF csr
  <2> QED BY <1>1, <2>1, RunGemmFacts
<1>3. CASE ~(f = "SW" /\ GemmOff(a) = 24 /\ v % 2 = 1)
  <2>1. gemm' \in {gemm, csr, [csr EXCEPT ![28] = 0]} /\ UNCHANGED <<mem, hidden>>
    BY <1>3 DEF StoreCsr
  <2>2. 0 \in Word
    BY RegFacts
  <2>3. GemmOK(gemm) /\ GemmOK([csr EXCEPT ![28] = 0])
    BY <1>1, <2>2 DEF GemmOK, Typed
  <2>4. GemmOK(gemm')
    <3> HIDE DEF csr
    <3> QED BY <1>1, <2>1, <2>3
  <2> QED BY <2>1, <2>4 DEF MemoryOK, Typed
<1> QED BY <1>2, <1>3

LEMMA StoreMemOK ==
  ASSUME Typed, NEW a \in Int, NEW f, NEW v \in Int, StoreMem(a, f, v)
  PROVE  GemmOK(gemm') /\ MemoryOK'
<1>1. Size(f) \in 0..4 /\ Bytes(mem) /\ hidden \subseteq DOMAIN mem
  BY SizeFacts DEF Typed, MemoryOK
<1>2. /\ mem' = PutValue(mem, a, v, Size(f)) /\ hidden' = hidden \ a..(a + Size(f) - 1)
      /\ gemm' = gemm
  BY DEF StoreMem
<1>3. Bytes(mem') /\ Covers(mem', mem, a, Size(f))
  BY <1>1, <1>2, PutValueFacts
<1> QED BY <1>1, <1>2, <1>3 DEF Covers, MemoryOK, Typed

\* The operands of a store.
LEMMA StoreFacts ==
  ASSUME Typed, Fetched("STORE")
  PROVE  Address \in Word /\ Address \in Int /\ Read(Inst.rs2) \in Word /\ Read(Inst.rs2) \in Int
<1>1. Imm(Inst) \in Int /\ Read(Inst.rs1) \in Word /\ Read(Inst.rs2) \in Word
  BY FetchedFacts, FieldFacts, ReadWord DEF Typed
<1>2. Read(Inst.rs1) + Imm(Inst) \in Int
  BY <1>1, WordInt
<1>3. Address \in Word
  BY <1>2, WrapWord DEF Address
<1> QED BY <1>1, <1>3, WordInt

LEMMA StoreOK ==
  ASSUME Typed, Store
  PROVE  Typed'
<1> DEFINE a == Address
           v == Read(Inst.rs2)
           line == StoreLine(a, Inst.f, v)
<1>1. /\ Fetched("STORE")
      /\ IF GemmHit(a) THEN StoreCsr(a, Inst.f, v) ELSE StoreMem(a, Inst.f, v)
      /\ UNCHANGED regs /\ NoVector
      /\ \/ pc' = Next4 /\ stop' = "stopped" /\ UNCHANGED <<text, count>>
         \/ Retire(line, Next4)
  BY DEF Store
<1>2. a \in Int /\ v \in Word /\ v \in Int /\ Next4 \in Word
  BY <1>1, StoreFacts, FetchedFacts
<1> HIDE DEF a, v, line
<1>3. GemmOK(gemm') /\ MemoryOK'
  BY <1>1, <1>2, StoreCsrOK, StoreMemOK
<1>4. ControlOK'
  <2>1. CASE pc' = Next4 /\ stop' = "stopped" /\ UNCHANGED <<text, count>>
    BY <1>2, <2>1 DEF ControlOK, Typed
  <2>2. CASE Retire(line, Next4)
    BY <1>1, <1>2, <2>2, RetireOK
  <2> QED BY <1>1, <2>1, <2>2
<1> QED BY <1>1, <1>3, <1>4 DEF Typed, NoVector, VectorOK, RegsOK, GemmOK

LEMMA FaultOK == Typed /\ Fault => Typed'
  BY DEF Fault, Typed, ControlOK, RegsOK, MemoryOK, VectorOK, GemmOK

LEMMA SystemOK ==
  ASSUME Typed, Leave \/ Misaligned \/ System \/ Csr \/ BadSystem \/ Skip
  PROVE  Typed'
<1> USE DEF Typed
<1>1. CASE Leave
  BY <1>1 DEF Leave, ControlOK, RegsOK, MemoryOK, VectorOK, GemmOK
<1>2. CASE Misaligned \/ BadSystem
  BY <1>2, FaultOK DEF Misaligned, BadSystem
<1>3. CASE System \/ Skip
  <2>1. PICK op, t : /\ Fetched(op) /\ Retire(t, Next4)
                     /\ UNCHANGED regs /\ NoMemory /\ NoVector
    BY <1>3 DEF System, Skip
  <2>2. ControlOK'
    BY <2>1, FetchedFacts, RetireOK
  <2> QED BY <2>1, <2>2 DEF NoMemory, NoVector, MemoryOK, VectorOK, GemmOK, RegsOK
<1>4. CASE Csr
  <2>1. CASE Inst.f \in DOMAIN CsrValue
    <3>1. PICK t : /\ Fetched("SYSTEM") /\ regs' = WriteReg(regs, Inst.rd, CsrValue[Inst.f])
                   /\ Retire(t, Next4) /\ NoMemory /\ NoVector
      BY <1>4, <2>1 DEF Csr
    <3>2. CsrValue[Inst.f] \in Int
      <4>1. vl \in Int /\ vtype \in Int /\ 4 * Vlmax \in Int
        <5>1. VtypeLegal \in Int /\ VtypeVill \in Int /\ Vlmax \in Nat
          BY IssAssumption, Sizes, WordInt DEF VtypeVill
        <5> QED BY <5>1 DEF VectorOK
      <4>2. Inst.f \in {"vl", "vtype", "vlenb", "vstart"}
        BY <2>1 DEF CsrValue
      <4> QED BY <4>1, <4>2 DEF CsrValue
    <3>3. RegsOK(regs') /\ Next4 \in Word
      BY <3>1, <3>2, FetchedFacts, FieldFacts, WriteRegOK
    <3>4. ControlOK'
      BY <3>1, <3>3, RetireOK
    <3> QED BY <3>1, <3>3, <3>4 DEF NoMemory, NoVector, MemoryOK, VectorOK, GemmOK, RegsOK
  <2>2. CASE Inst.f \notin DOMAIN CsrValue
    BY <1>4, <2>2, FaultOK DEF Csr
  <2> QED BY <2>1, <2>2
<1> QED BY <1>1, <1>2, <1>3, <1>4

LEMMA VectorFacts ==
  ASSUME VectorOK, Vlmax # 0
  PROVE  /\ vl \in Nat /\ vl <= Vlmax /\ Vlmax \in Nat /\ Vlmax <= Bits
         /\ 0..(vl - 1) \subseteq Elements /\ Elements = 0..(Vlmax - 1)
         /\ \A r \in Reg : \A i \in Elements : vregs[r][i] \in Word
         /\ Ones \in Word /\ Ones \in Int
<1>1. Vlmax \in 0..Bits /\ Bits \in Nat
  BY IssAssumption, Sizes
<1>2. vl \in 0..Vlmax /\ vregs \in [Reg -> [Elements -> Word]]
  BY DEF VectorOK
<1>3. Ones \in Word
  BY Sizes, SMT DEF Ones, Word
<1> QED BY <1>1, <1>2, <1>3, WordInt DEF Elements

LEMMA VsetOK ==
  ASSUME Typed, Vset
  PROVE  Typed'
<1>1. CASE Vlmax = 0 \/ Inst.f \notin {"vsetvli", "vsetivli", "vsetvl"}
  BY <1>1, FaultOK DEF Vset
<1>2. CASE ~(Vlmax = 0 \/ Inst.f \notin {"vsetvli", "vsetivli", "vsetvl"})
  <2>1. PICK req : Fetched("VSET") /\ ApplyVset(req)
    BY <1>2 DEF Vset
  <2>2. /\ Inst.rd \in Reg /\ Inst.rs1 \in Reg /\ Inst.rs1 \in Nat /\ Next4 \in Word
        /\ Read(Inst.rs1) \in Nat
    BY <2>1, FetchedFacts, FieldFacts, RegFacts, ReadWord, WordInt DEF Typed
  <2>3. vl \in 0..Vlmax /\ Vlmax \in Nat
    BY IssAssumption DEF Typed, VectorOK
  <2>4. NewVl(Inst) \in 0..Vlmax
    BY <2>2, <2>3 DEF NewVl
  <2>5. /\ vl' = (IF req = VtypeLegal THEN NewVl(Inst) ELSE 0)
        /\ vtype' = (IF req = VtypeLegal THEN VtypeLegal ELSE VtypeVill)
        /\ vregs' = vregs /\ regs' = WriteReg(regs, Inst.rd, vl')
        /\ NoMemory
    BY <2>1 DEF ApplyVset
  <2>6. vl' \in 0..Vlmax /\ vl' \in Int
    BY <2>3, <2>4, <2>5
  <2>7. RegsOK(regs')
    BY <2>2, <2>5, <2>6, WriteRegOK DEF Typed
  <2>8. ControlOK'
    <3>1. PICK t : Retire(t, Next4)
      BY <2>1 DEF ApplyVset
    <3> QED BY <2>1, <2>2, <3>1, RetireOK
  <2>9. VectorOK'
    <3>1. vregs' \in [Reg -> [Elements' -> Word]]
      BY <1>2, <2>5 DEF Typed, VectorOK, Elements
    <3> QED BY <1>2, <2>5, <2>6, <3>1 DEF VectorOK
  <2> QED BY <2>5, <2>7, <2>8, <2>9 DEF Typed, NoMemory, MemoryOK, GemmOK
<1> QED BY <1>1, <1>2

\* A vector register is written with words.
LEMMA WriteVregOK ==
  ASSUME Typed, Vlmax # 0, NEW op, Fetched(op), NEW e, WriteVreg(e), NoMemory,
         vtype # VtypeVill => e \in [Elements -> Word]
  PROVE  Typed'
<1>1. Next4 \in Word
  BY FetchedFacts
<1>2. ControlOK'
  BY <1>1, RetireOK DEF WriteVreg
<1>3. VectorOK'
  <2>1. vregs \in [Reg -> [Elements -> Word]]
    BY DEF Typed, VectorOK
  <2>2. vregs' \in [Reg -> [Elements -> Word]]
    <3>1. vregs' = IF vtype = VtypeVill THEN vregs ELSE [vregs EXCEPT ![Inst.rd] = e]
      BY DEF WriteVreg
    <3> QED BY <2>1, <3>1
  <2> QED BY <2>2 DEF Typed, VectorOK, WriteVreg, Elements
<1> QED BY <1>2, <1>3 DEF Typed, WriteVreg, NoMemory, MemoryOK, GemmOK, RegsOK

LEMMA WithTailOK ==
  ASSUME Typed, Vlmax # 0, NEW e, \A i \in 0..(vl - 1) : e[i] \in Word
  PROVE  WithTail(e) \in [Elements -> Word]
<1>1. \A i \in Elements : i < vl => i \in 0..(vl - 1)
  BY VectorFacts DEF Typed
<1>2. Ones \in Word
  BY VectorFacts DEF Typed
<1> QED BY <1>1, <1>2 DEF WithTail

LEMMA ValuOK ==
  ASSUME Typed, Valu
  PROVE  Typed'
<1>1. CASE Vlmax = 0 \/ (vtype # VtypeVill /\ ~ValuLegal)
  BY <1>1, FaultOK DEF Valu
<1>2. CASE ~(Vlmax = 0 \/ (vtype # VtypeVill /\ ~ValuLegal))
  <2> DEFINE e == IF vtype = VtypeVill THEN Ones
                  ELSE IF Inst.f \in Compares THEN CmpResult
                  ELSE WithTail([i \in 0..(vl - 1) |-> ValuOp(Inst.f, Source(i), Operand(i))])
  <2>1. Fetched("VALU") /\ Vlmax # 0 /\ WriteVreg(e) /\ NoMemory
    BY <1>2 DEF Valu
  <2>2. ASSUME vtype # VtypeVill PROVE e \in [Elements -> Word]
    <3>1. Inst.rd \in Reg /\ Inst.rs1 \in Reg /\ Inst.rs2 \in Reg
      BY <2>1, FetchedFacts, FieldFacts
    <3>2. \A i \in 0..(vl - 1) : Source(i) \in Word
      BY <2>1, <3>1, VectorFacts DEF Source, Typed
    <3>3. \A i \in 0..(vl - 1) : Operand(i) \in Word
      <4> SUFFICES ASSUME NEW i \in 0..(vl - 1) PROVE Operand(i) \in Word
        OBVIOUS
      <4>1. vregs[Inst.rs1][i] \in Word
        BY <2>1, <3>1, VectorFacts DEF Typed
      <4>2. Read(Inst.rs1) \in Word
        BY <3>1, ReadWord DEF Typed
      <4>3. Inst.rs1 \in Word /\ SignExtend(Inst.rs1, RegBits) \in Word
        BY <3>1, RegFacts, WordInt, SignExtendWord
      <4> QED BY <4>1, <4>2, <4>3 DEF Operand
    <3>4. CASE Inst.f \in Compares
      <4>1. Mask({x \in 0..(vl - 1) : ValuCmp(Inst.f, Source(x), Operand(x))}, vl, Vlmax) \in Word
        <5> DEFINE hits == {x \in 0..(vl - 1) : ValuCmp(Inst.f, Source(x), Operand(x))}
        <5>1. hits \subseteq 0..(vl - 1)
          OBVIOUS
        <5> HIDE DEF hits
        <5>2. /\ hits \subseteq 0..(Vlmax - 1) /\ vl \in Nat /\ Vlmax \in Nat /\ Vlmax <= Bits
          BY <2>1, <5>1, VectorFacts DEF Typed
        <5>3. Mask(hits, vl, Vlmax) \in Word
          BY <5>2, MaskWord
        <5> QED BY <5>3 DEF hits
      <4>2. Ones \in Word
        BY <2>1, VectorFacts DEF Typed
      <4>3. CmpResult \in [Elements -> Word]
        BY <4>1, <4>2 DEF CmpResult
      <4> QED BY <2>2, <3>4, <4>3
    <3>5. CASE Inst.f \notin Compares
      <4>1. Forms(Inst.f) # {}
        BY <1>2, <2>2 DEF ValuLegal
      <4> DEFINE o == [i \in 0..(vl - 1) |-> ValuOp(Inst.f, Source(i), Operand(i))]
      <4>2. \A i \in 0..(vl - 1) : o[i] \in Word
        <5>1. \A i \in 0..(vl - 1) : ValuOp(Inst.f, Source(i), Operand(i)) \in Word
          BY <3>2, <3>3, <3>5, <4>1, ValuWord
        <5> QED BY <5>1
      <4>3. WithTail(o) \in [Elements -> Word]
        <5> HIDE DEF o
        <5> QED BY <2>1, <4>2, WithTailOK
      <4> QED BY <2>2, <3>5, <4>3
    <3> QED BY <3>4, <3>5
  <2> HIDE DEF e
  <2> QED BY <2>1, <2>2, WriteVregOK
<1> QED BY <1>1, <1>2

LEMMA VleOK ==
  ASSUME Typed, Vle
  PROVE  Typed'
<1>1. CASE Vlmax = 0 \/ Inst.f # "e32"
  BY <1>1, FaultOK DEF Vle
<1>2. CASE ~(Vlmax = 0 \/ Inst.f # "e32")
  <2> DEFINE o == [i \in 0..(vl - 1) |-> ValueAt(mem, Read(Inst.rs1) + 4 * i, 4)]
  <2>1. Fetched("VLE") /\ Vlmax # 0 /\ WriteVreg(WithTail(o)) /\ NoMemory
    BY <1>2 DEF Vle
  <2>2. Read(Inst.rs1) \in Int
    BY <2>1, FetchedFacts, FieldFacts, ReadWord, WordInt DEF Typed
  <2>3. \A i \in 0..(vl - 1) : o[i] \in Word
    <3>1. 4 \in 1..4 /\ Bytes(mem)
      BY DEF Typed, MemoryOK
    <3>2. \A i \in 0..(vl - 1) : Read(Inst.rs1) + 4 * i \in Int
      BY <2>2
    <3>3. \A i \in 0..(vl - 1) : ValueAt(mem, Read(Inst.rs1) + 4 * i, 4) \in Word
      BY <3>1, <3>2, ValueWord
    <3> QED BY <3>3
  <2> HIDE DEF o
  <2>4. WithTail(o) \in [Elements -> Word]
    BY <2>1, <2>3, WithTailOK
  <2> QED BY <2>1, <2>4, WriteVregOK
<1> QED BY <1>1, <1>2

\* What vse changes of the memory it hides.
LEMMA VseFacts ==
  ASSUME Typed, Vse
  PROVE  \/ Fault
         \/ /\ Fetched("VSE") /\ Retire({}, Next4) /\ UNCHANGED <<regs, gemm>> /\ NoVector
            /\ MemoryOK' /\ hidden \subseteq hidden' /\ DOMAIN mem \subseteq DOMAIN mem'
            /\ \A x \in DOMAIN mem' \ hidden' : x \in DOMAIN mem /\ mem'[x] = mem[x]
<1>1. CASE Vlmax = 0 \/ Inst.f # "e32"
  BY <1>1 DEF Vse
<1>2. CASE ~(Vlmax = 0 \/ Inst.f # "e32")
  <2>1. Fetched("VSE") /\ Retire({}, Next4) /\ UNCHANGED <<regs, gemm>> /\ NoVector
    BY <1>2 DEF Vse
  <2>2. Bytes(mem) /\ hidden \subseteq DOMAIN mem
    BY DEF Typed, MemoryOK
  <2>3. CASE vtype = VtypeVill \/ vl = 0
    <3>1. UNCHANGED <<mem, hidden>>
      BY <1>2, <2>3 DEF Vse
    <3> QED BY <2>1, <2>2, <3>1 DEF MemoryOK
  <2>4. CASE ~(vtype = VtypeVill \/ vl = 0)
    <3> DEFINE base == Read(Inst.rs1)
               ws == [i \in 0..(vl - 1) |-> vregs[Inst.rd][i]]
    <3>1. mem' = PutWords(mem, base, ws) /\ hidden' = hidden \cup base..(base + 4 * vl - 1)
      BY <1>2, <2>4 DEF Vse
    <3>2. base \in Int /\ vl \in Nat
      BY <1>2, <2>1, FetchedFacts, FieldFacts, ReadWord, WordInt, VectorFacts DEF Typed
    <3>3. DOMAIN ws = 0..(vl - 1) /\ \A i \in 0..(vl - 1) : ws[i] \in Int
      <4>1. Inst.rd \in Reg
        BY <2>1, FetchedFacts, FieldFacts
      <4> QED BY <1>2, <4>1, VectorFacts, WordInt DEF Typed
    <3> HIDE DEF base, ws
    <3>4. /\ Bytes(PutWords(mem, base, ws)) /\ Covers(PutWords(mem, base, ws), mem, base, 4 * vl)
          /\ \A x \in DOMAIN mem \ base..(base + 4 * vl - 1) : PutWords(mem, base, ws)[x] = mem[x]
      BY <2>2, <3>2, <3>3, PutWordsFacts, Zenon
    <3>5. DOMAIN mem' = DOMAIN mem \cup base..(base + 4 * vl - 1)
      BY <3>1, <3>4 DEF Covers
    <3>6. \A x \in DOMAIN mem' \ hidden' : x \in DOMAIN mem /\ mem'[x] = mem[x]
      BY <3>1, <3>4, <3>5
    <3>7. MemoryOK' /\ hidden \subseteq hidden' /\ DOMAIN mem \subseteq DOMAIN mem'
      BY <2>2, <3>1, <3>4, <3>5 DEF MemoryOK
    <3> QED BY <2>1, <3>6, <3>7
  <2> QED BY <2>3, <2>4
<1> QED BY <1>1, <1>2

LEMMA VseOK ==
  ASSUME Typed, Vse
  PROVE  Typed'
<1>1. CASE Fault
  BY <1>1, FaultOK
<1>2. CASE /\ Fetched("VSE") /\ Retire({}, Next4) /\ UNCHANGED <<regs, gemm>> /\ NoVector
           /\ MemoryOK'
  <2>1. ControlOK'
    BY <1>2, FetchedFacts, RetireOK
  <2> QED BY <1>2, <2>1 DEF Typed, NoVector, VectorOK, GemmOK, RegsOK
<1> QED BY <1>1, <1>2, VseFacts

LEMMA TypedStep == Typed /\ [Next]_vars => Typed'
<1> SUFFICES ASSUME Typed, [Next]_vars PROVE Typed'
  OBVIOUS
<1>1. CASE Lui \/ ImmOp \/ RegOp \/ Auipc \/ Load
  BY <1>1, ScalarOK
<1>2. CASE Jal \/ Jalr \/ Branch
  BY <1>2, JumpOK
<1>3. CASE Store
  BY <1>3, StoreOK
<1>4. CASE Leave \/ Misaligned \/ System \/ Csr \/ BadSystem \/ Skip
  BY <1>4, SystemOK
<1>5. CASE Vset
  BY <1>5, VsetOK
<1>6. CASE Valu
  BY <1>6, ValuOK
<1>7. CASE Vle
  BY <1>7, VleOK
<1>8. CASE Vse
  BY <1>8, VseOK
<1>9. CASE UNCHANGED vars
  BY <1>9 DEF vars, Typed, ControlOK, RegsOK, MemoryOK, VectorOK, GemmOK
<1> QED BY <1>1, <1>2, <1>3, <1>4, <1>5, <1>6, <1>7, <1>8, <1>9 DEF Next

LEMMA TypedAlways == Spec => []Typed
  BY TypedInit, TypedStep, PTL DEF Spec

\* No program holds data where its text is.
TextApart == \A a \in DOMAIN mem : ~InText(a)

\* While no data lies in the text, every part of the machine has its range,
\* at every step of every program: x0 stays 0, whatever writes it; vl never
\* passes the vector register and is 0 while vill is set; memory holds bytes,
\* the elements of the vector registers are words, and what the trace hides
\* has been written (TypeOK).
THEOREM IssTypes == Spec => [](TextApart => TypeOK)
<1>1. Typed => (TextApart => TypeOK)
  BY DEF Typed, ControlOK, RegsOK, MemoryOK, VectorOK, GemmOK, Bytes, TextApart, TypeOK
<1> QED BY <1>1, TypedAlways, PTL

-----------------------------------------------------------------------------
(* The trace, line by line.                                                *)

Notes == {"taken", "not taken", "ecall", "ebreak"}
Touch == [kind : {"reg", "mem", "pc"} \cup Notes, at : Int, val : Int]
Entered == [pc : Word, inst : Instruction, touched : SUBSET Touch]
Trace(l) == FoldLeft(Line, Start, l)

\* The fold of a trace, as FoldLeft takes it.
TraceStep(l, g) ==
  [s \in SUBSET DOMAIN l |-> IF s = {} THEN Start
                             ELSE Line(g[s \ {Max(s)}], l[Max(s)])]

LEMMA TraceExists ==
  ASSUME NEW S, NEW l \in Seq(S)
  PROVE  \E g : g = TraceStep(l, g) /\ Trace(l) = g[1..Len(l)]
<1> DEFINE D == 1..Len(l)
           Small(n) == {s \in SUBSET D : Cardinality(s) <= n}
           Rule(h, n) == \A s \in Small(n) :
                           h[s] = IF s = {} THEN Start ELSE Line(h[s \ {Max(s)}], l[Max(s)])
           Solved == {n \in Nat : \E h : Rule(h, n)}
<1>0. Len(l) \in Nat /\ DOMAIN l = D /\ IsFiniteSet(D)
  BY FS_Interval
<1>1. \A s \in SUBSET D : IsFiniteSet(s) /\ Cardinality(s) \in Nat
                            /\ (Cardinality(s) = 0 <=> s = {})
  <2> HIDE DEF D
  <2> QED BY <1>0, FS_Subset, FS_CardinalityType, FS_EmptySet
<1>2. ASSUME NEW s \in SUBSET D, s # {}
      PROVE  /\ Max(s) \in s /\ s \ {Max(s)} \in SUBSET D
             /\ Cardinality(s \ {Max(s)}) = Cardinality(s) - 1
  <2>1. Max(s) \in s
    BY <1>0, <1>2, MaxExists
  <2>2. IsFiniteSet(s)
    BY <1>1
  <2> DEFINE x == Max(s)
  <2>3. x \in s
    BY <2>1
  <2> HIDE DEF x
  <2>4. Cardinality(s \ {x}) = Cardinality(s) - 1
    BY <2>2, <2>3, FS_RemoveElement, Zenon
  <2> QED BY <2>1, <2>4 DEF x
<1>3. 0 \in Solved
  <2> DEFINE h == [s \in Small(0) |-> Start]
  <2>1. \A s \in Small(0) : s = {}
    BY <1>1
  <2>2. \A s \in Small(0) : h[s] = Start
    OBVIOUS
  <2> HIDE DEF h
  <2>3. Rule(h, 0)
    BY <2>1, <2>2
  <2> QED BY <2>3
<1>4. ASSUME NEW n \in Nat, n \in Solved PROVE n + 1 \in Solved
  <2>1. PICK h : Rule(h, n)
    BY <1>4
  <2> DEFINE k == [s \in Small(n + 1) |->
                     IF s = {} THEN Start ELSE Line(h[s \ {Max(s)}], l[Max(s)])]
  <2>2. \A s \in Small(n + 1) : s # {} => s \ {Max(s)} \in Small(n)
    BY <1>1, <1>2
  <2>3. \A s \in Small(n) : k[s] = h[s]
    <3> SUFFICES ASSUME NEW s \in Small(n) PROVE k[s] = h[s]
      OBVIOUS
    <3>1. s \in Small(n + 1)
      BY <1>1
    <3> QED BY <2>1, <3>1
  <2>4. Rule(k, n + 1)
    <3> SUFFICES ASSUME NEW s \in Small(n + 1)
                 PROVE  k[s] = IF s = {} THEN Start ELSE Line(k[s \ {Max(s)}], l[Max(s)])
      OBVIOUS
    <3> HIDE DEF Small
    <3> QED BY <2>2, <2>3
  <2>5. \E f : Rule(f, n + 1)
    <3> HIDE DEF k, Rule
    <3> QED BY <2>4
  <2>6. n + 1 \in Nat
    OBVIOUS
  <2> HIDE DEF k, Rule
  <2> QED BY <2>5, <2>6
<1>5. Cardinality(D) \in Nat /\ Small(Cardinality(D)) = SUBSET D
  <2>1. \A s \in SUBSET D : Cardinality(s) <= Cardinality(D)
    <3> HIDE DEF D
    <3> QED BY <1>0, FS_Subset
  <2> HIDE DEF D
  <2> QED BY <1>0, <2>1, FS_CardinalityType
<1>6. PICK h : Rule(h, Cardinality(D))
  <2>1. Nat \subseteq Solved
    <3> HIDE DEF Solved
    <3> QED BY <1>3, <1>4, NatSetInduction
  <2> HIDE DEF Rule, D
  <2> QED BY <1>5, <2>1
<1> DEFINE f == [s \in SUBSET D |-> h[s]]
<1>7. f = TraceStep(l, f)
  <2> SUFFICES ASSUME NEW s \in SUBSET D
               PROVE  h[s] = IF s = {} THEN Start ELSE Line(f[s \ {Max(s)}], l[Max(s)])
    BY <1>0 DEF TraceStep
  <2>1. h[s] = IF s = {} THEN Start ELSE Line(h[s \ {Max(s)}], l[Max(s)])
    BY <1>5, <1>6
  <2>2. f[s \ {Max(s)}] = h[s \ {Max(s)}]
    OBVIOUS
  <2> QED BY <2>1, <2>2
<1> DEFINE it == CHOOSE g : g = TraceStep(l, g)
<1>8. it = TraceStep(l, it)
  <2> HIDE DEF f
  <2> QED BY <1>7, Zenon
<1>9. Trace(l) = it[DOMAIN l]
  BY Zenon DEF Trace, FoldLeft, MapThenFoldSet, TraceStep
<1>10. Trace(l) = it[1..Len(l)]
  <2> HIDE DEF it
  <2> QED BY <1>0, <1>9
<1> HIDE DEF it
<1> QED BY <1>8, <1>10

\* What holds along a trace is decided by its beginning.
LEMMA TracePrefix ==
  ASSUME NEW S, NEW l \in Seq(S), NEW m \in Seq(S), Len(l) <= Len(m),
         \A i \in 1..Len(l) : l[i] = m[i],
         NEW g, g = TraceStep(l, g), NEW h, h = TraceStep(m, h)
  PROVE  \A k \in 0..Len(l) :
           /\ g[1..k] = h[1..k]
           /\ g[1..k] = IF k = 0 THEN Start ELSE Line(g[1..(k - 1)], l[k])
<1>0. Len(l) \in Nat /\ Len(m) \in Nat /\ DOMAIN l = 1..Len(l) /\ DOMAIN m = 1..Len(m)
  OBVIOUS
<1>1. ASSUME NEW k \in 1..Len(m)
      PROVE  Max(1..k) = k /\ (1..k) \ {k} = 1..(k - 1) /\ 1..k # {} /\ 1..k \in SUBSET (1..Len(m))
  <2>0. k \in Int /\ k >= 1 /\ k <= Len(m) /\ k \in 1..k
    BY <1>0
  <2>1. 1..k # {} /\ (1..k) \ {k} = 1..(k - 1) /\ 1..k \in SUBSET (1..Len(m)) /\ k \in 1..k
    <3>1. 1..k # {}
      BY <2>0
    <3>2. (1..k) \ {k} = 1..(k - 1)
      BY <2>0
    <3>3. \A i \in 1..k : i \in 1..Len(m)
      BY <1>0, <2>0
    <3> QED BY <2>0, <3>1, <3>2, <3>3
  <2>2. Max(1..k) \in 1..k /\ \A y \in 1..k : Max(1..k) >= y
    BY <1>0, <2>1, MaxExists
  <2>3. Max(1..k) = k
    BY <2>1, <2>2
  <2> QED BY <2>1, <2>3
<1>2. ASSUME NEW k \in 0..Len(m)
      PROVE  h[1..k] = IF k = 0 THEN Start ELSE Line(h[1..(k - 1)], m[k])
  <2>1. CASE k = 0
    <3>1. 1..0 = {} /\ {} \in SUBSET DOMAIN m
      OBVIOUS
    <3> QED BY <2>1, <3>1 DEF TraceStep
  <2>2. CASE k # 0
    <3>1. k \in 1..Len(m)
      BY <2>2
    <3>2. h[1..k] = Line(h[(1..k) \ {Max(1..k)}], m[Max(1..k)])
      BY <1>0, <1>1, <3>1 DEF TraceStep
    <3> QED BY <1>1, <2>2, <3>1, <3>2
  <2> QED BY <2>1, <2>2
<1>3. ASSUME NEW k \in 0..Len(l)
      PROVE  g[1..k] = IF k = 0 THEN Start ELSE Line(g[1..(k - 1)], l[k])
  <2>1. CASE k = 0
    <3>1. 1..0 = {} /\ {} \in SUBSET DOMAIN l
      OBVIOUS
    <3> QED BY <2>1, <3>1 DEF TraceStep
  <2>2. CASE k # 0
    <3>1. k \in 1..Len(m) /\ 1..k \in SUBSET DOMAIN l
      BY <1>0, <2>2
    <3>2. g[1..k] = Line(g[(1..k) \ {Max(1..k)}], l[Max(1..k)])
      BY <1>0, <1>1, <3>1 DEF TraceStep
    <3> QED BY <1>1, <2>2, <3>1, <3>2
  <2> QED BY <2>1, <2>2
<1> DEFINE Same == {k \in Nat : k <= Len(l) => g[1..k] = h[1..k]}
<1>4. 0 \in Same
  BY <1>0, <1>2, <1>3
<1>5. ASSUME NEW k \in Nat, k \in Same PROVE k + 1 \in Same
  <2> SUFFICES ASSUME k + 1 <= Len(l) PROVE g[1..(k + 1)] = h[1..(k + 1)]
    OBVIOUS
  <2>1. /\ k + 1 \in 0..Len(l) /\ k + 1 \in 0..Len(m) /\ k + 1 # 0 /\ (k + 1) - 1 = k
        /\ k <= Len(l) /\ k + 1 \in 1..Len(l)
    BY <1>0
  <2>2. g[1..(k + 1)] = Line(g[1..k], l[k + 1]) /\ h[1..(k + 1)] = Line(h[1..k], m[k + 1])
    BY <1>2, <1>3, <2>1
  <2>3. l[k + 1] = m[k + 1] /\ g[1..k] = h[1..k]
    BY <1>5, <2>1
  <2> QED BY <2>2, <2>3
<1>6. Nat \subseteq Same
  <2> HIDE DEF Same
  <2> QED BY <1>4, <1>5, NatSetInduction
<1> QED BY <1>0, <1>3, <1>6

LEMMA NothingToFold == 1..0 = {} /\ \A D : {} \in SUBSET D
  OBVIOUS

\* A trace is replayed line by line.
LEMMA TraceAppend ==
  ASSUME NEW S, NEW l \in Seq(S), NEW e \in S
  PROVE  Trace(<<>>) = Start /\ Trace(Append(l, e)) = Line(Trace(l), e)
<1>1. ASSUME NEW m \in Seq(S) PROVE \E g : g = TraceStep(m, g) /\ Trace(m) = g[1..Len(m)]
  BY TraceExists
<1>2. Trace(<<>>) = Start
  <2>1. <<>> \in Seq(S) /\ Len(<<>>) = 0
    OBVIOUS
  <2>2. PICK g : g = TraceStep(<<>>, g) /\ Trace(<<>>) = g[1..0]
    BY <1>1, <2>1
  <2>3. 1..0 = {} /\ \A D : {} \in SUBSET D
    BY NothingToFold
  <2> QED BY <2>2, <2>3 DEF TraceStep
<1> DEFINE m == Append(l, e)
<1>3. m \in Seq(S) /\ Len(m) = Len(l) + 1 /\ Len(l) \in Nat /\ m[Len(m)] = e
        /\ \A i \in 1..Len(l) : l[i] = m[i]
  OBVIOUS
<1> HIDE DEF m
<1>4. PICK g : g = TraceStep(l, g) /\ Trace(l) = g[1..Len(l)]
  BY <1>1
<1>5. PICK h : h = TraceStep(m, h) /\ Trace(m) = h[1..Len(m)]
  BY <1>1, <1>3
<1>6. g[1..Len(l)] = h[1..Len(l)]
  <2>1. Len(l) <= Len(m) /\ Len(l) \in 0..Len(l)
    BY <1>3
  <2> QED BY <1>3, <1>4, <1>5, <2>1, TracePrefix
<1>7. h[1..Len(m)] = Line(h[1..(Len(m) - 1)], m[Len(m)])
  <2>1. Len(m) <= Len(m) /\ Len(m) \in 0..Len(m) /\ Len(m) # 0
    BY <1>3
  <2> QED BY <1>3, <1>5, <2>1, TracePrefix
<1>8. Len(m) - 1 = Len(l)
  BY <1>3
<1>9. Trace(m) = Line(Trace(l), e)
  BY <1>3, <1>4, <1>5, <1>6, <1>7, <1>8
<1> QED BY <1>2, <1>9 DEF m

-----------------------------------------------------------------------------
(* What a line replays.                                                    *)

LineReg(e) == {t \in e.touched : t.kind = "reg" /\ t.at # 0}
LinePut(e) == {t \in e.touched : t.kind = "mem"}
LineJump(e) == {t \in e.touched : t.kind = "pc"}
Some(S) == CHOOSE t \in S : TRUE

LEMMA LineFields ==
  ASSUME NEW s, NEW e
  PROVE  LET put == LinePut(e)
             reg == LineReg(e)
             m == Some(put)
             csr == put # {} /\ GemmHit(m.at)
             q == Line(s, e)
         IN  /\ q.pc = IF LineJump(e) = {} THEN e.pc + 4 ELSE Some(LineJump(e)).val
             /\ q.regs = [r \in Reg |-> IF \E t \in reg : t.at = r
                                        THEN Some(reg).val ELSE s.regs[r]]
             /\ q.mem = IF put = {} \/ csr THEN s.mem
                        ELSE PutValue(s.mem, m.at, m.val, Size(e.inst.f))
             /\ q.gemm = IF csr /\ e.inst.f = "SW" /\ GemmOff(m.at) # 28
                         THEN [s.gemm EXCEPT ![GemmOff(m.at)] = m.val] ELSE s.gemm
             /\ (s.good /\ QuietTo(s.pc, e.pc) /\ e.inst = Code(e.pc)) => q.good
BY DEF Line, LineReg, LinePut, LineJump, Some

LEMMA SomeOne == \A x : Some({x}) = x
BY DEF Some

\* A line of a register, with a jump or without.
LEMMA RegLine ==
  ASSUME NEW s, NEW e, NEW rd, NEW v, NEW t,
         \/ e.touched = {RegIs(rd, v)} /\ t = e.pc + 4
         \/ e.touched = {RegIs(rd, v), PcIs(t)}
  PROVE  LET q == Line(s, e)
         IN  /\ q.pc = t /\ q.mem = s.mem /\ q.gemm = s.gemm
             /\ q.regs = [r \in Reg |-> IF rd # 0 /\ r = rd THEN v ELSE s.regs[r]]
<1>1. LinePut(e) = {}
  BY DEF LinePut, RegIs, PcIs
<1>2. LineReg(e) = IF rd = 0 THEN {} ELSE {RegIs(rd, v)}
  BY DEF LineReg, RegIs, PcIs
<1>3. (IF LineJump(e) = {} THEN e.pc + 4 ELSE Some(LineJump(e)).val) = t
  <2>1. CASE e.touched = {RegIs(rd, v)} /\ t = e.pc + 4
    BY <2>1 DEF LineJump, RegIs
  <2>2. CASE e.touched = {RegIs(rd, v), PcIs(t)}
    <3>1. LineJump(e) = {PcIs(t)}
      BY <2>2 DEF LineJump, RegIs, PcIs
    <3>2. Some(LineJump(e)) = PcIs(t) /\ LineJump(e) # {}
      BY <3>1, SomeOne
    <3>3. PcIs(t).val = t
      BY DEF PcIs
    <3> QED BY <3>2, <3>3
  <2> QED BY <2>1, <2>2
<1>4. Line(s, e).pc = t
  BY <1>3, LineFields
<1>5. Line(s, e).mem = s.mem /\ Line(s, e).gemm = s.gemm
  BY <1>1, LineFields
<1>6. Line(s, e).regs = [r \in Reg |-> IF rd # 0 /\ r = rd THEN v ELSE s.regs[r]]
  <2>1. Line(s, e).regs = [r \in Reg |-> IF \E x \in LineReg(e) : x.at = r
                                         THEN Some(LineReg(e)).val ELSE s.regs[r]]
    BY LineFields
  <2>2. CASE rd = 0
    BY <1>2, <2>1, <2>2
  <2>3. CASE rd # 0
    <3>1. LineReg(e) = {RegIs(rd, v)} /\ Some(LineReg(e)) = RegIs(rd, v)
      BY <1>2, <2>3, SomeOne
    <3>2. \A r : (\E x \in LineReg(e) : x.at = r) <=> rd = r
      BY <3>1 DEF RegIs
    <3>3. Some(LineReg(e)).val = v
      BY <3>1 DEF RegIs
    <3> QED BY <2>1, <2>3, <3>2, <3>3
  <2> QED BY <2>2, <2>3
<1> QED BY <1>4, <1>5, <1>6

\* A line of a branch, or of a call of the environment.
LEMMA NoteLine ==
  ASSUME NEW s, NEW e, NEW n, NEW t, n \notin {"reg", "mem", "pc"},
         \/ e.touched = {Note(n)} /\ t = e.pc + 4
         \/ e.touched = {Note(n), PcIs(t)}
  PROVE  LET q == Line(s, e)
         IN  /\ q.pc = t /\ q.mem = s.mem /\ q.gemm = s.gemm
             /\ q.regs = [r \in Reg |-> s.regs[r]]
<1>1. LinePut(e) = {} /\ LineReg(e) = {}
  BY DEF LinePut, LineReg, Note, PcIs
<1>2. (IF LineJump(e) = {} THEN e.pc + 4 ELSE Some(LineJump(e)).val) = t
  <2>1. CASE e.touched = {Note(n)} /\ t = e.pc + 4
    BY <2>1 DEF LineJump, Note
  <2>2. CASE e.touched = {Note(n), PcIs(t)}
    <3>1. LineJump(e) = {PcIs(t)}
      BY <2>2 DEF LineJump, Note, PcIs
    <3>2. Some(LineJump(e)) = PcIs(t) /\ LineJump(e) # {}
      BY <3>1, SomeOne
    <3>3. PcIs(t).val = t
      BY DEF PcIs
    <3> QED BY <3>2, <3>3
  <2> QED BY <2>1, <2>2
<1>3. Line(s, e).pc = t
  BY <1>2, LineFields
<1>4. Line(s, e).mem = s.mem /\ Line(s, e).gemm = s.gemm
  BY <1>1, LineFields
<1>5. Line(s, e).regs = [r \in Reg |-> s.regs[r]]
  <2>1. Line(s, e).regs = [r \in Reg |-> IF \E x \in LineReg(e) : x.at = r
                                         THEN Some(LineReg(e)).val ELSE s.regs[r]]
    BY LineFields
  <2> QED BY <1>1, <2>1
<1> QED BY <1>3, <1>4, <1>5

\* A line of a store, to the GEMM block or to memory.
LEMMA StoreLineReplays ==
  ASSUME NEW s, NEW e, NEW a, NEW v, e.touched = {MemIs(a, v)}
  PROVE  LET q == Line(s, e)
         IN  /\ q.pc = e.pc + 4 /\ q.regs = [r \in Reg |-> s.regs[r]]
             /\ q.mem = IF GemmHit(a) THEN s.mem ELSE PutValue(s.mem, a, v, Size(e.inst.f))
             /\ q.gemm = IF GemmHit(a) /\ e.inst.f = "SW" /\ GemmOff(a) # 28
                         THEN [s.gemm EXCEPT ![GemmOff(a)] = v] ELSE s.gemm
<1>1. LineReg(e) = {} /\ LineJump(e) = {}
  BY DEF LineReg, LineJump, MemIs
<1>2. LinePut(e) = {MemIs(a, v)} /\ Some(LinePut(e)) = MemIs(a, v)
  <2>1. LinePut(e) = {MemIs(a, v)}
    BY DEF LinePut, MemIs
  <2> QED BY <2>1, SomeOne
<1>3. Some(LinePut(e)).at = a /\ Some(LinePut(e)).val = v /\ LinePut(e) # {}
  BY <1>2 DEF MemIs
<1>4. Line(s, e).pc = e.pc + 4 /\ Line(s, e).regs = [r \in Reg |-> s.regs[r]]
  <2>1. Line(s, e).regs = [r \in Reg |-> IF \E x \in LineReg(e) : x.at = r
                                         THEN Some(LineReg(e)).val ELSE s.regs[r]]
    BY LineFields
  <2>2. Line(s, e).pc = IF LineJump(e) = {} THEN e.pc + 4 ELSE Some(LineJump(e)).val
    BY LineFields
  <2> QED BY <1>1, <2>1, <2>2
<1>5. Line(s, e).mem = IF GemmHit(a) THEN s.mem ELSE PutValue(s.mem, a, v, Size(e.inst.f))
  BY <1>3, LineFields
<1>6. Line(s, e).gemm = IF GemmHit(a) /\ e.inst.f = "SW" /\ GemmOff(a) # 28
                        THEN [s.gemm EXCEPT ![GemmOff(a)] = v] ELSE s.gemm
  BY <1>3, LineFields
<1> QED BY <1>4, <1>5, <1>6

-----------------------------------------------------------------------------
(* The invariant of the replay.                                            *)

\* The machine the trace replays and the machine itself.
SameMemory(r) == \A a : a \notin hidden => ByteAt(mem, a) = ByteAt(r.mem, a)
SameCsrs(r) == DOMAIN r.gemm = GemmRegs /\ \A c \in GemmRegs \ {28} : gemm[c] = r.gemm[c]
Near(r) == r.pc \in Int /\ r.pc <= pc /\ (pc - r.pc) % 4 = 0 /\ QuietTo(r.pc, pc)
Agrees(r) == r.good /\ r.regs = regs /\ Near(r) /\ SameMemory(r) /\ SameCsrs(r)
Followed == log \in Seq(Entered) /\ Agrees(Replayed)

LEMMA ReplayKept ==
  ASSUME UNCHANGED <<text, log>>
  PROVE  Replayed' = Replayed
BY SMT DEF Replayed, FoldLeft, MapThenFoldSet, Line, QuietTo, InText, Code

LEMMA ReplayLine ==
  ASSUME UNCHANGED text, log \in Seq(Entered), NEW e \in Entered, log' = Append(log, e)
  PROVE  Replayed' = Line(Replayed, e)
<1>1. \A l : Trace(l)' = Trace(l)
  BY SMT DEF Trace, FoldLeft, MapThenFoldSet, Line, QuietTo, InText, Code
<1>2. Replayed = Trace(log)
  BY DEF Replayed, Trace
<1>3. PICK l : l = log'
  OBVIOUS
<1>4. Replayed' = Trace(l)'
  BY <1>3, SMT DEF Replayed, Trace
<1>5. Trace(Append(log, e)) = Line(Trace(log), e)
  BY TraceAppend
<1> QED BY <1>1, <1>2, <1>3, <1>4, <1>5

-----------------------------------------------------------------------------
(* Steps that leave no line, and steps that leave one.                     *)

LEMMA QuietStep ==
  ASSUME Typed, Followed, NEW op, Fetched(op), Quiet(Inst), pc' = Next4,
         UNCHANGED <<text, log, regs>>,
         \A c \in GemmRegs \ {28} : gemm'[c] = gemm[c],
         \A a : a \notin hidden' => a \notin hidden /\ ByteAt(mem', a) = ByteAt(mem, a)
  PROVE  Followed'
<1>1. PICK r : r = Replayed
  OBVIOUS
<1>2. Replayed' = r
  BY <1>1, ReplayKept
<1>3. Agrees(r) /\ log \in Seq(Entered)
  BY <1>1 DEF Followed
<1>4. pc \in Int /\ pc' = pc + 4 /\ InText(pc)
  BY FetchedFacts
<1>5. r.pc \in Int /\ r.pc <= pc /\ (pc - r.pc) % 4 = 0 /\ QuietTo(r.pc, pc)
  BY <1>3 DEF Agrees, Near
<1>6. QuietTo(r.pc, pc + 4)
  <2> SUFFICES ASSUME NEW x \in r.pc..(pc + 3), (x - r.pc) % 4 = 0
               PROVE  InText(x) /\ Quiet(Code(x))
    <3>1. r.pc <= pc + 4 /\ (pc + 4) - 1 = pc + 3
      BY <1>4, <1>5
    <3> QED BY <3>1 DEF QuietTo
  <2>1. x \in r.pc..(pc - 1) \/ x = pc
    <3> DEFINE p == r.pc
    <3>1. p \in Int /\ p <= pc /\ (pc - p) % 4 = 0 /\ x \in p..(pc + 3) /\ (x - p) % 4 = 0
      BY <1>5
    <3> HIDE DEF p
    <3>2. x \in p..(pc - 1) \/ x = pc
      BY <1>4, <3>1, SMT
    <3> QED BY <3>2 DEF p
  <2>2. CASE x \in r.pc..(pc - 1)
    BY <1>5, <2>2 DEF QuietTo
  <2>3. CASE x = pc
    BY <1>4, <2>3 DEF Inst
  <2> QED BY <2>1, <2>2, <2>3
<1>7. Near(r)'
  <2>2. r.pc <= pc + 4 /\ ((pc + 4) - r.pc) % 4 = 0
    <3> DEFINE p == r.pc
    <3>1. p \in Int /\ p <= pc /\ (pc - p) % 4 = 0
      BY <1>5
    <3> HIDE DEF p
    <3>2. p <= pc + 4 /\ ((pc + 4) - p) % 4 = 0
      BY <1>4, <3>1, SMT
    <3> QED BY <3>2 DEF p
  <2>3. QuietTo(r.pc, pc)'
    <3>1. r.pc <= pc + 4 /\ \A x \in r.pc..((pc + 4) - 1) :
                               (x - r.pc) % 4 = 0 => InText(x) /\ Quiet(Code(x))
      BY <1>6 DEF QuietTo
    <3>2. \A x : (InText(x) /\ Quiet(Code(x)))' <=> (InText(x) /\ Quiet(Code(x)))
      BY DEF InText, Code
    <3> QED BY <1>4, <3>1, <3>2 DEF QuietTo
  <2> QED BY <1>4, <1>5, <2>2, <2>3 DEF Near
<1>8. SameMemory(r)' /\ SameCsrs(r)'
  BY <1>3 DEF Agrees, SameMemory, SameCsrs, GemmRegs
<1>9. Agrees(r)'
  BY <1>3, <1>7, <1>8 DEF Agrees
<1>10. log' \in Seq(Entered')
  BY <1>3 DEF Entered
<1> QED BY <1>2, <1>9, <1>10 DEF Followed, Agrees, Near, SameMemory, SameCsrs

LEMMA LineStep ==
  ASSUME Typed, Followed, NEW op, Fetched(op), NEW t \in SUBSET Touch,
         NEW e, e = [pc |-> pc, inst |-> Inst, touched |-> t],
         log' = Append(log, e), UNCHANGED text, pc' \in Int,
         NEW q, q = Line(Replayed, e), q.regs = regs', q.pc = pc',
         DOMAIN q.gemm = GemmRegs, \A c \in GemmRegs \ {28} : gemm'[c] = q.gemm[c],
         \A a : a \notin hidden' => ByteAt(mem', a) = ByteAt(q.mem, a)
  PROVE  Followed'
<1>1. e \in Entered
  BY FetchedFacts DEF Typed, ControlOK, Entered
<1>2. log \in Seq(Entered) /\ Agrees(Replayed)
  BY DEF Followed
<1>3. Replayed' = q
  BY <1>1, <1>2, ReplayLine
<1>4. q.good
  <2>1. Replayed.good /\ QuietTo(Replayed.pc, e.pc) /\ e.inst = Code(e.pc)
    BY <1>2 DEF Agrees, Near, Inst
  <2>2. (Replayed.good /\ QuietTo(Replayed.pc, e.pc) /\ e.inst = Code(e.pc)) => q.good
    BY LineFields
  <2> QED BY <2>1, <2>2
<1>5. Near(q)'
  <2>1. q.pc <= pc' /\ (pc' - q.pc) % 4 = 0 /\ q.pc..(pc' - 1) = {}
    <3> DEFINE p == pc'
    <3>1. p \in Int /\ q.pc = p
      OBVIOUS
    <3> HIDE DEF p
    <3>2. p <= p /\ (p - p) % 4 = 0 /\ p..(p - 1) = {}
      BY <3>1, SMT
    <3> QED BY <3>1, <3>2 DEF p
  <2> QED BY <2>1 DEF Near, QuietTo
<1>6. SameMemory(q)' /\ SameCsrs(q)'
  BY DEF SameMemory, SameCsrs, GemmRegs
<1>7. Agrees(q)'
  BY <1>4, <1>5, <1>6 DEF Agrees
<1>8. log' \in Seq(Entered')
  <2>1. log' \in Seq(Entered)
    BY <1>1, <1>2
  <2> QED BY <2>1 DEF Entered
<1> QED BY <1>3, <1>7, <1>8 DEF Followed, Agrees, Near, SameMemory, SameCsrs

\* A line of what is fetched, and its pc.
EntryOf(t) == [pc |-> pc, inst |-> Inst, touched |-> t]

LEMMA RetireLine ==
  ASSUME NEW t, NEW n, Retire(t, n), t # {}, ~IsNop(Inst)
  PROVE  log' = Append(log, EntryOf(t)) /\ pc' = n /\ text' = text
BY DEF Retire, EntryOf

LEMMA TouchFacts ==
  /\ \A r, v \in Int : RegIs(r, v) \in Touch /\ MemIs(r, v) \in Touch /\ PcIs(v) \in Touch
  /\ \A n \in Notes : Note(n) \in Touch
<1>1. \A k \in {"reg", "mem", "pc"} \cup Notes : \A a, v \in Int : [kind |-> k, at |-> a, val |-> v] \in Touch
  BY DEF Touch
<1>2. 0 \in Int
  OBVIOUS
<1> QED BY <1>1, <1>2 DEF RegIs, MemIs, PcIs, Note

\* A line that names a register, and a jump or none.
RegsWith(rd, v) == [r \in Reg |-> IF rd # 0 /\ r = rd THEN v ELSE regs[r]]
LEMMA RegStep ==
  ASSUME Typed, Followed, NEW op, Fetched(op), ~IsNop(Inst),
         NEW rd \in Reg, NEW v \in Int, NEW t \in Int,
         \/ Retire({RegIs(rd, v)}, t) /\ t = pc + 4
         \/ Retire({RegIs(rd, v), PcIs(t)}, t),
         NoMemory, regs' = RegsWith(rd, v)
  PROVE  Followed'
<1>1. PICK u : /\ \/ u = {RegIs(rd, v)} /\ t = pc + 4
                  \/ u = {RegIs(rd, v), PcIs(t)}
               /\ Retire(u, t)
  OBVIOUS
<1>2. u \in SUBSET Touch /\ u # {}
  <2>1. rd \in Int
    BY RegFacts
  <2> QED BY <1>1, <2>1, TouchFacts
<1>3. log' = Append(log, EntryOf(u)) /\ pc' = t /\ text' = text
  BY <1>1, <1>2, RetireLine
<1>4. PICK e : e = EntryOf(u) /\ e = [pc |-> pc, inst |-> Inst, touched |-> u]
  BY DEF EntryOf
<1>5. e.touched = u /\ e.pc = pc
  BY <1>4
<1>6. \/ e.touched = {RegIs(rd, v)} /\ t = e.pc + 4
      \/ e.touched = {RegIs(rd, v), PcIs(t)}
  BY <1>1, <1>5
<1>7. PICK q : q = Line(Replayed, e)
  OBVIOUS
<1>8. PICK s : s = Replayed
  OBVIOUS
<1>9. /\ q.pc = t /\ q.mem = s.mem /\ q.gemm = s.gemm
      /\ q.regs = [r \in Reg |-> IF rd # 0 /\ r = rd THEN v ELSE s.regs[r]]
  BY <1>6, <1>7, <1>8, RegLine
<1>10. s.regs = regs /\ SameMemory(s) /\ SameCsrs(s)
  BY <1>8 DEF Followed, Agrees
<1>11. q.regs = regs'
  BY <1>9, <1>10 DEF RegsWith
<1>12. /\ DOMAIN q.gemm = GemmRegs /\ \A c \in GemmRegs \ {28} : gemm'[c] = q.gemm[c]
       /\ \A a : a \notin hidden' => ByteAt(mem', a) = ByteAt(q.mem, a)
  BY <1>9, <1>10 DEF SameMemory, SameCsrs, NoMemory
<1> QED BY <1>2, <1>3, <1>4, <1>7, <1>9, <1>11, <1>12, LineStep

\* A line of a branch, or of a call of the environment.
LEMMA NoteStep ==
  ASSUME Typed, Followed, NEW op, Fetched(op), ~IsNop(Inst),
         NEW n \in Notes, NEW t \in Int,
         \/ Retire({Note(n)}, t) /\ t = pc + 4
         \/ Retire({Note(n), PcIs(t)}, t),
         NoMemory, UNCHANGED regs
  PROVE  Followed'
<1>1. PICK u : /\ \/ u = {Note(n)} /\ t = pc + 4
                  \/ u = {Note(n), PcIs(t)}
               /\ Retire(u, t)
  OBVIOUS
<1>2. u \in SUBSET Touch /\ u # {}
  BY <1>1, TouchFacts
<1>3. log' = Append(log, EntryOf(u)) /\ pc' = t /\ text' = text
  BY <1>1, <1>2, RetireLine
<1>4. PICK e : e = EntryOf(u) /\ e = [pc |-> pc, inst |-> Inst, touched |-> u]
  BY DEF EntryOf
<1>5. e.touched = u /\ e.pc = pc
  BY <1>4
<1>6. \/ e.touched = {Note(n)} /\ t = e.pc + 4
      \/ e.touched = {Note(n), PcIs(t)}
  BY <1>1, <1>5
<1>7. PICK q : q = Line(Replayed, e)
  OBVIOUS
<1>8. PICK s : s = Replayed
  OBVIOUS
<1>9. n \notin {"reg", "mem", "pc"}
  BY DEF Notes
<1>10. /\ q.pc = t /\ q.mem = s.mem /\ q.gemm = s.gemm
       /\ q.regs = [r \in Reg |-> s.regs[r]]
  BY <1>6, <1>7, <1>8, <1>9, NoteLine
<1>11. s.regs = regs /\ SameMemory(s) /\ SameCsrs(s)
  BY <1>8 DEF Followed, Agrees
<1>12. q.regs = regs'
  BY <1>10, <1>11 DEF Typed, RegsOK
<1>13. /\ DOMAIN q.gemm = GemmRegs /\ \A c \in GemmRegs \ {28} : gemm'[c] = q.gemm[c]
       /\ \A a : a \notin hidden' => ByteAt(mem', a) = ByteAt(q.mem, a)
  BY <1>10, <1>11 DEF SameMemory, SameCsrs, NoMemory
<1> QED BY <1>2, <1>3, <1>4, <1>7, <1>10, <1>12, <1>13, LineStep

-----------------------------------------------------------------------------
(* Every instruction but a store.                                          *)

LEMMA Written ==
  ASSUME Typed, NEW rd \in Reg, NEW v \in Int, regs' = WriteReg(regs, rd, v)
  PROVE  /\ regs'[rd] \in Int /\ (rd # 0 => regs'[rd] = Wrap(v)) /\ (rd = 0 => regs' = regs)
         /\ regs' = RegsWith(rd, regs'[rd]) /\ regs' = RegsWith(rd, Wrap(v))
<1>1. regs \in [Reg -> Word] /\ regs' \in [Reg -> Word]
  BY WriteRegOK DEF Typed, RegsOK
<1>2. regs'[rd] \in Int
  BY <1>1, WordInt
<1>3. CASE rd = 0
  BY <1>1, <1>2, <1>3 DEF WriteReg, RegsWith
<1>4. CASE rd # 0
  BY <1>1, <1>2, <1>4 DEF WriteReg, RegsWith
<1> QED BY <1>3, <1>4

LEMMA FetchedOp ==
  ASSUME NEW op, Fetched(op)
  PROVE  Inst.op = op /\ (op # "IMM" => ~IsNop(Inst))
BY DEF Fetched, IsNop

LEMMA RdStep ==
  ASSUME Typed, Followed, NEW op, Fetched(op), NEW v \in Int, WriteRd(v)
  PROVE  Followed'
<1>1. /\ regs' = WriteReg(regs, Inst.rd, v) /\ NoMemory
      /\ Retire({RegIs(Inst.rd, regs'[Inst.rd])}, Next4)
  BY DEF WriteRd
<1>2. Inst.rd \in Reg /\ Next4 = pc + 4 /\ pc + 4 \in Int
  BY FetchedFacts, FieldFacts, WordInt
<1>3. CASE IsNop(Inst)
  <2>1. regs' = regs
    BY <1>1, <1>2, <1>3, Written DEF IsNop
  <2>2. UNCHANGED <<text, log>> /\ pc' = Next4
    BY <1>1, <1>3 DEF Retire
  <2>3. Quiet(Inst)
    BY <1>3 DEF Quiet
  <2> QED BY <1>1, <2>1, <2>2, <2>3, QuietStep DEF NoMemory
<1>4. CASE ~IsNop(Inst)
  <2>1. PICK w : w = regs'[Inst.rd]
    OBVIOUS
  <2>2. /\ w \in Int
        /\ regs' = RegsWith(Inst.rd, w)
    BY <1>1, <1>2, <2>1, Written
  <2>3. Retire({RegIs(Inst.rd, w)}, pc + 4)
    BY <1>1, <1>2, <2>1
  <2> QED BY <1>1, <1>2, <1>4, <2>2, <2>3, RegStep
<1> QED BY <1>3, <1>4

LEMMA ScalarFollowed ==
  ASSUME Typed, Followed, Lui \/ ImmOp \/ RegOp \/ Auipc \/ Load
  PROVE  Followed'
<1> USE DEF Typed
<1>1. CASE Lui
  <2>1. Fetched("LUI") /\ WriteRd(Imm(Inst))
    BY <1>1 DEF Lui
  <2> QED BY <2>1, FetchedFacts, FieldFacts, RdStep
<1>2. CASE ImmOp
  <2>1. Fetched("IMM") /\ Inst.op = "IMM"
          /\ WriteRd(AluImm(Inst.f, Read(Inst.rs1), Imm(Inst)))
    BY <1>2 DEF ImmOp, Fetched
  <2>2. Imm(Inst) \in Word /\ Read(Inst.rs1) \in Word
    BY <2>1, FetchedFacts, FieldFacts, ReadWord
  <2>3. AluImm(Inst.f, Read(Inst.rs1), Imm(Inst)) \in Int
    BY <2>2, AluImmWord, WordInt
  <2> QED BY <2>1, <2>3, RdStep
<1>3. CASE RegOp
  <2>1. Fetched("OP") /\ WriteRd(Alu(Inst.f, Read(Inst.rs1), Read(Inst.rs2)))
    BY <1>3 DEF RegOp
  <2>2. Read(Inst.rs1) \in Word /\ Read(Inst.rs2) \in Word
    BY <2>1, FetchedFacts, FieldFacts, ReadWord
  <2>3. Alu(Inst.f, Read(Inst.rs1), Read(Inst.rs2)) \in Int
    BY <2>2, AluWord, WordInt
  <2> QED BY <2>1, <2>3, RdStep
<1>4. CASE Load
  <2>1. Fetched("LOAD") /\ Inst.op = "LOAD" /\ WriteRd(Loaded(Inst.f, Address))
    BY <1>4 DEF Load, Fetched
  <2>2. Imm(Inst) \in Int /\ Read(Inst.rs1) \in Int
    BY <2>1, FetchedFacts, FieldFacts, ReadWord, WordInt
  <2>3. Address \in Int
    BY <2>2, WrapWord, WordInt DEF Address
  <2> QED BY <2>1, <2>3, LoadedInt, RdStep
<1>5. CASE Auipc
  <2> DEFINE v == Wrap(pc + Imm(Inst))
  <2>1. /\ Fetched("AUIPC") /\ regs' = WriteReg(regs, Inst.rd, v)
        /\ Retire({RegIs(Inst.rd, v)}, Next4) /\ NoMemory
    BY <1>5 DEF Auipc
  <2>2. /\ Imm(Inst) \in Int /\ pc \in Int /\ Inst.rd \in Reg /\ ~IsNop(Inst)
        /\ Next4 = pc + 4 /\ pc + 4 \in Int
    BY <2>1, FetchedFacts, FieldFacts, FetchedOp, WordInt
  <2>3. v \in Int /\ Wrap(v) = v
    BY <2>2, WrapWord, WordInt
  <2> HIDE DEF v
  <2>4. regs' = RegsWith(Inst.rd, v)
    BY <2>1, <2>2, <2>3, Written
  <2>5. Retire({RegIs(Inst.rd, v)}, pc + 4)
    BY <2>1, <2>2
  <2> QED BY <2>1, <2>2, <2>3, <2>4, <2>5, RegStep
<1> QED BY <1>1, <1>2, <1>3, <1>4, <1>5

LEMMA JumpFollowed ==
  ASSUME Typed, Followed, Jal \/ Jalr \/ Branch
  PROVE  Followed'
<1> USE DEF Typed
<1>1. ASSUME NEW op, Fetched(op), op # "IMM", NEW t \in Int, Jump(t) PROVE Followed'
  <2>1. pc + 4 \in Word /\ pc + 4 \in Int /\ Inst.rd \in Reg /\ ~IsNop(Inst)
    BY <1>1, FetchedFacts, FieldFacts, FetchedOp, WordInt
  <2>2. Wrap(pc + 4) = pc + 4
    BY <2>1, WrapWord
  <2>3. /\ regs' = WriteReg(regs, Inst.rd, pc + 4) /\ NoMemory
        /\ Retire({RegIs(Inst.rd, pc + 4), PcIs(t)}, t)
    BY <1>1 DEF Jump
  <2>4. regs' = RegsWith(Inst.rd, pc + 4)
    BY <2>1, <2>2, <2>3, Written
  <2> QED BY <1>1, <2>1, <2>3, <2>4, RegStep
<1>2. CASE Jal
  <2>1. Fetched("JAL") /\ Jump(Wrap(pc + Imm(Inst)))
    BY <1>2 DEF Jal
  <2>2. pc + Imm(Inst) \in Int
    BY <2>1, FetchedFacts, FieldFacts
  <2>3. Wrap(pc + Imm(Inst)) \in Int
    BY <2>2, WrapWord, WordInt
  <2> QED BY <1>1, <2>1, <2>3
<1>3. CASE Jalr
  <2> DEFINE t == Wrap(Read(Inst.rs1) + Imm(Inst))
  <2>1. Fetched("JALR") /\ Jump(t - (t % 2))
    BY <1>3 DEF Jalr
  <2>2. Read(Inst.rs1) + Imm(Inst) \in Int
    BY <2>1, FetchedFacts, FieldFacts, ReadWord, WordInt
  <2>3. t \in Int
    BY <2>2, WrapWord, WordInt
  <2> HIDE DEF t
  <2>4. t - (t % 2) \in Int
    BY <2>3, SMT
  <2> QED BY <1>1, <2>1, <2>4
<1>4. CASE Branch
  <2> DEFINE target == Wrap(pc + Imm(Inst))
  <2>1. /\ Fetched("BRANCH") /\ UNCHANGED regs /\ NoMemory
        /\ \/ Retire({Note("taken"), PcIs(target)}, target)
           \/ Retire({Note("not taken")}, Next4)
    BY <1>4 DEF Branch
  <2>2. pc + Imm(Inst) \in Int /\ Next4 = pc + 4 /\ pc + 4 \in Int /\ ~IsNop(Inst)
    <3>1. Next4 = pc + 4 /\ pc \in Int /\ Inst \in Instruction
      BY <2>1, FetchedFacts
    <3>2. Imm(Inst) \in Int
      BY <3>1, FieldFacts
    <3>3. Inst.op = "BRANCH"
      BY <2>1, FetchedOp
    <3>4. ~IsNop(Inst)
      BY <3>3 DEF IsNop
    <3> QED BY <3>1, <3>2, <3>4
  <2>3. target \in Int
    BY <2>2, WrapWord, WordInt
  <2>4. "taken" \in Notes /\ "not taken" \in Notes
    BY DEF Notes
  <2> HIDE DEF target
  <2>5. CASE Retire({Note("taken"), PcIs(target)}, target)
    BY <2>1, <2>2, <2>3, <2>4, <2>5, NoteStep
  <2>6. CASE Retire({Note("not taken")}, Next4)
    <3>1. Retire({Note("not taken")}, pc + 4)
      BY <2>2, <2>6
    <3> QED BY <2>1, <2>2, <2>4, <3>1, NoteStep
  <2> QED BY <2>1, <2>5, <2>6
<1> QED BY <1>2, <1>3, <1>4

LEMMA StandFollowed ==
  ASSUME Followed, UNCHANGED <<text, pc, regs, mem, gemm, log, hidden>>
  PROVE  Followed'
<1>1. PICK r : r = Replayed
  OBVIOUS
<1>2. Replayed' = r
  BY <1>1, ReplayKept
<1>3. Agrees(r) /\ log \in Seq(Entered)
  BY <1>1 DEF Followed
<1>4. Agrees(r)'
  BY <1>3 DEF Agrees, Near, QuietTo, InText, Code, SameMemory, SameCsrs, GemmRegs
<1>5. log' \in Seq(Entered')
  BY <1>3 DEF Entered
<1> QED BY <1>2, <1>4, <1>5 DEF Followed, Agrees, Near, SameMemory, SameCsrs

LEMMA FaultFollowed == Followed /\ Fault => Followed'
  BY StandFollowed DEF Fault

\* An instruction that retires without a line.
LEMMA SilentStep ==
  ASSUME Typed, Followed, NEW op, Fetched(op), Quiet(Inst), Retire({}, Next4),
         UNCHANGED regs, NoMemory
  PROVE  Followed'
<1>1. UNCHANGED <<text, log, regs>> /\ pc' = Next4 /\ UNCHANGED <<mem, gemm, hidden>>
  BY DEF Retire, NoMemory
<1> QED BY <1>1, QuietStep

\* An instruction that names its register, unless that is x0.
LEMMA RdOrNothing ==
  ASSUME Typed, Followed, NEW op, Fetched(op), op # "IMM", Inst.rd = 0 => Quiet(Inst),
         NEW v \in Int, regs' = WriteReg(regs, Inst.rd, v), NoMemory,
         Retire(IF Inst.rd = 0 THEN {} ELSE {RegIs(Inst.rd, regs'[Inst.rd])}, Next4)
  PROVE  Followed'
<1>1. Inst.rd \in Reg /\ Next4 = pc + 4 /\ pc + 4 \in Int /\ ~IsNop(Inst)
  BY FetchedFacts, FieldFacts, FetchedOp, WordInt
<1>2. CASE Inst.rd = 0
  <2>1. regs' = regs /\ Retire({}, Next4)
    BY <1>1, <1>2, Written
  <2> QED BY <1>2, <2>1, SilentStep
<1>3. CASE Inst.rd # 0
  <2>1. PICK w : w = regs'[Inst.rd]
    OBVIOUS
  <2>2. /\ w \in Int
        /\ regs' = RegsWith(Inst.rd, w)
    BY <1>1, <2>1, Written
  <2>3. Retire({RegIs(Inst.rd, w)}, pc + 4)
    BY <1>1, <1>3, <2>1
  <2> QED BY <1>1, <2>2, <2>3, RegStep
<1> QED BY <1>2, <1>3

LEMMA SystemFollowed ==
  ASSUME Typed, Followed, Leave \/ Misaligned \/ System \/ Csr \/ BadSystem \/ Skip
  PROVE  Followed'
<1>1. CASE Leave
  BY <1>1, StandFollowed DEF Leave
<1>2. CASE Misaligned \/ BadSystem
  BY <1>2, FaultFollowed DEF Misaligned, BadSystem
<1>3. CASE System
  <2>1. /\ Fetched("SYSTEM") /\ Inst.f \in {"ecall", "ebreak"}
        /\ Retire({Note(Inst.f)}, Next4) /\ UNCHANGED regs /\ NoMemory
    BY <1>3 DEF System
  <2>2. Next4 = pc + 4 /\ pc + 4 \in Int /\ ~IsNop(Inst)
    BY <2>1, FetchedFacts, FetchedOp, WordInt
  <2>3. Inst.f \in Notes /\ Retire({Note(Inst.f)}, pc + 4)
    BY <2>1, <2>2 DEF Notes
  <2> QED BY <2>1, <2>2, <2>3, NoteStep
<1>4. CASE Skip
  <2>1. PICK op : /\ Fetched(op) /\ Retire({}, Next4) /\ UNCHANGED regs /\ NoMemory
                  /\ \/ op \in {"FENCE", "UNKNOWN"}
                     \/ op = "SYSTEM" /\ Inst.form # "none" /\ ~ReadsCsr(Inst)
    BY <1>4 DEF Skip
  <2>2. Quiet(Inst)
    BY <2>1, FetchedOp DEF Quiet
  <2> QED BY <2>1, <2>2, SilentStep
<1>5. CASE Csr
  <2>1. CASE Inst.f \in DOMAIN CsrValue
    <3>1. /\ Fetched("SYSTEM") /\ ReadsCsr(Inst)
          /\ regs' = WriteReg(regs, Inst.rd, CsrValue[Inst.f]) /\ NoMemory
          /\ Retire(IF Inst.rd = 0 THEN {} ELSE {RegIs(Inst.rd, regs'[Inst.rd])}, Next4)
      BY <1>5, <2>1 DEF Csr
    <3>2. CsrValue[Inst.f] \in Int
      <4>1. vl \in Int /\ vtype \in Int /\ 4 * Vlmax \in Int
        <5>1. VtypeLegal \in Int /\ VtypeVill \in Int /\ Vlmax \in Nat
          BY IssAssumption, Sizes, WordInt DEF VtypeVill
        <5> QED BY <5>1 DEF VectorOK, Typed
      <4>2. Inst.f \in {"vl", "vtype", "vlenb", "vstart"}
        BY <2>1 DEF CsrValue
      <4> QED BY <4>1, <4>2 DEF CsrValue
    <3>3. Inst.rd = 0 => Quiet(Inst)
      BY <3>1, FetchedOp DEF Quiet, ReadsCsr
    <3> QED BY <3>1, <3>2, <3>3, RdOrNothing
  <2>2. CASE Inst.f \notin DOMAIN CsrValue
    BY <1>5, <2>2, FaultFollowed DEF Csr
  <2> QED BY <2>1, <2>2
<1> QED BY <1>1, <1>2, <1>3, <1>4, <1>5

\* What grows the hidden bytes leaves the others as they were.
LEMMA HiddenGrows ==
  ASSUME hidden \subseteq hidden', DOMAIN mem \subseteq DOMAIN mem',
         \A x \in DOMAIN mem' \ hidden' : x \in DOMAIN mem /\ mem'[x] = mem[x]
  PROVE  \A a : a \notin hidden' => a \notin hidden /\ ByteAt(mem', a) = ByteAt(mem, a)
BY DEF ByteAt

LEMMA VectorFollowed ==
  ASSUME Typed, Followed, Vset \/ Valu \/ Vle \/ Vse
  PROVE  Followed'
<1>1. CASE Vset
  <2>1. CASE Vlmax = 0 \/ Inst.f \notin {"vsetvli", "vsetivli", "vsetvl"}
    BY <1>1, <2>1, FaultFollowed DEF Vset
  <2>2. CASE ~(Vlmax = 0 \/ Inst.f \notin {"vsetvli", "vsetivli", "vsetvl"})
    <3>1. PICK req : Fetched("VSET") /\ ApplyVset(req)
      BY <1>1, <2>2 DEF Vset
    <3>2. vl' \in Int
      BY <1>1, VsetOK, IssAssumption DEF Typed, VectorOK
    <3>3. PICK w : w = vl'
      OBVIOUS
    <3>4. /\ regs' = WriteReg(regs, Inst.rd, w) /\ NoMemory
          /\ Retire(IF Inst.rd = 0 THEN {} ELSE {RegIs(Inst.rd, regs'[Inst.rd])}, Next4)
      BY <3>1, <3>3 DEF ApplyVset
    <3>5. Inst.rd = 0 => Quiet(Inst)
      BY <3>1, FetchedOp DEF Quiet
    <3> QED BY <3>1, <3>2, <3>3, <3>4, <3>5, RdOrNothing
  <2> QED BY <2>1, <2>2
<1>2. CASE Valu \/ Vle
  <2>1. CASE Fault
    BY <2>1, FaultFollowed
  <2>2. CASE ~Fault
    <3>1. PICK op, e : op \in {"VALU", "VLE"} /\ Fetched(op) /\ WriteVreg(e) /\ NoMemory
      BY <1>2, <2>2 DEF Valu, Vle
    <3>2. Quiet(Inst)
      BY <3>1, FetchedOp DEF Quiet
    <3> QED BY <3>1, <3>2, SilentStep DEF WriteVreg
  <2> QED BY <2>1, <2>2
<1>3. CASE Vse
  <2>1. CASE Fault
    BY <2>1, FaultFollowed
  <2>2. CASE ~Fault
    <3>1. /\ Fetched("VSE") /\ Retire({}, Next4) /\ UNCHANGED <<regs, gemm>>
          /\ hidden \subseteq hidden' /\ DOMAIN mem \subseteq DOMAIN mem'
          /\ \A x \in DOMAIN mem' \ hidden' : x \in DOMAIN mem /\ mem'[x] = mem[x]
      BY <1>3, <2>2, VseFacts
    <3>2. \A a : a \notin hidden' => a \notin hidden /\ ByteAt(mem', a) = ByteAt(mem, a)
      BY <3>1, HiddenGrows
    <3>3. Quiet(Inst)
      BY <3>1, FetchedOp DEF Quiet
    <3>4. UNCHANGED <<text, log, regs>> /\ pc' = Next4
      BY <3>1 DEF Retire
    <3> QED BY <3>1, <3>2, <3>3, <3>4, QuietStep
  <2> QED BY <2>1, <2>2
<1> QED BY <1>1, <1>2, <1>3

-----------------------------------------------------------------------------
(* Stores.                                                                 *)

LEMMA DivisionUnique ==
  ASSUME NEW b \in Int, b > 0, NEW q \in Int, NEW r \in 0..(b - 1)
  PROVE  (b * q + r) \div b = q /\ (b * q + r) % b = r
<1> DEFINE v == b * q + r
           d == v \div b
           m == v % b
           x == b * q
           y == b * d
<1>1. v \in Int /\ x \in Int /\ v = x + r
  BY SMT
<1>2. d \in Int /\ m \in 0..(b - 1) /\ v = y + m
  <2> HIDE DEF v
  <2> QED BY <1>1, DivMod
<1>3. y \in Int
  <2> HIDE DEF d
  <2> QED BY <1>2
<1>4. d >= q + 1 => y >= x + b
  <2> HIDE DEF d
  <2> QED BY <1>2, SMT
<1>5. d <= q - 1 => y <= x - b
  <2> HIDE DEF d
  <2> QED BY <1>2, SMT
<1>6. d = q
  <2> HIDE DEF v, d, m, x, y
  <2> QED BY <1>1, <1>2, <1>3, <1>4, <1>5
<1>7. m = r
  <2>1. y = x
    <3> HIDE DEF d
    <3> QED BY <1>6
  <2> HIDE DEF v, d, m, x, y
  <2> QED BY <1>1, <1>2, <1>3, <2>1
<1> QED BY <1>6, <1>7

\* A word cut to two digits keeps both.
LEMMA TwoDigits ==
  ASSUME NEW b \in Int, b > 0, NEW v \in Int
  PROVE  /\ b * b \in Int /\ b * b > 0 /\ (v % (b * b)) % b = v % b
         /\ ((v % (b * b)) \div b) % b = (v \div b) % b
<1> DEFINE c == b * b
<1>1. c \in Int /\ c > 0
  BY SMT
<1> DEFINE q == v \div c
           r == v % c
           r1 == r \div b
           r0 == r % b
<1>2. q \in Int /\ r \in 0..(c - 1) /\ v = c * q + r
  <2> HIDE DEF c
  <2> QED BY <1>1, DivMod
<1>3. r \in Int
  BY <1>1, <1>2
<1>4. r1 \in Int /\ r0 \in 0..(b - 1) /\ r = b * r1 + r0
  <2> HIDE DEF r
  <2> QED BY <1>3, DivMod
<1>5. r1 \in 0..(b - 1)
  <2> DEFINE z == b * r1
  <2>1. r1 < 0 => z <= -b
    <3> HIDE DEF r1
    <3> QED BY <1>4, SMT
  <2>2. r1 >= b => z >= c
    <3> HIDE DEF r1
    <3> QED BY <1>4, SMT
  <2>3. z \in Int /\ r = z + r0 /\ r \in 0..(c - 1) /\ r0 \in 0..(b - 1) /\ r1 \in Int
    <3>1. z \in Int
      <4> HIDE DEF r1
      <4> QED BY <1>4
    <3> QED BY <1>2, <1>4, <3>1
  <2> HIDE DEF c, q, r, r1, r0, z
  <2> QED BY <1>1, <2>1, <2>2, <2>3
<1> DEFINE w == b * q + r1
<1>6. w \in Int /\ v = b * w + r0
  <2> HIDE DEF q, r1, r0, r
  <2>1. w \in Int
    BY <1>2, <1>4
  <2>2. b * w = (b * b) * q + b * r1
    BY <1>2, <1>4, SMT
  <2> QED BY <1>2, <1>4, <2>1, <2>2
<1>7. v % b = r0 /\ v \div b = w
  <2> HIDE DEF w, r0
  <2>1. (b * w + r0) \div b = w /\ (b * w + r0) % b = r0
    BY <1>4, <1>6, DivisionUnique
  <2> QED BY <1>6, <2>1
<1>8. w % b = r1 /\ r1 % b = r1
  <2> HIDE DEF q, r1
  <2>1. (b * q + r1) % b = r1
    BY <1>2, <1>5, DivisionUnique
  <2>2. r1 % b = r1
    BY <1>5, SMT
  <2> QED BY <2>1, <2>2
<1> QED BY <1>1, <1>7, <1>8

\* The line of a store names every byte it writes.
LEMMA MaskedByte ==
  ASSUME NEW f, NEW v \in Int, Size(f) # 0, NEW i \in 0..(Size(f) - 1)
  PROVE  /\ Masked(f, v) \in Int
         /\ Shift(Masked(f, v), ByteBits * i) % 2 ^ ByteBits
              = Shift(v, ByteBits * i) % 2 ^ ByteBits
<1> DEFINE b == 2 ^ ByteBits
<1>1. b \in Int /\ b > 0 /\ ByteBits \in Nat /\ ByteBits * 0 = 0 /\ ByteBits * 1 = ByteBits
  BY Sizes
<1>2. 2 ^ (2 * ByteBits) = b * b
  <2>1. ByteBits \in Nat /\ ByteBits + ByteBits <= Bits /\ 2 * ByteBits = ByteBits + ByteBits
    BY Sizes, SMT
  <2> QED BY <2>1, PowerSum
<1>3. \A x \in Int : Shift(x, ByteBits * 0) = x /\ Shift(x, ByteBits * 1) = x \div b
  <2>1. \A x \in Int : x \div 1 = x
    BY SMT
  <2> QED BY <1>1, <2>1, PowerAssumption DEF Shift
<1>4. /\ v % b \in Int /\ v % (b * b) \in Int /\ (v % (b * b)) % b = v % b
      /\ ((v % (b * b)) \div b) % b = (v \div b) % b /\ (v % b) % b = v % b
  <2> HIDE DEF b
  <2>1. /\ b * b \in Int /\ b * b > 0 /\ (v % (b * b)) % b = v % b
        /\ ((v % (b * b)) \div b) % b = (v \div b) % b
    BY <1>1, TwoDigits
  <2>2. v % b \in 0..(b - 1)
    BY <1>1, DivMod
  <2>3. (v % b) % b = v % b
    BY <1>1, <2>2, SMT
  <2> DEFINE c == b * b
  <2>4. c \in Int /\ c > 0
    BY <2>1
  <2> HIDE DEF c
  <2>5. v % c \in 0..(c - 1)
    BY <2>4, DivMod
  <2>6. v % c \in Int
    BY <2>4, <2>5
  <2> QED BY <1>1, <2>1, <2>2, <2>3, <2>6 DEF c
<1> HIDE DEF b
<1>5. CASE f = "SB"
  <2>1. i = 0 /\ Masked(f, v) = v % b
    BY <1>5 DEF Size, Masked, b
  <2> QED BY <1>3, <1>4, <2>1 DEF b
<1>6. CASE f = "SW"
  <2>1. Masked(f, v) = v
    BY <1>6 DEF Masked
  <2> QED BY <2>1
<1>7. CASE f = "SH"
  <2>1. (i = 0 \/ i = 1) /\ Masked(f, v) = v % (b * b)
    BY <1>2, <1>7 DEF Size, Masked, b
  <2>2. CASE i = 0
    BY <1>3, <1>4, <2>1, <2>2 DEF b
  <2>3. CASE i = 1
    BY <1>3, <1>4, <2>1, <2>3 DEF b
  <2> QED BY <2>1, <2>2, <2>3
<1>8. f \in {"SB", "SH", "SW"}
  BY DEF Size
<1> QED BY <1>5, <1>6, <1>7, <1>8

LEMMA MaskedInt == \A f : \A v \in Int : Masked(f, v) \in Int /\ (f = "SW" => Masked(f, v) = v)
<1> SUFFICES ASSUME NEW f, NEW v \in Int
             PROVE  Masked(f, v) \in Int /\ (f = "SW" => Masked(f, v) = v)
  OBVIOUS
<1>1. 2 * ByteBits \in 0..Bits /\ ByteBits \in 0..Bits
  BY Sizes, SMT
<1>2. /\ 2 ^ (2 * ByteBits) \in Int /\ 2 ^ (2 * ByteBits) > 0
      /\ 2 ^ ByteBits \in Int /\ 2 ^ ByteBits > 0
  BY <1>1, Powers
<1>3. v % 2 ^ (2 * ByteBits) \in Int /\ v % 2 ^ ByteBits \in Int
  BY <1>2, DivMod
<1> QED BY <1>3 DEF Masked

\* A byte that is written, and one that is not.
LEMMA PutByte ==
  ASSUME NEW m, NEW a, NEW v, NEW n, NEW x
  PROVE  ByteAt(PutValue(m, a, v, n), x) =
           IF x \in a..(a + n - 1) THEN Shift(v, ByteBits * (x - a)) % 2 ^ ByteBits
           ELSE ByteAt(m, x)
BY DEF ByteAt, PutValue

\* A step that leaves the line of a store.
LEMMA StoreStep ==
  ASSUME Typed, Followed, Fetched("STORE"), NEW a \in Int, NEW w \in Int,
         log' = Append(log, EntryOf({MemIs(a, w)})), pc' = Next4, UNCHANGED <<text, regs>>,
         \A s : SameMemory(s) =>
           \A x : x \notin hidden' =>
             ByteAt(mem', x) = ByteAt(IF GemmHit(a) THEN s.mem
                                      ELSE PutValue(s.mem, a, w, Size(Inst.f)), x),
         \A s : SameCsrs(s) =>
           \A c \in GemmRegs \ {28} :
             gemm'[c] = IF GemmHit(a) /\ Inst.f = "SW" /\ GemmOff(a) # 28 /\ c = GemmOff(a)
                        THEN w ELSE s.gemm[c]
  PROVE  Followed'
<1>1. PICK u : u = {MemIs(a, w)}
  OBVIOUS
<1>2. u \in SUBSET Touch
  BY <1>1, TouchFacts
<1>3. PICK e : e = EntryOf(u) /\ e = [pc |-> pc, inst |-> Inst, touched |-> u]
  BY DEF EntryOf
<1>4. e.touched = {MemIs(a, w)} /\ e.pc = pc /\ e.inst = Inst /\ log' = Append(log, e)
  <2>1. e.touched = u /\ e.pc = pc /\ e.inst = Inst
    BY <1>3
  <2>2. log' = Append(log, EntryOf(u))
    BY <1>1
  <2> QED BY <1>1, <1>3, <2>1, <2>2
<1>5. pc' = pc + 4 /\ pc' \in Int
  BY FetchedFacts, WordInt
<1>6. PICK q : q = Line(Replayed, e)
  OBVIOUS
<1>7. PICK s : s = Replayed
  OBVIOUS
<1>8. /\ q.pc = e.pc + 4 /\ q.regs = [r \in Reg |-> s.regs[r]]
      /\ q.mem = IF GemmHit(a) THEN s.mem ELSE PutValue(s.mem, a, w, Size(e.inst.f))
      /\ q.gemm = IF GemmHit(a) /\ e.inst.f = "SW" /\ GemmOff(a) # 28
                  THEN [s.gemm EXCEPT ![GemmOff(a)] = w] ELSE s.gemm
  <2>1. e.touched = {MemIs(a, w)}
    BY <1>4
  <2>2. /\ Line(s, e).pc = e.pc + 4 /\ Line(s, e).regs = [r \in Reg |-> s.regs[r]]
        /\ Line(s, e).mem = IF GemmHit(a) THEN s.mem ELSE PutValue(s.mem, a, w, Size(e.inst.f))
        /\ Line(s, e).gemm = IF GemmHit(a) /\ e.inst.f = "SW" /\ GemmOff(a) # 28
                             THEN [s.gemm EXCEPT ![GemmOff(a)] = w] ELSE s.gemm
    BY <2>1, StoreLineReplays
  <2> QED BY <1>6, <1>7, <2>2
<1>9. s.regs = regs /\ SameMemory(s) /\ SameCsrs(s)
  BY <1>7 DEF Followed, Agrees
<1>10. q.regs = regs' /\ q.pc = pc'
  BY <1>4, <1>5, <1>8, <1>9 DEF Typed, RegsOK
<1>11. DOMAIN q.gemm = GemmRegs
  BY <1>8, <1>9 DEF SameCsrs
<1>12. \A c \in GemmRegs \ {28} : gemm'[c] = q.gemm[c]
  <2>1. \A c \in GemmRegs \ {28} :
          gemm'[c] = IF GemmHit(a) /\ Inst.f = "SW" /\ GemmOff(a) # 28 /\ c = GemmOff(a)
                     THEN w ELSE s.gemm[c]
    BY <1>9
  <2>2. DOMAIN s.gemm = GemmRegs
    BY <1>9 DEF SameCsrs
  <2> QED BY <1>4, <1>8, <2>1, <2>2
<1>13. \A x : x \notin hidden' => ByteAt(mem', x) = ByteAt(q.mem, x)
  <2>1. q.mem = IF GemmHit(a) THEN s.mem ELSE PutValue(s.mem, a, w, Size(Inst.f))
    BY <1>4, <1>8
  <2> QED BY <1>9, <2>1
<1> QED BY <1>2, <1>3, <1>4, <1>5, <1>6, <1>10, <1>11, <1>12, <1>13, LineStep

\* A store to the GEMM block: only SW changes a CSR, and a job what is hidden.
LEMMA CsrStoreFacts ==
  ASSUME Typed, NEW a \in Int, NEW f, NEW v \in Word, StoreCsr(a, f, v)
  PROVE  /\ \A x : x \notin hidden' => x \notin hidden /\ ByteAt(mem', x) = ByteAt(mem, x)
         /\ \A c \in GemmRegs \ {28} :
              gemm'[c] = IF f = "SW" /\ c = GemmOff(a) THEN v ELSE gemm[c]
<1> DEFINE csr == [gemm EXCEPT ![GemmOff(a)] = v]
<1>0. gemm \in [GemmRegs -> Word]
  BY DEF Typed, GemmOK
<1>1. GemmOK(csr)
  BY <1>0 DEF GemmOK
<1>2. \A c \in GemmRegs : csr[c] = IF c = GemmOff(a) THEN v ELSE gemm[c]
  BY <1>0
<1>3. CASE f = "SW" /\ GemmOff(a) = 24 /\ v % 2 = 1
  <2>1. RunGemm(csr)
    BY <1>3 DEF StoreCsr
  <2> HIDE DEF csr
  <2>2. /\ gemm' = GemmDone(csr) /\ hidden \subseteq hidden' /\ DOMAIN mem \subseteq DOMAIN mem'
        /\ \A x \in DOMAIN mem' \ hidden' : x \in DOMAIN mem /\ mem'[x] = mem[x]
    BY <1>1, <2>1, RunGemmFacts
  <2>3. \A x : x \notin hidden' => x \notin hidden /\ ByteAt(mem', x) = ByteAt(mem, x)
    BY <2>2, HiddenGrows
  <2>4. \A c \in GemmRegs \ {28} : gemm'[c] = csr[c]
    BY <1>1, <2>2 DEF GemmDone, GemmOK
  <2> QED BY <1>2, <1>3, <2>3, <2>4
<1>4. CASE ~(f = "SW" /\ GemmOff(a) = 24 /\ v % 2 = 1)
  <2>1. /\ UNCHANGED <<mem, hidden>>
        /\ f # "SW" => gemm' = gemm
        /\ f = "SW" => gemm' \in {csr, [csr EXCEPT ![28] = 0]}
    <3>1. CASE f # "SW"
      BY <1>4, <3>1 DEF StoreCsr
    <3>2. CASE f = "SW"
      BY <1>4, <3>2 DEF StoreCsr
    <3> QED BY <3>1, <3>2
  <2> HIDE DEF csr
  <2>2. f = "SW" => \A c \in GemmRegs \ {28} : gemm'[c] = csr[c]
    BY <1>1, <2>1 DEF GemmOK
  <2> QED BY <1>2, <2>1, <2>2
<1> QED BY <1>3, <1>4

LEMMA StoreFollowed ==
  ASSUME Typed, Followed, Store
  PROVE  Followed'
<1>1. PICK a, v : a = Address /\ v = Read(Inst.rs2)
  OBVIOUS
<1>2. PICK line : line = StoreLine(a, Inst.f, v)
  OBVIOUS
<1>3. /\ Fetched("STORE") /\ UNCHANGED regs
      /\ IF GemmHit(a) THEN StoreCsr(a, Inst.f, v) ELSE StoreMem(a, Inst.f, v)
      /\ \/ /\ log' = IF line = {} THEN log ELSE Append(log, EntryOf(line))
            /\ pc' = Next4 /\ text' = text
         \/ Retire(line, Next4)
  BY <1>1, <1>2 DEF Store, EntryOf
<1>4. a \in Int /\ v \in Word /\ v \in Int /\ ~IsNop(Inst) /\ Inst.op = "STORE"
  BY <1>1, <1>3, StoreFacts, FetchedOp
<1>5. /\ log' = (IF line = {} THEN log ELSE Append(log, EntryOf(line)))
      /\ pc' = Next4 /\ text' = text
  BY <1>3, <1>4 DEF Retire, EntryOf
<1>6. CASE GemmHit(a)
  <2>1. StoreCsr(a, Inst.f, v) /\ line = {MemIs(a, Masked(Inst.f, v))}
    BY <1>2, <1>3, <1>6 DEF StoreLine
  <2>2. PICK w \in Int : w = Masked(Inst.f, v) /\ (Inst.f = "SW" => w = v)
    BY <1>4, MaskedInt
  <2>3. log' = Append(log, EntryOf({MemIs(a, w)}))
    BY <1>5, <2>1, <2>2
  <2>4. /\ \A x : x \notin hidden' => x \notin hidden /\ ByteAt(mem', x) = ByteAt(mem, x)
        /\ \A c \in GemmRegs \ {28} :
             gemm'[c] = IF Inst.f = "SW" /\ c = GemmOff(a) THEN v ELSE gemm[c]
    BY <1>4, <2>1, CsrStoreFacts
  <2>5. ASSUME NEW s, SameMemory(s), NEW x, x \notin hidden'
        PROVE  ByteAt(mem', x) = ByteAt(IF GemmHit(a) THEN s.mem
                                        ELSE PutValue(s.mem, a, w, Size(Inst.f)), x)
    BY <1>6, <2>4, <2>5 DEF SameMemory
  <2>6. ASSUME NEW s, SameCsrs(s), NEW c \in GemmRegs \ {28}
        PROVE  gemm'[c] = IF GemmHit(a) /\ Inst.f = "SW" /\ GemmOff(a) # 28 /\ c = GemmOff(a)
                          THEN w ELSE s.gemm[c]
    BY <1>6, <2>2, <2>4, <2>6 DEF SameCsrs
  <2> QED BY <1>3, <1>4, <1>5, <2>3, <2>5, <2>6, StoreStep
<1>7. CASE ~GemmHit(a)
  <2>1. /\ mem' = PutValue(mem, a, v, Size(Inst.f)) /\ gemm' = gemm
        /\ hidden' = hidden \ a..(a + Size(Inst.f) - 1)
    BY <1>3, <1>7 DEF StoreMem
  <2>2. CASE Size(Inst.f) = 0
    <3>1. line = {}
      BY <1>2, <1>7, <2>2 DEF StoreLine
    <3>2. Quiet(Inst)
      BY <1>4, <2>2 DEF Quiet
    <3>3. a..(a + Size(Inst.f) - 1) = {}
      BY <1>4, <2>2
    <3>4. \A x : x \notin hidden' => x \notin hidden /\ ByteAt(mem', x) = ByteAt(mem, x)
      BY <2>1, <3>3, PutByte
    <3> QED BY <1>3, <1>5, <2>1, <3>1, <3>2, <3>4, QuietStep
  <2>3. CASE Size(Inst.f) # 0
    <3>1. PICK w \in Int : w = Masked(Inst.f, v)
      BY <1>4, MaskedInt
    <3>2. log' = Append(log, EntryOf({MemIs(a, w)}))
      BY <1>2, <1>5, <2>3, <3>1 DEF StoreLine
    <3>3. ASSUME NEW s, SameMemory(s), NEW x, x \notin hidden'
          PROVE  ByteAt(mem', x) = ByteAt(IF GemmHit(a) THEN s.mem
                                          ELSE PutValue(s.mem, a, w, Size(Inst.f)), x)
      <4> DEFINE n == Size(Inst.f)
      <4>1. /\ ByteAt(mem', x) = IF x \in a..(a + n - 1)
                                 THEN Shift(v, ByteBits * (x - a)) % 2 ^ ByteBits
                                 ELSE ByteAt(mem, x)
            /\ ByteAt(PutValue(s.mem, a, w, n), x) =
                 IF x \in a..(a + n - 1)
                 THEN Shift(w, ByteBits * (x - a)) % 2 ^ ByteBits
                 ELSE ByteAt(s.mem, x)
        BY <2>1, PutByte
      <4>2. CASE x \in a..(a + n - 1)
        <5>1. n \in 0..4
          BY SizeFacts
        <5>2. x - a \in 0..(n - 1)
          <6> HIDE DEF n
          <6> QED BY <1>4, <4>2, <5>1
        <5>3. Shift(w, ByteBits * (x - a)) % 2 ^ ByteBits
                = Shift(v, ByteBits * (x - a)) % 2 ^ ByteBits
          BY <1>4, <2>3, <3>1, <5>2, MaskedByte
        <5> QED BY <1>7, <4>1, <4>2, <5>3
      <4>3. CASE x \notin a..(a + n - 1)
        <5>1. x \notin hidden
          BY <2>1, <3>3, <4>3
        <5>2. ByteAt(mem, x) = ByteAt(s.mem, x)
          BY <3>3, <5>1 DEF SameMemory
        <5> QED BY <1>7, <4>1, <4>3, <5>2
      <4> QED BY <4>2, <4>3
    <3>4. ASSUME NEW s, SameCsrs(s), NEW c \in GemmRegs \ {28}
          PROVE  gemm'[c] = IF GemmHit(a) /\ Inst.f = "SW" /\ GemmOff(a) # 28 /\ c = GemmOff(a)
                            THEN w ELSE s.gemm[c]
      BY <1>7, <2>1, <3>4 DEF SameCsrs
    <3> QED BY <1>3, <1>4, <1>5, <3>2, <3>3, <3>4, StoreStep
  <2> QED BY <2>2, <2>3
<1> QED BY <1>6, <1>7

-----------------------------------------------------------------------------
(* The trace replays the machine.                                          *)

LEMMA FollowedInit == Init => Followed
<1> SUFFICES ASSUME Init PROVE Followed
  OBVIOUS
<1>1. log = <<>> /\ <<>> \in Seq(Entered)
  BY DEF Init
<1>2. Replayed = Start
  <2>1. Trace(<<>>) = Start
    <3>1. PICK e : e \in {0}
      OBVIOUS
    <3>2. <<>> \in Seq({0})
      OBVIOUS
    <3> QED BY <3>1, <3>2, TraceAppend
  <2> QED BY <1>1, <2>1 DEF Trace, Replayed
<1>3. /\ Start.pc = Entry /\ Start.regs = regs /\ Start.mem = mem /\ Start.gemm = gemm
      /\ Start.good /\ pc = Entry /\ Entry \in Int
  BY IssAssumption, WordInt DEF Start, Init
<1>4. Near(Start)
  <2>1. Entry <= Entry /\ (Entry - Entry) % 4 = 0 /\ Entry..(Entry - 1) = {}
    <3> DEFINE p == Entry
    <3>1. p \in Int
      BY <1>3
    <3> HIDE DEF p
    <3>2. p <= p /\ (p - p) % 4 = 0 /\ p..(p - 1) = {}
      BY <3>1, SMT
    <3> QED BY <3>2 DEF p
  <2> QED BY <1>3, <2>1 DEF Near, QuietTo
<1>5. SameMemory(Start) /\ SameCsrs(Start)
  BY <1>3 DEF SameMemory, SameCsrs, Init
<1> QED BY <1>1, <1>2, <1>3, <1>4, <1>5 DEF Followed, Agrees

LEMMA FollowedStep == Typed /\ Followed /\ [Next]_vars => Followed'
<1> SUFFICES ASSUME Typed, Followed, [Next]_vars PROVE Followed'
  OBVIOUS
<1>1. CASE Lui \/ ImmOp \/ RegOp \/ Auipc \/ Load
  BY <1>1, ScalarFollowed
<1>2. CASE Jal \/ Jalr \/ Branch
  BY <1>2, JumpFollowed
<1>3. CASE Store
  BY <1>3, StoreFollowed
<1>4. CASE Leave \/ Misaligned \/ System \/ Csr \/ BadSystem \/ Skip
  BY <1>4, SystemFollowed
<1>5. CASE Vset \/ Valu \/ Vle \/ Vse
  BY <1>5, VectorFollowed
<1>6. CASE UNCHANGED vars
  BY <1>6, StandFollowed DEF vars
<1> QED BY <1>1, <1>2, <1>3, <1>4, <1>5, <1>6 DEF Next

\* The trace says all the RTL is compared on, for every program: replayed line
\* by line it gives the registers, the pc up to instructions that leave no
\* line, the CSRs of the GEMM block but STATUS, and every byte of memory that
\* neither a vector store nor the GEMM block was the last to write (Replays).
THEOREM TraceReplays == Spec => []Replays
<1>1. Init => Typed /\ Followed
  BY TypedInit, FollowedInit
<1>2. (Typed /\ Followed) /\ [Next]_vars => (Typed /\ Followed)'
  BY TypedStep, FollowedStep
<1>3. Typed /\ Followed => Replays
  BY DEF Followed, Agrees, Near, SameMemory, SameCsrs, Replays
<1> QED BY <1>1, <1>2, <1>3, PTL DEF Spec

-----------------------------------------------------------------------------
(* Congruence and signs.                                                   *)

Half == Modulus \div 2

LEMMA HalfFacts ==
  Half \in Nat /\ Half >= 8 /\ Modulus = 2 * Half /\ Modulus \in Nat /\ Half = 2 ^ (Bits - 1)
    /\ Modulus = 2 ^ Bits /\ Word = 0..(Modulus - 1)
<1>1. Bits - 1 \in 0..Bits /\ 3 \in 0..Bits /\ 2 \in 0..Bits /\ 1 \in 0..Bits /\ 0 \in 0..Bits
        /\ 3 <= Bits - 1 /\ 0 < Bits /\ 1 < Bits /\ 2 < Bits
  BY Sizes, SMT
<1>2. 2 ^ (0 + 1) = 2 * 2 ^ 0 /\ 2 ^ (1 + 1) = 2 * 2 ^ 1 /\ 2 ^ (2 + 1) = 2 * 2 ^ 2
  BY <1>1, Powers
<1>3. 0 + 1 = 1 /\ 1 + 1 = 2 /\ 2 + 1 = 3
  OBVIOUS
<1>4. 2 ^ 1 = 2
  BY <1>2, <1>3, PowerAssumption
<1>5. 2 ^ 2 = 4
  BY <1>2, <1>3, <1>4
<1>6. 2 ^ 3 = 8
  BY <1>2, <1>3, <1>5
<1>7. 2 ^ 3 <= 2 ^ (Bits - 1)
  BY <1>1, PowerOrder
<1> QED BY <1>6, <1>7, Sizes DEF Half, Modulus, Word

\* A remainder forgets multiples.
LEMMA Forgets ==
  ASSUME NEW d \in Int, d > 0, NEW v \in Int, NEW k \in Int
  PROVE  (v + d * k) % d = v % d /\ (v + d * k) \div d = (v \div d) + k
<1> DEFINE q == v \div d
           r == v % d
           s == q + k
<1>1. q \in Int /\ r \in 0..(d - 1) /\ v = d * q + r
  BY DivMod
<1>2. s \in Int
  <2> HIDE DEF q
  <2> QED BY <1>1
<1>3. v + d * k = d * s + r
  <2> HIDE DEF q, r
  <2>1. d * (q + k) = d * q + d * k
    BY <1>1, SMT
  <2> DEFINE x == d * q
             y == d * k
  <2>2. x \in Int /\ y \in Int /\ r \in Int
    BY <1>1
  <2> HIDE DEF x, y
  <2>3. v = x + r /\ d * (q + k) = x + y
    BY <1>1, <2>1 DEF x, y
  <2>4. v + y = (x + y) + r
    BY <2>2, <2>3
  <2> QED BY <2>3, <2>4 DEF y, s
<1>4. (d * s + r) % d = r /\ (d * s + r) \div d = s
  <2> HIDE DEF s, r
  <2> QED BY <1>1, <1>2, DivisionUnique
<1> QED BY <1>3, <1>4

\* What wrapping keeps.
Same(x, y) == \E k \in Int : x = y + Modulus * k

LEMMA SameFacts ==
  /\ \A x, y \in Int : Same(x, y) => Wrap(x) = Wrap(y)
  /\ \A x \in Int : Same(x, x) /\ Same(Wrap(x), x)
  /\ \A w \in Word : Same(w, Signed(w)) /\ Same(Signed(w), w)
<1>0. Modulus \in Int /\ Modulus > 0
  BY Sizes
<1>1. ASSUME NEW x \in Int, NEW y \in Int, Same(x, y) PROVE Wrap(x) = Wrap(y)
  <2>1. PICK k \in Int : x = y + Modulus * k
    BY <1>1 DEF Same
  <2> QED BY <1>0, <2>1, Forgets DEF Wrap
<1>2. ASSUME NEW x \in Int PROVE Same(x, x) /\ Same(Wrap(x), x)
  <2> DEFINE q == x \div Modulus
             r == x % Modulus
  <2>1. q \in Int /\ r \in 0..(Modulus - 1) /\ x = Modulus * q + r
    BY <1>0, DivMod
  <2>2. -q \in Int /\ Modulus * (-q) = -(Modulus * q) /\ Modulus * q \in Int
    <3> HIDE DEF q
    <3> QED BY <1>0, <2>1, SMT
  <2>3. r = x + Modulus * (-q)
    <3> HIDE DEF q, r
    <3> QED BY <2>1, <2>2
  <2>4. Modulus * 0 = 0 /\ 0 \in Int
    BY <1>0
  <2>5. x = x + Modulus * 0
    BY <2>4
  <2>6. Same(x, x)
    BY <2>4, <2>5 DEF Same
  <2>7. Same(r, x)
    <3> HIDE DEF r, q
    <3> QED BY <2>2, <2>3 DEF Same
  <2> QED BY <2>6, <2>7 DEF Wrap
<1>3. ASSUME NEW w \in Word PROVE Same(w, Signed(w)) /\ Same(Signed(w), w)
  <2>1. w \in Int /\ (Signed(w) = w \/ Signed(w) = w - Modulus)
    BY WordInt DEF Signed
  <2>2. Modulus * 1 = Modulus /\ Modulus * (-1) = -Modulus /\ 1 \in Int /\ -1 \in Int
    BY <1>0
  <2>3. CASE Signed(w) = w
    BY <1>2, <2>1, <2>3
  <2>4. CASE Signed(w) = w - Modulus
    <3>1. w = Signed(w) + Modulus * 1 /\ Signed(w) = w + Modulus * (-1)
      BY <1>0, <2>1, <2>2, <2>4
    <3> QED BY <2>2, <3>1 DEF Same
  <2> QED BY <2>1, <2>3, <2>4
<1> QED BY <1>1, <1>2, <1>3

LEMMA SameSum ==
  ASSUME NEW a \in Int, NEW b \in Int, NEW c \in Int, NEW d \in Int, Same(a, b), Same(c, d)
  PROVE  Same(a + c, b + d) /\ Same(a * c, b * d)
<1>0. Modulus \in Int
  BY Sizes
<1> DEFINE M == Modulus
<1>1. PICK i \in Int : a = b + M * i
  BY DEF Same
<1>2. PICK j \in Int : c = d + M * j
  BY DEF Same
<1> HIDE DEF M
<1>3. M \in Int
  BY <1>0 DEF M
<1>4. M * (i + j) = M * i + M * j /\ M * i \in Int /\ M * j \in Int /\ i + j \in Int
  BY <1>3, SMT
<1>5. a + c = (b + d) + M * (i + j)
  <2> DEFINE x == M * i
             y == M * j
  <2>1. x \in Int /\ y \in Int /\ a = b + x /\ c = d + y
    BY <1>1, <1>2, <1>4
  <2> HIDE DEF x, y
  <2>2. a + c = (b + d) + (x + y)
    BY <2>1
  <2> QED BY <1>4, <2>2 DEF x, y
<1>6. b * j + i * d + M * (i * j) \in Int
  <2>1. i * j \in Int /\ b * j \in Int /\ i * d \in Int
    OBVIOUS
  <2>2. M * (i * j) \in Int
    BY <1>3, <2>1
  <2> QED BY <2>1, <2>2
<1>7. a * c = (b * d) + M * (b * j + i * d + M * (i * j))
  <2>1. (b + M * i) * (d + M * j) = b * d + M * (b * j + i * d + M * (i * j))
    BY <1>3, SMT
  <2> QED BY <1>1, <1>2, <2>1
<1>8. Same(a + c, b + d)
  <2>1. \E k \in Int : a + c = (b + d) + M * k
    BY <1>4, <1>5
  <2> QED BY <2>1 DEF Same, M
<1>9. Same(a * c, b * d)
  <2>1. \E k \in Int : a * c = (b * d) + M * k
    BY <1>6, <1>7
  <2> QED BY <2>1 DEF Same, M
<1> QED BY <1>8, <1>9

\* Words and the numbers they stand for.
LEMMA SignedFacts ==
  /\ \A w \in Word : Signed(w) \in (-Half)..(Half - 1) /\ Wrap(Signed(w)) = w
  /\ \A v \in (-Half)..(Half - 1) : Signed(Wrap(v)) = v
<1>1. ASSUME NEW w \in Word PROVE Signed(w) \in (-Half)..(Half - 1) /\ Wrap(Signed(w)) = w
  <2>1. w \in Int /\ Signed(w) \in Int
    BY WordInt
  <2>2. Wrap(Signed(w)) = Wrap(w) /\ Wrap(w) = w
    BY <2>1, SameFacts, WrapWord
  <2>3. Signed(w) \in (-Half)..(Half - 1)
    BY HalfFacts, SMT DEF Signed, Half
  <2> QED BY <2>2, <2>3
<1>2. ASSUME NEW v \in (-Half)..(Half - 1) PROVE Signed(Wrap(v)) = v
  <2>1. v \in Int /\ (v >= 0 => v \in Word) /\ (v < 0 => v + Modulus \in Word)
    BY HalfFacts
  <2>2. CASE v >= 0
    <3>1. Wrap(v) = v
      BY <2>1, <2>2, WrapWord
    <3> QED BY <2>2, <3>1, HalfFacts DEF Signed, Half
  <2>3. CASE v < 0
    <3>1. v + Modulus \in Int /\ v + Modulus = v + Modulus * 1 /\ 1 \in Int
      BY <2>1, HalfFacts
    <3>2. Same(v + Modulus, v)
      BY <3>1 DEF Same
    <3>3. Wrap(v) = v + Modulus
      BY <2>1, <2>3, <3>1, <3>2, SameFacts, WrapWord
    <3> QED BY <2>1, <2>3, <3>3, HalfFacts DEF Signed, Half
  <2> QED BY <2>1, <2>2, <2>3
<1> QED BY <1>1, <1>2

-----------------------------------------------------------------------------
(* Division.                                                               *)

\* The corrected floor division truncates towards zero.
LEMMA Truncates ==
  ASSUME NEW a \in Int, NEW b \in Int, b # 0
  PROVE  /\ Quotient(a, b) \in Int /\ Remainder(a, b) \in Int
         /\ Quotient(a, b) * b + Remainder(a, b) = a
         /\ Size0(Remainder(a, b)) < Size0(b)
         /\ Remainder(a, b) = 0 \/ ((Remainder(a, b) < 0) <=> (a < 0))
<1> DEFINE q == FloorDiv(a, b)
           r == FloorMod(a, b)
           up == ((a < 0) # (b < 0)) /\ r # 0
           z == Quotient(a, b)
           m == Remainder(a, b)
<1>1. /\ q \in Int /\ r \in Int /\ a = b * q + r
      /\ b > 0 => 0 <= r /\ r < b
      /\ b < 0 => b < r /\ r <= 0
  BY FloorFacts
<1>2. z = IF up THEN q + 1 ELSE q
  BY DEF Quotient
<1>3. z \in Int /\ m \in Int /\ m = a - z * b
  BY DivisionInt DEF Remainder
<1> HIDE DEF q, r, z, m
<1>4. q * b = b * q /\ (q + 1) * b = b * q + b
  BY <1>1, SMT
<1>5. m = IF up THEN r - b ELSE r
  <2>1. CASE up
    BY <1>1, <1>2, <1>3, <1>4, <2>1, SMT
  <2>2. CASE ~up
    BY <1>1, <1>2, <1>3, <1>4, <2>2, SMT
  <2> QED BY <2>1, <2>2
<1>6. z * b + m = a
  BY <1>3, SMT
<1>7. Size0(m) < Size0(b)
  BY <1>1, <1>5, SMT DEF Size0
<1>8. m = 0 \/ ((m < 0) <=> (a < 0))
  <2>1. b > 0 /\ a < 0 => q < 0
    <3>1. b > 0 /\ q >= 0 => b * q >= 0
      BY <1>1, SMT
    <3> QED BY <1>1, <3>1, SMT
  <2> QED BY <1>1, <1>5, SMT
<1> QED BY <1>3, <1>6, <1>7, <1>8 DEF z, m

\* But for the one overflow, the quotient of two words is a signed word.
LEMMA QuotientFits ==
  ASSUME NEW a \in (-Half)..(Half - 1), NEW b \in (-Half)..(Half - 1), b # 0,
         ~(a = -Half /\ b = -1)
  PROVE  Quotient(a, b) \in (-Half)..(Half - 1) /\ Remainder(a, b) \in (-Half)..(Half - 1)
<1> DEFINE q == Quotient(a, b)
           r == Remainder(a, b)
           p == q * b
<1>0. a \in Int /\ b \in Int /\ Half \in Int /\ Half >= 8
  BY HalfFacts
<1>1. /\ q \in Int /\ r \in Int /\ p + r = a /\ Size0(r) < Size0(b)
      /\ r = 0 \/ ((r < 0) <=> (a < 0))
  BY <1>0, Truncates
<1>2. p \in Int
  <2> HIDE DEF q
  <2> QED BY <1>0, <1>1
<1>3. /\ b >= 2 /\ q >= 1 => p >= 2 * q
      /\ b >= 2 /\ q <= -1 => p <= 2 * q
      /\ b <= -2 /\ q >= 1 => p <= -(2 * q)
      /\ b <= -2 /\ q <= -1 => p >= -(2 * q)
  <2> HIDE DEF q
  <2> QED BY <1>0, <1>1, SMT
<1>4. (b = 1 => p = q) /\ (b = -1 => p = -q)
  <2> HIDE DEF q
  <2> QED BY <1>1
<1> HIDE DEF q, r, p
<1>5. r \in (-Half)..(Half - 1)
  BY <1>0, <1>1 DEF Size0
<1>6. CASE b = 1 \/ b = -1
  <2>1. r = 0
    BY <1>1, <1>6 DEF Size0
  <2>2. p = a
    BY <1>0, <1>1, <1>2, <2>1
  <2> QED BY <1>0, <1>1, <1>4, <1>5, <1>6, <2>2 DEF q, r
<1>7. CASE b >= 2 \/ b <= -2
  <2>1. r > -Half /\ r < Half
    BY <1>0, <1>1 DEF Size0
  <2>2. ~(q >= Half)
    BY <1>0, <1>1, <1>2, <1>3, <1>7, <2>1
  <2>3. ~(q < -Half)
    BY <1>0, <1>1, <1>2, <1>3, <1>7, <2>1
  <2> QED BY <1>0, <1>1, <1>5, <2>2, <2>3 DEF q, r
<1> QED BY <1>0, <1>6, <1>7

\* Wrapped factors and terms give the same wrapped result.
LEMMA WrapThrough ==
  ASSUME NEW x \in Int, NEW y \in Int, NEW z \in Int, NEW u \in Int, NEW v \in Int, NEW w \in Int,
         Same(x, u), Same(y, v), Same(z, w)
  PROVE  Wrap(x * y + z) = Wrap(u * v + w) /\ Wrap(x * y) = Wrap(u * v)
<1>1. x * y \in Int /\ u * v \in Int /\ Same(x * y, u * v)
  BY SameSum
<1> DEFINE p == x * y
           q == u * v
<1>2. p \in Int /\ q \in Int /\ Same(p, q)
  BY <1>1
<1> HIDE DEF p, q
<1>3. Same(p + z, q + w) /\ p + z \in Int /\ q + w \in Int
  BY <1>2, SameSum
<1>4. Wrap(p) = Wrap(q) /\ Wrap(p + z) = Wrap(q + w)
  BY <1>2, <1>3, SameFacts
<1> QED BY <1>4 DEF p, q

LEMMA UnsignedDivision ==
  ASSUME NEW a \in Word, NEW b \in Word
  PROVE  /\ Wrap(Divu(a, b) * b + Remu(a, b)) = a
         /\ b = 0 => Divu(a, b) = Modulus - 1
         /\ b # 0 => Remu(a, b) < b /\ Divu(a, b) * b <= a
<1>0. a \in Int /\ b \in Int /\ a >= 0 /\ b >= 0 /\ Wrap(a) = a
  BY WordInt, WrapWord
<1>1. CASE b = 0
  <2>1. Divu(a, b) = Modulus - 1 /\ Remu(a, b) = a
    BY <1>1 DEF Divu, Remu
  <2>2. (Modulus - 1) * 0 + a = a
    BY <1>0, Sizes
  <2> QED BY <1>0, <1>1, <2>1, <2>2
<1>2. CASE b # 0
  <2> DEFINE q == a \div b
             r == a % b
  <2>1. q \in Int /\ r \in 0..(b - 1) /\ a = b * q + r
    BY <1>0, <1>2, DivMod
  <2>2. Divu(a, b) = q /\ Remu(a, b) = r
    BY <1>2 DEF Divu, Remu
  <2> HIDE DEF q, r
  <2>3. q * b + r = a /\ q * b <= a
    <3>1. q * b = b * q /\ b * q \in Int
      BY <1>0, <2>1
    <3> QED BY <1>0, <2>1, <3>1
  <2>4. r < b
    BY <1>0, <2>1
  <2> QED BY <1>0, <1>2, <2>2, <2>3, <2>4
<1> QED BY <1>1, <1>2

LEMMA SignedDivision ==
  ASSUME NEW a \in Word, NEW b \in Word
  PROVE  LET sa == Signed(a)
             sb == Signed(b)
             q == Signed(Div(a, b))
             r == Signed(Rem(a, b))
         IN  /\ Wrap(Div(a, b) * b + Rem(a, b)) = a
             /\ b = 0 => q = -1
             /\ b # 0 => /\ Size0(r) < Size0(sb) /\ (r = 0 \/ (r < 0) = (sa < 0))
                         /\ ~Overflows(a, b) => q * sb + r = sa
<1> DEFINE sa == Signed(a)
           sb == Signed(b)
<1>0. /\ a \in Int /\ b \in Int /\ Wrap(a) = a /\ Wrap(sa) = a /\ Wrap(sb) = b
      /\ sa \in (-Half)..(Half - 1) /\ sb \in (-Half)..(Half - 1) /\ sa \in Int /\ sb \in Int
      /\ Same(b, sb) /\ (sb = 0 <=> b = 0)
  <2>1. sb = 0 <=> b = 0
    BY HalfFacts DEF Signed, Half
  <2> QED BY <2>1, WordInt, WrapWord, SignedFacts, SameFacts
<1>1. Half \in Int /\ Half >= 8 /\ Modulus = 2 * Half /\ Modulus \div 2 = Half
  BY HalfFacts DEF Half
<1>2. CASE b = 0
  <2>1. Div(a, b) = Modulus - 1 /\ Rem(a, b) = a
    <3>1. Signed(b) = 0
      BY <1>0, <1>2
    <3>2. ~Overflows(a, b)
      BY <3>1 DEF Overflows
    <3> QED BY <3>1, <3>2 DEF Div, Rem
  <2>2. (Modulus - 1) * 0 + a = a
    BY <1>0, <1>1
  <2>3. Signed(Modulus - 1) = -1
    BY <1>1 DEF Signed
  <2> QED BY <1>0, <1>2, <2>1, <2>2, <2>3
<1>3. CASE b # 0 /\ Overflows(a, b)
  <2>1. sa = -Half /\ sb = -1
    BY <1>1, <1>3 DEF Overflows
  <2>2. Div(a, b) = Half /\ Rem(a, b) = 0
    <3>1. Signed(b) # 0
      BY <2>1
    <3> QED BY <1>1, <1>3, <3>1 DEF Div, Rem
  <2>3. Half * (-1) + 0 = -Half
    BY <1>1
  <2>4. Wrap(Half * b + 0) = Wrap(Half * (-1) + 0)
    <3>1. Same(Half, Half) /\ Same(0, 0) /\ 0 \in Int /\ -1 \in Int
      BY <1>1, SameFacts
    <3> QED BY <1>0, <1>1, <2>1, <3>1, WrapThrough
  <2>5. Signed(0) = 0 /\ Size0(0) < Size0(-1)
    BY <1>1 DEF Signed, Size0
  <2> QED BY <1>0, <1>3, <2>1, <2>2, <2>3, <2>4, <2>5
<1>4. CASE b # 0 /\ ~Overflows(a, b)
  <2> DEFINE z == Quotient(sa, sb)
             m == Remainder(sa, sb)
  <2>1. sb # 0 /\ ~(sa = -Half /\ sb = -1)
    BY <1>0, <1>1, <1>4 DEF Overflows
  <2>2. z \in (-Half)..(Half - 1) /\ m \in (-Half)..(Half - 1)
    <3> HIDE DEF sa, sb
    <3> QED BY <1>0, <2>1, QuotientFits
  <2>3. /\ z * sb + m = sa /\ Size0(m) < Size0(sb) /\ (m = 0 \/ ((m < 0) <=> (sa < 0)))
        /\ z \in Int /\ m \in Int
    <3> HIDE DEF sa, sb
    <3> QED BY <1>0, <2>1, Truncates
  <2>4. Div(a, b) = Wrap(z) /\ Rem(a, b) = Wrap(m)
    BY <1>4, <2>1 DEF Div, Rem
  <2> HIDE DEF z, m
  <2>5. Signed(Wrap(z)) = z /\ Signed(Wrap(m)) = m
    BY <2>2, SignedFacts
  <2>6. Wrap(Wrap(z) * b + Wrap(m)) = a
    <3>1. Wrap(z) \in Int /\ Wrap(m) \in Int /\ Same(Wrap(z), z) /\ Same(Wrap(m), m)
      BY <2>3, WrapWord, WordInt, SameFacts
    <3> HIDE DEF sa, sb
    <3>2. Wrap(Wrap(z) * b + Wrap(m)) = Wrap(z * sb + m)
      BY <1>0, <2>3, <3>1, WrapThrough
    <3> QED BY <1>0, <2>3, <3>2
  <2> QED BY <1>4, <2>3, <2>4, <2>5, <2>6
<1> QED BY <1>2, <1>3, <1>4

LEMMA DivisionLaws == \A a, b \in Word : DivisionLaw(a, b)
<1> SUFFICES ASSUME NEW a \in Word, NEW b \in Word PROVE DivisionLaw(a, b)
  OBVIOUS
<1> QED BY UnsignedDivision, SignedDivision DEF DivisionLaw

-----------------------------------------------------------------------------
(* Products and shifts.                                                    *)

\* The upper word of a product that fits in two.
LEMMA UpperFacts ==
  ASSUME NEW p \in Int, NEW lo \in Int, NEW hi \in Int, hi = lo + Modulus,
         Modulus * lo <= p, p < Modulus * hi
  PROVE  p \div Modulus \in lo..(hi - 1) /\ p = Modulus * (p \div Modulus) + Wrap(p)
<1> DEFINE q == p \div Modulus
           r == p % Modulus
<1>1. q \in Int /\ r \in 0..(Modulus - 1) /\ p = Modulus * q + r /\ Modulus \in Int /\ Modulus > 0
  BY Sizes, DivMod
<1>2. /\ q < lo => Modulus * q <= Modulus * lo - Modulus
      /\ q >= hi => Modulus * q >= Modulus * hi
  <2> HIDE DEF q
  <2> QED BY <1>1, SMT
<1> DEFINE x == Modulus * q
           y == Modulus * lo
           z == Modulus * hi
<1>3. x \in Int /\ y \in Int /\ z \in Int
  <2> HIDE DEF q
  <2> QED BY <1>1
<1>4. /\ x \in Int /\ y \in Int /\ z \in Int /\ p = x + r /\ y <= p /\ p < z
      /\ (q < lo => x <= y - Modulus) /\ (q >= hi => x >= z)
  BY <1>1, <1>2, <1>3
<1> HIDE DEF q, r, x, y, z
<1>5. q \in lo..(hi - 1)
  BY <1>1, <1>4
<1> QED BY <1>1, <1>5 DEF q, r, Wrap

LEMMA UpperIs == \A p \in Int : Upper(p) = Wrap(p \div Modulus)
BY HalfFacts DEF Upper, Shift

LEMMA UnsignedProduct ==
  ASSUME NEW a \in Word, NEW b \in Word
  PROVE  Alu("MULHU", a, b) * Modulus + Alu("MUL", a, b) = a * b
<1> DEFINE p == a * b
           q == p \div Modulus
<1>0. a \in 0..(Modulus - 1) /\ b \in 0..(Modulus - 1) /\ Modulus \in Int /\ Modulus > 0
  BY HalfFacts
<1>1. p \in Int /\ Modulus * 0 <= p /\ p < Modulus * Modulus /\ Modulus = 0 + Modulus
  <2>1. p \in Int /\ p >= 0
    BY <1>0, SMT
  <2>2. b > 0 => a * b < Modulus * b
    BY <1>0, SMT
  <2>3. Modulus * b < Modulus * Modulus /\ Modulus * b \in Int /\ Modulus * Modulus \in Int
          /\ Modulus * Modulus > 0
    BY <1>0, SMT
  <2>4. b = 0 => a * b = 0
    BY <1>0
  <2> DEFINE y == Modulus * b
             z == Modulus * Modulus
  <2>5. (b > 0 => p < y) /\ y < z /\ y \in Int /\ z \in Int /\ z > 0 /\ (b = 0 => p = 0)
          /\ (b = 0 \/ b > 0)
    BY <1>0, <2>2, <2>3, <2>4
  <2> HIDE DEF p, y, z
  <2>6. p < z
    BY <2>1, <2>5
  <2> QED BY <1>0, <2>1, <2>6 DEF z
<1>2. q \in 0..(Modulus - 1) /\ p = Modulus * q + Wrap(p)
  <2> HIDE DEF p
  <2>1. 0 \in Int /\ Modulus \in Int /\ p \in Int
    BY <1>0, <1>1
  <2>2. p \div Modulus \in 0..(Modulus - 1) /\ p = Modulus * (p \div Modulus) + Wrap(p)
    BY <1>1, <2>1, UpperFacts, Zenon
  <2> QED BY <2>2
<1>3. Alu("MULHU", a, b) = q
  <2>1. Alu("MULHU", a, b) = Upper(p)
    BY DEF Alu
  <2>2. Wrap(q) = q
    <3> HIDE DEF q
    <3> QED BY <1>2, WrapWord, HalfFacts
  <2> HIDE DEF p
  <2> QED BY <1>1, <2>1, <2>2, UpperIs DEF q
<1>4. Alu("MUL", a, b) = Wrap(p)
  BY DEF Alu
<1>5. q * Modulus = Modulus * q /\ q \in Int
  <2> HIDE DEF q
  <2> QED BY <1>0, <1>2
<1> HIDE DEF q
<1> QED BY <1>2, <1>3, <1>4, <1>5

\* A signed factor and a signed or an unsigned one.
LEMMA SignedProduct ==
  ASSUME NEW a \in Word, NEW b \in Word, NEW sa, sa = Signed(a), NEW c \in Int,
         c = Signed(b) \/ c = b
  PROVE  Signed(Upper(sa * c)) * Modulus + Alu("MUL", a, b) = sa * c
<1> DEFINE p == sa * c
           q == p \div Modulus
<1>0. /\ sa \in (-Half)..(Half - 1) /\ c \in Int /\ c > -Modulus /\ c < Modulus
      /\ Half \in Int /\ Half >= 8 /\ Modulus = 2 * Half /\ Modulus \in Int
      /\ a \in Int /\ b \in Int /\ Same(a, sa) /\ Same(b, c) /\ sa \in Int
  <2>1. a \in Int /\ b \in Int /\ a >= 0 /\ a < Modulus /\ b >= 0 /\ b < Modulus
    BY HalfFacts
  <2>2. Signed(b) \in (-Half)..(Half - 1) /\ sa \in (-Half)..(Half - 1)
    BY SignedFacts
  <2>3. Same(a, sa) /\ Same(b, c)
    BY <2>1, SameFacts
  <2>4. Half \in Int /\ Half >= 8 /\ Modulus = 2 * Half /\ Modulus \in Int
    BY HalfFacts
  <2>5. c > -Modulus /\ c < Modulus
    <3>1. CASE c = b
      BY <2>1, <2>4, <3>1
    <3>2. CASE c = Signed(b)
      <4>1. c \in (-Half)..(Half - 1)
        BY <2>2, <3>2
      <4> QED BY <2>4, <4>1
    <3> QED BY <3>1, <3>2
  <2>6. sa \in Int
    BY <2>2, <2>4
  <2> QED BY <2>1, <2>2, <2>3, <2>4, <2>5, <2>6
<1>1. p \in Int /\ Modulus * (-Half) <= p /\ p < Modulus * Half /\ Half = (-Half) + Modulus
  <2>1. p \in Int
    BY <1>0
  <2> DEFINE h == Half * Modulus
  <2>2. h \in Int /\ Modulus * (-Half) = -h /\ Modulus * Half = h
    BY <1>0, SMT
  <2>3. p <= Half * (Modulus - 1) /\ p >= -(Half * (Modulus - 1))
    <3>1. CASE c >= 0
      <4>1. p <= Half * c /\ p >= -(Half * c)
        BY <1>0, <3>1, SMT
      <4>2. Half * c <= Half * (Modulus - 1)
        BY <1>0, <3>1, SMT
      <4> DEFINE x == Half * c
                 y == Half * (Modulus - 1)
      <4>3. x \in Int /\ y \in Int /\ p <= x /\ p >= -x /\ x <= y
        BY <1>0, <4>1, <4>2
      <4> HIDE DEF x, y, p
      <4>4. p <= y /\ p >= -y
        BY <2>1, <4>3
      <4> QED BY <4>4 DEF y
    <3>2. CASE c < 0
      <4>1. p <= Half * (-c) /\ p >= -(Half * (-c))
        BY <1>0, <3>2, SMT
      <4>2. Half * (-c) <= Half * (Modulus - 1)
        BY <1>0, <3>2, SMT
      <4> DEFINE x == Half * (-c)
                 y == Half * (Modulus - 1)
      <4>3. x \in Int /\ y \in Int /\ p <= x /\ p >= -x /\ x <= y
        BY <1>0, <4>1, <4>2
      <4> HIDE DEF x, y, p
      <4>4. p <= y /\ p >= -y
        BY <2>1, <4>3
      <4> QED BY <4>4 DEF y
    <3> QED BY <1>0, <3>1, <3>2
  <2>4. Half * (Modulus - 1) = h - Half
    BY <1>0, SMT
  <2> HIDE DEF h, p
  <2>5. p < h /\ p >= -h
    BY <1>0, <2>1, <2>2, <2>3, <2>4
  <2> QED BY <1>0, <2>1, <2>2, <2>5
<1>2. q \in (-Half)..(Half - 1) /\ p = Modulus * q + Wrap(p)
  <2> HIDE DEF p
  <2>1. -Half \in Int /\ Half \in Int
    BY <1>0
  <2> QED BY <1>1, <2>1, UpperFacts
<1>3. Signed(Upper(p)) = q
  <2>1. Upper(p) = Wrap(q)
    <3> HIDE DEF p
    <3> QED BY <1>1, UpperIs DEF q
  <2> HIDE DEF q
  <2> QED BY <1>2, <2>1, SignedFacts
<1>4. Alu("MUL", a, b) = Wrap(p)
  <2>1. Alu("MUL", a, b) = Wrap(a * b)
    BY DEF Alu
  <2>2. 0 \in Int /\ Same(0, 0)
    BY SameFacts
  <2> QED BY <1>0, <2>1, <2>2, WrapThrough
<1>5. q * Modulus = Modulus * q /\ q \in Int
  <2> HIDE DEF q
  <2> QED BY <1>0, <1>2
<1> HIDE DEF q
<1> QED BY <1>2, <1>3, <1>4, <1>5

LEMMA ProductLaws == \A a, b \in Word : ProductLaw(a, b)
<1> SUFFICES ASSUME NEW a \in Word, NEW b \in Word PROVE ProductLaw(a, b)
  OBVIOUS
<1>1. Signed(b) \in Int /\ b \in Int
  BY WordInt
<1>2. Alu("MULHU", a, b) * Modulus + Alu("MUL", a, b) = a * b
  BY UnsignedProduct
<1>3. Alu("MULH", a, b) = Upper(Signed(a) * Signed(b))
        /\ Alu("MULHSU", a, b) = Upper(Signed(a) * b)
  BY DEF Alu
<1>4. Signed(Upper(Signed(a) * Signed(b))) * Modulus + Alu("MUL", a, b) = Signed(a) * Signed(b)
  BY <1>1, SignedProduct
<1>5. Signed(Upper(Signed(a) * b)) * Modulus + Alu("MUL", a, b) = Signed(a) * b
  BY <1>1, SignedProduct
<1> QED BY <1>2, <1>3, <1>4, <1>5 DEF ProductLaw

LEMMA ShiftLaws == \A a, b \in Word : ShiftLaw(a, b)
<1> SUFFICES ASSUME NEW a \in Word, NEW b \in Word PROVE ShiftLaw(a, b)
  OBVIOUS
<1> DEFINE s == Amount(b)
           P == 2 ^ s
           Q == 2 ^ (Bits - s)
           sa == Signed(a)
<1>0. a \in Int /\ b \in Int /\ s \in 0..(Bits - 1) /\ s \in Nat
  BY WordInt, AmountFacts
<1>1. P \in Int /\ P > 0 /\ Q \in Int /\ Q > 0 /\ Modulus = P * Q
  <2> HIDE DEF s
  <2>1. s \in 0..Bits /\ Bits - s \in 0..Bits /\ Bits - s \in Nat /\ s + (Bits - s) = Bits
    BY <1>0, Sizes, SMT
  <2>2. 2 ^ (s + (Bits - s)) = 2 ^ s * 2 ^ (Bits - s)
    BY <1>0, <2>1, Sizes, PowerSum
  <2>3. Modulus = 2 ^ s * 2 ^ (Bits - s)
    BY <2>1, <2>2, HalfFacts
  <2>4. 2 ^ s \in Nat \ {0} /\ 2 ^ (Bits - s) \in Nat \ {0}
    BY <2>1, Powers
  <2> QED BY <2>3, <2>4
<1>2. sa \in (-Half)..(Half - 1) /\ sa \in Int /\ (sa = a \/ sa = a - Modulus)
        /\ Half \in Int /\ Half >= 8 /\ Modulus = 2 * Half
  BY SignedFacts, WordInt, HalfFacts DEF Signed
<1>3. /\ Alu("SRL", a, b) = a \div P /\ Alu("SRA", a, b) = Wrap(sa \div P)
      /\ \A x : Alu("SRL", x, b) = x \div P
      /\ Alu("SLL", a, b) = Wrap(a * P)
  BY DEF Alu, Shift
<1> HIDE DEF s, P, Q, sa
<1>4. Alu("SRL", a, b) * P + (a % P) = a
  <2> DEFINE q == a \div P
             r == a % P
  <2>1. q \in Int /\ r \in 0..(P - 1) /\ a = P * q + r
    BY <1>0, <1>1, DivMod
  <2> HIDE DEF q, r
  <2>2. q * P = P * q
    BY <1>1, <2>1
  <2> QED BY <1>3, <2>1, <2>2 DEF q, r
<1>5. Signed(Alu("SRA", a, b)) * P + (a % P) = sa
  <2> DEFINE q == sa \div P
             r == sa % P
  <2>1. q \in Int /\ r \in 0..(P - 1) /\ sa = P * q + r
    BY <1>1, <1>2, DivMod
  <2>2. r = a % P
    <3>1. CASE sa = a
      BY <3>1
    <3>2. CASE sa = a - Modulus
      <4>1. -Q \in Int /\ P * (-Q) = -(P * Q)
        BY <1>1, SMT
      <4>2. sa = a + P * (-Q)
        BY <1>0, <1>1, <3>2, <4>1
      <4> QED BY <1>0, <1>1, <4>1, <4>2, Forgets
    <3> QED BY <1>2, <3>1, <3>2
  <2>3. q \in (-Half)..(Half - 1)
    <3> HIDE DEF q, r
    <3>1. q >= 0 => P * q >= q
      BY <1>1, <2>1, SMT
    <3>2. q < 0 => P * q <= q
      BY <1>1, <2>1, SMT
    <3>3. P = 1 => P * q = q
      BY <1>1, <2>1
    <3>4. P >= 2 /\ q < 0 => P * q <= P * (q + 1) - P /\ P * (q + 1) <= q + 1
      BY <1>1, <2>1, SMT
    <3> DEFINE x == P * q
               y == P * (q + 1)
    <3>5. /\ x \in Int /\ y \in Int /\ sa = x + r /\ (q >= 0 => x >= q)
          /\ (q < 0 => y <= q + 1) /\ y = x + P
      <4>1. y = x + P /\ x \in Int /\ y \in Int
        BY <1>1, <2>1, SMT
      <4>2. q < 0 => y <= q + 1
        BY <1>1, <2>1, SMT
      <4> QED BY <2>1, <3>1, <4>1, <4>2
    <3> HIDE DEF x, y
    <3> QED BY <1>1, <1>2, <2>1, <3>5
  <2> HIDE DEF q, r
  <2>4. Signed(Wrap(q)) = q
    BY <2>3, SignedFacts
  <2>5. q * P = P * q
    BY <1>1, <2>1
  <2> QED BY <1>3, <2>1, <2>2, <2>4, <2>5 DEF q
<1>6. Alu("SRL", Alu("SLL", a, b), b) = a % Q
  <2> DEFINE d == a \div Q
             m == a % Q
  <2>1. d \in Int /\ m \in 0..(Q - 1) /\ a = Q * d + m
    BY <1>0, <1>1, DivMod
  <2> HIDE DEF d, m
  <2>2. a * P = (P * Q) * d + P * m /\ P * m \in Int /\ P * m >= 0 /\ P * m < P * Q
    <3>1. (Q * d + m) * P = (P * Q) * d + P * m
      BY <1>1, <2>1, SMT
    <3>2. P * m \in Int /\ P * m >= 0 /\ P * m <= P * (Q - 1) /\ P * (Q - 1) = P * Q - P
      BY <1>1, <2>1, SMT
    <3>3. P * m < P * Q
      <4> DEFINE x == P * m
                 y == P * (Q - 1)
                 z == P * Q
      <4>1. x \in Int /\ y \in Int /\ z \in Int /\ x <= y /\ y = z - P
        BY <1>1, <3>2
      <4> HIDE DEF x, y, z
      <4>2. x < z
        BY <1>1, <4>1
      <4> QED BY <4>2 DEF x, z
    <3> QED BY <2>1, <3>1, <3>2, <3>3
  <2>3. Wrap(a * P) = P * m
    <3>1. P * m \in 0..(Modulus - 1) /\ a * P = Modulus * d + P * m /\ Modulus \in Int /\ Modulus > 0
      BY <1>1, <2>2, Sizes
    <3> DEFINE x == P * m
    <3>2. x \in 0..(Modulus - 1)
      BY <3>1
    <3> HIDE DEF x
    <3>3. (Modulus * d + x) % Modulus = x
      BY <2>1, <3>1, <3>2, DivisionUnique
    <3> QED BY <3>1, <3>3 DEF x, Wrap
  <2>4. (P * m) \div P = m
    <3>1. 0 \in 0..(P - 1) /\ m \in Int /\ P * m + 0 = P * m
      BY <1>1, <2>1, <2>2
    <3>2. (P * m + 0) \div P = m
      BY <1>1, <3>1, DivisionUnique
    <3> QED BY <3>1, <3>2
  <2> QED BY <1>3, <2>3, <2>4 DEF m
<1> QED BY <1>4, <1>5, <1>6 DEF ShiftLaw, s, P, Q, sa

-----------------------------------------------------------------------------
(* Operations written more than once, and their order.                     *)

\* A word is the sum of its bits: those below n make its remainder by 2 ^ n.
LEMMA OfItsBits ==
  ASSUME NEW w \in Word
  PROVE  OfBits(BitsOf(w)) = w
<1> DEFINE Low(n) == {i \in BitsOf(w) : i < n}
           Good == {n \in Nat : n <= Bits => OfBits(Low(n)) = w % 2 ^ n}
<1>0. w \in Nat /\ w \in Int /\ w < Modulus
  BY WordInt
<1>1. 0 \in Good
  <2>1. Low(0) = {}
    BY DEF BitsOf
  <2>2. w % 1 = 0
    BY <1>0, SMT
  <2>3. OfBits(Low(0)) = 0
    BY <2>1, OfBitsFacts
  <2>4. 2 ^ 0 = 1
    BY PowerAssumption
  <2> QED BY <2>2, <2>3, <2>4
<1>2. ASSUME NEW k \in Nat, k \in Good PROVE k + 1 \in Good
  <2> SUFFICES ASSUME k + 1 <= Bits PROVE OfBits(Low(k + 1)) = w % 2 ^ (k + 1)
    OBVIOUS
  <2>1. k \in 0..Bits /\ k < Bits /\ k <= Bits /\ k \in 0..(Bits - 1)
    BY Sizes, SMT
  <2> DEFINE P == 2 ^ k
             d == w \div P
             m == w % P
             e == d \div 2
             b == d % 2
  <2>2. P \in Int /\ P > 0 /\ 2 ^ (k + 1) = 2 * P
    BY <2>1, Powers
  <2>3. d \in Int /\ m \in 0..(P - 1) /\ w = P * d + m
    <3> HIDE DEF P
    <3> QED BY <1>0, <2>2, DivMod
  <2>4. e \in Int /\ b \in 0..1 /\ d = 2 * e + b
    <3> HIDE DEF d
    <3> QED BY <2>3, SMT
  <2>5. w % (2 * P) = P * b + m
    <3> HIDE DEF P, d, m, e, b
    <3>1. P * d = (2 * P) * e + P * b
      BY <2>2, <2>3, <2>4, SMT
    <3>2. P * b + m \in 0..((2 * P) - 1) /\ 2 * P \in Int /\ 2 * P > 0
      <4>1. CASE b = 0
        BY <2>2, <2>3, <4>1
      <4>2. CASE b = 1
        BY <2>2, <2>3, <4>2
      <4> QED BY <2>4, <4>1, <4>2
    <3>3. ((2 * P) * e + (P * b + m)) % (2 * P) = P * b + m
      BY <2>4, <3>2, DivisionUnique
    <3>4. w = (2 * P) * e + (P * b + m)
      <4> DEFINE x == P * d
                 y == (2 * P) * e
                 z == P * b
      <4>1. x \in Int /\ y \in Int /\ z \in Int /\ x = y + z /\ w = x + m /\ m \in Int
        BY <2>2, <2>3, <2>4, <3>1
      <4> HIDE DEF x, y, z
      <4>2. w = y + (z + m)
        BY <4>1
      <4> QED BY <4>2 DEF y, z
    <3> QED BY <3>3, <3>4
  <2>6. OfBits(Low(k)) = m
    BY <1>2, <2>1
  <2>7. k \in BitsOf(w) <=> b = 1
    BY <2>1 DEF BitsOf
  <2>8. BitsOf(w) \subseteq 0..(Bits - 1)
    BY DEF BitsOf
  <2>9. CASE b = 1
    <3>1. k \in Low(k + 1) /\ Low(k + 1) \ {k} = Low(k) /\ Low(k + 1) \in SUBSET (0..(Bits - 1))
      BY <2>7, <2>8, <2>9
    <3>2. OfBits(Low(k + 1)) = P + OfBits(Low(k))
      <4> HIDE DEF Low
      <4> QED BY <3>1, OfBitsFacts
    <3>3. P * b = P
      BY <2>2, <2>9
    <3> HIDE DEF Low, m, b, P
    <3> QED BY <2>2, <2>5, <2>6, <3>2, <3>3
  <2>10. CASE b = 0
    <3>1. Low(k + 1) = Low(k)
      <4>1. k \notin BitsOf(w)
        BY <2>7, <2>10
      <4> QED BY <2>8, <4>1
    <3>2. P * b = 0
      BY <2>2, <2>10
    <3>3. m \in Int
      BY <2>3
    <3> HIDE DEF Low, m, b, P
    <3> QED BY <2>2, <2>5, <2>6, <3>1, <3>2, <3>3
  <2> QED BY <2>4, <2>9, <2>10
<1>3. Nat \subseteq Good
  <2> HIDE DEF Good
  <2> QED BY <1>1, <1>2, NatSetInduction
<1>4. Bits \in Good
  BY <1>3, Sizes
<1>5. Low(Bits) = BitsOf(w)
  BY Sizes DEF BitsOf
<1>6. w % 2 ^ Bits = w
  BY WrapWord, HalfFacts, <1>0 DEF Wrap
<1>7. OfBits(Low(Bits)) = w % 2 ^ Bits
  <2>1. Bits <= Bits
    BY Sizes, SMT
  <2> QED BY <1>4, <2>1
<1> QED BY <1>5, <1>6, <1>7

LEMMA OfBitsUnion ==
  ASSUME NEW S \in SUBSET (0..(Bits - 1)), NEW T \in SUBSET (0..(Bits - 1)), S \cap T = {}
  PROVE  OfBits(S \cup T) = OfBits(S) + OfBits(T)
<1> DEFINE Adds(X) == OfBits(X \cup T) = OfBits(X) + OfBits(T)
           Good == {n \in Nat : n <= Bits =>
                      \A X \in SUBSET Below(n) : X \cap T = {} => Adds(X)}
<1>1. 0 \in Good
  <2> SUFFICES ASSUME NEW X \in SUBSET Below(0) PROVE Adds(X)
    OBVIOUS
  <2>0. X = {}
    BY DEF Below
  <2>1. X = {} /\ X \cup T = T
    BY <2>0
  <2>2. OfBits({}) = 0 /\ OfBits(T) \in Int
    BY OfBitsFacts
  <2> QED BY <2>1, <2>2
<1>2. ASSUME NEW k \in Nat, k \in Good PROVE k + 1 \in Good
  <2> SUFFICES ASSUME k + 1 <= Bits, NEW X \in SUBSET Below(k + 1), X \cap T = {}
               PROVE  Adds(X)
    OBVIOUS
  <2>1. k \in 0..Bits /\ k < Bits /\ k <= Bits
    BY Sizes, SMT
  <2> DEFINE Y == X \ {k}
  <2>2. Y \in SUBSET Below(k) /\ Y \cap T = {}
    BY DEF Below
  <2>3. Adds(Y)
    BY <1>2, <2>1, <2>2
  <2>4. CASE k \in X
    <3>1. X \in SUBSET (0..(Bits - 1)) /\ X \cup T \in SUBSET (0..(Bits - 1))
          /\ k \in X \cup T /\ (X \cup T) \ {k} = Y \cup T
      BY <2>4 DEF Below
    <3>2. OfBits(X) = 2 ^ k + OfBits(Y) /\ OfBits(X \cup T) = 2 ^ k + OfBits(Y \cup T)
      BY <2>4, <3>1, OfBitsFacts
    <3>3. Y \in SUBSET (0..(Bits - 1)) /\ 2 ^ k \in Int
      BY <2>1, <3>1, Powers
    <3>4. OfBits(Y) \in Int /\ OfBits(T) \in Int
      BY <3>3, OfBitsFacts
    <3> HIDE DEF Y
    <3> QED BY <2>3, <3>2, <3>3, <3>4
  <2>5. CASE k \notin X
    <3>1. Y = X
      BY <2>5
    <3> QED BY <2>3, <3>1
  <2> QED BY <2>4, <2>5
<1>3. Nat \subseteq Good
  <2> HIDE DEF Good
  <2> QED BY <1>1, <1>2, NatSetInduction
<1>4. Bits \in Good /\ S \in SUBSET Below(Bits)
  BY <1>3, Sizes DEF Below
<1> QED BY <1>4, Sizes

LEMMA LogicSums ==
  ASSUME NEW a \in Word, NEW b \in Word
  PROVE  And(a, b) + Or(a, b) = a + b /\ Xor(a, b) = Or(a, b) - And(a, b)
<1> DEFINE A == BitsOf(a)
           B == BitsOf(b)
           both == A \cap B
           more == B \ A
           one == (A \ B) \cup (B \ A)
<1>1. /\ A \in SUBSET (0..(Bits - 1)) /\ B \in SUBSET (0..(Bits - 1))
      /\ both \in SUBSET (0..(Bits - 1)) /\ more \in SUBSET (0..(Bits - 1))
      /\ one \in SUBSET (0..(Bits - 1))
  BY DEF BitsOf
<1> HIDE DEF A, B
<1>2. /\ A \cap more = {} /\ A \cup B = A \cup more /\ both \cap more = {}
      /\ B = both \cup more /\ one \cap both = {} /\ A \cup B = one \cup both
  OBVIOUS
<1>3. OfBits(A \cup B) = OfBits(A) + OfBits(more)
  BY <1>1, <1>2, OfBitsUnion
<1>4. OfBits(B) = OfBits(both) + OfBits(more)
  BY <1>1, <1>2, OfBitsUnion
<1>5. OfBits(A \cup B) = OfBits(one) + OfBits(both)
  BY <1>1, <1>2, OfBitsUnion
<1>6. OfBits(A) = a /\ OfBits(B) = b
  BY OfItsBits DEF A, B
<1>7. And(a, b) = OfBits(both) /\ Or(a, b) = OfBits(A \cup B) /\ Xor(a, b) = OfBits(one)
  BY DEF And, Or, Xor, A, B
<1>8. OfBits(both) \in Int /\ OfBits(more) \in Int /\ OfBits(one) \in Int /\ a \in Int /\ b \in Int
  BY <1>1, OfBitsFacts, WordInt
<1> HIDE DEF both, more, one
<1> QED BY <1>3, <1>4, <1>5, <1>6, <1>7, <1>8

LEMMA SameLaws == \A a, b \in Word : SameLaw(a, b)
<1> SUFFICES ASSUME NEW a \in Word, NEW b \in Word PROVE SameLaw(a, b)
  OBVIOUS
<1>1. \A o \in SameOps : /\ Alu(o[1], a, b) = AluImm(o[1], a, b)
                         /\ Alu(o[1], a, b) = ValuOp(o[2], a, b)
  <2>1. Alu("ADD", a, b) = AluImm("ADD", a, b) /\ Alu("ADD", a, b) = ValuOp("vadd", a, b)
    BY DEF Alu, AluImm, ValuOp
  <2>2. Alu("XOR", a, b) = AluImm("XOR", a, b) /\ Alu("XOR", a, b) = ValuOp("vxor", a, b)
    BY DEF Alu, AluImm, ValuOp
  <2>3. Alu("OR", a, b) = AluImm("OR", a, b) /\ Alu("OR", a, b) = ValuOp("vor", a, b)
    BY DEF Alu, AluImm, ValuOp
  <2>4. Alu("AND", a, b) = AluImm("AND", a, b) /\ Alu("AND", a, b) = ValuOp("vand", a, b)
    BY DEF Alu, AluImm, ValuOp
  <2>5. Alu("SLL", a, b) = AluImm("SLL", a, b) /\ Alu("SLL", a, b) = ValuOp("vsll", a, b)
    BY DEF Alu, AluImm, ValuOp
  <2>6. Alu("SRL", a, b) = AluImm("SRL", a, b) /\ Alu("SRL", a, b) = ValuOp("vsrl", a, b)
    BY DEF Alu, AluImm, ValuOp
  <2>7. Alu("SRA", a, b) = AluImm("SRA", a, b) /\ Alu("SRA", a, b) = ValuOp("vsra", a, b)
    BY DEF Alu, AluImm, ValuOp
  <2> QED BY <2>1, <2>2, <2>3, <2>4, <2>5, <2>6, <2>7 DEF SameOps
<1>2. Alu("SUB", a, b) = ValuOp("vsub", a, b)
  BY DEF Alu, ValuOp
<1>3. \A f \in {"SLT", "SLTU"} : Alu(f, a, b) = AluImm(f, a, b)
  <2>1. Wrap(b) = b
    BY WrapWord, WordInt
  <2>2. Alu("SLT", a, b) = AluImm("SLT", a, b)
    BY DEF Alu, AluImm
  <2>3. Alu("SLTU", a, b) = AluImm("SLTU", a, b)
    BY <2>1 DEF Alu, AluImm
  <2> QED BY <2>2, <2>3
<1>4. Alu("SLT", a, b) = Flag(ValuCmp("vmslt", a, b))
  BY DEF Alu, ValuCmp
<1>5. Alu("SLTU", a, b) = Flag(ValuCmp("vmsltu", a, b))
  BY DEF Alu, ValuCmp
<1>6. And(a, b) + Or(a, b) = a + b /\ Xor(a, b) = Or(a, b) - And(a, b)
  BY LogicSums
<1> QED BY <1>1, <1>2, <1>3, <1>4, <1>5, <1>6 DEF SameLaw

LEMMA OrderLaws == \A a, b \in Word : OrderLaw(a, b)
<1> SUFFICES ASSUME NEW a \in Word, NEW b \in Word PROVE OrderLaw(a, b)
  OBVIOUS
<1> DEFINE sa == Signed(a)
           sb == Signed(b)
<1>0. a \in Int /\ b \in Int /\ sa \in Int /\ sb \in Int
  BY WordInt
<1>1. /\ Taken("BLT", a, b) = (sa < sb) /\ Taken("BGE", a, b) = (sa >= sb)
      /\ Taken("BLTU", a, b) = (a < b) /\ Taken("BGEU", a, b) = (a >= b)
      /\ Taken("BEQ", a, b) = (a = b) /\ Taken("BNE", a, b) = (a # b)
  BY DEF Taken
<1>2. Alu("SLT", a, b) = Flag(sa < sb) /\ Alu("SLTU", a, b) = Flag(a < b)
  BY DEF Alu
<1>3. /\ ValuOp("vmin", a, b) = (IF sa <= sb THEN a ELSE b)
      /\ ValuOp("vmax", a, b) = (IF sa >= sb THEN a ELSE b)
      /\ ValuOp("vminu", a, b) = (IF a <= b THEN a ELSE b)
      /\ ValuOp("vmaxu", a, b) = (IF a >= b THEN a ELSE b)
  BY DEF ValuOp
<1>4. /\ ValuCmp("vmsgt", a, b) = (sa > sb) /\ ValuCmp("vmsle", a, b) = (sa <= sb)
      /\ ValuCmp("vmsgtu", a, b) = (a > b) /\ ValuCmp("vmsleu", a, b) = (a <= b)
  BY DEF ValuCmp
<1>5. sa = sb => a = b
  BY SignedFacts
<1> HIDE DEF sa, sb
<1>6. (Flag(sa < sb) = 1 <=> sa < sb) /\ (Flag(a < b) = 1 <=> a < b)
  BY DEF Flag
<1>7. Taken("BLT", a, b) = (Alu("SLT", a, b) = 1) /\ Taken("BLTU", a, b) = (Alu("SLTU", a, b) = 1)
  BY <1>1, <1>2, <1>6
<1>8. /\ Taken("BGE", a, b) # Taken("BLT", a, b) /\ Taken("BGEU", a, b) # Taken("BLTU", a, b)
      /\ Taken("BEQ", a, b) # Taken("BNE", a, b)
  BY <1>0, <1>1
<1>9. {ValuOp("vmin", a, b), ValuOp("vmax", a, b)} = {a, b}
        /\ (Taken("BLT", a, b) => ValuOp("vmin", a, b) = a)
  <2>1. CASE sa < sb
    <3>1. sa <= sb /\ ~(sa >= sb)
      BY <1>0, <2>1
    <3> QED BY <1>3, <3>1
  <2>2. CASE sa = sb
    BY <1>0, <1>3, <1>5, <2>2
  <2>3. CASE sa > sb
    <3>1. ~(sa <= sb) /\ sa >= sb /\ ~(sa < sb)
      BY <1>0, <2>3
    <3> QED BY <1>1, <1>3, <3>1
  <2> QED BY <1>0, <2>1, <2>2, <2>3
<1>10. {ValuOp("vminu", a, b), ValuOp("vmaxu", a, b)} = {a, b}
        /\ (Taken("BLTU", a, b) => ValuOp("vminu", a, b) = a)
  <2>1. CASE a < b
    <3>1. a <= b /\ ~(a >= b)
      BY <1>0, <2>1
    <3> QED BY <1>3, <3>1
  <2>2. CASE a = b
    BY <1>0, <1>3, <2>2
  <2>3. CASE a > b
    <3>1. ~(a <= b) /\ a >= b /\ ~(a < b)
      BY <1>0, <2>3
    <3> QED BY <1>1, <1>3, <3>1
  <2> QED BY <1>0, <2>1, <2>2, <2>3
<1>11. \A p \in {<<"vmsgt", "vmsle">>, <<"vmsgtu", "vmsleu">>} :
         ValuCmp(p[1], a, b) # ValuCmp(p[2], a, b)
  <2>1. ValuCmp("vmsgt", a, b) # ValuCmp("vmsle", a, b)
    BY <1>0, <1>4
  <2>2. ValuCmp("vmsgtu", a, b) # ValuCmp("vmsleu", a, b)
    BY <1>0, <1>4
  <2> QED BY <2>1, <2>2
<1> QED BY <1>7, <1>8, <1>9, <1>10, <1>11 DEF OrderLaw

\* What the simulator computes is RISC-V's arithmetic for every pair of words
\* of every size, not the small one TLC enumerates (Arithmetic, Laws).
THEOREM ArithmeticRight == Spec => []Arithmetic
<1>1. Laws
  BY DivisionLaws, ProductLaws, ShiftLaws, SameLaws, OrderLaws DEF Laws
<1>2. Arithmetic
  BY <1>1 DEF Arithmetic
<1> QED BY <1>2, PTL
=============================================================================
