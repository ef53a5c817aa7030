------------------------------ MODULE LsuProofs ------------------------------
(***************************************************************************)
(* Theorems about LsuEngine, for every geometry of words and lines, every  *)
(* placement of DRAM, and with or without the core's order of accesses.    *)
(***************************************************************************)
EXTENDS LsuEngine, Integers, TLAPS

-----------------------------------------------------------------------------
(* Addresses.                                                              *)

\* The word after a word is a word.
LEMMA AfterWord == \A w \in Word : After(w) \in Word
BY LsuAssumption DEF Word, After

\* Quotient and remainder of a division by the length of a line.
LEMMA DivUnique ==
  ASSUME NEW q \in Nat, NEW r \in 0..(LineWords - 1)
  PROVE  (LineWords * q + r) \div LineWords = q
<1> DEFINE x == LineWords * q + r
           p == x \div LineWords
           s == x % LineWords
<1>1. LineWords \in Nat /\ LineWords > 0
  BY LsuAssumption
<1>2. x \in Nat
  BY <1>1
<1>3. p \in Int /\ s \in 0..(LineWords - 1) /\ x = LineWords * p + s
  BY <1>1, <1>2
<1>4. LineWords * (p - q) = r - s
  BY <1>1, <1>3
<1> HIDE DEF x, p, s
<1>5. ~(p - q >= 1)
  <2> SUFFICES ASSUME p - q >= 1 PROVE FALSE
    OBVIOUS
  <2>1. LineWords * (p - q) >= LineWords
    BY <1>1, <1>3
  <2> QED BY <1>1, <1>3, <1>4, <2>1
<1>6. ~(q - p >= 1)
  <2> SUFFICES ASSUME q - p >= 1 PROVE FALSE
    OBVIOUS
  <2>1. LineWords * (q - p) >= LineWords
    BY <1>1, <1>3
  <2>2. LineWords * (q - p) = s - r
    BY <1>1, <1>3, <1>4
  <2> QED BY <1>1, <1>3, <2>1, <2>2
<1>7. p = q
  BY <1>3, <1>5, <1>6
<1> QED BY <1>7 DEF p, x

LEMMA ModUnique ==
  ASSUME NEW q \in Nat, NEW r \in 0..(LineWords - 1)
  PROVE  (LineWords * q + r) % LineWords = r
<1> DEFINE x == LineWords * q + r
           p == x \div LineWords
           s == x % LineWords
<1>1. LineWords \in Nat /\ LineWords > 0
  BY LsuAssumption
<1>2. x \in Nat
  BY <1>1
<1>3. p \in Int /\ s \in 0..(LineWords - 1) /\ x = LineWords * p + s
  BY <1>1, <1>2
<1>4. p = q
  BY DivUnique
<1>5. LineWords * q + s = LineWords * q + r
  BY <1>3, <1>4
<1>6. LineWords * q \in Int
  BY <1>1
<1> HIDE DEF x, p, s
<1>7. s = r
  BY <1>3, <1>5, <1>6
<1> QED BY <1>7 DEF s, x

\* A word that is not the last of its line is followed by one of its line.
LEMMA AfterInLine ==
  ASSUME NEW w \in Word, w % LineWords # LineWords - 1
  PROVE  SameLine(w, After(w))
<1> DEFINE q == w \div LineWords
           r == w % LineWords
<1>1. LineWords \in Nat /\ LineWords > 0 /\ Words \in Nat /\ w \in Nat /\ w < Words
  BY LsuAssumption DEF Word
<1>2. q \in Nat /\ r \in 0..(LineWords - 1) /\ w = LineWords * q + r
  BY <1>1
<1>3. r + 1 \in 0..(LineWords - 1) /\ w + 1 = LineWords * q + (r + 1)
  BY <1>1, <1>2
<1>4. (w + 1) \div LineWords = q
  BY <1>2, <1>3, DivUnique
<1>5. w + 1 # Words
  <2> SUFFICES ASSUME w + 1 = Words PROVE FALSE
    OBVIOUS
  <2>1. Words = LineWords * (Words \div LineWords)
    BY <1>1, LsuAssumption
  <2>2. Words \div LineWords = q
    BY <1>4
  <2>3. w + 1 = LineWords * q
    BY <2>1, <2>2
  <2> QED BY <1>1, <1>2, <1>3, <2>3
<1>6. After(w) = w + 1
  BY <1>1, <1>5 DEF After
<1> QED BY <1>4, <1>6 DEF SameLine

\* The word after a word is the first of a line only behind the last of one.
LEMMA AfterLine ==
  ASSUME NEW w \in Word
  PROVE  After(w) % LineWords = 0 <=> w % LineWords = LineWords - 1
<1> DEFINE q == w \div LineWords
           r == w % LineWords
<1>1. LineWords \in Nat /\ LineWords > 0 /\ Words \in Nat /\ w \in Nat /\ w < Words
  BY LsuAssumption DEF Word
<1>2. q \in Nat /\ r \in 0..(LineWords - 1) /\ w = LineWords * q + r
  BY <1>1
<1>3. (w + 1) % LineWords = 0 <=> r = LineWords - 1
  <2>1. CASE r = LineWords - 1
    <3>1. w + 1 = LineWords * (q + 1) + 0 /\ q + 1 \in Nat /\ 0 \in 0..(LineWords - 1)
      BY <1>1, <1>2, <2>1
    <3>2. (LineWords * (q + 1) + 0) % LineWords = 0
      BY <3>1, ModUnique
    <3> QED BY <2>1, <3>1, <3>2
  <2>2. CASE r # LineWords - 1
    <3>1. r + 1 \in 0..(LineWords - 1) /\ w + 1 = LineWords * q + (r + 1)
      BY <1>1, <1>2, <2>2
    <3>2. (w + 1) % LineWords = r + 1
      BY <1>2, <3>1, ModUnique
    <3> QED BY <1>2, <2>2, <3>2
  <2> QED BY <2>1, <2>2
<1>4. CASE w + 1 # Words
  <2>1. After(w) = w + 1
    BY <1>1, <1>4 DEF After
  <2> QED BY <1>3, <2>1
<1>5. CASE w + 1 = Words
  <2>1. After(w) = 0 /\ 0 % LineWords = 0
    BY <1>1, <1>5 DEF After
  <2>2. (w + 1) % LineWords = 0
    BY <1>5, LsuAssumption
  <2> QED BY <1>3, <2>1, <2>2
<1> QED BY <1>4, <1>5

-----------------------------------------------------------------------------
(* Types.                                                                  *)

\* The bytes of an operation are bytes of the memory.
LEMMA OpBytes ==
  ASSUME NEW op \in Op
  PROVE  /\ First(op) \subseteq {op.word} \X Lane
         /\ Second(op) \subseteq {After(op.word)} \X Lane
         /\ {op.word} \X Lane \subseteq Byte
         /\ {After(op.word)} \X Lane \subseteq Byte
         /\ Bytes(op) \subseteq Byte
BY AfterWord DEF Op, First, Second, Bytes, Byte

\* A request is an operation, which holds its own bytes if it is a store.
LEMMA RequestTypes ==
  ASSUME NEW op \in Requests \cup {Empty}
  PROVE  /\ op \in Op
         /\ op.cur = IF op.kind = "store" THEN Bytes(op) ELSE {}
<1>1. CASE op = Empty
  BY <1>1, LsuAssumption DEF Empty, Op, Word
<1>2. CASE op \in Requests
  <2>1. PICK k \in {"load", "store"}, w \in Word, s \in Shapes :
          op = [kind |-> k, word |-> w, lo |-> s.lo, hi |-> s.hi,
                cur |-> IF k = "store"
                        THEN ({w} \X s.lo) \cup ({After(w)} \X s.hi) ELSE {}]
    BY <1>2 DEF Requests
  <2>2. s.lo \subseteq Lane /\ s.hi \subseteq Lane
    BY DEF Shapes
  <2>3. {w} \X s.lo \subseteq Byte /\ {After(w)} \X s.hi \subseteq Byte
    BY <2>2, AfterWord DEF Byte
  <2>4. op.cur \subseteq Byte
    BY <2>1, <2>3
  <2> QED BY <2>1, <2>2, <2>4 DEF Op, Bytes, First, Second
<1> QED BY <1>1, <1>2

\* A registered operation that is aged is an operation.
LEMMA AgedTypes ==
  ASSUME NEW op \in Op, NEW new
  PROVE  /\ Aged(op, new) \in Op
         /\ Aged(op, new).kind = op.kind /\ Aged(op, new).word = op.word
         /\ Aged(op, new).lo = op.lo /\ Aged(op, new).hi = op.hi
         /\ Aged(op, new).cur = op.cur \ new
BY DEF Aged, Op

\* What is forwarded, written or answered is made of bytes of the memory.
LEMMA ForwardTypes ==
  ASSUME TypeOK
  PROVE  Fwd0 \in Forward /\ Fwd1 \in Forward /\ NoFwd \in Forward
<1>1. NoFwd \in Forward
  BY DEF NoFwd, Forward
<1>2. First(dc2) \subseteq Byte /\ Second(dc2) \subseteq Byte
  BY OpBytes DEF TypeOK, Bytes
<1>3. \A w : Forwarded(w) \in Forward
  BY <1>1, <1>2 DEF Forwarded, Forward, TypeOK
<1> QED BY <1>1, <1>3 DEF Fwd0, Fwd1

\* A clock edge keeps every register's type.
LEMMA ClockTypes ==
  ASSUME TypeOK, dc1' \in Op, NEW new \in SUBSET Byte, Clock(new)
  PROVE  TypeOK'
<1>1. Empty \in Op
  BY RequestTypes
<1>2. dc2' \in Op
  BY <1>1, AgedTypes DEF Clock, Dc2, TypeOK
<1>3. fwd' \in Forward \X Forward
  BY ForwardTypes DEF Clock, Dc2, TypeOK
<1>4. cross' \in BOOLEAN
  BY DEF Clock, Dc2, TypeOK, LineCross, Unaligned
<1>5. dc3' \in {"none", "good", "bad"}
  BY DEF Clock, Dc3, TypeOK
<1>6. /\ loadBeat' \in BOOLEAN /\ storeBeat' \in BOOLEAN
      /\ line0' \subseteq Byte
  <2>1. \A p \in 0..1 : port[p].cur \subseteq Byte
    BY DEF TypeOK
  <2> QED BY <2>1 DEF Clock, Beats, StoreBeat, TypeOK
<1>7. port' \in [0..1 -> [valid : BOOLEAN, cur : SUBSET Byte]]
  <2>1. Quiet \in [valid : BOOLEAN, cur : SUBSET Byte]
    BY DEF Quiet
  <2>2. \A read, same : \A w \in Word :
          Answer(read, w, same) \in [valid : BOOLEAN, cur : SUBSET Byte]
    BY <2>1 DEF Answer, Byte
  <2>3. dc1.word \in Word /\ After(dc1.word) \in Word
    BY AfterWord DEF TypeOK, Op
  <2> QED BY <2>2, <2>3 DEF Clock, Ports
<1>8. cam' \in [valid : BOOLEAN, tag : Word, strb : SUBSET Byte, cur : SUBSET Byte]
  <2>1. After(dc2.word) \in Word /\ Second(dc2) \subseteq Byte
    BY AfterWord, OpBytes DEF TypeOK, Op, Bytes
  <2> QED BY <2>1 DEF Clock, Cam, TypeOK
<1>9. old' \subseteq Byte
  <2>1. Written \subseteq Byte
    BY OpBytes DEF Written, TypeOK, Bytes
  <2> QED BY <2>1 DEF Clock, Memory, TypeOK
<1> QED BY <1>2, <1>3, <1>4, <1>5, <1>6, <1>7, <1>8, <1>9 DEF TypeOK

\* Every register of the engine keeps its type.
THEOREM LsuTypes == Spec => []TypeOK
<1>1. Init => TypeOK
  <2>1. Empty \in Op
    BY RequestTypes
  <2>2. NoFwd \in Forward
    BY DEF NoFwd, Forward
  <2>3. [p \in 0..1 |-> Quiet] \in [0..1 -> [valid : BOOLEAN, cur : SUBSET Byte]]
    BY DEF Quiet
  <2>4. [valid |-> FALSE, tag |-> 0, strb |-> {}, cur |-> {}]
          \in [valid : BOOLEAN, tag : Word, strb : SUBSET Byte, cur : SUBSET Byte]
    BY LsuAssumption DEF Word
  <2>5. <<NoFwd, NoFwd>> \in Forward \X Forward
    BY <2>2
  <2> SUFFICES ASSUME Init PROVE TypeOK
    OBVIOUS
  <2>6. /\ dc1 \in Op /\ dc2 \in Op /\ fwd \in Forward \X Forward
        /\ port \in [0..1 -> [valid : BOOLEAN, cur : SUBSET Byte]]
    BY <2>1, <2>3, <2>5 DEF Init
  <2>7. cam \in [valid : BOOLEAN, tag : Word, strb : SUBSET Byte, cur : SUBSET Byte]
    BY <2>4 DEF Init
  <2> QED BY <2>6, <2>7 DEF Init, TypeOK
<1>2. TypeOK /\ [Next]_vars => TypeOK'
  <2> SUFFICES ASSUME TypeOK, [Next]_vars PROVE TypeOK'
    OBVIOUS
  <2>1. ASSUME NEW op \in Requests \cup {Empty}, Accept(op) PROVE TypeOK'
    <3>1. op \in Op
      BY RequestTypes
    <3>2. op.cur \in SUBSET Byte
      BY <3>1 DEF Op
    <3> QED BY <2>1, <3>1, <3>2, ClockTypes DEF Accept
  <2>2. CASE Hold
    <3>1. dc1' \in Op
      BY <2>2 DEF Hold, TypeOK
    <3> QED BY <2>2, <3>1, ClockTypes DEF Hold
  <2>3. ASSUME NEW w \in Word, OtherWrite(w) PROVE TypeOK'
    BY <2>3 DEF OtherWrite, TypeOK, Quiet
  <2>4. CASE UNCHANGED vars
    BY <2>4 DEF vars, TypeOK
  <2> QED BY <2>1, <2>2, <2>3, <2>4 DEF Next
<1> QED BY <1>1, <1>2, PTL DEF Spec

-----------------------------------------------------------------------------
(* Stores.  StoresLand is not inductive: it must also be known that DC1    *)
(* holds a store whole, that what DC2 has lost DC1 is replacing, and that  *)
(* after the first beat of a crossing store only its second word is left.  *)

\* A store in DC1 is the youngest; a load holds nothing to write.
DC1Whole == dc1.cur = IF dc1.kind = "store" THEN Bytes(dc1) ELSE {}

\* A store in DC2 is current but for what the store in DC1 replaces.
DC2Replaced ==
  /\ dc2.cur \subseteq IF dc2.kind = "store" THEN Bytes(dc2) ELSE {}
  /\ dc2.kind = "store" =>
       /\ Bytes(dc2) \subseteq dc2.cur \cup dc1.cur
       /\ cross <=> LineCross(dc2)

\* In the second beat the first word of the store is in memory.
FirstBeatDone ==
  storeBeat => /\ dc2.kind = "store" /\ cross
               /\ old \subseteq dc1.cur \cup (dc2.cur \cap Second(dc2))

StoreInv == TypeOK /\ DC1Whole /\ DC2Replaced /\ FirstBeatDone /\ StoresLand

\* A store in DC2 that is not held writes all its bytes that are not yet in
\* memory: the second word of an access within a line goes with the first.
LEMMA StoreCompletes ==
  ASSUME StoreInv, dc2.kind = "store", ~StoreCrossHold
  PROVE  /\ Written \subseteq Bytes(dc2)
         /\ old \subseteq dc1.cur \cup Written
<1>1. dc2 \in Op /\ dc2.word \in Word
  BY DEF StoreInv, TypeOK, Op
<1>2. CASE cross
  <2>1. storeBeat /\ Written = Second(dc2)
    BY <1>2 DEF StoreCrossHold, Written
  <2> QED BY <2>1 DEF StoreInv, FirstBeatDone, Bytes
<1>3. CASE ~cross
  <2>1. Written = Bytes(dc2)
    <3>1. CASE dc2.hi = {}
      <4>1. Second(dc2) = {}
        BY <3>1 DEF Second
      <4> QED BY <1>3, <4>1 DEF Written, Bytes
    <3>2. CASE dc2.hi # {}
      <4>1. dc2.word % LineWords # LineWords - 1
        BY <1>3, <3>2 DEF StoreInv, DC2Replaced, LineCross, Unaligned
      <4>2. SameLine(dc2.word, After(dc2.word))
        BY <1>1, <4>1, AfterInLine
      <4> QED BY <1>3, <4>2 DEF Written, Bytes
    <3> QED BY <3>1, <3>2
  <2> QED BY <2>1 DEF StoreInv, DC2Replaced, StoresLand
<1> QED BY <1>2, <1>3

\* The invariant holds when DC1 takes a request.
LEMMA StoreAccept ==
  ASSUME StoreInv, TypeOK', NEW op \in Requests \cup {Empty}, Accept(op)
  PROVE  StoreInv'
<1>1. dc1' = op /\ op.cur = IF op.kind = "store" THEN Bytes(op) ELSE {}
  BY RequestTypes DEF Accept
<1>2. ~StoreCrossHold /\ ~DramWait /\ ~EngineStall
  BY DEF Accept, EngineStall
<1>3. dc2' = Aged(dc1, op.cur) /\ cross' = LineCross(dc1)
  <2>1. dc2' = Aged(dc1, op.cur)
    BY <1>2 DEF Accept, Clock, Dc2
  <2>2. cross' = LineCross(dc1)
    BY <1>2 DEF Accept, Clock, Dc2, LineCross, Unaligned
  <2> QED BY <2>1, <2>2
<1>4. /\ dc2'.kind = dc1.kind /\ dc2'.word = dc1.word
      /\ dc2'.lo = dc1.lo /\ dc2'.hi = dc1.hi /\ dc2'.cur = dc1.cur \ op.cur
  BY <1>3, AgedTypes DEF StoreInv, TypeOK
<1>5. Bytes(dc2)' = Bytes(dc1) /\ LineCross(dc2)' = LineCross(dc1)
  BY <1>4 DEF Bytes, First, Second, LineCross, Unaligned
<1>6. DC1Whole'
  <2>1. Bytes(dc1)' = Bytes(op)
    BY <1>1 DEF Bytes, First, Second
  <2> QED BY <1>1, <2>1 DEF DC1Whole
<1>7. DC2Replaced'
  BY <1>1, <1>3, <1>4, <1>5 DEF DC2Replaced, DC1Whole, StoreInv
<1>8. FirstBeatDone'
  <2>1. storeBeat' = FALSE
    BY <1>2 DEF Accept, Clock, Beats, StoreBeat, StoreCrossHold
  <2> QED BY <2>1 DEF FirstBeatDone
<1>9. StoresLand'
  <2>1. old' = (old \ (Written \cap dc2.cur)) \cup (Written \ dc2.cur) \cup op.cur
    BY DEF Accept, Clock, Memory
  <2>2. CASE dc2.kind = "store"
    <3>1. Written \subseteq dc2.cur \cup dc1.cur
      BY <1>2, <2>2, StoreCompletes DEF StoreInv, DC2Replaced
    <3>2. old \subseteq dc1.cur \cup Written
      BY <1>2, <2>2, StoreCompletes
    <3> QED BY <1>1, <1>4, <2>1, <3>1, <3>2 DEF StoresLand
  <2>3. CASE dc2.kind # "store"
    <3>1. Written = {} /\ old \subseteq dc1.cur
      BY <2>3 DEF Written, StoreInv, StoresLand, DC2Replaced
    <3> QED BY <1>1, <1>4, <2>1, <3>1 DEF StoresLand
  <2> QED BY <2>2, <2>3
<1> QED BY <1>6, <1>7, <1>8, <1>9 DEF StoreInv

\* The invariant holds when DC1 is held, by a load behind a store, by either
\* beat of a crossing access or by DRAM.
LEMMA StoreHold ==
  ASSUME StoreInv, TypeOK', Hold
  PROVE  StoreInv'
<1>1. dc1' = dc1 /\ EngineStall /\ Clock({})
  BY DEF Hold
<1>2. old' = (old \ (Written \cap dc2.cur)) \cup (Written \ dc2.cur)
  BY <1>1 DEF Clock, Memory
<1>3. DC1Whole'
  BY <1>1 DEF StoreInv, DC1Whole, Bytes, First, Second
<1>4. CASE StoreCrossHold
  <2>1. dc2' = Aged(dc2, {}) /\ cross' = cross /\ storeBeat' = TRUE
    BY <1>1, <1>4 DEF Clock, Dc2, Beats, StoreBeat, StoreCrossHold
  <2>2. /\ dc2'.kind = "store" /\ dc2'.word = dc2.word
        /\ dc2'.lo = dc2.lo /\ dc2'.hi = dc2.hi /\ dc2'.cur = dc2.cur
    <3>1. dc2 \in Op /\ dc2.cur \ {} = dc2.cur /\ dc2.kind = "store"
      BY <1>4 DEF StoreInv, TypeOK, StoreCrossHold
    <3> QED BY <2>1, <3>1, AgedTypes
  <2>3. /\ Bytes(dc2)' = Bytes(dc2) /\ LineCross(dc2)' = LineCross(dc2)
        /\ Second(dc2)' = Second(dc2)
    BY <2>2 DEF Bytes, First, Second, LineCross, Unaligned
  <2>4. DC2Replaced'
    BY <1>1, <1>4, <2>1, <2>2, <2>3 DEF StoreInv, DC2Replaced, StoreCrossHold
  <2>5. /\ Written = First(dc2)
        /\ Bytes(dc2) = First(dc2) \cup Second(dc2)
    BY <1>4 DEF StoreCrossHold, Written, Bytes
  <2>6. /\ dc2.cur \subseteq Bytes(dc2)
        /\ Bytes(dc2) \subseteq dc2.cur \cup dc1.cur
        /\ old \subseteq dc1.cur \cup dc2.cur
    BY <1>4 DEF StoreInv, DC2Replaced, StoresLand, StoreCrossHold
  <2>7. old' \subseteq dc1.cur \cup (dc2.cur \cap Second(dc2))
    BY <1>2, <2>5, <2>6
  <2>8. FirstBeatDone'
    BY <1>1, <1>4, <2>1, <2>2, <2>3, <2>7 DEF FirstBeatDone, StoreCrossHold
  <2>9. StoresLand'
    BY <1>1, <2>2, <2>7 DEF StoresLand
  <2> QED BY <1>3, <2>4, <2>8, <2>9 DEF StoreInv
<1>5. CASE ~StoreCrossHold /\ dc2.kind = "store"
  <2>1. ~DramWait /\ dc2' = Empty
    BY <1>1, <1>5 DEF Clock, Dc2, DramWait
  <2>2. storeBeat' = FALSE
    BY <1>1, <1>5 DEF Clock, Beats, StoreBeat, StoreCrossHold
  <2>3. old' \subseteq dc1.cur
    <3>1. Written \subseteq dc2.cur \cup dc1.cur
      BY <1>5, StoreCompletes DEF StoreInv, DC2Replaced
    <3>2. old \subseteq dc1.cur \cup Written
      BY <1>5, StoreCompletes
    <3> QED BY <1>2, <3>1, <3>2
  <2>4. DC2Replaced' /\ FirstBeatDone' /\ StoresLand'
    BY <1>1, <2>1, <2>2, <2>3 DEF DC2Replaced, FirstBeatDone, StoresLand, Empty
  <2> QED BY <1>3, <2>4 DEF StoreInv
<1>6. CASE dc2.kind # "store"
  <2>1. dc2.cur = {} /\ old \subseteq dc1.cur /\ Written = {}
    BY <1>6 DEF StoreInv, DC2Replaced, StoresLand, Written
  <2>2. old' \subseteq dc1.cur /\ storeBeat' = FALSE
    BY <1>1, <1>2, <1>6, <2>1 DEF Clock, Beats, StoreBeat
  <2>3. dc2'.kind # "store" /\ dc2'.cur = {}
    <3>1. Aged(dc2, {}).kind # "store" /\ Aged(dc2, {}).cur = {}
      BY <1>6, <2>1, AgedTypes DEF StoreInv, TypeOK
    <3>2. dc2' \in {Aged(dc2, {}), Empty}
      BY <1>1 DEF Clock, Dc2
    <3> QED BY <3>1, <3>2 DEF Empty
  <2>4. DC2Replaced' /\ FirstBeatDone' /\ StoresLand'
    BY <1>1, <2>2, <2>3 DEF DC2Replaced, FirstBeatDone, StoresLand
  <2> QED BY <1>3, <2>4 DEF StoreInv
<1> QED BY <1>4, <1>5, <1>6

\* The invariant holds of the engine, whatever the other clients write.
LEMMA StoreInvariant == Spec => []StoreInv
<1>1. Init => DC1Whole /\ DC2Replaced /\ FirstBeatDone /\ StoresLand
  BY DEF Init, DC1Whole, DC2Replaced, FirstBeatDone, StoresLand, Empty
<1>2. StoreInv /\ TypeOK' /\ [Next]_vars => StoreInv'
  <2> SUFFICES ASSUME StoreInv, TypeOK', [Next]_vars PROVE StoreInv'
    OBVIOUS
  <2>1. ASSUME NEW op \in Requests \cup {Empty}, Accept(op) PROVE StoreInv'
    BY <2>1, StoreAccept
  <2>2. CASE Hold
    BY <2>2, StoreHold
  <2>3. ASSUME NEW w \in Word, OtherWrite(w) PROVE StoreInv'
    <3>1. dc1 = Empty /\ dc2 = Empty /\ dc1' = Empty /\ dc2' = Empty
          /\ storeBeat' = storeBeat /\ old' \subseteq old
      BY <2>3 DEF OtherWrite
    <3>2. old = {} /\ ~storeBeat
      BY <3>1 DEF StoreInv, StoresLand, FirstBeatDone, Empty
    <3> QED BY <3>1, <3>2
        DEF StoreInv, DC1Whole, DC2Replaced, FirstBeatDone, StoresLand, Empty
  <2>4. CASE UNCHANGED vars
    BY <2>4 DEF vars, StoreInv, DC1Whole, DC2Replaced, FirstBeatDone,
                StoresLand, Bytes, First, Second, LineCross, Unaligned
  <2> QED BY <2>1, <2>2, <2>3, <2>4 DEF Next
<1>3. Spec => []TypeOK
  BY LsuTypes
<1>4. Init /\ TypeOK => StoreInv
  BY <1>1 DEF StoreInv
<1> QED BY <1>2, <1>3, <1>4, PTL DEF Spec

\* No store is lost or overwritten by an older one, over one beat or two.
THEOREM StoresReachMemory == Spec => []StoresLand
<1>1. StoreInv => StoresLand
  BY DEF StoreInv
<1> QED BY <1>1, StoreInvariant, PTL

-----------------------------------------------------------------------------
(* The store CAM.                                                          *)

\* Slot 0 holds bytes of the word it is tagged with.
CamTagged == cam.strb \subseteq {cam.tag} \X Lane

CamInv == StoreInv /\ CamTagged /\ CamAgrees

\* A clock edge keeps the slot current: of the store that leaves DC2 it takes
\* over the second word, and it holds no byte of any other store.
LEMMA CamClock ==
  ASSUME CamInv, NEW new \in SUBSET Byte, Cam(new), new \subseteq dc1'.cur,
         dc1.cur \subseteq dc1'.cur \cup dc2'.cur
  PROVE  (CamTagged /\ CamAgrees)'
<1>1. /\ cam \in [valid : BOOLEAN, tag : Word, strb : SUBSET Byte, cur : SUBSET Byte]
      /\ dc2 \in Op
  BY DEF CamInv, StoreInv, TypeOK
<1>2. CASE dc2.kind = "store" /\ cam'.strb = {}
  BY <1>2 DEF CamTagged, CamAgrees
<1>3. CASE dc2.kind = "store" /\ cam'.strb # {}
  <2>1. CASE dc2.hi # {}
    <3>1. cam' = [valid |-> TRUE, tag |-> After(dc2.word), strb |-> Second(dc2),
                  cur |-> (dc2.cur \cap Second(dc2)) \ new]
      BY <1>1, <1>3, <2>1 DEF Cam, Unaligned
    <3>2. Second(dc2) \subseteq dc2.cur \cup dc1.cur
      BY <1>3 DEF CamInv, StoreInv, DC2Replaced, Bytes
    <3>3. Second(dc2) \subseteq {After(dc2.word)} \X Lane
      BY <1>1, OpBytes
    <3> QED BY <3>1, <3>2, <3>3 DEF CamTagged, CamAgrees
  <2>2. CASE dc2.hi = {}
    <3>1. /\ cam.tag # dc2.word
          /\ cam'.valid = cam.valid /\ cam'.tag = cam.tag
          /\ cam'.strb = cam.strb /\ cam'.cur = cam.cur \ new
      BY <1>1, <1>3, <2>2 DEF Cam, Unaligned
    <3>2. dc2.cur \subseteq {dc2.word} \X Lane
      BY <1>1, <1>3, <2>2, OpBytes DEF CamInv, StoreInv, DC2Replaced, Bytes, Second
    <3>3. cam.strb \cap dc2.cur = {}
      BY <3>1, <3>2 DEF CamInv, CamTagged
    <3> QED BY <3>1, <3>3 DEF CamInv, CamTagged, CamAgrees
  <2> QED BY <2>1, <2>2
<1>4. CASE dc2.kind # "store"
  <2>1. dc2.cur = {}
    BY <1>4 DEF CamInv, StoreInv, DC2Replaced
  <2>2. /\ cam'.valid = cam.valid /\ cam'.tag = cam.tag
        /\ cam'.strb = cam.strb /\ cam'.cur = cam.cur \ new
    BY <1>1, <1>4 DEF Cam
  <2> QED BY <2>1, <2>2 DEF CamInv, CamTagged, CamAgrees
<1> QED BY <1>2, <1>3, <1>4

\* Without other clients of the memory the invariant of the CAM holds.
LEMMA CamInvariant ==
  ASSUME ~OtherClients
  PROVE  Spec => []CamInv
<1>1. Init => CamTagged /\ CamAgrees
  BY DEF Init, CamTagged, CamAgrees
<1>2. StoreInv /\ StoreInv' /\ CamTagged /\ CamAgrees /\ [Next]_vars
        => (CamTagged /\ CamAgrees)'
  <2> SUFFICES ASSUME CamInv, StoreInv', [Next]_vars
               PROVE  (CamTagged /\ CamAgrees)'
    BY DEF CamInv
  <2>1. ASSUME NEW op \in Requests \cup {Empty}, Accept(op)
        PROVE  (CamTagged /\ CamAgrees)'
    <3>1. dc1' = op /\ op.cur \in SUBSET Byte /\ Cam(op.cur)
      BY <2>1, RequestTypes DEF Accept, Clock, Op
    <3>2. dc2' = Aged(dc1, op.cur)
      BY <2>1 DEF Accept, EngineStall, Clock, Dc2
    <3>3. dc2'.cur = dc1.cur \ op.cur
      BY <3>2, AgedTypes DEF CamInv, StoreInv, TypeOK
    <3> QED BY <3>1, <3>3, CamClock
  <2>2. CASE Hold
    BY <2>2, CamClock DEF Hold, Clock
  <2>3. CASE UNCHANGED vars
    BY <2>3 DEF vars, CamInv, CamTagged, CamAgrees
  <2> QED BY <2>1, <2>2, <2>3 DEF Next, OtherWrite
<1>3. Spec => []StoreInv
  BY StoreInvariant
<1>4. CamInv <=> StoreInv /\ CamTagged /\ CamAgrees
  BY DEF CamInv
<1> QED BY <1>1, <1>2, <1>3, <1>4, PTL DEF Spec

\* Without other clients of the memory, what slot 0 of the CAM would forward
\* is the youngest store, but for bytes that a store in DC1 or DC2 replaces.
THEOREM CamForwardsYoungest ==
  ASSUME ~OtherClients
  PROVE  Spec => []CamAgrees
<1>1. CamInv => CamAgrees
  BY DEF CamInv
<1> QED BY <1>1, CamInvariant, PTL

-----------------------------------------------------------------------------
(* Loads.  With the core's order of accesses a load in DC1 meets a memory  *)
(* with every store in it, so that only the CAM can mislead it.            *)

\* Loads and stores are never in DC1 and DC2 together.
Apart == {dc1.kind, dc2.kind} # {"load", "store"}

\* What slot 0 would forward is the youngest write.
CamGood == cam.valid => cam.strb \subseteq cam.cur

\* Slot 0 never keeps the first word of a line: a crossing store that puts it
\* there in its first beat clears the slot in its second.
CamLine ==
  /\ cam.valid => cam.tag % LineWords # 0 \/ storeBeat
  /\ storeBeat => 0 \in dc2.lo \/ cam.tag \in {dc2.word, After(dc2.word)}

\* After the first beat of a crossing load its first word has been answered.
FirstBeatRead ==
  loadBeat => /\ dc1.kind = "load" /\ LineCross(dc1)
              /\ First(dc1) \subseteq Merged(Fwd0, port[0].cur)

\* A load waits for DRAM only when it has read nothing: all it needs has been
\* forwarded, and it does not cross a line.
Has(f, bytes) == bytes = {} \/ (f.hit /\ bytes \subseteq f.strb /\ f.strb \subseteq f.cur)
WaitsForwarded ==
  DramWait => ~cross /\ Has(fwd[1], First(dc2)) /\ Has(fwd[2], Second(dc2))

LoadGood ==
  /\ FirstBeatRead /\ WaitsForwarded
  /\ dc2.kind = "load" => LoadIsCurrent
  /\ LoadsCurrent

LoadStage == StoreInv /\ Apart /\ CamLine

\* Merging keeps bytes that are forwarded current, or read.
LEMMA MergedKeeps ==
  ASSUME NEW f, NEW bytes, NEW mem, f.hit => f.strb \subseteq f.cur,
         (f.hit /\ bytes \subseteq f.strb) \/ bytes \subseteq mem
  PROVE  bytes \subseteq Merged(f, mem)
BY DEF Merged

LEMMA HasKeeps ==
  ASSUME NEW f, NEW bytes, NEW mem, Has(f, bytes)
  PROVE  bytes \subseteq Merged(f, mem)
BY DEF Has, Merged

\* What a load in DC1 sees.
LEMMA LoadSees ==
  ASSUME StoreInv, CamGood, Apart, dc1.kind = "load"
  PROVE  /\ dc2.kind # "store" /\ dc1.cur = {} /\ dc2.cur = {} /\ old = {}
         /\ Fwd0.hit => Fwd0.strb \subseteq Fwd0.cur
         /\ Fwd1.hit => Fwd1.strb \subseteq Fwd1.cur
<1>1. dc2.kind # "store"
  BY DEF Apart
<1>2. dc1.cur = {} /\ dc2.cur = {}
  BY <1>1 DEF StoreInv, DC1Whole, DC2Replaced
<1>3. old = {}
  BY <1>2 DEF StoreInv, StoresLand
<1>4. \A w : Forwarded(w).hit => Forwarded(w).strb \subseteq Forwarded(w).cur
  BY <1>1 DEF Forwarded, NoFwd, CamGood
<1>5. ~NoFwd.hit
  BY DEF NoFwd
<1> QED BY <1>1, <1>2, <1>3, <1>4, <1>5 DEF Fwd0, Fwd1

\* The second word of a load that crosses a line is not forwarded.
LEMMA CrossingReads ==
  ASSUME LoadStage, dc1.kind = "load", LineCross(dc1), loadBeat
  PROVE  Read1
<1>1. dc2.kind # "store" /\ Unaligned(dc1)
  BY DEF LoadStage, Apart, LineCross
<1>2. ~storeBeat
  BY <1>1 DEF LoadStage, StoreInv, FirstBeatDone
<1>3. After(dc1.word) % LineWords = 0
  BY AfterLine DEF LoadStage, StoreInv, TypeOK, Op, LineCross
<1>4. ~Fwd1.hit
  BY <1>1, <1>2, <1>3 DEF Fwd1, Forwarded, NoFwd, LoadStage, CamLine
<1> QED BY <1>1, <1>4 DEF Read1, Skip1

\* The first word of a load is answered, or forwarded, in its first beat.
LEMMA FirstAnswered ==
  ASSUME StoreInv, CamGood, Apart, dc1.kind = "load", Ports, LineCross(dc1) => ~loadBeat
  PROVE  /\ First(dc1) \subseteq Merged(Fwd0, port[0]'.cur)
         /\ port[0]'.valid \/ Has(Fwd0, First(dc1))
<1>1. CASE Skip0
  BY <1>1, LoadSees, MergedKeeps DEF Skip0, Has
<1>2. CASE ~Skip0
  <2>1. Read0
    BY <1>2, LoadSees DEF Read0
  <2>2. port'[0].valid /\ port'[0].cur = ({dc1.word} \X Lane) \ old
    BY <2>1 DEF Ports, Answer
  <2>3. First(dc1) \subseteq port'[0].cur
    BY <2>2, LoadSees, OpBytes DEF StoreInv, TypeOK
  <2> QED BY <2>2, <2>3, LoadSees, MergedKeeps
<1> QED BY <1>1, <1>2

\* The second word of a load is answered, or forwarded, in its last beat.
LEMMA SecondAnswered ==
  ASSUME StoreInv, CamGood, Apart, dc1.kind = "load", Ports, LineCross(dc1) => loadBeat
  PROVE  /\ Second(dc1) \subseteq Merged(Fwd1, port[1]'.cur)
         /\ (Unaligned(dc1) /\ port[1]'.valid) \/ Has(Fwd1, Second(dc1))
<1>1. CASE Skip1
  BY <1>1, LoadSees, MergedKeeps DEF Skip1, Has
<1>2. CASE ~Skip1 /\ ~Unaligned(dc1)
  <2>1. Second(dc1) = {}
    BY <1>2 DEF Second, Unaligned
  <2> QED BY <2>1 DEF Has
<1>3. CASE ~Skip1 /\ Unaligned(dc1)
  <2>1. Read1
    BY <1>3, LoadSees DEF Read1
  <2>2. Read0 => SameLine(dc1.word, After(dc1.word))
    <3>1. LineCross(dc1) => ~Read0
      BY DEF Read0
    <3>2. ~LineCross(dc1) => SameLine(dc1.word, After(dc1.word))
      BY <1>3, AfterInLine DEF LineCross, StoreInv, TypeOK, Op
    <3> QED BY <3>1, <3>2
  <2>3. port'[1].valid /\ port'[1].cur = ({After(dc1.word)} \X Lane) \ old
    BY <2>1, <2>2 DEF Ports, Answer
  <2>4. Second(dc1) \subseteq port'[1].cur
    BY <2>3, LoadSees, OpBytes DEF StoreInv, TypeOK
  <2> QED BY <1>3, <2>3, <2>4, LoadSees, MergedKeeps
<1> QED BY <1>1, <1>2, <1>3

\* A load leaves DC1 with all it needs to finish in the next cycle, or with
\* everything forwarded.
LEMMA LoadLeavesCurrent ==
  ASSUME LoadStage, CamGood, LoadGood, NEW op \in Requests \cup {Empty}, Accept(op),
         dc1.kind = "load"
  PROVE  LoadIsCurrent' /\ WaitsForwarded'
<1>1. /\ ~EngineStall /\ Ports /\ Apart /\ StoreInv
      /\ ~StoreCrossHold /\ ~DramWait
  BY DEF Accept, Clock, LoadStage, EngineStall
<1>2. /\ dc2' = Aged(dc1, op.cur) /\ fwd' = <<Fwd0, Fwd1>>
  BY <1>1 DEF Accept, Clock, Dc2
<1>3. /\ dc2'.word = dc1.word /\ dc2'.lo = dc1.lo /\ dc2'.hi = dc1.hi
  BY <1>1, <1>2, AgedTypes DEF StoreInv, TypeOK
<1>4. First(dc2)' = First(dc1) /\ Second(dc2)' = Second(dc1)
        /\ Unaligned(dc2)' = Unaligned(dc1)
  BY <1>3 DEF First, Second, Unaligned
<1>5. cross' <=> LineCross(dc1)
  BY <1>1 DEF Accept, Clock, Dc2, LineCross, Unaligned
<1>6. LineCross(dc1) => loadBeat
  BY <1>1 DEF EngineStall, LoadCrossHold
<1>7. /\ Second(dc1) \subseteq Merged(Fwd1, port[1]'.cur)
      /\ (Unaligned(dc1) /\ port[1]'.valid) \/ Has(Fwd1, Second(dc1))
  BY <1>1, <1>6, SecondAnswered
<1>8. First(dc1) \subseteq Merged(Fwd0, IF cross' THEN line0' ELSE port[0]'.cur)
  <2>1. CASE LineCross(dc1)
    <3>1. line0' = port[0].cur
      BY <1>6, <2>1 DEF Accept, Clock, Beats
    <3> QED BY <1>5, <1>6, <2>1, <3>1 DEF LoadGood, FirstBeatRead
  <2>2. CASE ~LineCross(dc1)
    BY <1>1, <1>5, <2>2, FirstAnswered
  <2> QED BY <2>1, <2>2
<1>9. fwd'[1] = Fwd0 /\ fwd'[2] = Fwd1
  BY <1>2
<1>10. LoadIsCurrent'
  BY <1>4, <1>7, <1>8, <1>9 DEF LoadIsCurrent, Merged
<1>11. WaitsForwarded'
  <2>1. CASE LineCross(dc1)
    <3>1. port'[1].valid
      BY <1>1, <1>6, <2>1, CrossingReads DEF Ports, Answer
    <3> QED BY <1>4, <2>1, <3>1 DEF WaitsForwarded, DramWait, LineCross
  <2>2. CASE ~LineCross(dc1)
    <3>1. port[0]'.valid \/ Has(Fwd0, First(dc1))
      BY <1>1, <2>2, FirstAnswered
    <3> QED BY <1>4, <1>5, <1>7, <1>9, <2>2, <3>1 DEF WaitsForwarded, DramWait, Has
  <2> QED BY <2>1, <2>2
<1> QED BY <1>10, <1>11

\* A load that DC2 holds has all it needs, so what it writes back is current.
LEMMA LoadFinishes == LoadGood /\ Dc3 => LoadsCurrent'
BY DEF LoadGood, Dc3, LoadsCurrent

\* Loads stay good when DC1 takes a request.
LEMMA LoadAccept ==
  ASSUME LoadStage, LoadGood, dc1.kind = "load" => CamGood,
         NEW op \in Requests \cup {Empty}, Accept(op)
  PROVE  LoadGood'
<1>1. ~EngineStall /\ StoreInv
  BY DEF Accept, LoadStage
<1>2. dc2' = Aged(dc1, op.cur) /\ dc2'.kind = dc1.kind
  <2>1. dc2' = Aged(dc1, op.cur)
    BY <1>1 DEF Accept, Clock, Dc2, EngineStall
  <2> QED BY <1>1, <2>1, AgedTypes DEF StoreInv, TypeOK
<1>3. loadBeat' = FALSE
  BY <1>1 DEF Accept, Clock, Beats, EngineStall, LoadCrossHold
<1>4. dc2'.kind = "load" => LoadIsCurrent' /\ WaitsForwarded'
  BY <1>2, LoadLeavesCurrent
<1>5. LoadsCurrent'
  BY LoadFinishes DEF Accept, Clock
<1> QED BY <1>3, <1>4, <1>5 DEF LoadGood, FirstBeatRead, WaitsForwarded, DramWait

\* Loads stay good when DC1 is held: by a store in DC2, by the first beat of a
\* crossing load, or by a load that waits for DRAM.
LEMMA LoadHold ==
  ASSUME LoadStage, LoadGood, dc1.kind = "load" => CamGood, Hold
  PROVE  LoadGood'
<1>1. dc1' = dc1 /\ EngineStall /\ Clock({}) /\ StoreInv /\ Apart
  BY DEF Hold, LoadStage
<1>2. FirstBeatRead'
  <2> SUFFICES ASSUME loadBeat' PROVE FirstBeatRead'
    BY DEF FirstBeatRead
  <2>1. dc1.kind = "load" /\ LineCross(dc1) /\ ~loadBeat
    BY <1>1 DEF Clock, Beats
  <2>2. First(dc1) \subseteq Merged(Fwd0, port[0]'.cur)
    BY <1>1, <2>1, FirstAnswered DEF Clock
  <2>3. dc2.kind # "store"
    BY <1>1, <2>1, LoadSees
  <2>4. dc2'.kind # "store"
    <3>1. Aged(dc2, {}).kind # "store"
      BY <1>1, <2>3, AgedTypes DEF StoreInv, TypeOK
    <3> QED BY <1>1, <3>1 DEF Clock, Dc2, Empty
  <2>5. cam' = cam
    <3>1. cam \in [valid : BOOLEAN, tag : Word, strb : SUBSET Byte, cur : SUBSET Byte]
      BY <1>1 DEF StoreInv, TypeOK
    <3>2. cam' = [cam EXCEPT !.cur = @ \ {}]
      BY <1>1, <2>3 DEF Clock, Cam
    <3> QED BY <3>1, <3>2
  <2>6. Fwd0' = Fwd0
    BY <1>1, <2>3, <2>4, <2>5 DEF Fwd0, Forwarded
  <2>7. First(dc1)' = First(dc1) /\ LineCross(dc1)' = LineCross(dc1)
    BY <1>1 DEF First, LineCross, Unaligned
  <2>8. Merged(Fwd0, port[0].cur)' = Merged(Fwd0, port[0]'.cur)
    BY <2>6 DEF Merged
  <2> QED BY <1>1, <2>1, <2>2, <2>7, <2>8 DEF FirstBeatRead
<1>3. CASE DramWait
  <2>1. ~StoreCrossHold /\ dc2' = Aged(dc2, {}) /\ fwd' = fwd /\ cross' = FALSE
    BY <1>1, <1>3 DEF Clock, Dc2, DramWait, StoreCrossHold, LineCross, Unaligned
  <2>2. First(dc2)' = First(dc2) /\ Second(dc2)' = Second(dc2)
    BY <1>1, <2>1, AgedTypes DEF StoreInv, TypeOK, First, Second
  <2>3. Has(fwd[1], First(dc2)) /\ Has(fwd[2], Second(dc2))
    BY <1>3 DEF LoadGood, WaitsForwarded
  <2>4. Has(fwd[1], First(dc2))' /\ Has(fwd[2], Second(dc2))'
    BY <2>1, <2>2, <2>3 DEF Has
  <2>5. WaitsForwarded'
    BY <2>1, <2>4 DEF WaitsForwarded
  <2>6. LoadIsCurrent'
    BY <2>1, <2>2, <2>3, HasKeeps DEF LoadIsCurrent, Merged
  <2>7. LoadsCurrent'
    BY <1>1, LoadFinishes DEF Clock
  <2> QED BY <1>2, <2>5, <2>6, <2>7 DEF LoadGood
<1>4. CASE ~DramWait
  <2>1. dc2'.kind # "load"
    <3>1. StoreCrossHold => Aged(dc2, {}).kind = "store"
      BY <1>1, AgedTypes DEF StoreInv, TypeOK, StoreCrossHold
    <3> QED BY <1>1, <1>4, <3>1 DEF Clock, Dc2, Empty
  <2>2. LoadsCurrent'
    BY <1>1, LoadFinishes DEF Clock
  <2> QED BY <1>2, <2>1, <2>2 DEF LoadGood, WaitsForwarded, DramWait
<1> QED BY <1>3, <1>4

\* A clock edge keeps the slot off the first word of a line.
LEMMA CamLineClock ==
  ASSUME StoreInv, CamLine, NEW new, Clock(new)
  PROVE  CamLine'
<1> DEFINE clears ==
      dc2.kind = "store" /\ (0 \in dc2.lo \/ cam.tag \in
        {dc2.word} \cup (IF Unaligned(dc2) THEN {After(dc2.word)} ELSE {}))
<1>1. /\ cam \in [valid : BOOLEAN, tag : Word, strb : SUBSET Byte, cur : SUBSET Byte]
      /\ dc2 \in Op /\ dc2.word \in Word
  BY DEF StoreInv, TypeOK, Op
<1>2. /\ clears => ~cam'.valid /\ cam'.tag = cam.tag
      /\ ~clears /\ dc2.kind = "store" /\ Unaligned(dc2) => cam'.tag = After(dc2.word)
      /\ ~clears /\ ~(dc2.kind = "store" /\ Unaligned(dc2)) =>
           cam'.valid = cam.valid /\ cam'.tag = cam.tag
  BY <1>1 DEF Clock, Cam
<1>3. storeBeat => dc2.kind = "store" /\ Unaligned(dc2) /\ clears
  BY DEF StoreInv, FirstBeatDone, DC2Replaced, LineCross, CamLine
<1>4. storeBeat' <=> dc2.kind = "store" /\ LineCross(dc2) /\ ~storeBeat
  BY DEF Clock, Beats, StoreBeat, StoreInv, DC2Replaced, TypeOK
<1>5. ASSUME storeBeat'
      PROVE  0 \in dc2'.lo \/ cam'.tag \in {dc2'.word, After(dc2'.word)}
  <2>1. dc2' = Aged(dc2, new)
    BY <1>4, <1>5 DEF Clock, Dc2, StoreCrossHold, StoreInv, DC2Replaced
  <2>2. dc2'.word = dc2.word /\ dc2'.lo = dc2.lo
    BY <1>1, <2>1, AgedTypes
  <2>3. Unaligned(dc2) /\ dc2.kind = "store"
    BY <1>4, <1>5 DEF LineCross
  <2> QED BY <1>2, <2>2, <2>3
<1>6. ASSUME cam'.valid, ~storeBeat' PROVE cam'.tag % LineWords # 0
  <2>1. ~clears /\ ~storeBeat
    BY <1>2, <1>3, <1>6
  <2>2. CASE dc2.kind = "store" /\ Unaligned(dc2)
    <3>1. cam'.tag = After(dc2.word) /\ ~LineCross(dc2)
      BY <1>2, <1>4, <1>6, <2>1, <2>2
    <3> QED BY <1>1, <2>2, <3>1, AfterLine DEF LineCross
  <2>3. CASE ~(dc2.kind = "store" /\ Unaligned(dc2))
    BY <1>2, <1>6, <2>1, <2>3 DEF CamLine
  <2> QED BY <2>2, <2>3
<1> QED BY <1>5, <1>6 DEF CamLine

\* The three parts of LoadStage hold in the core's order of accesses, whatever
\* the other clients write.
LEMMA LoadStageInvariant ==
  ASSUME Serial
  PROVE  Spec => []LoadStage
<1>1. Init => Apart /\ CamLine
  BY DEF Init, Apart, CamLine, Empty
<1>2. StoreInv /\ Apart /\ CamLine /\ [Next]_vars => (Apart /\ CamLine)'
  <2> SUFFICES ASSUME StoreInv, Apart, CamLine, [Next]_vars PROVE (Apart /\ CamLine)'
    OBVIOUS
  <2>0. dc1 \in Op /\ dc2 \in Op
    BY DEF StoreInv, TypeOK
  <2>1. ASSUME NEW op \in Requests \cup {Empty}, Accept(op) PROVE (Apart /\ CamLine)'
    <3>1. dc2' = Aged(dc1, op.cur)
      BY <2>1 DEF Accept, EngineStall, Clock, Dc2
    <3>2. Apart'
      BY <2>0, <2>1, <3>1, AgedTypes DEF Accept, Apart
    <3> QED BY <2>1, <3>2, CamLineClock DEF Accept
  <2>2. CASE Hold
    <3>1. dc2' \in {Aged(dc2, {}), Empty}
      BY <2>2 DEF Hold, Clock, Dc2
    <3>2. Apart'
      BY <2>0, <2>2, <3>1, AgedTypes DEF Hold, Apart, Empty
    <3> QED BY <2>2, <3>2, CamLineClock DEF Hold
  <2>3. ASSUME NEW w \in Word, OtherWrite(w) PROVE (Apart /\ CamLine)'
    <3>1. cam \in [valid : BOOLEAN, tag : Word, strb : SUBSET Byte, cur : SUBSET Byte]
      BY DEF StoreInv, TypeOK
    <3> QED BY <2>3, <3>1 DEF OtherWrite, Apart, CamLine
  <2>4. CASE UNCHANGED vars
    BY <2>4 DEF vars, Apart, CamLine
  <2> QED BY <2>1, <2>2, <2>3, <2>4 DEF Next
<1>3. LoadStage <=> StoreInv /\ Apart /\ CamLine
  BY DEF LoadStage
<1> QED BY <1>1, <1>2, <1>3, StoreInvariant, PTL DEF Spec

LEMMA LoadGoodInit == Init => LoadGood
BY DEF Init, LoadGood, FirstBeatRead, WaitsForwarded, DramWait, LoadsCurrent, Empty

LEMMA LoadGoodStutter ==
  ASSUME UNCHANGED vars
  PROVE  LoadGood' <=> LoadGood
BY DEF vars, LoadGood, FirstBeatRead, WaitsForwarded, Has, DramWait, LoadIsCurrent,
       LoadsCurrent, First, Second, LineCross, Unaligned, Merged, Fwd0, Forwarded

\* In the core's order of accesses, and with nobody else writing the DCCM, a
\* load returns, for every byte it reads, the youngest store before it, over
\* one beat or two and however long DRAM makes it wait.
THEOREM LoadsReturnYoungest ==
  ASSUME Serial, ~OtherClients
  PROVE  Spec => []LoadsCurrent
<1>1. CamInv /\ LoadStage /\ LoadGood /\ [Next]_vars => LoadGood'
  <2> SUFFICES ASSUME CamInv, LoadStage, LoadGood, [Next]_vars PROVE LoadGood'
    OBVIOUS
  <2>0. dc1.kind = "load" => CamGood
    BY DEF CamInv, StoreInv, DC1Whole, DC2Replaced, CamAgrees, CamGood, LoadStage, Apart
  <2>1. ASSUME NEW op \in Requests \cup {Empty}, Accept(op) PROVE LoadGood'
    BY <2>0, <2>1, LoadAccept
  <2>2. CASE Hold
    BY <2>0, <2>2, LoadHold
  <2>3. CASE UNCHANGED vars
    BY <2>3, LoadGoodStutter
  <2> QED BY <2>1, <2>2, <2>3 DEF Next, OtherWrite
<1>2. LoadGood => LoadsCurrent
  BY DEF LoadGood
<1>3. Spec => []CamInv
  BY CamInvariant
<1>4. Spec => []LoadStage
  BY LoadStageInvariant
<1> QED BY <1>1, <1>2, <1>3, <1>4, LoadGoodInit, PTL DEF Spec

\* While no store is in DC2 the slot loses current bytes and gains none.
LEMMA CamGoodBefore ==
  ASSUME TypeOK, dc2.kind # "store", NEW new, Cam(new), CamGood'
  PROVE  CamGood
<1>1. cam \in [valid : BOOLEAN, tag : Word, strb : SUBSET Byte, cur : SUBSET Byte]
  BY DEF TypeOK
<1>2. cam' = [cam EXCEPT !.cur = @ \ new]
  BY DEF Cam
<1>3. cam'.valid = cam.valid /\ cam'.strb = cam.strb /\ cam'.cur = cam.cur \ new
  BY <1>1, <1>2
<1> QED BY <1>3 DEF CamGood

\* Behind a store in DC2 no load finishes, and none is in DC1.
LEMMA StoreShields ==
  ASSUME LoadStage, dc2.kind = "store", NEW new, Clock(new)
  PROVE  LoadGood'
<1>1. dc1.kind # "load" /\ dc1 \in Op /\ dc2 \in Op
  BY DEF LoadStage, Apart, StoreInv, TypeOK
<1>2. loadBeat' = FALSE
  BY <1>1 DEF Clock, Beats
<1>3. dc3' = "none"
  BY DEF Clock, Dc3, DramWait
<1>4. dc2'.kind # "load"
  <2>1. Aged(dc1, new).kind # "load" /\ Aged(dc2, new).kind # "load"
    BY <1>1, AgedTypes
  <2> QED BY <2>1 DEF Clock, Dc2, Empty
<1> QED BY <1>2, <1>3, <1>4
    DEF LoadGood, FirstBeatRead, WaitsForwarded, DramWait, LoadsCurrent

\* With other clients writing the DCCM behind the engine's back, a load that
\* returns anything but the youngest write took it from a stale CAM: no load
\* takes the answer of another, a beat that was not sent, or memory before an
\* older store.
THEOREM StaleOnlyFromCam ==
  ASSUME Serial
  PROVE  Spec => []OnlyTheCam
<1> DEFINE Good == CamGood => LoadGood
<1>1. LoadStage /\ Good /\ [Next]_vars => Good'
  <2> SUFFICES ASSUME LoadStage, Good, [Next]_vars, CamGood' PROVE LoadGood'
    OBVIOUS
  <2>1. ASSUME NEW new, Clock(new), dc2.kind # "store" PROVE CamGood
    BY <2>1, CamGoodBefore DEF Clock, LoadStage, StoreInv
  <2>2. ASSUME NEW op \in Requests \cup {Empty}, Accept(op) PROVE LoadGood'
    <3>1. CASE dc2.kind = "store"
      BY <2>2, <3>1, StoreShields DEF Accept
    <3>2. CASE dc2.kind # "store"
      <4>1. CamGood
        BY <2>1, <2>2, <3>2 DEF Accept
      <4> QED BY <2>2, <4>1, LoadAccept
    <3> QED BY <3>1, <3>2
  <2>3. CASE Hold
    <3>1. CASE dc2.kind = "store"
      BY <2>3, <3>1, StoreShields DEF Hold
    <3>2. CASE dc2.kind # "store"
      <4>1. CamGood
        BY <2>1, <2>3, <3>2 DEF Hold
      <4> QED BY <2>3, <4>1, LoadHold
    <3> QED BY <3>1, <3>2
  <2>4. ASSUME NEW w \in Word, OtherWrite(w) PROVE LoadGood'
    <3>1. cam \in [valid : BOOLEAN, tag : Word, strb : SUBSET Byte, cur : SUBSET Byte]
      BY DEF LoadStage, StoreInv, TypeOK
    <3>2. cam'.valid = cam.valid /\ cam'.strb = cam.strb /\ cam'.cur \subseteq cam.cur
      BY <2>4, <3>1 DEF OtherWrite
    <3>3. LoadGood
      BY <3>2 DEF CamGood
    <3>4. ~loadBeat' /\ dc2'.kind # "load" /\ dc3' = "none"
      BY <2>4, <3>3 DEF OtherWrite, LoadGood, FirstBeatRead, Empty
    <3> QED BY <3>4 DEF LoadGood, FirstBeatRead, WaitsForwarded, DramWait, LoadsCurrent
  <2>5. CASE UNCHANGED vars
    <3>1. CamGood
      BY <2>5 DEF vars, CamGood
    <3> QED BY <2>5, <3>1, LoadGoodStutter
  <2> QED BY <2>2, <2>3, <2>4, <2>5 DEF Next
<1>2. Good => OnlyTheCam
  BY DEF LoadGood, OnlyTheCam, CamGood
<1>3. Init => Good
  BY LoadGoodInit
<1>4. Spec => []LoadStage
  BY LoadStageInvariant
<1> QED BY <1>1, <1>2, <1>3, <1>4, PTL DEF Spec
=============================================================================
