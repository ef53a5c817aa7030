----------------------------- MODULE GemmProofs -----------------------------
(***************************************************************************)
(* Theorems about GemmJob, for every size of the array and of its tiles,   *)
(* every latency of the multiplier, every program and every memory.        *)
(***************************************************************************)
EXTENDS GemmJob, Integers, TLAPS

-----------------------------------------------------------------------------
(* Types.  The conjuncts of TypeOK, one group for each unit, with the      *)
(* ranges of the DMA's and the sequencer's other fields.                   *)

Position == [m : Nat, n : Nat, k : Nat]
Size == [m : 0..PeDim, n : 0..PeDim, k : 0..KTile]

CoreTypes ==
  /\ dc1 \in Stores \cup {NoStore} /\ dc2 \in Stores \cup {NoStore}
  /\ csr \in [m : Dims \cup {0}, n : Dims \cup {0}, k : Dims \cup {0}]
  /\ doneQ \in BOOLEAN

TopTypes ==
  /\ st \in {"IDLE", "FILL", "ARM", "COMPUTE", "STORE", "NEXT", "DONE"}
  /\ pos \in Position /\ len \in Size
  /\ clear \in BOOLEAN /\ ping \in 0..1
  /\ cmd \subseteq {"start_ab", "start_c", "start_dp", "hw_done"}

Transfer == [st : {"IDLE", "AB", "C"}, a : 0..PeDim, b : 0..KTile,
             m : 0..PeDim, n : 0..PeDim, k : 0..KTile,
             dimN : Nat, dimK : Nat, aBase : Nat, bBase : Nat, cBase : Nat]

\* A DMA that writes has a row to write, but in a job without rows.
DmaTypes ==
  /\ dma \in Transfer
  /\ dma.st = "C" => dma.a < dma.m \/ dma.a = 0
  /\ dmaDone \in {"none", "ab", "c"}

Sequencer == [st : {"IDLE", "RUN", "DRAIN"}, k : Nat, len : Nat, clear : BOOLEAN]
DpTypes ==
  /\ dp \in Sequencer
  /\ dpDone \in BOOLEAN

Types == CoreTypes /\ TopTypes /\ DmaTypes /\ DpTypes

\* The types of the units are the types of the registers.
LEMMA TypesTypeOK == Types => TypeOK
BY DEF Types, CoreTypes, TopTypes, DmaTypes, Transfer, DpTypes,
       Sequencer, TypeOK, Position, Size

\* What is left of a dimension fits a tile.
LEMMA TileRemFits ==
  ASSUME NEW total \in Nat, NEW orig \in Nat, NEW maxv \in Nat
  PROVE  TileRem(total, orig, maxv) \in 0..maxv
BY DEF TileRem

\* The product of two sizes is a size.
LEMMA ProductNat == \A x, y \in Nat : x * y \in Nat
OBVIOUS

\* The sizes the registers hold are numbers.
LEMMA CsrNat ==
  ASSUME CoreTypes
  PROVE  csr.m \in Nat /\ csr.n \in Nat /\ csr.k \in Nat
<1>1. csr \in [m : Dims \cup {0}, n : Dims \cup {0}, k : Dims \cup {0}]
  BY DEF CoreTypes
<1>2. Dims \cup {0} \subseteq Nat
  BY GemmAssumption
<1> QED BY <1>1, <1>2

LEMMA TypeInit == Init => Types
<1> SUFFICES ASSUME Init PROVE Types
  OBVIOUS
<1>1. PeDim \in Nat /\ KTile \in Nat
  BY GemmAssumption
<1>2. Zero3 \in Position /\ Zero3 \in Size
  BY <1>1 DEF Zero3, Position, Size
<1>3. CoreTypes
  BY DEF Init, CoreTypes, Zero3
<1>4. TopTypes
  BY <1>2 DEF Init, TopTypes
<1>5. DmaTypes
  BY <1>1 DEF Init, DmaTypes, Transfer
<1>6. DpTypes
  BY DEF Init, DpTypes, Sequencer
<1> QED BY <1>3, <1>4, <1>5, <1>6 DEF Types

LEMMA CoreStep ==
  ASSUME CoreTypes, NEW op \in Stores \cup {NoStore}, Lsu(op), Csr
  PROVE  CoreTypes'
<1>1. dc1' \in Stores \cup {NoStore} /\ dc2' \in Stores \cup {NoStore}
  BY DEF Lsu, CoreTypes
<1>2. dc2.reg \in {"m", "n", "k"} => dc2.val \in Dims
  BY GemmAssumption DEF CoreTypes, Stores, NoStore
<1>3. DOMAIN csr = {"m", "n", "k"}
  BY DEF CoreTypes
<1>4. csr' \in [m : Dims \cup {0}, n : Dims \cup {0}, k : Dims \cup {0}]
  BY <1>2, <1>3 DEF Csr, CoreTypes
<1>5. doneQ' \in BOOLEAN
  BY DEF Csr
<1> QED BY <1>1, <1>4, <1>5 DEF CoreTypes

\* A state that keeps its tile keeps its type.
LEMMA KeepTypes ==
  ASSUME TopTypes,
         NEW state \in {"IDLE", "FILL", "ARM", "COMPUTE", "STORE", "NEXT", "DONE"},
         NEW pulses \in SUBSET {"start_ab", "start_c", "start_dp", "hw_done"},
         Keep(state, pulses)
  PROVE  TopTypes'
BY DEF Keep, TopTypes

LEMMA TopStep ==
  ASSUME CoreTypes, TopTypes, Top
  PROVE  TopTypes'
<1>1. csr.m \in Nat /\ csr.n \in Nat /\ csr.k \in Nat
  BY CsrNat
<1>2. PeDim \in Nat /\ KTile \in Nat
  BY GemmAssumption
<1>3. \A p \in Position : Tiled(p) \in Size
  BY <1>1, <1>2, TileRemFits DEF Tiled, Position, Size
<1>4. Zero3 \in Position /\ Zero3 \in Size
  BY <1>2 DEF Zero3, Position, Size
<1>5. CASE Reset
  BY <1>4, <1>5 DEF Reset, TopTypes
<1>6. CASE StartJob
  <2>1. Tiled(Zero3) \in Size
    BY <1>3, <1>4
  <2>2. Tile(Zero3, Tiled(Zero3), TRUE, 0) \/ Keep("DONE", {"hw_done"})
    BY <1>6 DEF StartJob
  <2>3. CASE Tile(Zero3, Tiled(Zero3), TRUE, 0)
    BY <1>4, <2>1, <2>3 DEF Tile, TopTypes
  <2>4. CASE Keep("DONE", {"hw_done"})
    BY <2>4, KeepTypes
  <2> QED BY <2>2, <2>3, <2>4
<1>7. CASE Filled
  BY <1>7, KeepTypes DEF Filled
<1>8. CASE Arm
  BY <1>8, KeepTypes DEF Arm
<1>9. CASE Computed
  <2> DEFINE p == [pos EXCEPT !.k = @ + len.k]
             l == [len EXCEPT !.k = TileRem(csr.k, p.k, KTile)]
  <2>1. p \in Position
    BY DEF TopTypes, Position, Size
  <2>2. TileRem(csr.k, p.k, KTile) \in 0..KTile
    BY <1>1, <1>2, <2>1, TileRemFits DEF Position
  <2>3. l \in Size
    BY <2>2 DEF TopTypes, Size
  <2>4. 1 - ping \in 0..1
    BY DEF TopTypes
  <2>5. Tile(p, l, FALSE, 1 - ping) \/ Keep("STORE", {"start_c"})
    BY <1>9 DEF Computed
  <2>6. CASE Keep("STORE", {"start_c"})
    BY <2>6, KeepTypes
  <2>7. CASE Tile(p, l, FALSE, 1 - ping)
    <3> HIDE DEF p, l
    <3> QED BY <2>1, <2>3, <2>4, <2>7 DEF Tile, TopTypes
  <2> QED BY <2>5, <2>6, <2>7
<1>10. CASE NextTile
  <2> DEFINE right == [pos EXCEPT !.n = @ + len.n, !.k = 0]
             down == [m |-> pos.m + len.m, n |-> 0, k |-> 0]
             l == [Tiled(right) EXCEPT !.m = len.m]
  <2>1. pos \in Position /\ len \in [m : Nat, n : Nat, k : Nat] /\ len \in Size
    BY <1>2 DEF TopTypes, Size
  <2>2. right \in Position /\ down \in Position
    <3>1. pos.m + len.m \in Nat /\ pos.n + len.n \in Nat
      BY <2>1 DEF Position
    <3>2. \A x \in Position, y \in Nat : [x EXCEPT !.n = y, !.k = 0] \in Position
      BY DEF Position
    <3>3. \A y \in Nat : [m |-> y, n |-> 0, k |-> 0] \in Position
      BY DEF Position
    <3> QED BY <2>1, <3>1, <3>2, <3>3
  <2>3. Tiled(right) \in Size /\ Tiled(down) \in Size
    BY <1>3, <2>2
  <2>4. l \in Size
    <3>1. \A x \in Size : [x EXCEPT !.m = len.m] \in Size
      BY <2>1 DEF Size
    <3> QED BY <2>3, <3>1
  <2>5. \/ Tile(right, l, TRUE, 0)
        \/ Tile(down, Tiled(down), TRUE, 0)
        \/ Keep("DONE", {"hw_done"})
    BY <1>10 DEF NextTile
  <2>6. CASE Tile(right, l, TRUE, 0)
    <3> HIDE DEF right, l
    <3> QED BY <2>2, <2>4, <2>6 DEF Tile, TopTypes
  <2>7. CASE Tile(down, Tiled(down), TRUE, 0)
    <3> HIDE DEF down
    <3> QED BY <2>2, <2>3, <2>7 DEF Tile, TopTypes
  <2>8. CASE Keep("DONE", {"hw_done"})
    BY <2>8, KeepTypes
  <2> QED BY <2>5, <2>6, <2>7, <2>8
<1>11. CASE Stored
  BY <1>11, KeepTypes DEF Stored
<1>12. CASE Done
  BY <1>12, KeepTypes DEF Done
<1>13. CASE Wait
  BY <1>13, KeepTypes DEF Wait, TopTypes
<1> QED
  BY <1>5, <1>6, <1>7, <1>8, <1>9, <1>10, <1>11, <1>12, <1>13 DEF Top

LEMMA DmaStep ==
  ASSUME CoreTypes, TopTypes, DmaTypes,
         NEW a \in BOOLEAN, NEW b \in BOOLEAN, Dma(a, b)
  PROVE  DmaTypes'
<1>1. csr.m \in Nat /\ csr.n \in Nat /\ csr.k \in Nat
  BY CsrNat
<1>2. pos.m \in Nat /\ pos.n \in Nat /\ pos.k \in Nat
  BY DEF TopTypes, Position
<1>3. len.m \in 0..PeDim /\ len.n \in 0..PeDim /\ len.k \in 0..KTile
  BY DEF TopTypes, Size
<1>4. PeDim \in Nat \ {0} /\ KTile \in Nat \ {0}
  BY GemmAssumption
<1>5. /\ pos.m * csr.k + pos.k \in Nat
      /\ pos.k * csr.n + pos.n \in Nat
      /\ pos.m * csr.n + pos.n \in Nat
  <2>1. pos.m * csr.k \in Nat /\ pos.k * csr.n \in Nat /\ pos.m * csr.n \in Nat
    BY <1>1, <1>2, ProductNat
  <2> QED BY <1>2, <2>1
<1>6. dma \in Transfer
  BY DEF DmaTypes
<1>7. CASE Fetch
  <2>1. dma.cBase \in Nat
    BY <1>6 DEF Transfer
  <2>2. dma' \in Transfer
    BY <1>1, <1>3, <1>4, <1>5, <1>7, <2>1 DEF Fetch, Transfer
  <2> QED BY <1>7, <2>2 DEF Fetch, DmaTypes
<1>8. CASE FetchRows(a, b)
  <2>1. \/ dma' = [dma EXCEPT !.st = "IDLE"]
        \/ \E x \in 0..PeDim, y \in 0..KTile :
             dma' = [dma EXCEPT !.a = x, !.b = y]
    <3> DEFINE ra == a /\ dma.a < dma.m
               rb == b /\ dma.b < dma.k
               x == IF ra THEN dma.a + 1 ELSE dma.a
               y == IF rb THEN dma.b + 1 ELSE dma.b
    <3>1. x \in 0..PeDim /\ y \in 0..KTile
      BY <1>4, <1>6 DEF Transfer
    <3>2. \/ dma' = [dma EXCEPT !.st = "IDLE"]
          \/ dma' = [dma EXCEPT !.a = x, !.b = y]
      BY <1>8 DEF FetchRows
    <3> HIDE DEF x, y
    <3> QED BY <3>1, <3>2
  <2>2. dma' \in Transfer
    BY <1>6, <2>1 DEF Transfer
  <2>3. dma.st = "AB" /\ dmaDone' \in {"none", "ab"}
    BY <1>8 DEF FetchRows
  <2>4. dma'.st # "C"
    BY <1>6, <2>1, <2>3 DEF Transfer
  <2> QED BY <2>2, <2>3, <2>4 DEF DmaTypes
<1>9. CASE WriteBack
  <2> DEFINE base == pos.m * csr.n + pos.n
  <2>1. base \in Nat
    BY <1>5
  <2>2. dma' = [dma EXCEPT !.st = "C", !.a = 0, !.m = len.m, !.n = len.n,
                           !.dimN = csr.n, !.cBase = base]
    BY <1>9 DEF WriteBack
  <2> HIDE DEF base
  <2>3. /\ len.m \in 0..PeDim /\ len.n \in 0..PeDim
        /\ csr.n \in Nat /\ 0 \in 0..PeDim
    BY <1>1, <1>3, <1>4
  <2>4. dma' \in Transfer /\ dma'.a = 0
    BY <1>6, <2>1, <2>2, <2>3 DEF Transfer
  <2> QED BY <1>9, <2>4 DEF WriteBack, DmaTypes
<1>10. CASE WriteRow(a)
  <2>1. CASE a
    <3>1. dma' = [dma EXCEPT !.a = dma.a + 1,
                             !.st = IF dma.a + 1 >= dma.m THEN "IDLE" ELSE "C"]
      BY <1>10, <2>1 DEF WriteRow
    <3>2. dma.a + 1 \in 0..PeDim
      BY <1>4, <1>6, <1>10 DEF WriteRow, DmaTypes, Transfer
    <3>3. dma' \in Transfer
      BY <1>6, <3>1, <3>2 DEF Transfer
    <3>4. dma'.st = "C" => dma'.a < dma'.m
      BY <1>6, <3>1, <3>2 DEF Transfer
    <3>5. dmaDone' \in {"none", "c"}
      BY <1>10, <2>1 DEF WriteRow
    <3> QED BY <3>3, <3>4, <3>5 DEF DmaTypes
  <2>2. CASE ~a
    BY <1>10, <2>2 DEF WriteRow, DmaTypes
  <2> QED BY <2>1, <2>2
<1>11. CASE DmaIdle
  BY <1>11 DEF DmaIdle, DmaTypes
<1> QED BY <1>7, <1>8, <1>9, <1>10, <1>11 DEF Dma

LEMMA DpStep ==
  ASSUME TopTypes, DpTypes, Datapath
  PROVE  DpTypes'
<1>1. len.k \in Nat
  BY GemmAssumption DEF TopTypes, Size
<1>2. dpDone' \in BOOLEAN
  <2>1. dpDone' = FALSE \/ dpDone' = (dp.k >= Drain - 1)
    BY Zenon DEF Datapath
  <2>2. dp.k \in Nat /\ Drain \in Nat
    BY GemmAssumption DEF DpTypes, Sequencer, Drain
  <2>3. (dp.k >= Drain - 1) \in BOOLEAN
    BY <2>2
  <2> QED BY <2>1, <2>3, Zenon
<1>3. \/ dp' = [st |-> "RUN", k |-> 0, len |-> len.k, clear |-> clear]
      \/ dp' = dp
      \/ dp' = [dp EXCEPT !.st = "DRAIN", !.k = 0]
      \/ dp' = [dp EXCEPT !.st = "IDLE", !.k = 0]
      \/ dp' = [dp EXCEPT !.k = dp.k + 1]
  BY Zenon DEF Datapath
<1>4. dp' \in Sequencer
  <2>1. dp \in Sequencer
    BY DEF DpTypes
  <2>2. \A l \in Nat : [st |-> "RUN", k |-> 0, len |-> l, clear |-> clear] \in Sequencer
    BY DEF TopTypes, Sequencer
  <2>3. \A x \in {"IDLE", "DRAIN"} : [dp EXCEPT !.st = x, !.k = 0] \in Sequencer
    BY <2>1 DEF Sequencer
  <2>4. [dp EXCEPT !.k = dp.k + 1] \in Sequencer
    BY <2>1 DEF Sequencer
  <2> QED BY <1>1, <1>3, <2>1, <2>2, <2>3, <2>4
<1> QED BY <1>2, <1>4 DEF DpTypes

LEMMA TypeStep == Types /\ [Next]_vars => Types'
<1> SUFFICES ASSUME Types, [Next]_vars PROVE Types'
  OBVIOUS
<1>1. CASE UNCHANGED vars
  BY <1>1 DEF vars, core, top, Types, CoreTypes, TopTypes, DmaTypes, DpTypes
<1>2. CASE Next
  <2>1. PICK op \in Stores \cup {NoStore}, a, b \in BOOLEAN : Clock(op, a, b)
    BY <1>2 DEF Next
  <2> QED BY <2>1, CoreStep, TopStep, DmaStep, DpStep DEF Clock, Types
<1> QED BY <1>1, <1>2

\* Every register of the accelerator keeps its type, and a tile fits the
\* array, for every size of matrix, whatever the core stores meanwhile.
THEOREM GemmTypes == Spec => []TypeOK
<1>1. Spec => []Types
  BY TypeInit, TypeStep, PTL DEF Spec
<1> QED BY <1>1, TypesTypeOK, PTL
-----------------------------------------------------------------------------
(* Whose turn it is.  A core that does not store right behind a START      *)
(* meets no job with its stores (Unmet), so nothing resets the FSM under   *)
(* way; and the FSM, the DMA and the sequencer take turns (Turn): the unit *)
(* the state of the FSM is for has been sent a pulse, is at work, or has   *)
(* just said that it is done, and the other rests.                         *)

Unmet ==
  /\ st # "IDLE" => dc1 = NoStore /\ dc2 = NoStore
  /\ dc2.reg = "start" => dc1 = NoStore

DmaRests == dma.st = "IDLE" /\ dmaDone = "none"
DpRests == dp.st = "IDLE" /\ dpDone = FALSE

DmaTurn(pulse, work, answer) ==
  \/ cmd = {pulse} /\ DmaRests
  \/ cmd = {} /\ dma.st = work /\ dmaDone = "none"
  \/ cmd = {} /\ dma.st = "IDLE" /\ dmaDone = answer

DpTurn ==
  \/ cmd = {"start_dp"} /\ DpRests
  \/ cmd = {} /\ dp.st \in {"RUN", "DRAIN"} /\ dpDone = FALSE
  \/ cmd = {} /\ dp.st = "IDLE" /\ dpDone = TRUE

Turn ==
  \/ st \in {"IDLE", "ARM", "NEXT"} /\ cmd = {} /\ DmaRests /\ DpRests
  \/ st = "DONE" /\ cmd = {"hw_done"} /\ DmaRests /\ DpRests
  \/ st = "FILL" /\ DmaTurn("start_ab", "AB", "ab") /\ DpRests
  \/ st = "STORE" /\ DmaTurn("start_c", "C", "c") /\ DpRests
  \/ st = "COMPUTE" /\ DmaRests /\ DpTurn

LEMMA TurnInit == Init => Unmet /\ Turn
BY DEF Init, Unmet, Turn, DmaRests, DpRests, NoStore

\* The store behind a START is none, and a job holds the core.
LEMMA UnmetStep ==
  ASSUME ~Behind, Unmet, NEW op, Lsu(op), Top
  PROVE  Unmet'
<1>1. st' # "IDLE" => st # "IDLE" \/ StartPulse
  BY DEF Top, Reset, StartJob, Filled, Arm, Computed, Stored, NextTile, Done, Wait,
         Keep, Tile
<1>2. StartPulse => dc1 = NoStore
  BY DEF StartPulse, Unmet
<1>3. AccelHold => op = NoStore
  BY DEF Lsu
<1>4. st' # "IDLE" => dc1' = NoStore /\ dc2' = NoStore
  BY <1>1, <1>2, <1>3 DEF AccelHold, JobBusy, Unmet, Lsu
<1>5. dc2'.reg = "start" => dc1' = NoStore
  BY DEF Lsu
<1> QED BY <1>4, <1>5 DEF Unmet

\* What the units do in their turns.
LEMMA DmaMoves ==
  ASSUME NEW a, NEW b, Dma(a, b), DmaTypes
  PROVE  /\ dma.st = "IDLE" /\ "start_ab" \in cmd /\ "start_c" \notin cmd
              => dma'.st = "AB" /\ dmaDone' = "none"
         /\ dma.st = "IDLE" /\ "start_c" \in cmd /\ "start_ab" \notin cmd
              => dma'.st = "C" /\ dmaDone' = "none"
         /\ dma.st = "IDLE" /\ "start_c" \notin cmd /\ "start_ab" \notin cmd
              => dma'.st = "IDLE" /\ dmaDone' = "none"
         /\ dma.st = "AB" => \/ dma'.st = "AB" /\ dmaDone' = "none"
                             \/ dma'.st = "IDLE" /\ dmaDone' = "ab"
         /\ dma.st = "C" => \/ dma'.st = "C" /\ dmaDone' = "none"
                            \/ dma'.st = "IDLE" /\ dmaDone' = "c"
<1>1. dma \in Transfer
  BY DEF DmaTypes
<1>2. CASE Fetch
  BY <1>2 DEF Fetch
<1>3. CASE FetchRows(a, b)
  <2>1. dma.st = "AB"
    BY <1>3 DEF FetchRows
  <2>2. \/ dma' = [dma EXCEPT !.st = "IDLE"] /\ dmaDone' = "ab"
        \/ (\E x, y : dma' = [dma EXCEPT !.a = x, !.b = y]) /\ dmaDone' = "none"
    BY <1>3, Zenon DEF FetchRows
  <2> QED BY <1>1, <2>1, <2>2 DEF Transfer
<1>4. CASE WriteBack
  <2>1. dma' = [dma EXCEPT !.st = "C", !.a = 0, !.m = len.m, !.n = len.n,
                           !.dimN = csr.n, !.cBase = pos.m * csr.n + pos.n]
    BY <1>4 DEF WriteBack
  <2>2. dma'.st = "C"
    BY <1>1, <2>1, Zenon DEF Transfer
  <2> QED BY <1>4, <2>2 DEF WriteBack
<1>5. CASE WriteRow(a)
  <2>1. CASE a
    <3>1. dma' = [dma EXCEPT !.a = dma.a + 1,
                             !.st = IF dma.a + 1 >= dma.m THEN "IDLE" ELSE "C"]
      BY <1>5, <2>1 DEF WriteRow
    <3>2. dmaDone' = IF dma.a + 1 >= dma.m THEN "c" ELSE "none"
      BY <1>5, <2>1 DEF WriteRow
    <3>3. dma'.st = IF dma.a + 1 >= dma.m THEN "IDLE" ELSE "C"
      BY <1>1, <3>1 DEF Transfer
    <3> QED BY <1>5, <3>2, <3>3 DEF WriteRow
  <2>2. CASE ~a
    BY <1>5, <2>2 DEF WriteRow
  <2> QED BY <2>1, <2>2
<1>6. CASE DmaIdle
  BY <1>6 DEF DmaIdle
<1> QED BY <1>2, <1>3, <1>4, <1>5, <1>6 DEF Dma

LEMMA DpMoves ==
  ASSUME Datapath, DpTypes
  PROVE  /\ dp.st = "IDLE" /\ "start_dp" \in cmd => dp'.st = "RUN" /\ dpDone' = FALSE
         /\ dp.st = "IDLE" /\ "start_dp" \notin cmd
              => dp'.st = "IDLE" /\ dpDone' = FALSE
         /\ dp.st \in {"RUN", "DRAIN"}
              => \/ dp'.st \in {"RUN", "DRAIN"} /\ dpDone' = FALSE
                 \/ dp'.st = "IDLE" /\ dpDone' = TRUE
<1>1. dp \in Sequencer
  BY DEF DpTypes
<1>2. CASE dp.st = "IDLE"
  BY <1>2 DEF Datapath
<1>3. CASE dp.st = "RUN"
  <2>1. dpDone' = FALSE
    BY <1>3 DEF Datapath
  <2>2. \/ dp' = [dp EXCEPT !.st = "DRAIN", !.k = 0]
        \/ dp' = [dp EXCEPT !.k = dp.k + 1]
    BY <1>3 DEF Datapath
  <2>3. dp'.st \in {"RUN", "DRAIN"}
    BY <1>1, <1>3, <2>2 DEF Sequencer
  <2> QED BY <1>3, <2>1, <2>3
<1>4. CASE dp.st = "DRAIN"
  <2>1. CASE dp.k >= Drain - 1
    <3>1. dp' = [dp EXCEPT !.st = "IDLE", !.k = 0] /\ dpDone' = TRUE
      BY <1>4, <2>1 DEF Datapath
    <3>2. dp'.st = "IDLE"
      BY <1>1, <3>1 DEF Sequencer
    <3> QED BY <1>4, <3>1, <3>2
  <2>2. CASE ~(dp.k >= Drain - 1)
    <3>1. dp' = [dp EXCEPT !.k = dp.k + 1] /\ dpDone' = FALSE
      <4>1. dpDone' = (dp.k >= Drain - 1)
        BY <1>4 DEF Datapath
      <4>2. dp' = [dp EXCEPT !.k = dp.k + 1]
        BY <1>4, <2>2 DEF Datapath
      <4>3. (dp.k >= Drain - 1) = FALSE
        <5>1. dp.k \in Nat /\ Drain \in Nat
          BY <1>1, GemmAssumption DEF Sequencer, Drain
        <5>2. (dp.k >= Drain - 1) \in BOOLEAN
          BY <5>1
        <5> QED BY <2>2, <5>2
      <4> QED BY <4>1, <4>2, <4>3
    <3>2. dp'.st = "DRAIN"
      BY <1>1, <1>4, <3>1 DEF Sequencer
    <3> QED BY <1>4, <3>1, <3>2
  <2> QED BY <2>1, <2>2
<1> QED BY <1>1, <1>2, <1>3, <1>4 DEF Sequencer

\* The FSM goes on when its unit has answered; a reset finds it idle.
LEMMA TopMoves ==
  ASSUME Unmet, Top
  PROVE  /\ st = "IDLE" => \/ st' = "IDLE" /\ cmd' = {}
                           \/ st' = "FILL" /\ cmd' = {"start_ab"}
                           \/ st' = "DONE" /\ cmd' = {"hw_done"}
         /\ st = "FILL" => IF dmaDone = "ab" THEN st' = "ARM" /\ cmd' = {}
                           ELSE st' = "FILL" /\ cmd' = {}
         /\ st = "ARM" => st' = "COMPUTE" /\ cmd' = {"start_dp"}
         /\ st = "COMPUTE" => IF dpDone
                              THEN \/ st' = "FILL" /\ cmd' = {"start_ab"}
                                   \/ st' = "STORE" /\ cmd' = {"start_c"}
                              ELSE st' = "COMPUTE" /\ cmd' = {}
         /\ st = "STORE" => IF dmaDone = "c" THEN st' = "NEXT" /\ cmd' = {}
                            ELSE st' = "STORE" /\ cmd' = {}
         /\ st = "NEXT" => \/ st' = "FILL" /\ cmd' = {"start_ab"}
                           \/ st' = "DONE" /\ cmd' = {"hw_done"}
         /\ st = "DONE" => st' = "IDLE" /\ cmd' = {}
<1>1. SoftReset => st = "IDLE"
  BY DEF Unmet, SoftReset, NoStore
<1>2. CASE Reset
  BY <1>1, <1>2 DEF Reset
<1>3. CASE StartJob
  BY <1>3 DEF StartJob, Tile, Keep
<1>4. CASE Filled
  BY <1>4 DEF Filled, Keep
<1>5. CASE Arm
  BY <1>5 DEF Arm, Keep
<1>6. CASE Computed
  <2>1. \/ st' = "FILL" /\ cmd' = {"start_ab"}
        \/ st' = "STORE" /\ cmd' = {"start_c"}
    BY <1>6 DEF Computed, Tile, Keep
  <2> QED BY <1>6, <2>1 DEF Computed
<1>7. CASE Stored
  BY <1>7 DEF Stored, Keep
<1>8. CASE NextTile
  <2>1. \/ st' = "FILL" /\ cmd' = {"start_ab"}
        \/ st' = "DONE" /\ cmd' = {"hw_done"}
    BY <1>8 DEF NextTile, Tile, Keep
  <2> QED BY <1>8, <2>1 DEF NextTile
<1>9. CASE Done
  BY <1>9 DEF Done, Keep
<1>10. CASE Wait
  BY <1>10 DEF Wait, Keep
<1> QED
  BY <1>2, <1>3, <1>4, <1>5, <1>6, <1>7, <1>8, <1>9, <1>10 DEF Top

LEMMA TurnStep ==
  ASSUME ~Behind
  PROVE  Types /\ Unmet /\ Turn /\ [Next]_vars => (Unmet /\ Turn)'
<1> SUFFICES ASSUME Types, Unmet, Turn, [Next]_vars PROVE (Unmet /\ Turn)'
  OBVIOUS
<1>1. CASE UNCHANGED vars
  BY <1>1 DEF vars, core, top, Unmet, Turn, DmaTurn, DpTurn, DmaRests, DpRests
<1>2. CASE Next
  <2>1. PICK op \in Stores \cup {NoStore}, a, b \in BOOLEAN : Clock(op, a, b)
    BY <1>2 DEF Next
  <2>2. Lsu(op) /\ Top /\ Dma(a, b) /\ Datapath
    BY <2>1 DEF Clock
  <2>3. Unmet'
    BY <2>2, UnmetStep
  <2> HIDE DEF Turn
  <2>4. CASE st \in {"IDLE", "ARM", "NEXT"} /\ cmd = {} /\ DmaRests /\ DpRests
    <3>1. DmaRests' /\ DpRests'
      BY <2>2, <2>4, DmaMoves, DpMoves DEF Types, DmaRests, DpRests
    <3> QED BY <2>2, <2>3, <2>4, <3>1, TopMoves DEF Turn, DmaTurn, DpTurn
  <2>5. CASE st = "DONE" /\ cmd = {"hw_done"} /\ DmaRests /\ DpRests
    <3>1. DmaRests' /\ DpRests'
      BY <2>2, <2>5, DmaMoves, DpMoves DEF Types, DmaRests, DpRests
    <3> QED BY <2>2, <2>3, <2>5, <3>1, TopMoves DEF Turn
  <2>6. CASE st = "FILL" /\ DmaTurn("start_ab", "AB", "ab") /\ DpRests
    <3>1. DpRests'
      BY <2>2, <2>6, DpMoves DEF Types, DmaTurn, DpRests
    <3> QED BY <2>2, <2>3, <2>6, <3>1, TopMoves, DmaMoves
            DEF Types, Turn, DmaTurn, DmaRests
  <2>7. CASE st = "STORE" /\ DmaTurn("start_c", "C", "c") /\ DpRests
    <3>1. DpRests'
      BY <2>2, <2>7, DpMoves DEF Types, DmaTurn, DpRests
    <3> QED BY <2>2, <2>3, <2>7, <3>1, TopMoves, DmaMoves
            DEF Types, Turn, DmaTurn, DmaRests
  <2>8. CASE st = "COMPUTE" /\ DmaRests /\ DpTurn
    <3>1. DmaRests'
      BY <2>2, <2>8, DmaMoves DEF Types, DpTurn, DmaRests
    <3> QED BY <2>2, <2>3, <2>8, <3>1, TopMoves, DpMoves
            DEF Types, Turn, DmaTurn, DpTurn, DpRests
  <2> QED BY <2>4, <2>5, <2>6, <2>7, <2>8 DEF Turn
<1> QED BY <1>1, <1>2

LEMMA TurnInvariant ==
  ASSUME ~Behind
  PROVE  Spec => [](Unmet /\ Turn)
<1>1. Types /\ Unmet /\ Turn /\ [Next]_vars => (Unmet /\ Turn)'
  BY TurnStep
<1> QED BY <1>1, TurnInit, TypeInit, TypeStep, PTL DEF Spec

\* No pulse of the FSM is lost: the DMA and the sequencer are idle when one
\* comes, if no store follows right behind a START.
THEOREM PulsesAlwaysTaken ==
  ASSUME ~Behind
  PROVE  Spec => []PulsesTaken
<1>1. Turn => PulsesTaken
  BY DEF Turn, PulsesTaken, DmaTurn, DpTurn, DmaRests, DpRests
<1> QED BY <1>1, TurnInvariant, PTL

\* The core is held in time: no store of its own, a reset included, meets a
\* job, if none follows right behind the START.
THEOREM JobsUndisturbed ==
  ASSUME ~Behind
  PROVE  Spec => []JobAlone
<1>1. Unmet => JobAlone
  BY DEF Unmet, JobAlone, JobBusy
<1> QED BY <1>1, TurnInvariant, PTL

-----------------------------------------------------------------------------
(***************************************************************************)
(* The accelerator computes the matrix product: ProductReady of GemmJob.   *)
(*                                                                         *)
(* The invariant says, state by state of the job FSM, what the work done   *)
(* so far has left in each unit: the walk over the tiles (Walk), the rows  *)
(* that are fetched (Loaded), the products that are summed (Summed) and    *)
(* the cells that are written (Written).                                   *)
(***************************************************************************)

-----------------------------------------------------------------------------
(* The invariant.                                                          *)

Tiles == [a : [Row -> [Col -> Nat]], b : [Col -> [Row -> Nat]]]

\* The arrays have their shapes.
Shaped ==
  /\ fill \in Tiles /\ buf \in [0..1 -> Tiles]
  /\ c = [o \in Cells |-> c[o]]

Working == st \in {"FILL", "ARM", "COMPUTE", "STORE", "NEXT"}

\* The registers hold the sizes of the job.
Held ==
  /\ st # "IDLE" => csr = job /\ ~doneQ
  /\ Working => csr.m > 0 /\ csr.n > 0 /\ csr.k > 0

\* The tile lies in the matrices, is as large as they and the array allow,
\* and starts clean sums where its first product is the first of all; C is
\* stored behind the last.
Walk ==
  Working =>
    /\ pos.m < csr.m /\ pos.n < csr.n /\ pos.k < csr.k
    /\ len = Tiled(pos)
    /\ clear = (pos.k = 0)
    /\ st \in {"STORE", "NEXT"} => pos.k + len.k = csr.k

Below(n) == 0..(n - 1)

\* The elements of A and B in a tile.
RowsOfA(x, rows) ==
  \A i \in Below(rows), t \in Below(len.k) :
    x[i][t] = (pos.m + i) * csr.k + pos.k + t + 1
RowsOfB(x, rows) ==
  \A t \in Below(rows), j \in Below(len.n) :
    x[t][j] = (pos.k + t) * csr.n + pos.n + j + 1
Whole(tile) == RowsOfA(tile.a, len.m) /\ RowsOfB(tile.b, len.k)

\* The DMA fetches the tile of the FSM, and what it has fetched is right.
Loaded ==
  /\ st = "FILL" /\ dma.st = "AB" =>
       /\ dma.m = len.m /\ dma.n = len.n /\ dma.k = len.k
       /\ dma.dimN = csr.n /\ dma.dimK = csr.k
       /\ dma.aBase = pos.m * csr.k + pos.k
       /\ dma.bBase = pos.k * csr.n + pos.n
       /\ dma.a <= len.m /\ dma.b <= len.k
       /\ RowsOfA(fill.a, dma.a) /\ RowsOfB(fill.b, dma.b)
  /\ st = "FILL" /\ dmaDone = "ab" => Whole(fill)
  /\ st \in {"ARM", "COMPUTE"} => Whole(buf[ping])

\* The array: how many steps of the tile have entered it, and how many of
\* them have left it again.
Streaming == st = "COMPUTE" /\ cmd = {}
Depth == MulLat + 2
Entered ==
  IF dp.st = "RUN" THEN dp.k
  ELSE IF dp.st = "DRAIN" THEN dp.len + dp.k ELSE dp.len + MulLat + 1
Left == IF Entered <= Depth THEN 0
        ELSE IF Entered - Depth > len.k THEN len.k ELSE Entered - Depth

Operands(k) ==
  [en |-> TRUE, clear |-> k = 0 /\ dp.clear,
   a |-> [i \in Row |-> buf[ping].a[i][k]], b |-> buf[ping].b[k]]
Quiet(x) == ~x.en /\ ~x.clear

\* The first q products of a cell.
Dot(i, j, q) ==
  [k \in 1..q |-> <<i * csr.k + k, (k - 1) * csr.n + j + 1>>]

\* The sums of the tile have the first q products, unless they are to be
\* cleared.
Sums(q) ==
  q > 0 => \A i \in Below(len.m), j \in Below(len.n) :
             acc[i][j] = Dot(pos.m + i, pos.n + j, q)

Stream ==
  /\ dp.len = len.k /\ dp.clear = clear
  /\ dp.st = "RUN" => dp.k < len.k
  /\ dp.st = "DRAIN" => dp.k <= MulLat
  /\ \A s \in Stages : IF s <= Entered /\ Entered - s < len.k
                       THEN pipe[s] = Operands(Entered - s) ELSE Quiet(pipe[s])
  /\ Sums(pos.k + Left)

Summed ==
  /\ Streaming => Stream
  /\ ~Streaming => \A s \in Stages : Quiet(pipe[s])
  /\ st \in {"FILL", "ARM"} \/ (st = "COMPUTE" /\ ~Streaming) => Sums(pos.k)
  /\ st = "STORE" => Sums(csr.k)

\* C has the cells of the tiles that are done, and of r rows of this tile.
Covered(i, j, r) ==
  \/ i < pos.m
  \/ i < pos.m + len.m /\ j < pos.n
  \/ i < pos.m + r /\ j < pos.n + len.n
Results(r) ==
  /\ \A i \in Below(csr.m), j \in Below(csr.n) :
       i * csr.n + j \in Cells =>
         c[i * csr.n + j] = IF Covered(i, j, r) THEN Dot(i, j, csr.k) ELSE <<>>
  /\ \A o \in Cells : o >= csr.m * csr.n => c[o] = <<>>

Written ==
  /\ st \in {"FILL", "ARM", "COMPUTE"} => Results(0)
  /\ st = "STORE" /\ dma.st = "IDLE" /\ dmaDone = "none" => Results(0)
  /\ st = "STORE" /\ dma.st = "C" =>
       /\ dma.m = len.m /\ dma.n = len.n /\ dma.dimN = csr.n
       /\ dma.cBase = pos.m * csr.n + pos.n
       /\ dma.a < len.m /\ Results(dma.a)
  /\ (st = "STORE" /\ dmaDone = "c") \/ st = "NEXT" => Results(len.m)
  /\ st = "DONE" \/ doneQ => c = MatMul(job)

-----------------------------------------------------------------------------
(* Arithmetic and sequences.                                               *)

\* The indices below n are the naturals less than n.
LEMMA BelowNat == \A n \in Nat : \A x : x \in Below(n) <=> x \in Nat /\ x < n
BY DEF Below

\* One more index.
LEMMA BelowMore ==
  ASSUME NEW n \in Nat
  PROVE  n + 1 \in Nat /\ Below(n + 1) = Below(n) \cup {n}
BY DEF Below

\* The offsets of C are naturals.
LEMMA CellsNat == Cells \subseteq Nat
BY DEF Cells

\* One more element of a sequence.
LEMMA Longer ==
  ASSUME NEW S, NEW q \in Nat, NEW f \in [Nat -> S]
  PROVE  [k \in 1..q |-> f[k]] \o <<f[q + 1]>> = [k \in 1..(q + 1) |-> f[k]]
<1>1. [k \in 1..q |-> f[k]] \in Seq(S)
  OBVIOUS
<1>2. Len([k \in 1..q |-> f[k]]) = q
  OBVIOUS
<1> QED BY <1>1, <1>2

\* A tile is not empty, and ends where the dimension does or at its own size.
LEMMA TileFits ==
  ASSUME NEW total \in Nat, NEW orig \in Nat, NEW maxv \in Nat \ {0}, orig < total
  PROVE  TileRem(total, orig, maxv) \in 1..maxv
         /\ orig + TileRem(total, orig, maxv) <= total
BY DEF TileRem

-----------------------------------------------------------------------------
(* The job FSM.                                                            *)

\* What Types says of the numbers, in one place.
LEMMA Numbers ==
  ASSUME Types
  PROVE  /\ csr.m \in Nat /\ csr.n \in Nat /\ csr.k \in Nat
         /\ pos.m \in Nat /\ pos.n \in Nat /\ pos.k \in Nat
         /\ len.m \in 0..PeDim /\ len.n \in 0..PeDim /\ len.k \in 0..KTile
         /\ len.m \in Nat /\ len.n \in Nat /\ len.k \in Nat
         /\ PeDim \in Nat \ {0} /\ KTile \in Nat \ {0} /\ MulLat \in Nat \ {0}
         /\ pos = [m |-> pos.m, n |-> pos.n, k |-> pos.k]
         /\ len = [m |-> len.m, n |-> len.n, k |-> len.k]
<1>1. csr.m \in Nat /\ csr.n \in Nat /\ csr.k \in Nat
  BY CsrNat DEF Types
<1> QED BY <1>1, GemmAssumption DEF Types, TopTypes, Position, Size

\* A running job meets no store of the core.
LEMMA JobFrame ==
  ASSUME Types, Unmet, Csr, st # "IDLE"
  PROVE  /\ csr' = csr /\ job' = job /\ ~SoftReset /\ ~StartPulse
         /\ "hw_done" \notin cmd /\ ~doneQ => ~doneQ'
<1>1. dc2 = NoStore
  BY DEF Unmet
<1>2. ~SoftReset /\ ~StartPulse
  BY <1>1 DEF SoftReset, StartPulse, NoStore
<1>3. csr' = csr
  <2>1. DOMAIN csr = {"m", "n", "k"}
    BY DEF Types, CoreTypes
  <2> QED BY <1>1, <2>1 DEF Csr, NoStore
<1>4. job' = job
  BY <1>2 DEF Csr
<1>5. "hw_done" \notin cmd /\ ~doneQ => ~doneQ'
  BY Zenon DEF Csr
<1> QED BY <1>2, <1>3, <1>4, <1>5

\* Where the walk goes.
LEMMA WalkMoves ==
  ASSUME Types, Unmet, Turn, Top
  PROVE  /\ st = "IDLE" /\ st' = "FILL" =>
              /\ StartPulse /\ csr.m # 0 /\ csr.n # 0 /\ csr.k # 0
              /\ pos' = Zero3 /\ len' = Tiled(Zero3) /\ clear' = TRUE
         /\ st = "IDLE" /\ st' = "DONE" =>
              StartPulse /\ (csr.m = 0 \/ csr.n = 0 \/ csr.k = 0)
         /\ st \in {"FILL", "ARM", "STORE"} \/ (st = "COMPUTE" /\ st' # "FILL") =>
              UNCHANGED <<pos, len, clear, ping>>
         /\ st = "COMPUTE" /\ st' = "FILL" =>
              /\ pos.k + len.k < csr.k
              /\ pos' = [pos EXCEPT !.k = pos.k + len.k]
              /\ len' = [len EXCEPT !.k = TileRem(csr.k, pos.k + len.k, KTile)]
              /\ clear' = FALSE
         /\ st = "COMPUTE" /\ st' = "STORE" => ~(pos.k + len.k < csr.k)
         /\ st = "NEXT" /\ st' = "FILL" =>
              /\ clear' = TRUE
              /\ \/ /\ pos.n + len.n < csr.n
                    /\ pos' = [m |-> pos.m, n |-> pos.n + len.n, k |-> 0]
                    /\ len' = [Tiled(pos') EXCEPT !.m = len.m]
                 \/ /\ ~(pos.n + len.n < csr.n) /\ pos.m + len.m < csr.m
                    /\ pos' = [m |-> pos.m + len.m, n |-> 0, k |-> 0]
                    /\ len' = Tiled(pos')
         /\ st = "NEXT" /\ st' = "DONE" =>
              ~(pos.n + len.n < csr.n) /\ ~(pos.m + len.m < csr.m)
         /\ st = "FILL" /\ dmaDone = "ab" => buf' = [buf EXCEPT ![ping] = fill]
         /\ st \in {"ARM", "COMPUTE"} => buf' = buf
<1>1. SoftReset => st = "IDLE"
  BY DEF Unmet, SoftReset, NoStore
<1>2. pos = [m |-> pos.m, n |-> pos.n, k |-> pos.k]
  BY Numbers
<1>3. CASE Reset
  BY <1>1, <1>3 DEF Reset
<1>4. CASE StartJob
  BY <1>4 DEF StartJob, Tile, Keep
<1>5. CASE Filled
  BY <1>5 DEF Filled, Keep
<1>6. CASE Arm
  BY <1>6 DEF Arm, Keep
<1>7. CASE Computed
  <2>1. st = "COMPUTE" /\ buf' = buf
    BY <1>7 DEF Computed
  <2>2. [pos EXCEPT !.k = pos.k + len.k].k = pos.k + len.k
    BY <1>2
  <2>3. \/ /\ pos.k + len.k < csr.k
           /\ Tile([pos EXCEPT !.k = pos.k + len.k],
                   [len EXCEPT !.k = TileRem(csr.k, pos.k + len.k, KTile)],
                   FALSE, 1 - ping)
        \/ ~(pos.k + len.k < csr.k) /\ Keep("STORE", {"start_c"})
    BY <1>7, <2>2 DEF Computed
  <2>4. CASE Keep("STORE", {"start_c"}) /\ ~(pos.k + len.k < csr.k)
    BY <2>1, <2>4 DEF Keep
  <2>5. CASE /\ pos.k + len.k < csr.k
             /\ Tile([pos EXCEPT !.k = pos.k + len.k],
                     [len EXCEPT !.k = TileRem(csr.k, pos.k + len.k, KTile)],
                     FALSE, 1 - ping)
    <3>1. st' = "FILL" /\ clear' = FALSE
      BY <2>5 DEF Tile
    <3>2. /\ pos' = [pos EXCEPT !.k = pos.k + len.k]
          /\ len' = [len EXCEPT !.k = TileRem(csr.k, pos.k + len.k, KTile)]
      BY <2>5, Zenon DEF Tile
    <3> QED BY <2>1, <2>5, <3>1, <3>2
  <2> QED BY <2>3, <2>4, <2>5
<1>8. CASE Stored
  BY <1>8 DEF Stored, Keep
<1>9. CASE NextTile
  <2> DEFINE right == [m |-> pos.m, n |-> pos.n + len.n, k |-> 0]
             down == [m |-> pos.m + len.m, n |-> 0, k |-> 0]
  <2>1. [pos EXCEPT !.n = pos.n + len.n, !.k = 0] = right
    <3>1. \A x \in Position, y \in Nat :
            [x EXCEPT !.n = y, !.k = 0] = [m |-> x.m, n |-> y, k |-> 0]
      <4> SUFFICES ASSUME NEW x \in Position, NEW y \in Nat
                   PROVE  [x EXCEPT !.n = y, !.k = 0] = [m |-> x.m, n |-> y, k |-> 0]
        OBVIOUS
      <4> DEFINE z == [x EXCEPT !.n = y, !.k = 0]
      <4>1. z \in Position /\ z.m = x.m /\ z.n = y /\ z.k = 0
        BY DEF Position
      <4>2. z = [m |-> z.m, n |-> z.n, k |-> z.k]
        <5> HIDE DEF z
        <5> QED BY <4>1 DEF Position
      <4> HIDE DEF z
      <4>3. z = [m |-> x.m, n |-> y, k |-> 0]
        BY <4>1, <4>2
      <4> QED BY <4>3 DEF z
    <3>2. pos \in Position /\ pos.n + len.n \in Nat
      BY Numbers DEF Types, TopTypes
    <3> QED BY <3>1, <3>2
  <2>2. \/ /\ pos.n + len.n < csr.n
           /\ Tile(right, [Tiled(right) EXCEPT !.m = len.m], TRUE, 0)
        \/ /\ ~(pos.n + len.n < csr.n) /\ pos.m + len.m < csr.m
           /\ Tile(down, Tiled(down), TRUE, 0)
        \/ /\ ~(pos.n + len.n < csr.n) /\ ~(pos.m + len.m < csr.m)
           /\ Keep("DONE", {"hw_done"})
    BY <1>9, <2>1 DEF NextTile
  <2>3. st = "NEXT"
    BY <1>9 DEF NextTile
  <2> HIDE DEF right, down
  <2>4. \/ /\ st' = "FILL" /\ pos.n + len.n < csr.n /\ clear' = TRUE
           /\ pos' = right /\ len' = [Tiled(pos') EXCEPT !.m = len.m]
        \/ /\ st' = "FILL" /\ clear' = TRUE
           /\ ~(pos.n + len.n < csr.n) /\ pos.m + len.m < csr.m
           /\ pos' = down /\ len' = Tiled(pos')
        \/ st' = "DONE" /\ ~(pos.n + len.n < csr.n) /\ ~(pos.m + len.m < csr.m)
    BY <2>2 DEF Tile, Keep
  <2> QED BY <2>3, <2>4 DEF right, down
<1>10. CASE Done
  BY <1>10 DEF Done, Keep
<1>11. CASE Wait
  BY <1>11 DEF Wait, Keep
<1> QED
  BY <1>3, <1>4, <1>5, <1>6, <1>7, <1>8, <1>9, <1>10, <1>11 DEF Top

\* A job starts with the sizes the registers hold, and they stay.
LEMMA StartFrame ==
  ASSUME Types, Csr, StartPulse
  PROVE  csr' = csr /\ job' = csr /\ ~doneQ'
<1>1. dc2.reg = "start" /\ DOMAIN csr = {"m", "n", "k"}
  BY DEF StartPulse, Types, CoreTypes
<1>2. csr' = csr /\ job' = csr
  BY <1>1 DEF Csr
<1>3. ~doneQ'
  BY Zenon DEF Csr
<1> QED BY <1>2, <1>3

\* A store that would change the sizes finds the accelerator idle.
LEMMA HeldStep ==
  ASSUME Types, Unmet, Turn, Held, Csr, Top
  PROVE  Held'
<1>1. csr.m \in Nat /\ csr.n \in Nat /\ csr.k \in Nat
  BY Numbers
<1>2. CASE st = "IDLE"
  <2>1. st' \in {"IDLE", "FILL", "DONE"}
    BY <1>2, TopMoves
  <2>2. CASE st' = "IDLE"
    BY <2>2 DEF Held, Working
  <2>3. CASE st' # "IDLE"
    <3>1. StartPulse /\ (st' = "FILL" => csr.m # 0 /\ csr.n # 0 /\ csr.k # 0)
      BY <1>2, <2>1, <2>3, WalkMoves
    <3>2. csr' = job' /\ csr' = csr /\ ~doneQ'
      BY <3>1, StartFrame
    <3> QED BY <1>1, <2>1, <2>3, <3>1, <3>2 DEF Held, Working
  <2> QED BY <2>2, <2>3
<1>3. CASE st # "IDLE"
  <2>1. csr' = csr /\ job' = job /\ csr = job /\ ~doneQ
    BY <1>3, JobFrame DEF Held
  <2>2. CASE st = "DONE"
    <3>1. st' = "IDLE"
      BY <2>2, TopMoves
    <3> QED BY <3>1 DEF Held, Working
  <2>3. CASE st # "DONE"
    <3>1. Working
      BY <1>3, <2>3 DEF Working, Types, TopTypes
    <3>2. "hw_done" \notin cmd
      BY <1>3, <2>3 DEF Turn, DmaTurn, DpTurn
    <3>3. ~doneQ'
      BY <1>3, <2>1, <3>2, JobFrame
    <3> QED BY <2>1, <3>1, <3>3 DEF Held
  <2> QED BY <2>2, <2>3
<1> QED BY <1>2, <1>3

\* The tile at a place in the matrices.
LEMMA TileThere ==
  ASSUME Types, NEW p, p.m \in Nat, p.n \in Nat, p.k \in Nat,
         p.m < csr.m, p.n < csr.n, p.k < csr.k
  PROVE  LET l == Tiled(p)
         IN  /\ l.m \in 1..PeDim /\ l.n \in 1..PeDim /\ l.k \in 1..KTile
             /\ p.m + l.m <= csr.m /\ p.n + l.n <= csr.n /\ p.k + l.k <= csr.k
<1>1. /\ csr.m \in Nat /\ csr.n \in Nat /\ csr.k \in Nat
      /\ PeDim \in Nat \ {0} /\ KTile \in Nat \ {0}
  BY Numbers
<1>2. /\ TileRem(csr.m, p.m, PeDim) \in 1..PeDim
      /\ p.m + TileRem(csr.m, p.m, PeDim) <= csr.m
  BY <1>1, TileFits
<1>3. /\ TileRem(csr.n, p.n, PeDim) \in 1..PeDim
      /\ p.n + TileRem(csr.n, p.n, PeDim) <= csr.n
  BY <1>1, TileFits
<1>4. /\ TileRem(csr.k, p.k, KTile) \in 1..KTile
      /\ p.k + TileRem(csr.k, p.k, KTile) <= csr.k
  BY <1>1, TileFits
<1> QED BY <1>2, <1>3, <1>4 DEF Tiled

\* The tile of a running job.
LEMMA TileHere ==
  ASSUME Types, Walk, Working
  PROVE  /\ len.m \in 1..PeDim /\ len.n \in 1..PeDim /\ len.k \in 1..KTile
         /\ pos.m + len.m <= csr.m /\ pos.n + len.n <= csr.n
         /\ pos.k + len.k <= csr.k
<1>1. pos.m \in Nat /\ pos.n \in Nat /\ pos.k \in Nat
  BY Numbers
<1>2. len = Tiled(pos) /\ pos.m < csr.m /\ pos.n < csr.n /\ pos.k < csr.k
  BY DEF Walk
<1> QED BY <1>1, <1>2, TileThere

\* The FSM goes from a tile of the matrices to the next.
LEMMA WalkStep ==
  ASSUME Types, Unmet, Turn, Held, Walk, Csr, Top
  PROVE  Walk'
<1> SUFFICES ASSUME Working' PROVE Walk'
  BY DEF Walk
<1>1. /\ csr.m \in Nat /\ csr.n \in Nat /\ csr.k \in Nat
      /\ pos.m \in Nat /\ pos.n \in Nat /\ pos.k \in Nat
      /\ len.m \in Nat /\ len.n \in Nat /\ len.k \in Nat
  BY Numbers
<1>2. csr' = csr
  <2>1. st = "IDLE" => st' = "FILL"
    BY TopMoves DEF Working
  <2> QED BY <2>1, WalkMoves, StartFrame, JobFrame
<1>3. CASE st = "IDLE"
  <2>1. /\ st' = "FILL" /\ pos' = Zero3 /\ len' = Tiled(Zero3) /\ clear' = TRUE
        /\ csr.m # 0 /\ csr.n # 0 /\ csr.k # 0
    BY <1>3, TopMoves, WalkMoves DEF Working
  <2>2. pos'.m = 0 /\ pos'.n = 0 /\ pos'.k = 0
    BY <2>1 DEF Zero3
  <2>3. Tiled(pos)' = Tiled(pos') /\ len' = Tiled(pos')
    BY <1>2, <2>1 DEF Tiled
  <2>4. clear' = (pos'.k = 0)
    BY <2>1, <2>2
  <2>5. pos'.m < csr'.m /\ pos'.n < csr'.n /\ pos'.k < csr'.k
    BY <1>1, <1>2, <2>1, <2>2
  <2>6. st' \notin {"STORE", "NEXT"}
    BY <2>1
  <2> QED BY <2>3, <2>4, <2>5, <2>6 DEF Walk
<1>4. ASSUME Working, UNCHANGED <<pos, len, clear>>,
             st' \in {"STORE", "NEXT"} =>
               st \in {"STORE", "NEXT"} \/ pos.k + len.k = csr.k
      PROVE  Walk'
  BY <1>2, <1>4 DEF Walk, Tiled
<1>5. CASE st = "FILL"
  <2>1. st' \in {"FILL", "ARM"} /\ UNCHANGED <<pos, len, clear>>
    BY <1>5, TopMoves, WalkMoves
  <2> QED BY <1>4, <1>5, <2>1 DEF Working
<1>6. CASE st = "ARM"
  <2>1. st' = "COMPUTE" /\ UNCHANGED <<pos, len, clear>>
    BY <1>6, TopMoves, WalkMoves
  <2> QED BY <1>4, <1>6, <2>1 DEF Working
<1>7. CASE st = "COMPUTE" /\ st' # "FILL"
  <2>1. st' \in {"COMPUTE", "STORE"} /\ UNCHANGED <<pos, len, clear>>
    BY <1>7, TopMoves, WalkMoves
  <2>2. st' = "STORE" => pos.k + len.k = csr.k
    <3>1. pos.k + len.k <= csr.k
      BY <1>7, TileHere DEF Working
    <3>2. st' = "STORE" => ~(pos.k + len.k < csr.k)
      BY <1>7, WalkMoves
    <3> QED BY <1>1, <3>1, <3>2
  <2> QED BY <1>4, <1>7, <2>1, <2>2 DEF Working
<1>8. CASE st = "COMPUTE" /\ st' = "FILL"
  <2>1. /\ pos.k + len.k < csr.k /\ clear' = FALSE
        /\ pos' = [pos EXCEPT !.k = pos.k + len.k]
        /\ len' = [len EXCEPT !.k = TileRem(csr.k, pos.k + len.k, KTile)]
    BY <1>8, WalkMoves
  <2>2. /\ len = Tiled(pos) /\ pos.m < csr.m /\ pos.n < csr.n
        /\ len.k > 0
    BY <1>8, TileHere DEF Walk, Working
  <2>3. /\ pos'.m = pos.m /\ pos'.n = pos.n /\ pos'.k = pos.k + len.k
    BY <2>1 DEF Types, TopTypes, Position
  <2>4. len' = Tiled(pos')
    BY <2>1, <2>2, <2>3 DEF Tiled
  <2>5. pos'.k # 0
    BY <1>1, <2>2, <2>3
  <2> QED BY <1>2, <1>8, <2>1, <2>2, <2>3, <2>4, <2>5 DEF Walk, Tiled
<1>9. CASE st = "STORE"
  <2>1. st' \in {"STORE", "NEXT"} /\ UNCHANGED <<pos, len, clear>>
    BY <1>9, TopMoves, WalkMoves
  <2> QED BY <1>4, <1>9, <2>1 DEF Working
<1>10. CASE st = "NEXT"
  <2>1. st' = "FILL" /\ clear' = TRUE
    BY <1>10, TopMoves, WalkMoves DEF Working
  <2>2. /\ len = Tiled(pos) /\ pos.m < csr.m /\ csr.n > 0 /\ csr.k > 0
    BY <1>10 DEF Walk, Working, Held
  <2>3. CASE /\ pos.n + len.n < csr.n
             /\ pos' = [m |-> pos.m, n |-> pos.n + len.n, k |-> 0]
             /\ len' = [Tiled(pos') EXCEPT !.m = len.m]
    <3>1. len' = Tiled(pos')
      BY <2>2, <2>3 DEF Tiled
    <3> QED BY <1>2, <2>1, <2>2, <2>3, <3>1 DEF Walk, Tiled
  <2>4. CASE /\ pos.m + len.m < csr.m
             /\ pos' = [m |-> pos.m + len.m, n |-> 0, k |-> 0]
             /\ len' = Tiled(pos')
    BY <1>2, <2>1, <2>2, <2>4 DEF Walk, Tiled
  <2> QED BY <1>10, <2>1, <2>3, <2>4, WalkMoves
<1>11. CASE st = "DONE"
  BY <1>11, TopMoves DEF Working
<1> QED
  BY <1>3, <1>5, <1>6, <1>7, <1>8, <1>9, <1>10, <1>11 DEF Types, TopTypes

-----------------------------------------------------------------------------
(* The DMA fetches a tile.                                                 *)

\* Multiplication distributes over addition.
LEMMA Distributes == \A x, y, z \in Nat : (x + y) * z = x * z + y * z
OBVIOUS

\* A row that the DMA fetches fits the tile buffers.
LEMMA RowTypes ==
  ASSUME Types
  PROVE  RowA \in [Col -> Nat] /\ RowB \in [Row -> Nat]
<1>1. /\ dma.a \in Nat /\ dma.b \in Nat /\ dma.dimK \in Nat /\ dma.dimN \in Nat
      /\ dma.aBase \in Nat /\ dma.bBase \in Nat
  BY Numbers DEF Types, DmaTypes, Transfer
<1>2. dma.a * dma.dimK \in Nat /\ dma.b * dma.dimN \in Nat
  BY <1>1, ProductNat
<1>3. /\ \A t \in Col : dma.aBase + dma.a * dma.dimK + t + 1 \in Nat
      /\ \A j \in Row : dma.bBase + dma.b * dma.dimN + j + 1 \in Nat
  BY <1>1, <1>2, Numbers DEF Col, Row
<1> QED BY <1>3 DEF RowA, RowB

\* So do the cleared buffers.
LEMMA ZeroTypes == ZeroA \in [Row -> [Col -> Nat]] /\ ZeroB \in [Col -> [Row -> Nat]]
BY DEF ZeroA, ZeroB

\* No step changes the shape of an array.
LEMMA ShapedStep ==
  ASSUME Types, Shaped, Top, NEW a \in BOOLEAN, NEW b \in BOOLEAN, Dma(a, b)
  PROVE  Shaped'
<1>1. fill' \in Tiles
  <2>1. fill \in Tiles
    BY DEF Shaped
  <2>2. [a |-> ZeroA, b |-> ZeroB] \in Tiles
    BY ZeroTypes DEF Tiles
  <2>3. CASE FetchRows(a, b)
    <3>1. /\ fill.a \in [Row -> [Col -> Nat]] /\ fill.b \in [Col -> [Row -> Nat]]
      BY <2>1 DEF Tiles
    <3>2. [fill.a EXCEPT ![dma.a] = RowA] \in [Row -> [Col -> Nat]]
      BY <3>1, RowTypes
    <3>3. [fill.b EXCEPT ![dma.b] = RowB] \in [Col -> [Row -> Nat]]
      BY <3>1, RowTypes
    <3>4. \E x \in [Row -> [Col -> Nat]], y \in [Col -> [Row -> Nat]] :
            fill' = [a |-> x, b |-> y]
      BY <2>3, <3>1, <3>2, <3>3 DEF FetchRows
    <3> QED BY <3>4 DEF Tiles
  <2>4. CASE ~FetchRows(a, b)
    BY <2>1, <2>2, <2>4 DEF Dma, Fetch, WriteBack, WriteRow, DmaIdle
  <2> QED BY <2>3, <2>4
<1>2. buf' \in [0..1 -> Tiles]
  <2>1. buf \in [0..1 -> Tiles] /\ fill \in Tiles
    BY DEF Shaped
  <2>2. [h \in 0..1 |-> [a |-> ZeroA, b |-> ZeroB]] \in [0..1 -> Tiles]
    BY ZeroTypes DEF Tiles
  <2>3. [buf EXCEPT ![ping] = fill] \in [0..1 -> Tiles]
    BY <2>1
  <2> QED
    BY <2>1, <2>2, <2>3 DEF Top, Reset, StartJob, Filled, Arm, Computed, Stored,
       NextTile, Done, Wait
<1>3. c' = [o \in Cells |-> c'[o]]
  <2>1. c = [o \in Cells |-> c[o]]
    BY DEF Shaped
  <2>2. DOMAIN c = Cells
    BY <2>1
  <2>3. CASE c' = c
    BY <2>1, <2>3
  <2>4. CASE c' = [o \in DOMAIN c |-> <<>>]
    BY <2>2, <2>4
  <2>5. CASE c' = [o \in DOMAIN c |->
                     LET j == o - (dma.cBase + dma.a * dma.dimN)
                     IN  IF o >= dma.cBase + dma.a * dma.dimN /\ j < dma.n
                         THEN acc[dma.a][j] ELSE c[o]]
    BY <2>2, <2>5
  <2> QED
    BY <2>3, <2>4, <2>5 DEF Dma, Fetch, FetchRows, WriteBack, WriteRow, DmaIdle
<1> QED BY <1>1, <1>2, <1>3 DEF Shaped

\* One more row.
LEMMA OneMoreA ==
  ASSUME NEW x, NEW y, NEW r \in Nat, RowsOfA(x, r),
         \A i \in Below(r), t \in Below(len.k) : y[i][t] = x[i][t],
         \A t \in Below(len.k) : y[r][t] = (pos.m + r) * csr.k + pos.k + t + 1
  PROVE  RowsOfA(y, r + 1)
<1>1. Below(r + 1) = Below(r) \cup {r}
  BY BelowMore
<1>2. ASSUME NEW i \in Below(r) \cup {r}, NEW t \in Below(len.k)
      PROVE  y[i][t] = (pos.m + i) * csr.k + pos.k + t + 1
  <2>1. CASE i = r
    BY <2>1
  <2>2. CASE i \in Below(r)
    BY <2>2, Zenon DEF RowsOfA
  <2> QED BY <2>1, <2>2
<1> QED BY <1>1, <1>2, Zenon DEF RowsOfA

\* A fetched row of B adds to the rows that are right.
LEMMA OneMoreB ==
  ASSUME NEW x, NEW y, NEW r \in Nat, RowsOfB(x, r),
         \A t \in Below(r), j \in Below(len.n) : y[t][j] = x[t][j],
         \A j \in Below(len.n) : y[r][j] = (pos.k + r) * csr.n + pos.n + j + 1
  PROVE  RowsOfB(y, r + 1)
<1>1. Below(r + 1) = Below(r) \cup {r}
  BY BelowMore
<1>2. ASSUME NEW t \in Below(r) \cup {r}, NEW j \in Below(len.n)
      PROVE  y[t][j] = (pos.k + t) * csr.n + pos.n + j + 1
  <2>1. CASE t = r
    BY <2>1
  <2>2. CASE t \in Below(r)
    BY <2>2, Zenon DEF RowsOfB
  <2> QED BY <2>1, <2>2
<1> QED BY <1>1, <1>2, Zenon DEF RowsOfB

\* A row of A that is fetched for the tile is a row of the tile.
LEMMA RowOfA ==
  ASSUME Types, Shaped, dma.k = len.k, dma.dimK = csr.k,
         dma.aBase = pos.m * csr.k + pos.k,
         dma.a < len.m, RowsOfA(fill.a, dma.a)
  PROVE  RowsOfA([fill.a EXCEPT ![dma.a] = RowA], dma.a + 1)
<1>1. fill.a \in [Row -> [Col -> Nat]] /\ dma.a \in Nat
  BY Numbers DEF Shaped, Tiles, Types, DmaTypes, Transfer
<1>2. dma.a \in Row /\ Below(len.k) \subseteq Col
  BY <1>1, Numbers, BelowNat DEF Row, Col
<1>3. (pos.m + dma.a) * csr.k = pos.m * csr.k + dma.a * csr.k
      /\ pos.m * csr.k \in Nat /\ dma.a * csr.k \in Nat
  <2>1. pos.m \in Nat /\ csr.k \in Nat /\ dma.a \in Nat
    BY <1>1, Numbers
  <2> QED BY <2>1, Distributes, ProductNat
<1>4. \A t \in Below(len.k) : RowA[t] = (pos.m + dma.a) * csr.k + pos.k + t + 1
  <2> SUFFICES ASSUME NEW t \in Below(len.k)
               PROVE  RowA[t] = (pos.m + dma.a) * csr.k + pos.k + t + 1
    OBVIOUS
  <2>1. t < dma.k /\ t \in Col
    BY <1>2, Numbers, BelowNat
  <2>2. RowA[t] = pos.m * csr.k + pos.k + dma.a * csr.k + t + 1
    BY <2>1 DEF RowA
  <2> QED BY <1>3, <2>2, Numbers
<1>5. \A i \in Below(dma.a), t \in Below(len.k) :
        [fill.a EXCEPT ![dma.a] = RowA][i][t] = fill.a[i][t]
  BY <1>1, <1>2, BelowNat
<1>6. \A t \in Below(len.k) :
        [fill.a EXCEPT ![dma.a] = RowA][dma.a][t] = (pos.m + dma.a) * csr.k + pos.k + t + 1
  BY <1>1, <1>2, <1>4
<1> QED BY <1>1, <1>5, <1>6, OneMoreA

\* A burst of the DMA is the row of B the tile needs.
LEMMA RowOfB ==
  ASSUME Types, Shaped, dma.n = len.n, dma.dimN = csr.n,
         dma.bBase = pos.k * csr.n + pos.n,
         dma.b < len.k, RowsOfB(fill.b, dma.b)
  PROVE  RowsOfB([fill.b EXCEPT ![dma.b] = RowB], dma.b + 1)
<1>1. fill.b \in [Col -> [Row -> Nat]] /\ dma.b \in Nat
  BY Numbers DEF Shaped, Tiles, Types, DmaTypes, Transfer
<1>2. dma.b \in Col /\ Below(len.n) \subseteq Row
  BY <1>1, Numbers, BelowNat DEF Row, Col
<1>3. (pos.k + dma.b) * csr.n = pos.k * csr.n + dma.b * csr.n
      /\ pos.k * csr.n \in Nat /\ dma.b * csr.n \in Nat
  <2>1. pos.k \in Nat /\ csr.n \in Nat /\ dma.b \in Nat
    BY <1>1, Numbers
  <2> QED BY <2>1, Distributes, ProductNat
<1>4. \A j \in Below(len.n) : RowB[j] = (pos.k + dma.b) * csr.n + pos.n + j + 1
  <2> SUFFICES ASSUME NEW j \in Below(len.n)
               PROVE  RowB[j] = (pos.k + dma.b) * csr.n + pos.n + j + 1
    OBVIOUS
  <2>1. j < dma.n /\ j \in Row
    BY <1>2, Numbers, BelowNat
  <2>2. RowB[j] = pos.k * csr.n + pos.n + dma.b * csr.n + j + 1
    BY <2>1 DEF RowB
  <2> QED BY <1>3, <2>2, Numbers
<1>5. \A t \in Below(dma.b), j \in Below(len.n) :
        [fill.b EXCEPT ![dma.b] = RowB][t][j] = fill.b[t][j]
  BY <1>1, <1>2, BelowNat
<1>6. \A j \in Below(len.n) :
        [fill.b EXCEPT ![dma.b] = RowB][dma.b][j] = (pos.k + dma.b) * csr.n + pos.n + j + 1
  BY <1>1, <1>2, <1>4
<1> QED BY <1>1, <1>5, <1>6, OneMoreB

\* What a cycle of the DMA does to the tile it fetches.
LEMMA FetchesRight ==
  ASSUME Types, Shaped, Loaded, st = "FILL", dma.st = "AB",
         NEW a \in BOOLEAN, NEW b \in BOOLEAN, FetchRows(a, b)
  PROVE  \/ /\ dma' = [dma EXCEPT !.st = "IDLE"] /\ dmaDone' = "ab"
            /\ RowsOfA(fill'.a, len.m) /\ RowsOfB(fill'.b, len.k)
         \/ /\ dmaDone' = "none"
            /\ dma' = [dma EXCEPT !.a = dma'.a, !.b = dma'.b]
            /\ dma'.a <= len.m /\ dma'.b <= len.k
            /\ RowsOfA(fill'.a, dma'.a) /\ RowsOfB(fill'.b, dma'.b)
<1>1. /\ dma.m = len.m /\ dma.n = len.n /\ dma.k = len.k
      /\ dma.dimN = csr.n /\ dma.dimK = csr.k
      /\ dma.aBase = pos.m * csr.k + pos.k
      /\ dma.bBase = pos.k * csr.n + pos.n
      /\ dma.a <= len.m /\ dma.b <= len.k
      /\ RowsOfA(fill.a, dma.a) /\ RowsOfB(fill.b, dma.b)
  BY DEF Loaded
<1>2. dma.a \in Nat /\ dma.b \in Nat /\ dma \in Transfer
  BY Numbers DEF Types, DmaTypes, Transfer
<1>3. fill = [a |-> fill.a, b |-> fill.b]
  BY DEF Shaped, Tiles
<1> DEFINE ra == a /\ dma.a < dma.m
           rb == b /\ dma.b < dma.k
           x == IF ra THEN [fill.a EXCEPT ![dma.a] = RowA] ELSE fill.a
           y == IF rb THEN [fill.b EXCEPT ![dma.b] = RowB] ELSE fill.b
           na == IF ra THEN dma.a + 1 ELSE dma.a
           nb == IF rb THEN dma.b + 1 ELSE dma.b
<1>4. fill' = [a |-> x, b |-> y]
  BY DEF FetchRows
<1>5. IF Fetched THEN dma' = [dma EXCEPT !.st = "IDLE"] /\ dmaDone' = "ab"
      ELSE dma' = [dma EXCEPT !.a = na, !.b = nb] /\ dmaDone' = "none"
  BY DEF FetchRows
<1>6. RowsOfA(x, na) /\ na <= len.m
  <2>1. CASE ra
    <3>1. dma.a < len.m
      BY <1>1, <2>1
    <3>2. RowsOfA([fill.a EXCEPT ![dma.a] = RowA], dma.a + 1)
      BY <1>1, <3>1, RowOfA
    <3>3. dma.a + 1 <= len.m
      BY <1>2, <3>1, Numbers
    <3> QED BY <2>1, <3>2, <3>3
  <2>2. CASE ~ra
    BY <1>1, <2>2
  <2> QED BY <2>1, <2>2
<1>7. RowsOfB(y, nb) /\ nb <= len.k
  <2>1. CASE rb
    <3>1. dma.b < len.k
      BY <1>1, <2>1
    <3>2. RowsOfB([fill.b EXCEPT ![dma.b] = RowB], dma.b + 1)
      BY <1>1, <3>1, RowOfB
    <3>3. dma.b + 1 <= len.k
      BY <1>2, <3>1, Numbers
    <3> QED BY <2>1, <3>2, <3>3
  <2>2. CASE ~rb
    BY <1>1, <2>2
  <2> QED BY <2>1, <2>2
<1>8. Fetched => na = len.m /\ nb = len.k
  BY <1>1, <1>2, Numbers DEF Fetched
<1>9. fill'.a = x /\ fill'.b = y
  BY <1>4
<1> HIDE DEF x, y, na, nb
<1>10. CASE Fetched
  BY <1>5, <1>6, <1>7, <1>8, <1>9, <1>10
<1>11. CASE ~Fetched
  <2>1. dma'.a = na /\ dma'.b = nb
    BY <1>2, <1>5, <1>11 DEF Transfer
  <2> QED BY <1>5, <1>6, <1>7, <1>9, <1>11, <2>1
<1> QED BY <1>10, <1>11

\* The tile of the FSM stays while it is fetched and used.
LEMMA SameTile ==
  ASSUME Types, Unmet, Turn, Csr, Top, st # "IDLE", st # "NEXT", st # "DONE",
         st = "COMPUTE" => st' # "FILL"
  PROVE  pos' = pos /\ len' = len /\ clear' = clear /\ ping' = ping /\ csr' = csr
<1>1. st \in {"FILL", "ARM", "COMPUTE", "STORE"}
  BY DEF Types, TopTypes
<1> QED BY <1>1, WalkMoves, JobFrame

\* The DMA fetches the tile, and the FSM moves it to the half in use.
LEMMA LoadedStep ==
  ASSUME Types, Unmet, Turn, Turn', Shaped, Loaded, Csr, Top,
         NEW a \in BOOLEAN, NEW b \in BOOLEAN, Dma(a, b)
  PROVE  Loaded'
<1>1. CASE st' \notin {"FILL", "ARM", "COMPUTE"}
  BY <1>1 DEF Loaded
<1>2. CASE st' = "FILL" /\ st # "FILL"
  <2>1. cmd' = {"start_ab"}
    BY <1>2, TopMoves DEF Types, TopTypes
  <2>2. dma'.st = "IDLE" /\ dmaDone' = "none"
    BY <1>2, <2>1 DEF Turn, DmaTurn, DmaRests
  <2> QED BY <1>2, <2>2 DEF Loaded
<1>3. CASE st' = "FILL" /\ st = "FILL"
  <2>1. pos' = pos /\ len' = len /\ csr' = csr /\ dmaDone # "ab"
    BY <1>3, SameTile, TopMoves
  <2>2. CASE cmd = {"start_ab"} /\ DmaRests
    <3>1. Fetch
      BY <2>2 DEF Dma, FetchRows, WriteBack, WriteRow, DmaIdle, DmaRests
    <3>2. /\ dma'.m = len.m /\ dma'.n = len.n /\ dma'.k = len.k
          /\ dma'.dimN = csr.n /\ dma'.dimK = csr.k
          /\ dma'.aBase = pos.m * csr.k + pos.k
          /\ dma'.bBase = pos.k * csr.n + pos.n
          /\ dma'.a = 0 /\ dma'.b = 0 /\ dmaDone' = "none"
      BY <3>1 DEF Fetch
    <3>3. 0 <= len.m /\ 0 <= len.k
      BY Numbers
    <3>4. \A x : RowsOfA(x, 0) /\ RowsOfB(x, 0)
      BY DEF RowsOfA, RowsOfB, Below
    <3>5. RowsOfA(fill'.a, dma'.a) /\ RowsOfB(fill'.b, dma'.b)
      BY <3>2, <3>4
    <3>6. RowsOfA(fill.a, dma.a)' /\ RowsOfB(fill.b, dma.b)'
      BY <2>1, <3>5 DEF RowsOfA, RowsOfB
    <3> QED BY <1>3, <2>1, <3>2, <3>3, <3>6 DEF Loaded
  <2>3. CASE dma.st = "AB"
    <3>1. FetchRows(a, b)
      BY <2>3 DEF Dma, Fetch, WriteBack, WriteRow, DmaIdle
    <3>2. \/ /\ dma' = [dma EXCEPT !.st = "IDLE"] /\ dmaDone' = "ab"
             /\ RowsOfA(fill'.a, len.m) /\ RowsOfB(fill'.b, len.k)
          \/ /\ dmaDone' = "none"
             /\ dma' = [dma EXCEPT !.a = dma'.a, !.b = dma'.b]
             /\ dma'.a <= len.m /\ dma'.b <= len.k
             /\ RowsOfA(fill'.a, dma'.a) /\ RowsOfB(fill'.b, dma'.b)
      BY <1>3, <2>3, <3>1, FetchesRight
    <3>3. CASE /\ dma' = [dma EXCEPT !.st = "IDLE"] /\ dmaDone' = "ab"
               /\ RowsOfA(fill'.a, len.m) /\ RowsOfB(fill'.b, len.k)
      <4>1. dma'.st = "IDLE"
        BY <3>3 DEF Types, DmaTypes, Transfer
      <4>2. Whole(fill)'
        BY <2>1, <3>3 DEF Whole, RowsOfA, RowsOfB
      <4> QED BY <1>3, <4>1, <4>2 DEF Loaded
    <3>4. CASE /\ dmaDone' = "none"
               /\ dma' = [dma EXCEPT !.a = dma'.a, !.b = dma'.b]
               /\ dma'.a <= len.m /\ dma'.b <= len.k
               /\ RowsOfA(fill'.a, dma'.a) /\ RowsOfB(fill'.b, dma'.b)
      <4>1. /\ dma'.m = dma.m /\ dma'.n = dma.n /\ dma'.k = dma.k
            /\ dma'.dimN = dma.dimN /\ dma'.dimK = dma.dimK
            /\ dma'.aBase = dma.aBase /\ dma'.bBase = dma.bBase
        BY <3>4 DEF Types, DmaTypes, Transfer
      <4>2. RowsOfA(fill.a, dma.a)' /\ RowsOfB(fill.b, dma.b)'
        BY <2>1, <3>4 DEF RowsOfA, RowsOfB
      <4> QED BY <1>3, <2>1, <2>3, <3>4, <4>1, <4>2 DEF Loaded
    <3> QED BY <3>2, <3>3, <3>4
  <2> QED BY <1>3, <2>1, <2>2, <2>3 DEF Turn, DmaTurn
<1>4. CASE st' \in {"ARM", "COMPUTE"}
  <2>1. st \in {"FILL", "ARM", "COMPUTE"}
    BY <1>4, TopMoves DEF Types, TopTypes
  <2>2. pos' = pos /\ len' = len /\ csr' = csr /\ ping' = ping
    BY <1>4, <2>1, SameTile
  <2>3. Whole(buf'[ping])
    <3>1. CASE st = "FILL"
      <4>1. dmaDone = "ab"
        BY <1>4, <3>1, TopMoves
      <4>2. buf' = [buf EXCEPT ![ping] = fill] /\ Whole(fill)
        BY <3>1, <4>1, WalkMoves DEF Loaded
      <4>3. buf'[ping] = fill
        BY <4>2 DEF Shaped, Types, TopTypes
      <4> QED BY <4>2, <4>3
    <3>2. CASE st \in {"ARM", "COMPUTE"}
      BY <3>2, WalkMoves DEF Loaded
    <3> QED BY <2>1, <3>1, <3>2
  <2>4. Whole(buf[ping])'
    BY <2>2, <2>3 DEF Whole, RowsOfA, RowsOfB
  <2> QED BY <1>4, <2>4 DEF Loaded
<1> QED BY <1>1, <1>2, <1>3, <1>4

-----------------------------------------------------------------------------
(* The array sums the products of a tile.                                  *)

\* One product more.
LEMMA DotGrows ==
  ASSUME NEW i \in Nat, NEW j \in Nat, NEW q \in Nat, csr.k \in Nat, csr.n \in Nat
  PROVE  Dot(i, j, q) \o << <<i * csr.k + (q + 1), q * csr.n + j + 1>> >>
           = Dot(i, j, q + 1)
<1> DEFINE f == [k \in Nat |-> <<i * csr.k + k, (k - 1) * csr.n + j + 1>>]
<1>1. f \in [Nat -> Int \X Int]
  <2>1. \A x \in Int, y \in Nat : x * y \in Int
    OBVIOUS
  <2>2. \A k \in Nat : i * csr.k + k \in Int /\ (k - 1) * csr.n + j + 1 \in Int
    BY <2>1
  <2> QED BY <2>2
<1>2. \A p \in Nat : Dot(i, j, p) = [k \in 1..p |-> f[k]]
  BY DEF Dot
<1>3. f[q + 1] = <<i * csr.k + (q + 1), q * csr.n + j + 1>>
  <2>1. q + 1 \in Nat /\ q + 1 - 1 = q
    OBVIOUS
  <2> QED BY <2>1
<1> HIDE DEF f
<1>4. [k \in 1..q |-> f[k]] \o <<f[q + 1]>> = [k \in 1..(q + 1) |-> f[k]]
  BY <1>1, Longer
<1>5. q + 1 \in Nat
  OBVIOUS
<1>6. Dot(i, j, q + 1) = [k \in 1..(q + 1) |-> f[k]]
  BY <1>2, <1>5
<1>7. Dot(i, j, q) = [k \in 1..q |-> f[k]]
  BY <1>2
<1> QED BY <1>3, <1>4, <1>6, <1>7

\* No products yet.
LEMMA DotEmpty == \A i, j : Dot(i, j, 0) = <<>>
BY DEF Dot

\* The first product, into a sum that is cleared.
LEMMA DotFirst ==
  ASSUME NEW i \in Nat, NEW j \in Nat, csr.k \in Nat, csr.n \in Nat
  PROVE  << <<i * csr.k + 1, j + 1>> >> = Dot(i, j, 1)
<1> DEFINE x == <<i * csr.k + (0 + 1), 0 * csr.n + j + 1>>
<1>1. Dot(i, j, 0) \o <<x>> = Dot(i, j, 0 + 1)
  BY DotGrows
<1>2. x = <<i * csr.k + 1, j + 1>>
  OBVIOUS
<1> HIDE DEF x
<1>3. <<>> \o <<x>> = <<x>>
  OBVIOUS
<1> QED BY <1>1, <1>2, <1>3, DotEmpty

\* Nothing happens to the sums in an array without operands.
LEMMA QuietStep ==
  ASSUME Array, \A s \in Stages : Quiet(pipe[s]), dp.st # "RUN", MulLat \in Nat
  PROVE  /\ (\A s \in Stages : Quiet(pipe[s]))'
         /\ \A i, j \in Row : acc'[i][j] = acc[i][j]
<1>1. MulLat + 2 \in Stages
  BY DEF Stages
<1>2. \A i, j \in Row : acc'[i][j] = acc[i][j]
  BY <1>1 DEF Array, Quiet
<1>3. Quiet(Step)
  BY DEF Step, Bubble, Quiet
<1>4. \A s \in Stages : s # 1 => s - 1 \in Stages
  BY DEF Stages
<1>5. \A s \in Stages : pipe'[s] = IF s = 1 THEN Step ELSE pipe[s - 1]
  BY DEF Array
<1>6. \A s \in Stages : Quiet(pipe'[s])
  BY <1>3, <1>4, <1>5
<1> QED BY <1>2, <1>6 DEF Quiet, Stages

\* The first operands of a tile clear the sums, if the tile does.
LEMMA OperandsClear ==
  ASSUME NEW k
  PROVE  Operands(k).en /\ (Operands(k).clear <=> k = 0 /\ dp.clear)
<1> DEFINE bit == k = 0 /\ dp.clear
<1>1. bit \in BOOLEAN
  OBVIOUS
<1>2. Operands(k) = [en |-> TRUE, clear |-> bit,
                     a |-> [i \in Row |-> buf[ping].a[i][k]],
                     b |-> buf[ping].b[k]]
  BY DEF Operands
<1> HIDE DEF bit
<1>3. Operands(k).clear = bit /\ Operands(k).en = TRUE
  BY <1>1, <1>2
<1>4. Operands(k).clear <=> bit
  BY <1>1, <1>3, Zenon
<1> QED BY <1>3, <1>4 DEF bit

\* The operands that leave the array are the next of the sums.
NextLeft == IF Entered + 1 <= Depth THEN 0
            ELSE IF Entered + 1 - Depth > len.k THEN len.k ELSE Entered + 1 - Depth

\* The sums grow by the product that leaves the array.
LEMMA SumStep ==
  ASSUME Types, Walk, Loaded, st = "COMPUTE", Stream, Array,
         NEW i \in Below(len.m), NEW j \in Below(len.n), pos.k + NextLeft > 0
  PROVE  acc'[i][j] = Dot(pos.m + i, pos.n + j, pos.k + NextLeft)
<1>1. /\ csr.m \in Nat /\ csr.n \in Nat /\ csr.k \in Nat
      /\ pos.m \in Nat /\ pos.n \in Nat /\ pos.k \in Nat
      /\ len.m \in Nat /\ len.n \in Nat /\ len.k \in Nat /\ MulLat \in Nat
  BY Numbers
<1>2. len.k > 0
  BY TileHere DEF Working
<1>3. Entered \in Nat /\ Depth \in Nat /\ Depth = MulLat + 2
  BY <1>1 DEF Entered, Depth, Types, DpTypes, Sequencer
<1>4. i \in Nat /\ j \in Nat /\ i \in Row /\ j \in Row
  BY <1>1, BelowNat, Numbers DEF Row
<1>5. Depth \in Stages
  BY <1>1 DEF Depth, Stages
<1> DEFINE out == pipe[Depth]
           q == pos.k + Left
<1>6. acc'[i][j] = IF out.clear THEN Product(out.a[i], out.b[j])
                   ELSE IF out.en THEN acc[i][j] \o Product(out.a[i], out.b[j])
                   ELSE acc[i][j]
  BY <1>4 DEF Array, Depth
<1>7. q > 0 => acc[i][j] = Dot(pos.m + i, pos.n + j, q)
  BY DEF Stream, Sums
<1>8. q \in Nat
  BY <1>1, <1>2, <1>3 DEF Left
<1>9. CASE Depth <= Entered /\ Entered - Depth < len.k
  <2>1. Left = Entered - Depth /\ NextLeft = Left + 1 /\ Left \in Nat
    BY <1>1, <1>2, <1>3, <1>9 DEF Left, NextLeft
  <2>2. out = Operands(Left)
    BY <1>5, <1>9, <2>1 DEF Stream
  <2>3. Left \in Below(len.k)
    BY <1>1, <1>9, <2>1, BelowNat
  <2>4. Whole(buf[ping])
    BY DEF Loaded
  <2>5. /\ out.a[i] = (pos.m + i) * csr.k + pos.k + Left + 1
        /\ out.b[j] = (pos.k + Left) * csr.n + pos.n + j + 1
    <3>1. out.a[i] = buf[ping].a[i][Left] /\ out.b[j] = buf[ping].b[Left][j]
      BY <1>4, <2>2 DEF Operands
    <3> QED BY <2>3, <2>4, <3>1 DEF Whole, RowsOfA, RowsOfB
  <2>6. /\ (pos.m + i) * csr.k \in Nat /\ q * csr.n \in Nat
        /\ pos.m + i \in Nat /\ pos.n + j \in Nat
    BY <1>1, <1>4, <1>8, ProductNat
  <2>7. /\ out.a[i] = (pos.m + i) * csr.k + (q + 1)
        /\ out.b[j] = q * csr.n + (pos.n + j) + 1
    BY <1>1, <1>4, <2>1, <2>5, <2>6
  <2>8. out.a[i] # 0 /\ out.b[j] # 0
    BY <1>1, <1>4, <1>8, <2>6, <2>7
  <2>9. Product(out.a[i], out.b[j]) = << <<out.a[i], out.b[j]>> >>
    BY <2>8 DEF Product
  <2>10. pos.k + NextLeft = q + 1
    BY <1>1, <2>1
  <2>11. CASE q = 0
    <3>1. out.clear
      <4>1. Left = 0 /\ pos.k = 0
        BY <1>1, <2>1, <2>11
      <4>2. dp.clear = TRUE
        BY <4>1 DEF Stream, Walk, Working
      <4> QED BY <2>2, <4>1, <4>2, OperandsClear, Zenon
    <3>2. out.a[i] = (pos.m + i) * csr.k + 1 /\ out.b[j] = (pos.n + j) + 1
      BY <1>1, <1>4, <2>6, <2>7, <2>11
    <3>3. << <<out.a[i], out.b[j]>> >> = Dot(pos.m + i, pos.n + j, 1)
      BY <1>1, <2>6, <3>2, DotFirst
    <3>4. pos.k + NextLeft = 1
      BY <2>10, <2>11
    <3> QED BY <1>6, <2>9, <3>1, <3>3, <3>4
  <2>12. CASE q # 0
    <3>1. ~out.clear /\ out.en
      <4>1. Left = 0 => pos.k # 0
        BY <1>1, <2>1, <2>12
      <4>2. Left = 0 => ~dp.clear
        BY <4>1 DEF Stream, Walk, Working
      <4> QED BY <2>2, <4>2, OperandsClear, Zenon
    <3>2. acc[i][j] = Dot(pos.m + i, pos.n + j, q)
      BY <1>7, <1>8, <2>12
    <3>3. acc'[i][j] = Dot(pos.m + i, pos.n + j, q)
                         \o << <<(pos.m + i) * csr.k + (q + 1),
                                 q * csr.n + (pos.n + j) + 1>> >>
      BY <1>6, <2>7, <2>9, <3>1, <3>2
    <3>4. acc'[i][j] = Dot(pos.m + i, pos.n + j, q + 1)
      <4> HIDE DEF q
      <4> QED BY <1>1, <1>8, <2>6, <3>3, DotGrows
    <3> QED BY <2>10, <3>4
  <2> QED BY <2>11, <2>12
<1>10. CASE ~(Depth <= Entered /\ Entered - Depth < len.k)
  <2>1. NextLeft = Left
    BY <1>1, <1>2, <1>3, <1>10 DEF Left, NextLeft
  <2>2. Quiet(out)
    BY <1>5, <1>10 DEF Stream
  <2> QED BY <1>6, <1>7, <2>1, <2>2 DEF Quiet
<1> QED BY <1>9, <1>10

\* The sequencer counts the steps that enter the array, and then those it
\* takes to drain it.
LEMMA Counts ==
  ASSUME Types, Stream, Datapath, dp.st # "IDLE", len' = len
  PROVE  /\ Entered' = Entered + 1
         /\ dp'.len = dp.len /\ dp'.clear = dp.clear
         /\ dp'.st = "RUN" => dp'.k < len.k
         /\ dp'.st = "DRAIN" => dp'.k <= MulLat
<1>1. dp \in Sequencer /\ dp.k \in Nat /\ dp.len \in Nat /\ MulLat \in Nat \ {0}
  BY Numbers DEF Types, DpTypes, Sequencer
<1>2. dp.len = len.k /\ len.k \in Nat
  BY Numbers DEF Stream
<1>3. CASE dp.st = "RUN"
  <2>1. dp.k < len.k /\ Entered = dp.k
    BY <1>3 DEF Stream, Entered
  <2>2. dp' = IF dp.k + 1 >= dp.len THEN [dp EXCEPT !.st = "DRAIN", !.k = 0]
              ELSE [dp EXCEPT !.k = dp.k + 1]
    BY <1>3 DEF Datapath
  <2>3. CASE dp.k + 1 >= dp.len
    <3>1. /\ dp'.st = "DRAIN" /\ dp'.k = 0
          /\ dp'.len = dp.len /\ dp'.clear = dp.clear
      BY <1>1, <2>2, <2>3 DEF Sequencer
    <3>2. Entered' = dp'.len
      BY <1>1, <3>1 DEF Entered
    <3> QED BY <1>1, <1>2, <2>1, <2>3, <3>1, <3>2
  <2>4. CASE ~(dp.k + 1 >= dp.len)
    <3>1. /\ dp'.st = "RUN" /\ dp'.k = dp.k + 1
          /\ dp'.len = dp.len /\ dp'.clear = dp.clear
      BY <1>1, <1>3, <2>2, <2>4 DEF Sequencer
    <3>2. Entered' = dp'.k
      BY <3>1 DEF Entered
    <3> QED BY <1>1, <1>2, <2>1, <2>4, <3>1, <3>2
  <2> QED BY <2>3, <2>4
<1>4. CASE dp.st = "DRAIN"
  <2>1. dp.k <= MulLat /\ Entered = dp.len + dp.k /\ Drain - 1 = MulLat
    BY <1>1, <1>4 DEF Stream, Entered, Drain
  <2>2. dp' = IF dp.k >= MulLat THEN [dp EXCEPT !.st = "IDLE", !.k = 0]
              ELSE [dp EXCEPT !.k = dp.k + 1]
    BY <1>4, <2>1 DEF Datapath
  <2>3. CASE dp.k >= MulLat
    <3>1. /\ dp'.st = "IDLE" /\ dp'.len = dp.len /\ dp'.clear = dp.clear
      BY <1>1, <2>2, <2>3 DEF Sequencer
    <3>2. Entered' = dp'.len + MulLat + 1
      BY <3>1 DEF Entered
    <3> QED BY <1>1, <2>1, <2>3, <3>1, <3>2
  <2>4. CASE ~(dp.k >= MulLat)
    <3>1. /\ dp'.st = "DRAIN" /\ dp'.k = dp.k + 1
          /\ dp'.len = dp.len /\ dp'.clear = dp.clear
      BY <1>1, <1>4, <2>2, <2>4 DEF Sequencer
    <3>2. Entered' = dp'.len + dp'.k
      BY <3>1 DEF Entered
    <3> QED BY <1>1, <2>1, <2>4, <3>1, <3>2
  <2> QED BY <2>3, <2>4
<1> QED BY <1>1, <1>3, <1>4 DEF Sequencer

\* The operands move on in the array.
LEMMA PipeMoves ==
  ASSUME Types, Walk, st = "COMPUTE", Stream, Array, NEW s \in Stages,
         NEW e, e = Entered + 1
  PROVE  IF s <= e /\ e - s < len.k
         THEN pipe'[s] = Operands(e - s) ELSE Quiet(pipe'[s])
<1>1. /\ len.k \in Nat /\ len.k > 0 /\ MulLat \in Nat /\ s \in Nat /\ dp.k \in Nat
  BY Numbers, TileHere DEF Working, Stages, Types, DpTypes, Sequencer
<1>2. Entered \in Nat
  BY <1>1 DEF Entered, Types, DpTypes, Sequencer
<1>3. pipe'[s] = IF s = 1 THEN Step ELSE pipe[s - 1]
  BY DEF Array
<1>4. CASE s = 1
  <2>1. CASE dp.st = "RUN"
    <3>1. Entered = dp.k /\ dp.k < len.k
      BY <2>1 DEF Entered, Stream
    <3>2. Step = Operands(dp.k)
      BY <2>1, Zenon DEF Step, Operands
    <3>3. e - s = dp.k /\ s <= e
      BY <1>1, <1>4, <3>1
    <3> QED BY <1>3, <1>4, <3>1, <3>2, <3>3
  <2>2. CASE dp.st # "RUN"
    <3>1. Entered >= len.k
      BY <1>1, <2>2 DEF Entered, Stream, Types, DpTypes, Sequencer
    <3>2. ~(e - s < len.k)
      BY <1>1, <1>2, <1>4, <3>1
    <3>3. Quiet(Step)
      BY <2>2 DEF Step, Bubble, Quiet
    <3> QED BY <1>3, <1>4, <3>2, <3>3
  <2> QED BY <2>1, <2>2
<1>5. CASE s # 1
  <2>1. s - 1 \in Stages
    BY <1>1, <1>5 DEF Stages
  <2>2. IF s - 1 <= Entered /\ Entered - (s - 1) < len.k
        THEN pipe[s - 1] = Operands(Entered - (s - 1)) ELSE Quiet(pipe[s - 1])
    BY <2>1 DEF Stream
  <2>3. Entered - (s - 1) = e - s /\ (s - 1 <= Entered <=> s <= e)
    BY <1>1, <1>2
  <2> QED BY <1>3, <1>5, <2>2, <2>3
<1> QED BY <1>4, <1>5

\* One cycle of the array while a tile is in it.
LEMMA StreamStep ==
  ASSUME Types, Unmet, Turn, Walk, Loaded, Stream, Csr, Top, Datapath, Array,
         st = "COMPUTE", st' = "COMPUTE", dp.st # "IDLE"
  PROVE  Stream'
<1>1. /\ pos' = pos /\ len' = len /\ clear' = clear /\ ping' = ping
      /\ csr' = csr /\ buf' = buf
  BY SameTile, WalkMoves
<1>2. /\ Entered' = Entered + 1
      /\ dp'.len = dp.len /\ dp'.clear = dp.clear
      /\ dp'.st = "RUN" => dp'.k < len.k
      /\ dp'.st = "DRAIN" => dp'.k <= MulLat
  BY <1>1, Counts
<1>3. dp'.len = len'.k /\ dp'.clear = clear'
  BY <1>1, <1>2 DEF Stream
<1>4. Entered \in Nat /\ len.k \in Nat /\ MulLat \in Nat
  BY Numbers DEF Entered, Types, DpTypes, Sequencer
<1>5. ASSUME NEW s \in Stages
      PROVE  (IF s <= Entered /\ Entered - s < len.k
              THEN pipe[s] = Operands(Entered - s) ELSE Quiet(pipe[s]))'
  <2>1. IF s <= Entered' /\ Entered' - s < len'.k
        THEN pipe'[s] = Operands(Entered' - s) ELSE Quiet(pipe'[s])
    <3>1. Entered' = Entered + 1 /\ len' = len
      BY <1>1, <1>2
    <3>2. \A e : e = Entered + 1 => IF s <= e /\ e - s < len.k
                THEN pipe'[s] = Operands(e - s) ELSE Quiet(pipe'[s])
      BY PipeMoves
    <3> QED BY <3>1, <3>2
  <2> QED BY <1>1, <1>2, <2>1 DEF Operands, Quiet
<1>6. Left' = NextLeft
  BY <1>1, <1>2, <1>4 DEF Left, NextLeft, Depth
<1>7. Sums(pos.k + Left)'
  <2>1. ASSUME pos.k + NextLeft > 0,
               NEW i \in Below(len.m), NEW j \in Below(len.n)
        PROVE  acc'[i][j] = Dot(pos.m + i, pos.n + j, pos.k + NextLeft)
    BY <2>1, SumStep
  <2> QED BY <1>1, <1>6, <2>1 DEF Sums, Dot, Below
<1>8. (\A s \in Stages : IF s <= Entered /\ Entered - s < len.k
                        THEN pipe[s] = Operands(Entered - s) ELSE Quiet(pipe[s]))'
  BY <1>5
<1> QED BY <1>1, <1>2, <1>3, <1>7, <1>8 DEF Stream

\* When the sequencer is done, the last product leaves the array.
LEMMA StreamEnds ==
  ASSUME Types, Walk, Loaded, st = "COMPUTE", Stream, Array, dp.st = "IDLE"
  PROVE  /\ \A s \in Stages : Quiet(pipe'[s])
         /\ \A i \in Below(len.m), j \in Below(len.n) :
              acc'[i][j] = Dot(pos.m + i, pos.n + j, pos.k + len.k)
<1>1. /\ len.k \in Nat /\ len.k > 0 /\ MulLat \in Nat /\ pos.k \in Nat
  BY Numbers, TileHere DEF Working
<1>2. Entered = len.k + MulLat + 1
  BY DEF Entered, Stream
<1>3. NextLeft = len.k
  BY <1>1, <1>2 DEF NextLeft, Depth
<1>4. ASSUME NEW s \in Stages PROVE Quiet(pipe'[s])
  <2> DEFINE e == len.k + MulLat + 2
  <2>1. e = Entered + 1
    BY <1>1, <1>2
  <2>2. ~(e - s < len.k)
    BY <1>1 DEF Stages
  <2> HIDE DEF e
  <2> QED BY <2>1, <2>2, PipeMoves
<1>5. pos.k + NextLeft > 0
  BY <1>1, <1>3
<1>6. \A i \in Below(len.m), j \in Below(len.n) :
        acc'[i][j] = Dot(pos.m + i, pos.n + j, pos.k + NextLeft)
  BY <1>5, SumStep
<1> QED BY <1>3, <1>4, <1>6

\* Before a tile enters the array, nothing is in it.
LEMMA StreamBegins ==
  ASSUME Types, Types', MulLat \in Nat, len.k > 0, UNCHANGED <<pos, len, clear, csr>>,
         dp' = [st |-> "RUN", k |-> 0, len |-> len.k, clear |-> clear],
         \A s \in Stages : Quiet(pipe'[s]), Sums(pos.k),
         \A i, j \in Row : acc'[i][j] = acc[i][j]
  PROVE  Stream'
<1>1. dp'.st = "RUN" /\ dp'.k = 0 /\ dp'.len = len.k /\ dp'.clear = clear
  OBVIOUS
<1>2. Entered' = 0
  BY <1>1 DEF Entered
<1>3. Left' = 0
  BY <1>2 DEF Left, Depth
<1>4. pos.k + 0 = pos.k /\ Below(len.m) \subseteq Row /\ Below(len.n) \subseteq Row
  BY Numbers, BelowNat DEF Row
<1>5. Sums(pos.k + Left)'
  BY <1>3, <1>4 DEF Sums, Dot, Below
<1>6. (\A s \in Stages : IF s <= Entered /\ Entered - s < len.k
                        THEN pipe[s] = Operands(Entered - s) ELSE Quiet(pipe[s]))'
  BY <1>2 DEF Stages, Quiet
<1> QED BY <1>1, <1>5, <1>6 DEF Stream

\* From tile to tile the sums are kept, cleared or stored.
LEMMA SummedStep ==
  ASSUME Types, Types', Unmet, Turn, Turn', Walk, Walk', Loaded, Summed,
         Csr, Top, Datapath, Array
  PROVE  Summed'
<1>1. MulLat \in Nat /\ Below(len.m) \subseteq Row /\ Below(len.n) \subseteq Row
  BY Numbers, BelowNat DEF Row
<1>2. CASE ~Streaming
  <2>1. dp.st = "IDLE"
    BY <1>2 DEF Turn, DpTurn, DpRests, Streaming
  <2>2. /\ \A s \in Stages : Quiet(pipe'[s])
        /\ \A i, j \in Row : acc'[i][j] = acc[i][j]
    BY <1>1, <1>2, <2>1, QuietStep DEF Summed, Quiet
  <2>3. CASE st = "COMPUTE"
    <3>1. cmd = {"start_dp"} /\ dpDone = FALSE
      BY <1>2, <2>3 DEF Turn, DpTurn, DpRests, Streaming
    <3>2. st' = "COMPUTE" /\ cmd' = {}
      BY <2>3, <3>1, TopMoves
    <3>3. pos' = pos /\ len' = len /\ clear' = clear /\ csr' = csr
      BY <2>3, <3>2, SameTile
    <3>4. dp' = [st |-> "RUN", k |-> 0, len |-> len.k, clear |-> clear]
      BY <2>1, <3>1 DEF Datapath
    <3>5. Sums(pos.k) /\ len.k > 0
      BY <1>2, <2>3, TileHere DEF Summed, Working
    <3>6. Stream'
      BY <1>1, <2>2, <3>3, <3>4, <3>5, StreamBegins
    <3> QED BY <3>2, <3>6 DEF Summed, Streaming
  <2>4. CASE st # "COMPUTE"
    <3>1. ~Streaming'
      BY <2>4, TopMoves DEF Streaming, Types, TopTypes
    <3>2. CASE st' \in {"FILL", "ARM", "COMPUTE"}
      <4>1. st' # "STORE" /\ (Sums(pos.k)' => Summed')
        BY <2>2, <3>1, <3>2 DEF Summed, Quiet, Stages
      <4>2. CASE st \in {"IDLE", "NEXT", "DONE"}
        <5>1. pos'.k = 0
          <6>1. st' = "FILL" /\ st # "DONE"
            BY <3>2, <4>2, TopMoves
          <6>2. CASE st = "IDLE"
            BY <6>1, <6>2, WalkMoves DEF Zero3
          <6>3. CASE st = "NEXT"
            <7>1. \E x, y : pos' = [m |-> x, n |-> y, k |-> 0]
              BY <6>1, <6>3, WalkMoves
            <7> QED BY <7>1
          <6> QED BY <4>2, <6>1, <6>2, <6>3
        <5> QED BY <4>1, <5>1 DEF Sums
      <4>3. CASE st \in {"FILL", "ARM"}
        <5>1. pos' = pos /\ len' = len /\ csr' = csr
          BY <4>3, SameTile
        <5>2. Sums(pos.k)
          BY <4>3 DEF Summed
        <5>3. Sums(pos.k)'
          BY <1>1, <2>2, <5>1, <5>2 DEF Sums, Dot, Below
        <5> QED BY <4>1, <5>3
      <4>4. st # "STORE"
        BY <3>2, TopMoves
      <4> QED BY <2>4, <4>2, <4>3, <4>4 DEF Types, TopTypes
    <3>3. CASE st' = "STORE"
      <4>1. st = "STORE"
        BY <2>4, <3>3, TopMoves DEF Types, TopTypes
      <4>2. pos' = pos /\ len' = len /\ csr' = csr
        BY <4>1, SameTile
      <4>3. Sums(csr.k)
        BY <4>1 DEF Summed
      <4>4. Sums(csr.k)'
        BY <1>1, <2>2, <4>2, <4>3 DEF Sums, Dot, Below
      <4> QED BY <2>2, <3>1, <3>3, <4>4 DEF Summed, Quiet, Stages
    <3>4. CASE st' \notin {"FILL", "ARM", "COMPUTE", "STORE"}
      BY <2>2, <3>1, <3>4 DEF Summed, Quiet, Stages
    <3> QED BY <3>2, <3>3, <3>4
  <2> QED BY <2>3, <2>4
<1>3. CASE Streaming
  <2>1. st = "COMPUTE" /\ cmd = {} /\ Stream
    BY <1>3 DEF Streaming, Summed
  <2>2. CASE dp.st # "IDLE"
    <3>1. dpDone = FALSE
      BY <2>1, <2>2 DEF Turn, DpTurn
    <3>2. st' = "COMPUTE" /\ cmd' = {}
      BY <2>1, <3>1, TopMoves
    <3>3. Stream'
      BY <2>1, <2>2, <3>2, StreamStep
    <3> QED BY <3>2, <3>3 DEF Summed, Streaming
  <2>3. CASE dp.st = "IDLE"
    <3>1. dpDone = TRUE
      BY <2>1, <2>3 DEF Turn, DpTurn
    <3>2. st' \in {"FILL", "STORE"}
      BY <2>1, <3>1, TopMoves
    <3>3. /\ \A s \in Stages : Quiet(pipe'[s])
          /\ \A i \in Below(len.m), j \in Below(len.n) :
               acc'[i][j] = Dot(pos.m + i, pos.n + j, pos.k + len.k)
      BY <2>1, <2>3, StreamEnds
    <3>4. csr' = csr
      BY <2>1, JobFrame
    <3>5. CASE st' = "FILL"
      <4>1. /\ pos' = [pos EXCEPT !.k = pos.k + len.k]
            /\ len' = [len EXCEPT !.k = TileRem(csr.k, pos.k + len.k, KTile)]
        BY <2>1, <3>5, WalkMoves
      <4>2. /\ pos'.m = pos.m /\ pos'.n = pos.n /\ pos'.k = pos.k + len.k
            /\ len'.m = len.m /\ len'.n = len.n
        BY <4>1 DEF Types, TopTypes, Position, Size
      <4>3. Sums(pos.k)'
        BY <3>3, <3>4, <4>2 DEF Sums, Dot, Below
      <4> QED BY <3>3, <3>5, <4>3 DEF Summed, Streaming, Quiet, Stages
    <3>6. CASE st' = "STORE"
      <4>1. pos' = pos /\ len' = len
        BY <2>1, <3>6, SameTile
      <4>2. pos.k + len.k = csr.k
        BY <3>4, <3>6, <4>1 DEF Walk, Working
      <4>3. Sums(csr.k)'
        BY <3>3, <3>4, <4>1, <4>2 DEF Sums, Dot, Below
      <4> QED BY <3>3, <3>6, <4>3 DEF Summed, Streaming, Quiet, Stages
    <3> QED BY <3>2, <3>5, <3>6
  <2> QED BY <2>2, <2>3
<1> QED BY <1>2, <1>3

-----------------------------------------------------------------------------
(* The DMA writes the sums to C.                                           *)

\* The rows of a matrix do not reach beyond it.
LEMMA RowInside ==
  ASSUME NEW m \in Nat, NEW n \in Nat, NEW r \in Nat, r < m
  PROVE  r * n + n <= m * n
<1>1. PICK d \in Nat : m = r + 1 + d
  <2>1. m - (r + 1) \in Nat /\ m = r + 1 + (m - (r + 1))
    OBVIOUS
  <2> QED BY <2>1
<1>2. (r + 1 + d) * n = (r + 1) * n + d * n /\ (r + 1) * n = r * n + 1 * n
  BY Distributes
<1>3. r * n \in Nat /\ d * n \in Nat
  BY ProductNat
<1> QED BY <1>1, <1>2, <1>3

\* The cells of one row more of the tile.
LEMMA NextRow ==
  ASSUME pos.m \in Nat, pos.n \in Nat, len.m \in Nat, len.n \in Nat,
         NEW a \in Nat, a < len.m, NEW i \in Nat, NEW j \in Nat
  PROVE  Covered(i, j, a + 1)
           <=> \/ Covered(i, j, a)
               \/ i = pos.m + a /\ pos.n <= j /\ j < pos.n + len.n
BY DEF Covered

\* A row of the tile goes to its cells, and to no other.
LEMMA RowWritten ==
  ASSUME Types, Shaped, Walk, Summed, Written, st = "STORE", dma.st = "C",
         WriteRow(TRUE)
  PROVE  /\ \A i \in Below(csr.m), j \in Below(csr.n) :
              i * csr.n + j \in Cells =>
                c'[i * csr.n + j] = IF Covered(i, j, dma.a + 1)
                                    THEN Dot(i, j, csr.k) ELSE <<>>
         /\ \A o \in Cells : o >= csr.m * csr.n => c'[o] = <<>>
<1>1. /\ csr.m \in Nat /\ csr.n \in Nat /\ csr.k \in Nat
      /\ pos.m \in Nat /\ pos.n \in Nat
      /\ len.m \in Nat /\ len.n \in Nat /\ dma.a \in Nat
  BY Numbers DEF Types, DmaTypes, Transfer
<1>2. /\ dma.n = len.n /\ dma.dimN = csr.n
      /\ dma.cBase = pos.m * csr.n + pos.n
      /\ dma.a < len.m /\ Results(dma.a)
  BY DEF Written
<1>3. pos.m + len.m <= csr.m /\ pos.n + len.n <= csr.n /\ csr.k > 0
  <2>1. csr.k > 0
    BY <1>1, Numbers DEF Walk, Working
  <2> QED BY <2>1, TileHere DEF Working
<1> DEFINE r == pos.m + dma.a
           base == r * csr.n + pos.n
<1>4. r \in Nat /\ r < csr.m
  BY <1>1, <1>2, <1>3
<1>5. r * csr.n \in Nat /\ base \in Nat
  BY <1>1, <1>4, ProductNat
<1>11. r = pos.m + dma.a /\ base = r * csr.n + pos.n
  OBVIOUS
<1> HIDE DEF r, base
<1>6. dma.cBase + dma.a * dma.dimN = base
  <2>1. r * csr.n = pos.m * csr.n + dma.a * csr.n
    BY <1>1, <1>11, Distributes
  <2>2. pos.m * csr.n \in Nat /\ dma.a * csr.n \in Nat
    BY <1>1, ProductNat
  <2> QED BY <1>1, <1>2, <1>11, <2>1, <2>2
<1>7. \A o \in Cells : c'[o] = IF o >= base /\ o - base < len.n
                               THEN acc[dma.a][o - base] ELSE c[o]
  BY <1>2, <1>6 DEF WriteRow, Shaped
<1>8. Sums(csr.k)
  BY DEF Summed
<1>9. ASSUME NEW i \in Below(csr.m), NEW j \in Below(csr.n),
             i * csr.n + j \in Cells
      PROVE  c'[i * csr.n + j] = IF Covered(i, j, dma.a + 1)
                                 THEN Dot(i, j, csr.k) ELSE <<>>
  <2> DEFINE o == i * csr.n + j
  <2>1. i \in Nat /\ j \in Nat /\ i < csr.m /\ j < csr.n
    BY <1>1, BelowNat
  <2>2. i * csr.n \in Nat /\ o \in Nat
    BY <1>1, <2>1, ProductNat
  <2>3. (o >= base /\ o - base < len.n)
          <=> (i = r /\ pos.n <= j /\ j < pos.n + len.n)
    <3>1. o = i * csr.n + j /\ i * csr.n \in Nat
      BY <2>2
    <3> HIDE DEF o
    <3>2. CASE i = r
      BY <1>1, <1>5, <1>11, <2>1, <3>1, <3>2
    <3>3. CASE r < i
      <4>1. r * csr.n + csr.n <= i * csr.n
        BY <1>1, <1>4, <2>1, <3>3, RowInside
      <4> QED BY <1>1, <1>3, <1>4, <1>5, <1>11, <2>1, <3>1, <3>3, <4>1
    <3>4. CASE i < r
      <4>1. i * csr.n + csr.n <= r * csr.n
        BY <1>1, <1>4, <2>1, <3>4, RowInside
      <4> QED BY <1>1, <1>4, <1>5, <1>11, <2>1, <3>1, <3>4, <4>1
    <3> QED BY <1>4, <2>1, <3>2, <3>3, <3>4
  <2>4. Covered(i, j, dma.a + 1)
          <=> Covered(i, j, dma.a) \/ (i = r /\ pos.n <= j /\ j < pos.n + len.n)
    BY <1>1, <1>2, <1>11, <2>1, NextRow
  <2>5. c[o] = IF Covered(i, j, dma.a) THEN Dot(i, j, csr.k) ELSE <<>>
    BY <1>2, <1>9 DEF Results
  <2>6. o = i * csr.n + j
    OBVIOUS
  <2> HIDE DEF o
  <2>7. CASE i = r /\ pos.n <= j /\ j < pos.n + len.n
    <3>1. o - base = j - pos.n
      BY <1>1, <1>5, <1>11, <2>1, <2>6, <2>7
    <3>2. j - pos.n \in Below(len.n) /\ dma.a \in Below(len.m)
      BY <1>1, <1>2, <2>1, <2>7, BelowNat
    <3>3. acc[dma.a][j - pos.n] = Dot(pos.m + dma.a, pos.n + (j - pos.n), csr.k)
      BY <1>3, <1>8, <3>2 DEF Sums
    <3>4. pos.n + (j - pos.n) = j
      BY <1>1, <2>1
    <3>5. c'[o] = Dot(i, j, csr.k)
      BY <1>7, <1>9, <1>11, <2>3, <2>6, <2>7, <3>1, <3>3, <3>4
    <3> QED BY <2>4, <2>6, <2>7, <3>5
  <2>8. CASE ~(i = r /\ pos.n <= j /\ j < pos.n + len.n)
    <3>1. c'[o] = c[o]
      BY <1>7, <1>9, <2>3, <2>6, <2>8
    <3> QED BY <2>4, <2>5, <2>6, <2>8, <3>1
  <2> QED BY <2>7, <2>8
<1>10. ASSUME NEW o \in Cells, o >= csr.m * csr.n PROVE c'[o] = <<>>
  <2>1. r * csr.n + csr.n <= csr.m * csr.n
    BY <1>1, <1>4, RowInside
  <2>2. o \in Nat /\ csr.m * csr.n \in Nat
    BY <1>1, CellsNat, ProductNat
  <2>3. ~(o - base < len.n)
    BY <1>1, <1>3, <1>5, <1>10, <1>11, <2>1, <2>2
  <2>4. c'[o] = c[o]
    BY <1>7, <2>3
  <2> QED BY <1>2, <1>10, <2>4 DEF Results
<1> QED BY <1>9, <1>10

\* A cell has a row and a column.
LEMMA CellPlace ==
  ASSUME NEW m \in Nat, NEW n \in Nat, n > 0, NEW o \in Nat, o < m * n
  PROVE  /\ o \div n \in Nat /\ o \div n < m
         /\ o % n \in Nat /\ o % n < n
         /\ o = (o \div n) * n + (o % n)
<1> DEFINE i == o \div n
           j == o % n
<1>1. i \in Int /\ j \in Nat /\ j < n /\ o = n * i + j
  OBVIOUS
<1> HIDE DEF i, j
<1>2. ~(i < 0)
  <2> SUFFICES ASSUME i < 0 PROVE FALSE
    OBVIOUS
  <2>1. n * i <= n * (-1)
    BY <1>1
  <2> QED BY <1>1, <2>1
<1>3. i \in Nat /\ n * i = i * n
  BY <1>1, <1>2
<1>4. ~(m <= i)
  <2> SUFFICES ASSUME m <= i PROVE FALSE
    OBVIOUS
  <2>1. i + 1 \in Nat /\ m < i + 1
    BY <1>3
  <2>2. m * n + n <= (i + 1) * n
    BY <2>1, RowInside
  <2>3. (i + 1) * n = i * n + 1 * n
    BY <1>3, Distributes
  <2>4. i * n \in Nat /\ m * n \in Nat
    BY <1>3, ProductNat
  <2> QED BY <1>1, <1>3, <2>2, <2>3, <2>4
<1> QED BY <1>1, <1>3, <1>4 DEF i, j

\* C with every cell of every tile is the product of the matrices.
LEMMA AllWritten ==
  ASSUME Types, Shaped, csr.n > 0,
         \A i \in Below(csr.m), j \in Below(csr.n) :
           i * csr.n + j \in Cells => c[i * csr.n + j] = Dot(i, j, csr.k),
         \A o \in Cells : o >= csr.m * csr.n => c[o] = <<>>
  PROVE  c = MatMul(csr)
<1>1. csr.m \in Nat /\ csr.n \in Nat /\ csr.k \in Nat /\ csr.m * csr.n \in Nat
  BY Numbers, ProductNat
<1>2. ASSUME NEW o \in Cells PROVE c[o] = MatMul(csr)[o]
  <2>1. o \in Nat
    BY CellsNat
  <2>2. CASE o >= csr.m * csr.n
    BY <1>1, <2>2 DEF MatMul
  <2>3. CASE ~(o >= csr.m * csr.n)
    <3> DEFINE i == o \div csr.n
               j == o % csr.n
    <3>1. /\ i \in Nat /\ j \in Nat /\ j < csr.n /\ o = i * csr.n + j
          /\ i < csr.m
      <4>1. o < csr.m * csr.n
        BY <1>1, <2>1, <2>3
      <4> QED BY <1>1, <2>1, <4>1, CellPlace
    <3>2. MatMul(csr)[o] = Dot(i, j, csr.k)
      BY <1>1, <2>3 DEF MatMul, Dot
    <3> HIDE DEF i, j
    <3>4. i \in Below(csr.m) /\ j \in Below(csr.n)
      BY <1>1, <3>1, BelowNat
    <3> QED BY <3>1, <3>2, <3>4
  <2> QED BY <2>2, <2>3
<1>3. c = [o \in Cells |-> c[o]]
  BY DEF Shaped
<1>4. MatMul(csr) = [o \in Cells |-> MatMul(csr)[o]]
  BY DEF MatMul
<1> QED BY <1>2, <1>3, <1>4

\* What of C does not depend on the tile stays with it.
LEMMA ResultsMove ==
  ASSUME c' = c, csr' = csr, NEW q, NEW r, Results(q),
         \A i \in Below(csr.m), j \in Below(csr.n) :
           Covered(i, j, r)' <=> Covered(i, j, q)
  PROVE  Results(r)'
BY DEF Results, Dot, Below

\* A DMA that does not write leaves C alone, but for a START.
LEMMA OnlyWrites ==
  ASSUME NEW a, NEW b, Dma(a, b), dma.st # "C", ~StartPulse
  PROVE  c' = c
BY DEF Dma, Fetch, FetchRows, WriteBack, WriteRow, DmaIdle

\* A job starts with an empty C.
LEMMA EmptyAtStart ==
  ASSUME NEW a, NEW b, Dma(a, b), dma.st = "IDLE", cmd = {}, StartPulse, Shaped
  PROVE  c' = [o \in Cells |-> <<>>]
<1>1. DmaIdle
  BY DEF Dma, Fetch, FetchRows, WriteBack, WriteRow
<1>2. DOMAIN c = Cells
  BY DEF Shaped
<1> QED BY <1>1, <1>2 DEF DmaIdle

\* The product of empty matrices is empty.
LEMMA EmptyProduct ==
  ASSUME NEW d, d.m \in Nat, d.n \in Nat, d.k \in Nat,
         d.m = 0 \/ d.n = 0 \/ d.k = 0
  PROVE  MatMul(d) = [o \in Cells |-> <<>>]
<1>1. ASSUME NEW o \in Cells PROVE MatMul(d)[o] = <<>>
  <2>1. o \in Nat
    BY CellsNat
  <2>2. CASE d.n = 0 \/ o >= d.m * d.n
    BY <2>2 DEF MatMul
  <2>3. CASE ~(d.n = 0 \/ o >= d.m * d.n)
    <3>1. d.k = 0
      <4>1. d.m = 0 => d.m * d.n = 0
        OBVIOUS
      <4> QED BY <2>1, <2>3, <4>1
    <3>2. MatMul(d)[o] = [k \in 1..d.k |->
            <<(o \div d.n) * d.k + k, (k - 1) * d.n + (o % d.n) + 1>>]
      BY <2>3 DEF MatMul
    <3>3. 1..d.k = {}
      BY <3>1
    <3> QED BY <3>2, <3>3
  <2> QED BY <2>2, <2>3
<1>2. MatMul(d) = [o \in Cells |-> MatMul(d)[o]]
  BY DEF MatMul
<1> QED BY <1>1, <1>2

\* Each row that is written completes its cells of C.
LEMMA WrittenStep ==
  ASSUME Types, Types', Unmet, Turn, Turn', Shaped, Shaped', Held, Held', Walk, Walk',
         Summed, Written, Csr, Top, NEW a \in BOOLEAN, NEW b \in BOOLEAN, Dma(a, b)
  PROVE  Written'
<1>1. /\ csr.m \in Nat /\ csr.n \in Nat /\ csr.k \in Nat
      /\ pos.m \in Nat /\ pos.n \in Nat /\ pos.k \in Nat
      /\ len.m \in Nat /\ len.n \in Nat /\ len.k \in Nat
  BY Numbers
<1>2. CASE st = "IDLE" /\ ~StartPulse
  <2>1. st' = "IDLE"
    BY <1>2, TopMoves, WalkMoves
  <2>2. c' = c /\ cmd = {}
    BY <1>2, OnlyWrites DEF Turn, DmaRests
  <2>3. job' = job
    BY <1>2 DEF Csr
  <2>4. doneQ' => doneQ
    BY <2>2, Zenon DEF Csr
  <2>5. doneQ' => c' = MatMul(job')
    BY <2>2, <2>3, <2>4 DEF Written
  <2> QED BY <2>1, <2>5 DEF Written, MatMul
<1>3. CASE st = "IDLE" /\ StartPulse
  <2>1. csr' = csr /\ job' = csr /\ ~doneQ'
    BY <1>3, StartFrame
  <2>2. c' = [o \in Cells |-> <<>>]
    BY <1>3, EmptyAtStart DEF Turn, DmaRests
  <2>3. CASE st' = "FILL"
    <3>1. pos' = Zero3
      BY <1>3, <2>3, WalkMoves
    <3>2. Results(0)'
      <4>1. \A i \in Below(csr.m), j \in Below(csr.n) : ~Covered(i, j, 0)'
        <5>1. \A i \in Below(csr.m), j \in Below(csr.n) : i \in Nat /\ j \in Nat
          BY <1>1, BelowNat
        <5>2. pos'.m = 0 /\ pos'.n = 0
          BY <3>1 DEF Zero3
        <5> QED BY <5>1, <5>2 DEF Covered
      <4> QED BY <2>1, <2>2, <4>1 DEF Results, Below
    <3> QED BY <2>1, <2>3, <3>2 DEF Written
  <2>4. CASE st' = "DONE"
    <3>1. csr.m = 0 \/ csr.n = 0 \/ csr.k = 0
      BY <1>3, <2>4, WalkMoves
    <3>2. c' = MatMul(job')
      BY <1>1, <2>1, <2>2, <3>1, EmptyProduct
    <3> QED BY <2>1, <2>4, <3>2 DEF Written, MatMul
  <2>5. CASE st' = "IDLE"
    BY <2>1, <2>5 DEF Written
  <2> QED BY <1>3, <2>3, <2>4, <2>5, TopMoves
<1>4. CASE st = "DONE"
  <2>1. st' = "IDLE" /\ c' = c /\ job' = job
    BY <1>4, TopMoves, OnlyWrites, JobFrame DEF Turn, DmaRests
  <2>2. c' = MatMul(job')
    BY <1>4, <2>1 DEF Written
  <2> QED BY <2>1, <2>2 DEF Written, MatMul
<1>5. CASE st \in {"FILL", "ARM", "COMPUTE"}
  <2>1. c' = c /\ csr' = csr
    BY <1>5, OnlyWrites, JobFrame DEF Turn, DmaTurn, DmaRests
  <2>2. pos'.m = pos.m /\ pos'.n = pos.n /\ len'.m = len.m /\ len'.n = len.n
    <3>1. CASE st = "COMPUTE" /\ st' = "FILL"
      <4>1. /\ pos' = [pos EXCEPT !.k = pos.k + len.k]
            /\ len' = [len EXCEPT !.k = TileRem(csr.k, pos.k + len.k, KTile)]
        BY <3>1, WalkMoves
      <4> QED BY <4>1 DEF Types, TopTypes, Position, Size
    <3>2. CASE ~(st = "COMPUTE" /\ st' = "FILL")
      BY <1>5, <3>2, SameTile
    <3> QED BY <3>1, <3>2
  <2>3. Results(0)'
    <3>1. Results(0)
      BY <1>5 DEF Written
    <3> QED BY <2>1, <2>2, <3>1 DEF Results, Covered, Dot, Below
  <2>4. st' \in {"FILL", "ARM", "COMPUTE"} \/ (st' = "STORE" /\ cmd' = {"start_c"})
    BY <1>5, TopMoves
  <2>5. st' = "STORE" => dma'.st = "IDLE" /\ dmaDone' = "none"
    BY <2>4 DEF Turn, DmaTurn, DmaRests
  <2>6. ~doneQ'
    BY <2>4 DEF Held
  <2> QED BY <2>3, <2>4, <2>5, <2>6 DEF Written
<1>6. CASE st = "STORE"
  <2>1. pos' = pos /\ len' = len /\ csr' = csr /\ ~StartPulse
    BY <1>6, SameTile, JobFrame
  <2>2. \A i, j, r : Covered(i, j, r)' <=> Covered(i, j, r)
    BY <2>1 DEF Covered
  <2>3. CASE cmd = {"start_c"} /\ DmaRests
    <3>1. st' = "STORE" /\ c' = c
      BY <1>6, <2>1, <2>3, TopMoves, OnlyWrites DEF DmaRests
    <3>2. WriteBack
      BY <2>3 DEF Dma, Fetch, FetchRows, WriteRow, DmaIdle, DmaRests
    <3>3. /\ dma'.st = "C" /\ dma'.a = 0 /\ dma'.m = len.m /\ dma'.n = len.n
          /\ dma'.dimN = csr.n /\ dma'.cBase = pos.m * csr.n + pos.n
          /\ dmaDone' = "none"
      <4>1. dma' = [dma EXCEPT !.st = "C", !.a = 0, !.m = len.m, !.n = len.n,
                               !.dimN = csr.n, !.cBase = pos.m * csr.n + pos.n]
        BY <3>2 DEF WriteBack
      <4> QED BY <3>2, <4>1 DEF WriteBack, Types, DmaTypes, Transfer
    <3>4. Results(0)'
      BY <1>6, <2>1, <2>2, <2>3, <3>1, ResultsMove DEF Written, DmaRests
    <3>5. 0 < len.m
      BY <1>1, <1>6, TileHere DEF Working
    <3>6. ~doneQ'
      BY <3>1 DEF Held
    <3> QED BY <2>1, <3>1, <3>3, <3>4, <3>5, <3>6 DEF Written
  <2>4. CASE cmd = {} /\ dma.st = "C" /\ dmaDone = "none"
    <3>1. st' = "STORE"
      BY <1>6, <2>4, TopMoves
    <3>2. WriteRow(a) /\ ~doneQ'
      BY <2>4, <3>1 DEF Dma, Fetch, FetchRows, WriteBack, DmaIdle, Held
    <3>3. /\ dma.m = len.m /\ dma.n = len.n /\ dma.dimN = csr.n
          /\ dma.cBase = pos.m * csr.n + pos.n
          /\ dma.a < len.m /\ Results(dma.a)
      BY <1>6, <2>4 DEF Written
    <3>4. CASE ~a
      <4>1. c' = c /\ dma' = dma /\ dmaDone' = "none"
        BY <3>2, <3>4 DEF WriteRow
      <4>2. Results(dma.a)'
        <5>1. \A r : Results(r) => Results(r)'
          BY <2>1, <2>2, <4>1, ResultsMove
        <5> QED BY <3>3, <4>1, <5>1 DEF Results, Covered
      <4> QED BY <2>1, <2>4, <3>1, <3>2, <3>3, <4>1, <4>2 DEF Written
    <3>5. CASE a
      <4>0. PICK n \in Nat : n = dma.a + 1
        BY DEF Types, DmaTypes, Transfer
      <4>1. dma' = [dma EXCEPT !.a = n, !.st = IF n >= dma.m THEN "IDLE" ELSE "C"]
            /\ dmaDone' = IF n >= dma.m THEN "c" ELSE "none"
        BY <3>2, <3>5, <4>0 DEF WriteRow
      <4>2. /\ dma'.a = n /\ dma'.st = IF n >= dma.m THEN "IDLE" ELSE "C"
            /\ dma'.m = dma.m /\ dma'.n = dma.n /\ dma'.dimN = dma.dimN
            /\ dma'.cBase = dma.cBase
        BY <4>1 DEF Types, DmaTypes, Transfer
      <4>3. WriteRow(TRUE)
        BY <3>2, <3>5
      <4>4. /\ \A i \in Below(csr.m), j \in Below(csr.n) :
                 i * csr.n + j \in Cells =>
                   c'[i * csr.n + j] = IF Covered(i, j, n)
                                       THEN Dot(i, j, csr.k) ELSE <<>>
            /\ \A o \in Cells : o >= csr.m * csr.n => c'[o] = <<>>
        BY <1>6, <2>4, <4>0, <4>3, RowWritten
      <4>5. n >= len.m => n = len.m
        BY <1>1, <3>3, <4>0 DEF Types, DmaTypes, Transfer
      <4>6. Results(n)'
        BY <2>1, <4>4 DEF Results, Covered, Dot, Below
      <4>7. CASE n >= dma.m
        <5>1. Results(len.m)'
          BY <2>1, <3>3, <4>5, <4>6, <4>7 DEF Results, Covered
        <5> QED BY <3>1, <3>2, <4>1, <4>2, <4>7, <5>1 DEF Written
      <4>8. CASE ~(n >= dma.m)
        <5>1. n < len.m
          BY <1>1, <3>3, <4>5, <4>8
        <5>2. Results(dma.a)'
          BY <4>2, <4>6 DEF Results, Covered
        <5> QED BY <2>1, <3>1, <3>2, <3>3, <4>1, <4>2, <4>8, <5>1, <5>2 DEF Written
      <4> QED BY <4>7, <4>8
    <3> QED BY <3>4, <3>5
  <2>5. CASE cmd = {} /\ dma.st = "IDLE" /\ dmaDone = "c"
    <3>1. st' = "NEXT" /\ c' = c
      BY <1>6, <2>1, <2>5, TopMoves, OnlyWrites
    <3>2. Results(len.m)
      BY <1>6, <2>5 DEF Written
    <3>3. Results(len.m)'
      <4>1. \A r : Results(r) => Results(r)'
        BY <2>1, <2>2, <3>1, ResultsMove
      <4> QED BY <2>1, <3>2, <4>1 DEF Results, Covered
    <3>4. ~doneQ'
      BY <3>1 DEF Held
    <3> QED BY <3>1, <3>3, <3>4 DEF Written
  <2> QED BY <1>6, <2>3, <2>4, <2>5 DEF Turn, DmaTurn
<1>7. CASE st = "NEXT"
  <2>1. c' = c /\ csr' = csr /\ job' = job /\ csr = job
    BY <1>7, OnlyWrites, JobFrame DEF Turn, DmaRests, Held
  <2>2. Results(len.m)
    BY <1>7 DEF Written
  <2>3. \A i \in Below(csr.m), j \in Below(csr.n) :
          i \in Nat /\ j \in Nat /\ i < csr.m /\ j < csr.n
    BY <1>1, BelowNat
  <2>4. CASE st' = "FILL"
    <3>1. \A i \in Below(csr.m), j \in Below(csr.n) :
            Covered(i, j, 0)' <=> Covered(i, j, len.m)
      <4>1. CASE /\ pos' = [m |-> pos.m, n |-> pos.n + len.n, k |-> 0]
                 /\ len' = [Tiled(pos') EXCEPT !.m = len.m]
        <5>1. pos'.m = pos.m /\ pos'.n = pos.n + len.n /\ len'.m = len.m
          BY <4>1 DEF Tiled
        <5> QED BY <1>1, <2>3, <5>1 DEF Covered
      <4>2. CASE /\ ~(pos.n + len.n < csr.n)
                 /\ pos' = [m |-> pos.m + len.m, n |-> 0, k |-> 0]
        <5>1. pos'.m = pos.m + len.m /\ pos'.n = 0
          BY <4>2
        <5> QED BY <1>1, <2>3, <4>2, <5>1 DEF Covered
      <4> QED BY <1>7, <2>4, <4>1, <4>2, WalkMoves
    <3>2. Results(0)'
      BY <2>1, <2>2, <3>1, ResultsMove
    <3>3. ~doneQ'
      BY <2>4 DEF Held
    <3> QED BY <2>4, <3>2, <3>3 DEF Written
  <2>5. CASE st' = "DONE"
    <3>1. ~(pos.n + len.n < csr.n) /\ ~(pos.m + len.m < csr.m)
      BY <1>7, <2>5, WalkMoves
    <3>2. \A i \in Below(csr.m), j \in Below(csr.n) : Covered(i, j, len.m)
      BY <1>1, <2>3, <3>1 DEF Covered
    <3>3. csr.n > 0
      BY <1>7 DEF Held, Working
    <3>4. c = MatMul(csr)
      BY <2>2, <3>2, <3>3, AllWritten DEF Results
    <3>5. c' = MatMul(job')
      BY <2>1, <3>4
    <3> QED BY <2>5, <3>5 DEF Written, MatMul
  <2> QED BY <1>7, <2>4, <2>5, TopMoves
<1> QED BY <1>2, <1>3, <1>4, <1>5, <1>6, <1>7 DEF Types, TopTypes
-----------------------------------------------------------------------------
(* The theorem.                                                            *)

Products == Shaped /\ Held /\ Walk /\ Loaded /\ Summed /\ Written

\* The invariant holds at reset.
LEMMA ProductInit == Init => Products
<1> SUFFICES ASSUME Init PROVE Products
  OBVIOUS
<1>1. Shaped
  BY ZeroTypes DEF Init, Shaped, Tiles
<1>2. Held /\ Walk /\ Loaded
  BY DEF Init, Held, Walk, Working, Loaded
<1>3. \A s \in Stages : Quiet(pipe[s])
  BY DEF Init, Bubble, Quiet
<1>4. Summed
  BY <1>3 DEF Init, Summed, Streaming
<1>5. Written
  BY DEF Init, Written
<1> QED BY <1>1, <1>2, <1>4, <1>5 DEF Products

\* Every cycle preserves the invariant.
LEMMA ProductStep ==
  ASSUME Types, Types', Unmet, Turn, Turn', Products, [Next]_vars
  PROVE  Products'
<1>1. CASE UNCHANGED vars
  <2>1. /\ csr' = csr /\ doneQ' = doneQ /\ job' = job /\ st' = st /\ pos' = pos
        /\ len' = len /\ clear' = clear /\ ping' = ping /\ buf' = buf /\ cmd' = cmd
        /\ dma' = dma /\ fill' = fill /\ dmaDone' = dmaDone /\ dp' = dp
        /\ pipe' = pipe /\ acc' = acc /\ c' = c
    BY <1>1 DEF vars, core, top
  <2>2. Shaped'
    BY <2>1 DEF Products, Shaped, Tiles
  <2>3. Held'
    BY <2>1 DEF Products, Held, Working
  <2>4. Walk'
    BY <2>1 DEF Products, Walk, Working, Tiled
  <2>5. Loaded'
    BY <2>1 DEF Products, Loaded, Whole, RowsOfA, RowsOfB
  <2>6. Summed'
    <3>1. (Streaming' <=> Streaming) /\ Entered' = Entered /\ Left' = Left
      BY <2>1 DEF Streaming, Entered, Left
    <3>2. \A q : Sums(q)' <=> Sums(q)
      BY <2>1 DEF Sums, Dot
    <3>3. \A q : Operands(q)' = Operands(q)
      BY <2>1 DEF Operands
    <3>4. Stream => Stream'
      <4> SUFFICES ASSUME Stream PROVE Stream'
        OBVIOUS
      <4>1. \A s \in Stages : (IF s <= Entered /\ Entered - s < len.k
              THEN pipe[s] = Operands(Entered - s) ELSE Quiet(pipe[s]))'
        BY <2>1, <3>1 DEF Stream, Operands, Quiet
      <4>2. Sums(pos.k + Left)'
        BY <2>1, <3>1 DEF Stream, Sums, Dot
      <4>3. /\ dp'.len = len'.k /\ dp'.clear = clear'
            /\ dp'.st = "RUN" => dp'.k < len'.k
            /\ dp'.st = "DRAIN" => dp'.k <= MulLat
        BY <2>1 DEF Stream
      <4> QED BY <4>1, <4>2, <4>3, Zenon DEF Stream
    <3>5. Sums(pos.k) => Sums(pos.k)'
      BY <2>1 DEF Sums, Dot
    <3>6. Sums(csr.k) => Sums(csr.k)'
      BY <2>1 DEF Sums, Dot
    <3> QED BY <2>1, <3>1, <3>4, <3>5, <3>6 DEF Products, Summed
  <2>7. Written'
    <3>1. \A q : Results(q)' <=> Results(q)
      BY <2>1 DEF Results, Covered, Dot
    <3>2. Results(len.m) => Results(len.m)'
      BY <2>1 DEF Results, Covered, Dot
    <3>3. Results(dma.a) => Results(dma.a)'
      BY <2>1 DEF Results, Covered, Dot
    <3>4. Results(0) => Results(0)'
      BY <3>1
    <3>5. c = MatMul(job) => c' = MatMul(job')
      BY <2>1
    <3> QED BY <2>1, <3>2, <3>3, <3>4, <3>5 DEF Products, Written, MatMul
  <2> QED BY <2>2, <2>3, <2>4, <2>5, <2>6, <2>7 DEF Products
<1>2. CASE Next
  <2>1. PICK op \in Stores \cup {NoStore}, a, b \in BOOLEAN : Clock(op, a, b)
    BY <1>2 DEF Next
  <2>2. Csr /\ Top /\ Dma(a, b) /\ Datapath /\ Array
    BY <2>1 DEF Clock
  <2>3. Shaped'
    BY <2>2, ShapedStep DEF Products
  <2>4. Held'
    BY <2>2, HeldStep DEF Products
  <2>5. Walk'
    BY <2>2, WalkStep DEF Products
  <2>6. Loaded'
    BY <2>2, LoadedStep DEF Products
  <2>7. Summed'
    BY <2>2, <2>5, SummedStep DEF Products
  <2>8. Written'
    BY <2>2, <2>3, <2>4, <2>5, WrittenStep DEF Products
  <2> QED BY <2>3, <2>4, <2>5, <2>6, <2>7, <2>8 DEF Products
<1> QED BY <1>1, <1>2

\* When STATUS says DONE, C is the product of the matrices START named, each
\* sum with all of its products and in order: for matrices, an array and
\* tiles of every size, any number of jobs, and memory of any pace, if no
\* store follows right behind a START.
THEOREM ProductsAreRight ==
  ASSUME ~Behind
  PROVE  Spec => []ProductReady
<1>1. Spec => []Types
  BY TypeInit, TypeStep, PTL DEF Spec
<1>2. Spec => [](Unmet /\ Turn)
  BY TurnInvariant
<1>3. Products /\ Types /\ Types' /\ (Unmet /\ Turn) /\ (Unmet /\ Turn)' /\ [Next]_vars
        => Products'
  BY ProductStep
<1>4. Products => ProductReady
  BY DEF Products, Written, ProductReady
<1> QED BY <1>1, <1>2, <1>3, <1>4, ProductInit, PTL DEF Spec
=============================================================================
