------------------------------- MODULE GemmJob -------------------------------
(***************************************************************************)
(* The GEMM accelerator (rtl/accel): its registers, the job FSM, the DMA,  *)
(* the array of processing elements, and the stores of the core that reach *)
(* its registers (rtl/soc_top.sv).                                         *)
(*                                                                         *)
(* One step is one clock cycle.  Data are symbolic: the element at offset  *)
(* e of the row-major matrix A or B is the number e + 1, 0 is padding, and *)
(* an accumulator is the sequence of the products it has summed.  A burst  *)
(* of the DMA is one row, which the memory answers when it likes.          *)
(***************************************************************************)
EXTENDS Naturals, Sequences

CONSTANTS
  PeDim,      \* GEMM_PE_DIM: rows and columns of the array (8)
  KTile,      \* GEMM_K_TILE: columns of an A tile (32)
  MulLat,     \* GEMM_MUL_PIPE_LAT: the multiplier of an element
  Dims,       \* the values of M, N and K the program uses
  Commands,   \* the other stores it does: "start", "reset", "mem" (DCCM)
  Behind      \* TRUE: a store may follow right behind a START

ASSUME GemmAssumption ==
  /\ PeDim \in Nat \ {0} /\ KTile \in Nat \ {0} /\ MulLat \in Nat \ {0}
  /\ Dims \subseteq Nat
  /\ Commands \subseteq {"start", "reset", "mem"}
  /\ Behind \in BOOLEAN

VARIABLES
  dc1, dc2,   \* the stores in the core's LSU
  csr,        \* M, N and K
  doneQ,      \* done_q: the DONE bit of STATUS
  st,         \* the state of the job FSM
  pos,        \* m0, n0, k0: the first row, column and product of the tile
  len,        \* m_tile, n_tile, k_tile: its size
  clear,      \* clear_acc
  ping,       \* the half of the buffers in use
  buf,        \* a_buf and b_buf
  cmd,        \* the one-cycle pulses of the FSM
  dma,        \* the DMA: state, rows done, latched sizes and addresses
  fill,       \* a_tile and b_tile of the DMA
  dmaDone,    \* done_ab or done_c
  dp,         \* the datapath sequencer
  dpDone,     \* its done pulse
  pipe,       \* the operands in the pipeline of the array
  acc,        \* the accumulators
  job,        \* history: the sizes of the job START began
  c           \* the C matrix: what the job has written of it

core == <<dc1, dc2, csr, doneQ, job>>
top  == <<st, pos, len, clear, ping, buf, cmd>>
vars == <<core, top, dma, fill, dmaDone, dp, dpDone, pipe, acc, c>>

-----------------------------------------------------------------------------
Row == 0..(PeDim - 1)
Col == 0..(KTile - 1)
Stages == 1..(MulLat + 2)
Drain == MulLat + 1

NoStore == [reg |-> "none", val |-> 0]
Stores == [reg : {"m", "n", "k"}, val : Dims] \cup [reg : Commands, val : {0}]

ZeroA == [i \in Row |-> [t \in Col |-> 0]]
ZeroB == [t \in Col |-> [j \in Row |-> 0]]
Bubble == [en |-> FALSE, clear |-> FALSE, a |-> [i \in Row |-> 0],
           b |-> [j \in Row |-> 0]]
Zero3 == [m |-> 0, n |-> 0, k |-> 0]

\* tile_rem: what is left of a dimension, at most one tile of it.
TileRemUncapped(total, orig, maxv) == IF orig >= total THEN 0 ELSE total - orig
TileRem(total, orig, maxv) ==
  LET rest == IF orig >= total THEN 0 ELSE total - orig
  IN  IF rest > maxv THEN maxv ELSE rest

-----------------------------------------------------------------------------
(* The core and the registers.                                             *)

StartPulse == dc2.reg = "start" /\ st = "IDLE"
SoftReset  == dc2.reg = "reset"
JobBusy    == st # "IDLE"
AccelHold  == StartPulse \/ JobBusy

\* accel_hold keeps IDU1 from issuing; what is in the LSU goes on.
Lsu(op) ==
  /\ op = NoStore \/ ~AccelHold
  /\ ~Behind /\ dc1.reg = "start" => op = NoStore
  /\ dc1' = op /\ dc2' = dc1

Csr ==
  /\ csr' = IF dc2.reg \in DOMAIN csr THEN [csr EXCEPT ![dc2.reg] = dc2.val]
            ELSE csr
  /\ doneQ' = ((doneQ \/ "hw_done" \in cmd) /\ ~StartPulse /\ ~SoftReset)
  /\ job' = IF StartPulse THEN csr ELSE job

-----------------------------------------------------------------------------
(* The job FSM (gemm_top.sv).                                              *)

\* Begin a tile: fetch A and B, accumulate into clean or kept sums.
Tile(p, l, fresh, half) ==
  /\ st' = "FILL" /\ cmd' = {"start_ab"}
  /\ pos' = p /\ len' = l /\ clear' = fresh /\ ping' = half

Tiled(p) == [m |-> TileRem(csr.m, p.m, PeDim), n |-> TileRem(csr.n, p.n, PeDim),
             k |-> TileRem(csr.k, p.k, KTile)]

Keep(state, pulses) ==
  /\ st' = state /\ cmd' = pulses
  /\ UNCHANGED <<pos, len, clear, ping>>

StartJob ==
  /\ st = "IDLE" /\ StartPulse
  /\ IF csr.m # 0 /\ csr.n # 0 /\ csr.k # 0
     THEN Tile(Zero3, Tiled(Zero3), TRUE, 0) ELSE Keep("DONE", {"hw_done"})
  /\ UNCHANGED buf

Filled ==
  /\ st = "FILL" /\ dmaDone = "ab"
  /\ buf' = [buf EXCEPT ![ping] = fill]
  /\ Keep("ARM", {})

Arm == st = "ARM" /\ Keep("COMPUTE", {"start_dp"}) /\ UNCHANGED buf

\* The next K tile adds to the sums and uses the other half of the buffers.
Computed ==
  /\ st = "COMPUTE" /\ dpDone
  /\ LET p == [pos EXCEPT !.k = @ + len.k]
     IN  IF p.k < csr.k
         THEN Tile(p, [len EXCEPT !.k = TileRem(csr.k, p.k, KTile)], FALSE, 1 - ping)
         ELSE Keep("STORE", {"start_c"})
  /\ UNCHANGED buf

Stored == st = "STORE" /\ dmaDone = "c" /\ Keep("NEXT", {}) /\ UNCHANGED buf

\* Walk along N, then along M.
NextTileKeepsSums ==
  /\ st = "NEXT"
  /\ LET right == [pos EXCEPT !.n = @ + len.n, !.k = 0]
         down  == [m |-> pos.m + len.m, n |-> 0, k |-> 0]
     IN  IF right.n < csr.n
         THEN Tile(right, [Tiled(right) EXCEPT !.m = len.m], clear, 0)
         ELSE IF down.m < csr.m
         THEN Tile(down, Tiled(down), clear, 0)
         ELSE Keep("DONE", {"hw_done"})
  /\ UNCHANGED buf
NextTile ==
  /\ st = "NEXT"
  /\ LET right == [pos EXCEPT !.n = @ + len.n, !.k = 0]
         down  == [m |-> pos.m + len.m, n |-> 0, k |-> 0]
     IN  IF right.n < csr.n
         THEN Tile(right, [Tiled(right) EXCEPT !.m = len.m], TRUE, 0)
         ELSE IF down.m < csr.m
         THEN Tile(down, Tiled(down), TRUE, 0)
         ELSE Keep("DONE", {"hw_done"})
  /\ UNCHANGED buf

Done == st = "DONE" /\ Keep("IDLE", {}) /\ UNCHANGED buf

Wait ==
  /\ \/ st = "IDLE" /\ ~StartPulse
     \/ st = "FILL" /\ dmaDone # "ab"
     \/ st = "COMPUTE" /\ ~dpDone
     \/ st = "STORE" /\ dmaDone # "c"
  /\ Keep(st, {}) /\ UNCHANGED buf

\* The reset of CTRL clears the FSM and its buffers, not the DMA.
Reset ==
  /\ SoftReset
  /\ st' = "IDLE" /\ cmd' = {}
  /\ pos' = Zero3 /\ len' = Zero3 /\ clear' = TRUE /\ ping' = 0
  /\ buf' = [h \in 0..1 |-> [a |-> ZeroA, b |-> ZeroB]]

StoredEarly ==
  \/ Reset
  \/ /\ ~SoftReset
     /\ \/ StartJob \/ Filled \/ Arm \/ Computed \/ NextTile \/ Done
        \/ st = "STORE" /\ Keep("NEXT", {}) /\ UNCHANGED buf
        \/ st # "STORE" /\ Wait
Top ==
  \/ Reset
  \/ /\ ~SoftReset
     /\ \/ StartJob \/ Filled \/ Arm \/ Computed \/ Stored \/ NextTile \/ Done
        \/ Wait

-----------------------------------------------------------------------------
(* The DMA (gemm_dma.sv).  `a` and `b` say whether the memory finishes the *)
(* row that is under way on each port in this cycle.                       *)

Fetch ==
  /\ dma.st = "IDLE" /\ "start_ab" \in cmd
  /\ dma' = [st |-> "AB", a |-> 0, b |-> 0, m |-> len.m, n |-> len.n,
             k |-> len.k, dimN |-> csr.n, dimK |-> csr.k,
             aBase |-> pos.m * csr.k + pos.k, bBase |-> pos.k * csr.n + pos.n,
             cBase |-> dma.cBase]
  /\ fill' = [a |-> ZeroA, b |-> ZeroB]
  /\ dmaDone' = "none" /\ UNCHANGED c

\* A row of A has k_tile elements, one of B n_tile.
RowA == [t \in Col |-> IF t < dma.k THEN dma.aBase + dma.a * dma.dimK + t + 1 ELSE 0]
RowB == [j \in Row |-> IF j < dma.n THEN dma.bBase + dma.b * dma.dimN + j + 1 ELSE 0]

FetchedPadded == dma.a = PeDim /\ dma.b = KTile
Fetched == dma.a = dma.m /\ dma.b = dma.k

FetchRows(a, b) ==
  /\ dma.st = "AB"
  /\ LET ra == a /\ dma.a < dma.m
         rb == b /\ dma.b < dma.k
     IN  /\ fill' = [a |-> IF ra THEN [fill.a EXCEPT ![dma.a] = RowA] ELSE fill.a,
                     b |-> IF rb THEN [fill.b EXCEPT ![dma.b] = RowB] ELSE fill.b]
         /\ IF Fetched
            THEN dma' = [dma EXCEPT !.st = "IDLE"] /\ dmaDone' = "ab"
            ELSE /\ dma' = [dma EXCEPT !.a = IF ra THEN @ + 1 ELSE @,
                                       !.b = IF rb THEN @ + 1 ELSE @]
                 /\ dmaDone' = "none"
  /\ UNCHANGED c

WriteBack ==
  /\ dma.st = "IDLE" /\ "start_c" \in cmd
  /\ dma' = [dma EXCEPT !.st = "C", !.a = 0, !.m = len.m, !.n = len.n,
                        !.dimN = csr.n, !.cBase = pos.m * csr.n + pos.n]
  /\ dmaDone' = "none" /\ UNCHANGED <<fill, c>>

\* The sums of a row are read from the array while they are written.
WriteRow(a) ==
  /\ dma.st = "C"
  /\ IF a
     THEN /\ c' = [o \in DOMAIN c |->
                     LET j == o - (dma.cBase + dma.a * dma.dimN)
                     IN  IF o >= dma.cBase + dma.a * dma.dimN /\ j < dma.n
                         THEN acc[dma.a][j] ELSE c[o]]
          /\ dma' = [dma EXCEPT !.a = @ + 1,
                                !.st = IF dma.a + 1 >= dma.m THEN "IDLE" ELSE "C"]
          /\ dmaDone' = IF dma.a + 1 >= dma.m THEN "c" ELSE "none"
     ELSE UNCHANGED <<c, dma>> /\ dmaDone' = "none"
  /\ UNCHANGED fill

DmaIdle ==
  /\ dma.st = "IDLE" /\ cmd \cap {"start_ab", "start_c"} = {}
  /\ dmaDone' = "none" /\ UNCHANGED <<dma, fill>>
  /\ c' = IF StartPulse THEN [o \in DOMAIN c |-> <<>>] ELSE c

Dma(a, b) == Fetch \/ FetchRows(a, b) \/ WriteBack \/ WriteRow(a) \/ DmaIdle

-----------------------------------------------------------------------------
(* The array (gemm_datapath.sv, gemm_pe.sv).                               *)

Datapath ==
  \/ /\ dp.st = "IDLE" /\ dpDone' = FALSE
     /\ dp' = IF "start_dp" \in cmd
              THEN [st |-> "RUN", k |-> 0, len |-> len.k, clear |-> clear] ELSE dp
  \/ /\ dp.st = "RUN" /\ dpDone' = FALSE
     /\ dp' = IF dp.k + 1 >= dp.len THEN [dp EXCEPT !.st = "DRAIN", !.k = 0]
              ELSE [dp EXCEPT !.k = @ + 1]
  \/ /\ dp.st = "DRAIN" /\ dpDone' = (dp.k >= Drain - 1)
     /\ dp' = IF dp.k >= Drain - 1 THEN [dp EXCEPT !.st = "IDLE", !.k = 0]
              ELSE [dp EXCEPT !.k = @ + 1]

Step ==
  IF dp.st = "RUN"
  THEN [en |-> TRUE, clear |-> dp.k = 0 /\ dp.clear,
        a |-> [i \in Row |-> buf[ping].a[i][dp.k]], b |-> buf[ping].b[dp.k]]
  ELSE Bubble

\* A product with padding adds nothing.
Product(x, y) == IF x = 0 \/ y = 0 THEN <<>> ELSE << <<x, y>> >>

Array ==
  LET out == pipe[MulLat + 2]
  IN  /\ pipe' = [s \in Stages |-> IF s = 1 THEN Step ELSE pipe[s - 1]]
      /\ acc' = [i \in Row |-> [j \in Row |->
                   IF out.clear THEN Product(out.a[i], out.b[j])
                   ELSE IF out.en THEN acc[i][j] \o Product(out.a[i], out.b[j])
                   ELSE acc[i][j]]]

-----------------------------------------------------------------------------
Cells == 0..(LET big == CHOOSE d \in Dims : \A e \in Dims : e <= d
             IN  big * big - 1)

Clock(op, a, b) ==
  Lsu(op) /\ Csr /\ Top /\ Dma(a, b) /\ Datapath /\ Array

Init ==
  /\ dc1 = NoStore /\ dc2 = NoStore
  /\ csr = Zero3 /\ doneQ = FALSE /\ job = Zero3
  /\ st = "IDLE" /\ pos = Zero3 /\ len = Zero3 /\ clear = TRUE /\ ping = 0
  /\ buf = [h \in 0..1 |-> [a |-> ZeroA, b |-> ZeroB]] /\ cmd = {}
  /\ dma = [st |-> "IDLE", a |-> 0, b |-> 0, m |-> 0, n |-> 0, k |-> 0,
            dimN |-> 0, dimK |-> 0, aBase |-> 0, bBase |-> 0, cBase |-> 0]
  /\ fill = [a |-> ZeroA, b |-> ZeroB] /\ dmaDone = "none"
  /\ dp = [st |-> "IDLE", k |-> 0, len |-> 1, clear |-> FALSE] /\ dpDone = FALSE
  /\ pipe = [s \in Stages |-> Bubble]
  /\ acc = [i \in Row |-> [j \in Row |-> <<>>]]
  /\ c = [o \in Cells |-> <<>>]

Next == \E op \in Stores \cup {NoStore}, a, b \in BOOLEAN : Clock(op, a, b)

Spec == Init /\ [][Next]_vars

\* Again and again the memory answers both ports.
FairSpec ==
  Spec /\ WF_vars(\E op \in Stores \cup {NoStore} : Clock(op, TRUE, TRUE))

-----------------------------------------------------------------------------
(* Properties.                                                             *)

\* The registers hold values of their types, and a tile fits the array.
TypeOK ==
  /\ dc1 \in Stores \cup {NoStore} /\ dc2 \in Stores \cup {NoStore}
  /\ csr \in [m : Dims \cup {0}, n : Dims \cup {0}, k : Dims \cup {0}]
  /\ doneQ \in BOOLEAN /\ clear \in BOOLEAN /\ ping \in 0..1
  /\ st \in {"IDLE", "FILL", "ARM", "COMPUTE", "STORE", "NEXT", "DONE"}
  /\ pos \in [m : Nat, n : Nat, k : Nat]
  /\ len \in [m : 0..PeDim, n : 0..PeDim, k : 0..KTile]
  /\ cmd \subseteq {"start_ab", "start_c", "start_dp", "hw_done"}
  /\ dma.st \in {"IDLE", "AB", "C"} /\ dma.a \in 0..PeDim /\ dma.b \in 0..KTile
  /\ dmaDone \in {"none", "ab", "c"}
  /\ dp.st \in {"IDLE", "RUN", "DRAIN"} /\ dp.k \in Nat /\ dpDone \in BOOLEAN

\* C of a job: each cell once, the sum over k of A[i, k] * B[k, j], in order.
MatMul(d) ==
  [o \in Cells |->
     IF d.n = 0 \/ o >= d.m * d.n THEN <<>>
     ELSE LET i == o \div d.n
              j == o % d.n
          IN  [k \in 1..d.k |-> <<i * d.k + k, (k - 1) * d.n + j + 1>>]]

\* When STATUS says DONE, C is the product of the matrices START named: no
\* tile is missing, no sum holds leftovers of another tile or another job,
\* and nothing is still in the pipeline of the array.
ProductReady == doneQ => c = MatMul(job)

\* A pulse of the FSM finds the unit it is for idle: none is lost.
PulsesTaken ==
  /\ cmd \cap {"start_ab", "start_c"} # {} => dma.st = "IDLE"
  /\ "start_dp" \in cmd => dp.st = "IDLE"

\* A job ends and the core goes on.
JobsEnd == JobBusy ~> doneQ

\* The core is held while a job runs: none of its stores meets it.
JobAlone == JobBusy => dc2 = NoStore
=============================================================================
