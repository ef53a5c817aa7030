-------------------------------- MODULE Tiles --------------------------------
(***************************************************************************)
(* The tile planners of the JIT (pyvedas/jit/memory/gemm_tiles.py and the  *)
(* pool planner of codegen_handlers.py): how a matrix product, a           *)
(* convolution or a pool is cut into pieces that fit on-chip memory, and   *)
(* the loop nests the generated C walks them with.                         *)
(***************************************************************************)
EXTENDS Integers, SequencesExt

CONSTANTS
  PeDim,         \* PE_DIM
  KStep,         \* K_TILE
  DccmBytes,     \* DCCM_BYTES
  ReserveBytes,  \* DCCM_RESERVE_BYTES
  AlignPad,      \* ALIGN_PAD_BYTES
  ScratchCap,    \* SCRATCH_CAP_BYTES, or the caller's gemm_scratch_bytes
  ConvBudget,    \* the budget of choose_conv_tiles
  ReuseKdim,     \* WEIGHT_REUSE_KDIM
  ActCap,        \* STREAM_ACT_CAP
  CacheCap,      \* the bytes a cache of columns may take
  Slab,          \* DCCM_SLAB
  MaxSpan        \* POOL_RVV_MAX_W

ASSUME TilesAssumption ==
  /\ {PeDim, KStep, Slab, MaxSpan} \subseteq Nat \ {0}
  /\ {DccmBytes, ReserveBytes, AlignPad, ScratchCap, ConvBudget,
      ReuseKdim, ActCap, CacheCap} \subseteq Nat
  /\ AlignPad >= 3

NoTile == <<>>

\* a is greater than b in the order of tuples.
LexGreater(a, b) ==
  \E i \in DOMAIN a : a[i] > b[i] /\ \A j \in 1..(i - 1) : a[j] = b[j]

\* The candidate with the greatest key; key is a function on cands.
Best(cands, key) ==
  CHOOSE c \in cands : \A d \in cands : d # c => LexGreater(key[c], key[d])

CeilDiv(n, d) == (n + d - 1) \div d

-----------------------------------------------------------------------------
\* Bytes left for the packed operands when the live tensors are counted.
ScratchBudget(live) ==
  LET used == ReserveBytes + live IN
  Min({IF DccmBytes > used THEN DccmBytes - used ELSE 0, ScratchCap})

\* dim_candidates: the multiples of the unit, and the whole dimension.
DimCandidates(dim, align) ==
  IF dim <= 0 THEN {}
  ELSE IF dim <= align THEN {dim}
  ELSE {dim} \cup {align * i : i \in 1..(dim \div align)}

\* Mutant: only a strip cut in both N and K needs a C tile.
TileScratchBytesShort(mt, nt, kt, n, k) ==
  mt * kt + kt * nt + (IF kt = k \/ nt = n THEN 0 ELSE mt * nt * 4 + AlignPad)

\* A strip of C that hardware writes in place needs no C tile.
TileScratchBytes(mt, nt, kt, n, k) ==
  mt * kt + kt * nt + (IF kt = k /\ nt = n THEN 0 ELSE mt * nt * 4 + AlignPad)

\* choose_tile: the most work, then the longest K, then N, then M.
ChooseTile(m, n, k, scratch) ==
  LET fits == {c \in DimCandidates(m, PeDim) \X DimCandidates(n, PeDim)
                     \X DimCandidates(k, KStep) :
                 TileScratchBytes(c[1], c[2], c[3], n, k) <= scratch}
  IN IF fits = {} THEN NoTile
     ELSE Best(fits, [c \in fits |-> <<c[1] * c[2] * c[3], c[3], c[2], c[1]>>])

\* for (x = 0; x < n; x += t)
Starts(n, t) == [i \in 1..CeilDiv(n, t) |-> (i - 1) * t]

\* Two and three loops, the last the innermost.
Nest2(a, b) ==
  [i \in 1..(Len(a) * Len(b)) |->
    <<a[((i - 1) \div Len(b)) + 1], b[((i - 1) % Len(b)) + 1]>>]

Nest3(a, b, c) ==
  LET ab == Nest2(a, b) IN
  [i \in 1..(Len(ab) * Len(c)) |->
    Append(ab[((i - 1) \div Len(c)) + 1], c[((i - 1) % Len(c)) + 1])]

\* plan_gemm_jobs: every START job, the last of a row or column cut short.
GemmJobs(m, n, k, scratch) ==
  LET t == ChooseTile(m, n, k, scratch) IN
  IF t = NoTile THEN <<>>
  ELSE LET at == Nest3(Starts(m, t[1]), Starts(n, t[2]), Starts(k, t[3])) IN
       [i \in DOMAIN at |->
         [m0 |-> at[i][1], n0 |-> at[i][2], k0 |-> at[i][3],
          mt |-> Min({t[1], m - at[i][1]}), nt |-> Min({t[2], n - at[i][2]}),
          kt |-> Min({t[3], k - at[i][3]})]]

-----------------------------------------------------------------------------
StreamActFits(n, cin, h, w) == n * cin * h * w <= ActCap

ConvOcTiles(cout, oct) == CeilDiv(cout, Max({1, oct}))

ConvSpatialTiles(oh, ow, oht, owt) ==
  IF oht < 1 \/ owt < 1 THEN 0 ELSE CeilDiv(oh, oht) * CeilDiv(ow, owt)

\* choose_stream_conv_nest; the environment may force a nest.
StreamNest(g, forced) ==
  LET spatial == ConvSpatialTiles(g.oh, g.ow, g.oht, g.owt)
      need == spatial * 4 * g.mt * g.kdim
  IN IF forced \in {"oc_outer", "spatial_outer", "cache_col"} THEN forced
     ELSE IF spatial > 1 /\ spatial < ConvOcTiles(g.cout, g.oct) /\ need <= CacheCap
          THEN "cache_col" ELSE "spatial_outer"

Sizes(n, steps) == {d \in {n} \cup steps : 0 < d /\ d <= n}

\* choose_conv_tiles: the tile of most work whose columns, weights and sums
\* fit the budget; a single pixel and channel when none does.
ChooseConvTiles(n, kdim, cout, oh, ow) ==
  LET fits == {c \in Sizes(oh, {16, 8, 4, 2, 1}) \X Sizes(ow, {16, 8, 4, 2, 1})
                     \X Sizes(cout, {64, 32, 16, 8, 4, 1}) :
                 LET mt == n * c[1] * c[2] IN
                 4 * (mt * kdim + kdim * c[3] + mt * c[3]) <= ConvBudget}
      key(c) == LET mt == n * c[1] * c[2]
                    work == mt * c[3] * kdim
                IN IF kdim >= ReuseKdim THEN <<work, c[3], mt, c[1]>>
                   ELSE <<work, c[1], c[2], c[3]>>
  IN IF fits = {} THEN <<1, 1, 1>> ELSE Best(fits, [c \in fits |-> key(c)])

-----------------------------------------------------------------------------
\* choose_pool_stream_tiles: the widest, then the tallest window of outputs
\* whose inputs fit the vector span and one slab.
ChoosePoolTiles(c, oh, ow, g) ==
  LET span(t, k, st) == (t - 1) * st + k
      widest == Min({ow, Max({1, (MaxSpan - g.kw) \div g.sw + 1})})
      fits == {t \in (1..oh) \X (1..widest) :
                 /\ span(t[2], g.kw, g.sw) <= MaxSpan
                 /\ span(t[1], g.kh, g.sh) * span(t[2], g.kw, g.sw) <= Slab
                 /\ t[1] * t[2] <= Slab}
      best == Best(fits, [t \in fits |-> <<t[2], t[1]>>])
  IN IF fits = {} THEN NoTile
     ELSE <<Min({c, Slab \div (span(best[1], g.kh, g.sh) * span(best[2], g.kw, g.sw)),
                 Slab \div (best[1] * best[2])}),
            best[1], best[2]>>
=============================================================================
