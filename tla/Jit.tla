--------------------------------- MODULE Jit ---------------------------------
(***************************************************************************)
(* The PyVedas JIT (pyvedas/jit): an FX graph is lowered, node by node, to *)
(* statements over buffers of the DRAM image or static arrays, and the     *)
(* generated program runs, possibly several times over the same memory     *)
(* (the card runs 1..n, then 1..n+1 of its operations).                    *)
(*                                                                         *)
(* Memory is symbolic.  An element of buffer c is the atom <<c, i, "", 0>>,*)
(* a sum of products the set of the pairs it has added up, so a value in   *)
(* memory says what was computed and not only where it is.  A 32-bit word  *)
(* of DRAM is kept at its first byte: buffers start at multiples of four.  *)
(***************************************************************************)
EXTENDS DramImage, Shapes, Tiles

CONSTANTS
  Graphs,     \* the graphs to compile; see MCJit
  MaxRuns     \* how often the program is started

ASSUME RunsAssumption == MaxRuns \in Nat

\* What the parts of a meshgrid are called.
PartName(n, k) == n \o "_" \o ToString(k)

\* The buffers a handler makes when it streams.
Made(n) ==
  IF n.op \in {"skip", "output", "alias", "view", "getitem"} THEN {}
  ELSE IF n.op = "meshgrid" THEN {PartName(n.name, 0), PartName(n.name, 1)}
  ELSE {n.name}

FxNode == [name : STRING, op : STRING, in : Seq(STRING), at : Seq(Int),
           shape : Seq(Nat), small : BOOLEAN]

\* torch.fx: the nodes are in an order in which each reads earlier ones, the
\* last one and no other is the output.  The targets that are skipped have no
\* result; what _release_dead gives back are buffers of the image.
ASSUME GraphAssumption ==
  \A g \in Graphs :
    /\ g.stream \in BOOLEAN
    /\ g.nodes \in Seq(FxNode) /\ g.nodes # <<>>
    /\ \A i \in DOMAIN g.nodes :
         LET n == g.nodes[i] IN
         /\ (n.op = "output") <=> (i = Len(g.nodes))
         /\ \A x \in ToSet(n.in) :
              \E j \in 1..(i - 1) : g.nodes[j].name = x /\ g.nodes[j].op # "skip"
         /\ n.op \in {"placeholder", "get_attr"} => n.in = <<>>
         /\ n.op \in {"alias", "view", "getitem"} => n.in # <<>>
         /\ g.stream => Made(n) \subseteq Buffer

\* f, and g where f says nothing.  (TLC's own operator for it is unknown to
\* the provers.)
f \uplus g ==
  [x \in DOMAIN f \cup DOMAIN g |-> IF x \in DOMAIN f THEN f[x] ELSE g[x]]

Named(f, x, v) == [y \in DOMAIN f \cup {x} |-> IF y = x THEN v ELSE f[y]]

VARIABLES
  graph,      \* the graph: nodes, stream mode, the nest the environment forces
  phase,      \* "visit", "alloc", "release", "failed"; "run", "eot", "spin"
  at,         \* the index of the node being lowered
  todo,       \* the buffers its handler still has to allocate
  dying,      \* the inputs _release_dead still has to look at
  buf,        \* ctx.buf: the buffer of each node
  shape,      \* ctx.shape
  layout,     \* the layout of each buffer: in DRAM or not, place, element size
  pinned,     \* buffers that are never given back
  notes,      \* the largest DCCM buffers the streamed layers need
  stmts,      \* the statements, in program order
  img,        \* what the compiler has written: the DRAM image, static data
  mem,        \* the memory of the target while the program runs
  ip, tile,   \* the statement and the step of its loop nest
  opLimit,    \* _pyvedas_op_limit
  runs        \* how often the program was started

lowering == <<graph, at, todo, dying, buf, shape, layout, pinned, notes, stmts, img>>
running  == <<mem, ip, tile, opLimit, runs>>
vars == <<image, phase, lowering, running>>

-----------------------------------------------------------------------------
Nodes  == graph.nodes
Node   == Nodes[at]
InBuf(i)   == buf[Node.in[i]]
InShape(i) == shape[Node.in[i]]
InBufs == [i \in DOMAIN Node.in |-> InBuf(i)]

\* _last_use_index, 0 for a node nobody uses.
LastUse(name) ==
  Max({0} \cup {i \in DOMAIN Nodes : name \in ToSet(Nodes[i].in)})

Outputs == {buf[n] : n \in ToSet(Nodes[Len(Nodes)].in)}

-----------------------------------------------------------------------------
(* Memory *)

Nothing == {<<"?", 0, "", 0>>}
Zero    == {<<"", 0, "", 0>>}
Elem(c, i) == {<<c, i, "", 0>>}

IsElem(v) == Cardinality(v) = 1 /\ \A a \in v : a[1] # "?" /\ a[3] = ""

\* One term of a sum; a product with a padding zero adds nothing.
Product(v, w) ==
  IF v = Zero \/ w = Zero THEN {}
  ELSE IF IsElem(v) /\ IsElem(w)
       THEN {<<a[1], a[2], b[1], b[2]>> : a \in v, b \in w}
       ELSE Nothing

\* Accumulating a term twice, or on top of something else, is noticed.
Plus(old, new) == IF old \cap new # {} THEN Nothing ELSE old \cup new

Loc(c, i) ==
  IF layout[c].dram THEN <<"dram", layout[c].off + i * layout[c].eb>> ELSE <<c, i>>

Dccm(i) == <<"stream_dccm", i>>

Read(l) == IF l \in DOMAIN mem THEN mem[l] ELSE Nothing

Current(c, i) == Read(Loc(c, i)) = Elem(c, i)

\* Element i of buffer c becomes Val(i), for i in I.
Into(c, I, Val(_)) ==
  LET where == [i \in I |-> Loc(c, i)] IN
  [l \in Range(where) |-> Val(CHOOSE i \in I : where[i] = l)]

Over(I, Where(_), Val(_)) ==
  [l \in {Where(i) : i \in I} |-> Val(CHOOSE i \in I : Where(i) = l)]

None == [l \in {} |-> Nothing]

-----------------------------------------------------------------------------
(* Lowering.  A handler names the buffers its result needs, allocates      *)
(* them, and returns one statement; then the dead inputs are given back.   *)

Fail ==
  /\ phase' = "failed"
  /\ UNCHANGED <<image, lowering, running>>

\* node.all_input_nodes names an input once.
AllOnce(l) ==
  FoldLeft(LAMBDA s, n : IF n \in ToSet(s) THEN s ELSE Append(s, n), <<>>, l)

Inputs == AllOnce(Node.in)

\* The buffers of a handler, the first of them the result of the node.
Allocates(names, shapes) ==
  /\ todo' = [i \in DOMAIN names |-> [name |-> names[i], shape |-> shapes[i],
                                      eb |-> 4, bake |-> FALSE]]
  /\ buf' = [n \in ToSet(names) |-> n] \uplus Named(buf, Node.name, names[1])
  /\ shape' = [n \in ToSet(names) |-> shapes[CHOOSE i \in DOMAIN names : names[i] = n]]
              \uplus Named(shape, Node.name, shapes[1])
  /\ phase' = "alloc"

Statement(names, count, scratch, steps) ==
  stmts' = Append(stmts, [outs |-> names, work |-> {}, ins |-> InBufs, count |-> count,
                          scratch |-> scratch, steps |-> steps])

Emit(names, shapes, count, scratch, steps) ==
  IF Bad \in ToSet(shapes) \/ steps = <<>> THEN Fail
  ELSE /\ Allocates(names, shapes)
       /\ Statement(names, count, scratch, steps)
       /\ UNCHANGED <<image, graph, at, dying, layout, pinned, notes, img, running>>

Kernel == <<[do |-> "kernel"]>>

\* A call of the runtime that writes count elements of one result.
EmitCall(r) == Emit(<<Node.name>>, <<r.out>>, r.count, 0, Kernel)

OnOp(op) == phase = "visit" /\ Node.op = op

Alias(src, s) ==
  /\ buf' = Named(buf, Node.name, src)
  /\ shape' = Named(shape, Node.name, s)
  /\ dying' = Inputs
  /\ phase' = "release"
  /\ UNCHANGED <<image, graph, at, todo, layout, pinned, notes, stmts, img, running>>

\* Trace inputs, and the constants of the module: baked and never given back.
VisitInput ==
  /\ phase = "visit" /\ Node.op \in {"placeholder", "get_attr"}
  /\ LET i8 == graph.stream /\ Node.op = "get_attr" /\ Len(Node.shape) = 4 /\ Node.small
     IN todo' = <<[name |-> Node.name, shape |-> Node.shape,
                   eb |-> IF i8 THEN 1 ELSE 4, bake |-> TRUE]>>
  /\ buf' = Named(buf, Node.name, Node.name)
  /\ shape' = Named(shape, Node.name, Node.shape)
  /\ pinned' = pinned \cup {Node.name}
  /\ phase' = "alloc"
  /\ UNCHANGED <<image, graph, at, dying, layout, notes, stmts, img, running>>

VisitSkip ==
  /\ OnOp("skip")
  /\ dying' = Inputs /\ phase' = "release"
  /\ UNCHANGED <<image, graph, at, todo, buf, shape, layout, pinned, notes,
                 stmts, img, running>>

VisitOutput ==
  /\ OnOp("output") /\ phase' = "ready"
  /\ UNCHANGED <<image, lowering, running>>

-----------------------------------------------------------------------------
\* Two tensors of one shape are one call; of two shapes, a loop over the
\* broadcast shape; with a scalar, a loop over the tensor.
EmitBinary ==
  /\ OnOp("binary")
  /\ IF Len(Node.in) = 1 \/ (Len(Node.in) = 2 /\ InShape(1) = InShape(2))
     THEN EmitCall([out |-> InShape(1), count |-> Numel(InShape(1))])
     ELSE LET out == Broadcast(InShape(1), InShape(2)) IN
          Emit(<<Node.name>>, <<out>>, Numel(out), 0,
               <<[do |-> "loop", out |-> out,
                  in |-> [i \in 1..2 |-> Padded(InShape(i), Len(out))]]>>)

\* A streamed element-wise operation goes through DCCM one slab at a time.
Slabs(n) ==
  [i \in DOMAIN Starts(n, Slab) |->
    [do |-> "slab", from |-> Starts(n, Slab)[i],
     len |-> Min({Slab, n - Starts(n, Slab)[i]})]]

EmitUnary ==
  LET n == Numel(InShape(1)) IN
  /\ phase = "visit" /\ Node.op \in {"unary_same", "requant_i32"}
  /\ IF Node.op = "requant_i32" /\ Len(Node.in) # 1 THEN Fail
     ELSE /\ Allocates(<<Node.name>>, <<InShape(1)>>)
          /\ Statement(<<Node.name>>, n, 0,
                       IF graph.stream THEN Slabs(n) ELSE Kernel)
          /\ notes' = [notes EXCEPT !.stage = @ \/ graph.stream]
          /\ UNCHANGED <<image, graph, at, dying, layout, pinned, img, running>>

EmitAlias == OnOp("alias") /\ Alias(InBuf(1), InShape(1))

EmitView ==
  /\ OnOp("view")
  /\ LET s == InferView(Numel(InShape(1)), Node.at) IN
     IF s = Bad THEN Fail ELSE Alias(InBuf(1), s)

\* A part of a tuple is the buffer its maker registered under the part's name.
EmitGetitem ==
  /\ OnOp("getitem")
  /\ LET part == PartName(Node.in[1], Node.at[1]) IN
     IF Node.at[1] \notin 0..1 \/ part \notin DOMAIN buf THEN Fail
     ELSE Alias(buf[part], shape[part])

EmitArange ==
  /\ OnOp("arange")
  /\ EmitCall([out |-> <<Node.at[1]>>, count |-> Node.at[1]])

EmitMeshgrid ==
  /\ OnOp("meshgrid")
  /\ LET s == <<Numel(InShape(1)), Numel(InShape(2))>> IN
     Emit(<<PartName(Node.name, 0), PartName(Node.name, 1)>>, <<s, s>>,
          s[1] * s[2], 0, Kernel)

EmitStack == OnOp("stack") /\ EmitCall(Stack([i \in DOMAIN Node.in |-> InShape(i)], Node.at[1]))
EmitCat == OnOp("cat") /\ EmitCall(Cat([i \in DOMAIN Node.in |-> InShape(i)], Node.at[1]))
EmitPad == OnOp("pad") /\ EmitCall(Pad(InShape(1), Node.at))
EmitPermute == OnOp("permute") /\ EmitCall(Permute(InShape(1), Node.at))
EmitSlice == OnOp("slice") /\ EmitCall(Slice(InShape(1), Node.at[1], Node.at[2], Node.at[3]))
EmitSelect == OnOp("select") /\ EmitCall(Select(InShape(1), Node.at[1]))

EmitUpsample ==
  \/ OnOp("upsample_nearest")
     /\ EmitCall(UpsampleNearest(InShape(1), Node.at[1], Node.at[2]))
  \/ OnOp("upsample_bilinear")
     /\ EmitCall(UpsampleBilinear(InShape(1), Node.at[1], Node.at[2]))

-----------------------------------------------------------------------------
\* The tiles of a streamed pool without padding: the whole map when it fits
\* a slab, windows of the planner's size when not.
PoolTiles(shape4, out4, g) ==
  LET whole == Numel(shape4) <= Slab /\ Numel(out4) <= Slab
      flat(s) == IF whole THEN <<1, s[1] * s[2], s[3], s[4]>> ELSE s
      s   == flat(shape4)
      out == flat(out4)
      t   == IF whole THEN Tail(out) ELSE ChoosePoolTiles(s[2], out[3], out[4], g)
      nc  == Nest2([i \in 1..s[1] |-> i - 1], Starts(s[2], t[1]))
      yx  == Nest2(Starts(out[3], t[2]), Starts(out[4], t[3]))
      p   == Nest2(nc, yx)
  IN IF ~ graph.stream \/ g.pad # 0 \/ t = NoTile THEN Kernel
     ELSE [i \in DOMAIN p |->
            [do |-> "pool", s |-> s, out |-> out, g |-> g,
             ni |-> p[i][1][1], ci0 |-> p[i][1][2],
             oy0 |-> p[i][2][1], ox0 |-> p[i][2][2],
             ct  |-> Min({t[1], s[2] - p[i][1][2]}),
             oht |-> Min({t[2], out[3] - p[i][2][1]}),
             owt |-> Min({t[3], out[4] - p[i][2][2]})]]

EmitMaxPool ==
  /\ OnOp("max_pool2d")
  /\ LET g == [kh |-> Node.at[1], kw |-> Node.at[2], sh |-> Node.at[3],
               sw |-> Node.at[4], pad |-> Node.at[5]]
         r == MaxPool(InShape(1), g)
         steps == PoolTiles(InShape(1), r.out, g)
     IN /\ Allocates(<<Node.name>>, <<r.out>>)
        /\ Statement(<<Node.name>>, r.count, 0, steps)
        /\ notes' = [notes EXCEPT !.stage = @ \/ steps # Kernel]
        /\ UNCHANGED <<image, graph, at, dying, layout, pinned, img, running>>

\* emit_gemm_c: one job or a nest of them for every pair of matrices.
MatmulSteps(a, b, out, scratch) ==
  LET m == Rows(a)  k == Cols(a)  n == Cols(b)
      jobs == GemmJobs(m, n, k, scratch)
      coords == SetToSeq(Coords(Batch(out)))
      p == Nest2(coords, jobs)
  IN [i \in DOMAIN p |->
       [do |-> "job", job |-> p[i][2], m |-> m, n |-> n, k |-> k,
        \* the matrices of the batch coordinates, and where the C code looks
        am |-> Ravel(Padded(Batch(a), Len(Batch(out))), p[i][1]),
        bm |-> Ravel(Padded(Batch(b), Len(Batch(out))), p[i][1]),
        cm |-> Ravel(Batch(out), p[i][1]),
        a0 |-> BatchOffset(p[i][1], Batch(a), m * k),
        b0 |-> BatchOffset(p[i][1], Batch(b), k * n),
        c0 |-> BatchOffset(p[i][1], Batch(out), m * n)]]

Scratch(m, n, k, budget) ==
  LET t == ChooseTile(m, n, k, budget) IN
  IF t = NoTile THEN 0 ELSE TileScratchBytes(t[1], t[2], t[3], n, k)

EmitMatmul ==
  /\ OnOp("gemm_mmio")
  /\ LET a == InShape(1)  b == InShape(2)
         out == MatmulShape(a, b)
         budget == ScratchBudget(4 * (Numel(a) + Numel(b) + Numel(out)))
     IN IF out = Bad THEN Fail
        ELSE Emit(<<Node.name>>, <<out>>, Numel(out),
                  Scratch(Rows(a), Cols(b), Cols(a), budget),
                  MatmulSteps(a, b, out, budget))

-----------------------------------------------------------------------------
\* The sizes of a convolution in tiles of t[1] x t[2] pixels and t[3] channels.
ConvPlan(x, w, out, stride, pad, t) ==
  LET kdim == w[2] * w[3] * w[4]
      mt   == x[1] * t[1] * t[2]
  IN [n |-> x[1], cin |-> x[2], h |-> x[3], w |-> x[4], cout |-> w[1],
      kh |-> w[3], kw |-> w[4], st |-> stride, pad |-> pad,
      oh |-> out[3], ow |-> out[4], oht |-> t[1], owt |-> t[2], oct |-> t[3],
      mt |-> mt, kdim |-> kdim,
      budget |-> ScratchBudget(4 * (mt * kdim + kdim * t[3] + mt * t[3]))]

GemmBytes(g) == Scratch(g.mt, g.oct, g.kdim, g.budget)

\* The loop nests of a convolution.  Columns are built for a tile of pixels,
\* weights packed for a tile of channels, multiplied, and the sums written
\* out with the bias; col, wt and acc are the arrays they meet in.
ConvSteps(g, nest, staged, col, wt, acc) ==
  LET jobs == GemmJobs(g.mt, g.oct, g.kdim, g.budget)
      ps   == Nest2(Starts(g.oh, g.oht), Starts(g.ow, g.owt))
      ocs  == Starts(g.cout, g.oct)
      size == IF nest = "cache_col" THEN g.mt * g.kdim ELSE 0
      step(do) == [do |-> do, g |-> g, nest |-> nest, staged |-> staged,
                   col |-> col, wt |-> wt, acc |-> acc]
      build(i) == <<step("im2col") \uplus [oh0 |-> ps[i][1], ow0 |-> ps[i][2], slot |-> (i - 1) * size]>>
      pack(c)  == <<step("pack") \uplus [oc0 |-> c]>>
      mul(i)   == [j \in DOMAIN jobs |-> step("gemm") \uplus [job |-> jobs[j], slot |-> (i - 1) * size]]
      sum(i, c) == mul(i) \o <<step("bias") \uplus [oh0 |-> ps[i][1], ow0 |-> ps[i][2], oc0 |-> c]>>
      each(s, F(_)) == FlattenSeq([i \in DOMAIN s |-> F(i)])
  IN IF jobs = <<>> THEN <<>> ELSE
     (IF staged THEN <<step("stage")>> ELSE <<>>)
     \o CASE nest = "cache_col" ->
               each(ps, build) \o
               each(ocs, LAMBDA c : pack(ocs[c]) \o each(ps, LAMBDA i : sum(i, ocs[c])))
          [] nest \in {"spatial_outer", "plain"} ->
               each(ps, LAMBDA i : build(i) \o
                 each(ocs, LAMBDA c : pack(ocs[c]) \o sum(i, ocs[c])))
          [] nest = "oc_outer" ->
               each(ocs, LAMBDA c : pack(ocs[c]) \o
                 each(ps, LAMBDA i : build(i) \o sum(i, ocs[c])))

\* note_stream_conv and note_stream_act: the largest need of any layer.
NoteConv(g, nest, staged) ==
  LET one == Max({g.mt * g.kdim, 1})
      up(a, b) == Max({a, b})
      cached == nest = "cache_col"
  IN [notes EXCEPT
       !.cache = IF cached THEN up(@, one * Max({1, ConvSpatialTiles(g.oh, g.ow, g.oht, g.owt)})) ELSE @,
       !.col   = IF cached THEN @ ELSE up(@, one),
       !.wt    = up(@, g.kdim * g.oct),
       !.acc   = up(@, g.mt * g.oct),
       !.gemm  = up(@, GemmBytes(g)),
       !.act   = IF staged THEN up(@, g.n * g.cin * g.h * g.w) ELSE @]

EmitConvStream(x, w, out) ==
  LET g == ConvPlan(x, w, out, Node.at[1], Node.at[2],
                    ChooseConvTiles(x[1], w[2] * w[3] * w[4], w[1], out[3], out[4]))
      nest == StreamNest(g, graph.nest)
      staged == nest # "cache_col" /\ StreamActFits(g.n, g.cin, g.h, g.w)
      steps == ConvSteps(g, nest, staged, "stream_dccm", "stream_wt", "stream_acc")
  IN IF steps = <<>> THEN Fail
     ELSE /\ Allocates(<<Node.name>>, <<out>>)
          /\ Statement(<<Node.name>>, Numel(out), GemmBytes(g), steps)
          /\ notes' = NoteConv(g, nest, staged)
          /\ UNCHANGED <<image, graph, at, dying, layout, pinned, img, running>>

\* Without streaming there is one tile, and its columns, weights and sums
\* are buffers of their own.
EmitConvPlain(x, w, out) ==
  LET g == ConvPlan(x, w, out, Node.at[1], Node.at[2], <<out[3], out[4], w[1]>>)
      col == Node.name \o "_col"  wt == Node.name \o "_wt"  acc == Node.name \o "_gemm"
      steps == ConvSteps(g, "plain", FALSE, col, wt, acc)
  IN IF steps = <<>> THEN Fail
     ELSE /\ Allocates(<<Node.name, col, wt, acc>>,
                       <<out, <<g.mt, g.kdim>>, <<g.kdim, g.cout>>, <<g.mt, g.cout>> >>)
          /\ stmts' = Append(stmts, [outs |-> <<Node.name>>, work |-> {col, wt, acc},
                                     ins |-> InBufs, count |-> Numel(out),
                                     scratch |-> GemmBytes(g), steps |-> steps])
          /\ UNCHANGED <<image, graph, at, dying, layout, pinned, notes, img, running>>

EmitConv ==
  /\ OnOp("conv2d")
  /\ LET x == InShape(1)  w == InShape(2)
         out == ConvShape(x, w, Node.at[1], Node.at[2])
     IN IF out = Bad THEN Fail
        ELSE IF graph.stream THEN EmitConvStream(x, w, out) ELSE EmitConvPlain(x, w, out)

-----------------------------------------------------------------------------
\* ctx.alloc and MemoryPlan.add, or a materializer: the next buffer of the
\* handler gets its place, and its contents when it is baked into the image.
AllocOne ==
  LET b == Head(todo)
      n == Numel(b.shape)
      named(l) == layout' = Named(layout, b.name, l)
  IN
  /\ phase = "alloc" /\ b.name \notin DOMAIN layout
  /\ IF graph.stream
     THEN /\ Alloc(b.name, b.eb * n)
          /\ named([dram |-> TRUE, off |-> held'[b.name].off, eb |-> b.eb, n |-> n])
     ELSE /\ named([dram |-> FALSE, off |-> 0, eb |-> b.eb, n |-> n])
          /\ UNCHANGED image
  /\ LET l == layout'[b.name]
         place(i) == IF l.dram THEN <<"dram", l.off + i * l.eb>> ELSE <<b.name, i>>
     IN img' = IF b.bake THEN [x \in {place(i) : i \in 0..(n - 1)} |->
                   Elem(b.name, CHOOSE i \in 0..(n - 1) : place(i) = x)] \uplus img
               ELSE img
  /\ todo' = Tail(todo)
  /\ IF Len(todo) > 1 THEN UNCHANGED <<phase, dying>>
     ELSE phase' = "release" /\ dying' = IF b.bake THEN <<>> ELSE Inputs
  /\ UNCHANGED <<graph, at, buf, shape, pinned, notes, stmts, running>>

\* The image is full, or the name is taken.
AllocFail ==
  /\ phase = "alloc"
  /\ \/ Head(todo).name \in DOMAIN layout
     \/ graph.stream /\ AllocFails(Head(todo).eb * Numel(Head(todo).shape))
  /\ Fail

\* Mutant: a buffer with an alias is never given back.
IsDeadUnshared(x) ==
  /\ graph.stream /\ LastUse(x) = at /\ buf[x] \notin pinned
  /\ \A f \in DOMAIN buf : buf[f] = buf[x] => f = x

\* _release_dead: an input is given back after its last use, unless a node
\* that aliases its buffer is used later.
IsDead(x) ==
  LET c == buf[x] IN
  /\ graph.stream /\ LastUse(x) = at /\ c \notin pinned
  /\ \A f \in DOMAIN buf : buf[f] = c => LastUse(f) <= at

\* Mutant: elements are given back where bytes are asked for.
ReleaseElements ==
  /\ phase = "release" /\ dying # <<>>
  /\ dying' = Tail(dying)
  /\ LET c == buf[Head(dying)] IN
     IF IsDead(Head(dying))
     THEN /\ PutBack([off |-> layout[c].off, size |-> layout[c].n])
          /\ held' = [held EXCEPT ![c] = Nowhere]
          /\ UNCHANGED cursor
     ELSE UNCHANGED image
  /\ UNCHANGED <<graph, phase, at, todo, buf, shape, layout, pinned, notes,
                 stmts, img, running>>

ReleaseOne ==
  /\ phase = "release" /\ dying # <<>>
  /\ dying' = Tail(dying)
  /\ LET c == buf[Head(dying)] IN
     IF IsDead(Head(dying))
     THEN /\ PutBack([off |-> layout[c].off, size |-> layout[c].n * layout[c].eb])
          /\ held' = [held EXCEPT ![c] = Nowhere]
          /\ UNCHANGED cursor
     ELSE UNCHANGED image
  /\ UNCHANGED <<graph, phase, at, todo, buf, shape, layout, pinned, notes,
                 stmts, img, running>>

NextNode ==
  /\ phase = "release" /\ dying = <<>>
  /\ at' = at + 1 /\ phase' = "visit"
  /\ UNCHANGED <<image, graph, todo, dying, buf, shape, layout, pinned, notes,
                 stmts, img, running>>

-----------------------------------------------------------------------------
(* The generated program.  Writes(s, p) is what step p of statement s does *)
(* to memory.                                                              *)

Range0(n) == 0..(n - 1)

\* All the inputs of a statement hold what their nodes computed.
InsCurrent(s) ==
  \A c \in ToSet(s.ins) : \A i \in Range0(layout[c].n) : Current(c, i)

KernelWrites(s) ==
  Over(ToSet(s.outs) \X Range0(s.count), LAMBDA q : Loc(q[1], q[2]),
       LAMBDA q : IF InsCurrent(s) THEN Elem(q[1], q[2]) ELSE Nothing)

LoopWrites(s, p) ==
  LET out == s.outs[1]
      ok(x) == \A j \in 1..2 :
                 Read(Loc(s.ins[j], LoopOffset(p.in[j], x)))
                   = Elem(s.ins[j], Ravel(p.in[j], x))
  IN Over(Coords(p.out), LAMBDA x : Loc(out, LoopOffset(p.out, x)),
          LAMBDA x : IF ok(x) THEN Elem(out, Ravel(p.out, x)) ELSE Nothing)

\* stream_stage_a and stream_stage_b are the two halves of the DCCM buffer.
SlabWrites(s, p) ==
  LET x == s.ins[1]  out == s.outs[1]
      result(i) == IF Current(x, p.from + i) THEN Elem(out, p.from + i) ELSE Nothing
      span == Range0(p.len)
  IN Over(span, Dccm, LAMBDA i : Read(Loc(x, p.from + i)))
     \uplus Over(span, LAMBDA i : Dccm(Slab + i), result)
     \uplus Over(span, LAMBDA i : Loc(out, p.from + i), result)

\* A window of a pool: copied in row by row, pooled, copied out row by row.
PoolWrites(s, p) ==
  LET g == p.g
      hs == (p.oht - 1) * g.sh + g.kh
      ws == (p.owt - 1) * g.sw + g.kw
      src(c, y, x) == ((p.ni * p.s[2] + c) * p.s[3] + y) * p.s[4] + x
      dst(c, y, x) == ((p.ni * p.s[2] + c) * p.out[3] + y) * p.out[4] + x
      cells == Range0(p.ct) \X Range0(hs) \X Range0(ws)
      stage == Over(cells, LAMBDA q : Dccm((q[1] * hs + q[2]) * ws + q[3]),
                    LAMBDA q : Read(Loc(s.ins[1],
                      src(p.ci0 + q[1], p.oy0 * g.sh + q[2], p.ox0 * g.sw + q[3]))))
      outs == Range0(p.ct) \X Range0(p.oht) \X Range0(p.owt)
      window == Range0(g.kh) \X Range0(g.kw)
      index(q) == dst(p.ci0 + q[1], p.oy0 + q[2], p.ox0 + q[3])
      ok(q) == \A d \in window :
        stage[Dccm((q[1] * hs + q[2] * g.sh + d[1]) * ws + q[3] * g.sw + d[2])]
          = Elem(s.ins[1], src(p.ci0 + q[1], (p.oy0 + q[2]) * g.sh + d[1],
                                             (p.ox0 + q[3]) * g.sw + d[2]))
      result(q) == IF ok(q) THEN Elem(s.outs[1], index(q)) ELSE Nothing
  IN stage
     \uplus Over(outs, LAMBDA q : Dccm(Slab + (q[1] * p.oht + q[2]) * p.owt + q[3]), result)
     \uplus Over(outs, LAMBDA q : Loc(s.outs[1], index(q)), result)

\* Mutant: every panel of K is stored.
JobWritesStored(j, n, k, A, B, C) ==
  LET dot(q) == UNION {Product(Read(A[(j.m0 + q[1]) * k + j.k0 + t]),
                               Read(B[(j.k0 + t) * n + j.n0 + q[2]])) : t \in Range0(j.kt)}
  IN Over(Range0(j.mt) \X Range0(j.nt),
          LAMBDA q : C[(j.m0 + q[1]) * n + j.n0 + q[2]], dot)

\* pyvedas_gemm_job: A, B and C give the places of the operands and the
\* result; the first panel of K is stored, the others are added.
JobWrites(j, n, k, A, B, C) ==
  LET dot(q) == UNION {Product(Read(A[(j.m0 + q[1]) * k + j.k0 + t]),
                               Read(B[(j.k0 + t) * n + j.n0 + q[2]])) : t \in Range0(j.kt)}
      cell(q) == C[(j.m0 + q[1]) * n + j.n0 + q[2]]
  IN Over(Range0(j.mt) \X Range0(j.nt), cell,
          LAMBDA q : IF j.k0 = 0 THEN dot(q) ELSE Plus(Read(cell(q)), dot(q)))

\* A finished sum is the element of the product it belongs to.
MatmulWrites(s, p) ==
  LET a == s.ins[1]  b == s.ins[2]  c == s.outs[1]
      sum(i, j) == {<<a, p.am * p.m * p.k + i * p.k + t, b, p.bm * p.k * p.n + t * p.n + j>> :
                      t \in Range0(p.k)}
      raw == JobWrites(p.job, p.n, p.k, [x \in Nat |-> Loc(a, p.a0 + x)],
                       [x \in Nat |-> Loc(b, p.b0 + x)], [x \in Nat |-> Loc(c, p.c0 + x)])
      \* which element of the product this location is
      name(l) == {q \in Range0(p.m) \X Range0(p.n) :
                    l = Loc(c, p.cm * p.m * p.n + q[1] * p.n + q[2])}
  IN [l \in DOMAIN raw |->
       IF \E q \in name(l) : raw[l] = sum(q[1], q[2])
       THEN LET q == CHOOSE r \in name(l) : TRUE IN
            Elem(c, p.cm * p.m * p.n + q[1] * p.n + q[2])
       ELSE raw[l]]

-----------------------------------------------------------------------------
(* The steps of a streamed convolution *)

\* stream_col starts behind stream_act.
Col(p, i) ==
  <<p.col, i + IF p.nest \in {"cache_col", "plain"} THEN p.slot ELSE notes.act>>

\* pyvedas_memcpy of the whole input to stream_act.
StageWrites(s, g) ==
  Over(Range0(g.n * g.cin * g.h * g.w), Dccm, LAMBDA i : Read(Loc(s.ins[1], i)))

Taps(g) == Range0(g.cin) \X Range0(g.kh) \X Range0(g.kw)

TapIndex(g, d) == d[1] * g.kh * g.kw + d[2] * g.kw + d[3]

\* The input under tap d of output pixel (y, x), or none in the padding.
Inside(g, y, x, d) ==
  /\ y * g.st + d[2] - g.pad \in Range0(g.h)
  /\ x * g.st + d[3] - g.pad \in Range0(g.w)

InputAt(g, n, y, x, d) ==
  ((n * g.cin + d[1]) * g.h + y * g.st + d[2] - g.pad) * g.w + x * g.st + d[3] - g.pad

\* The pixels of a tile; tiles at the edge are cut short.
Pixels(g, p) ==
  Range0(g.n) \X (p.oh0..(Min({p.oh0 + g.oht, g.oh}) - 1))
             \X (p.ow0..(Min({p.ow0 + g.owt, g.ow}) - 1))

\* Where in the tile a pixel is: the rows of the tile have its own width.
PixelRow(g, p, q) ==
  LET high == Min({g.oht, g.oh - p.oh0})
      wide == Min({g.owt, g.ow - p.ow0})
  IN q[1] * high * wide + (q[2] - p.oh0) * wide + q[3] - p.ow0

Im2colWrites(s, p) ==
  LET g == p.g
      x(i) == Read(IF p.staged THEN Dccm(i) ELSE Loc(s.ins[1], i))
  IN Over(Pixels(g, p) \X Taps(g),
          LAMBDA e : Col(p, PixelRow(g, p, e[1]) * g.kdim + TapIndex(g, e[2])),
          LAMBDA e : IF Inside(g, e[1][2], e[1][3], e[2])
                     THEN x(InputAt(g, e[1][1], e[1][2], e[1][3], e[2])) ELSE Zero)

Channels(g, p) == p.oc0..(Min({p.oc0 + g.oct, g.cout}) - 1)

PackWrites(s, p) ==
  LET g == p.g IN
  Over(Range0(g.kdim) \X Channels(g, p),
       LAMBDA e : <<p.wt, e[1] * g.oct + e[2] - p.oc0>>,
       LAMBDA e : Read(Loc(s.ins[2], e[2] * g.kdim + e[1])))

GemmWrites(p) ==
  JobWrites(p.job, p.g.oct, p.g.kdim, [i \in Nat |-> Col(p, i)],
            [i \in Nat |-> <<p.wt, i>>], [i \in Nat |-> <<p.acc, i>>])

\* Reference: the products a pixel of an output channel is the sum of.
ConvSum(s, g, n, oc, y, x) ==
  {<<s.ins[1], InputAt(g, n, y, x, d), s.ins[2], oc * g.kdim + TapIndex(g, d)>> :
     d \in {t \in Taps(g) : Inside(g, y, x, t)}}

BiasWrites(s, p) ==
  LET g == p.g
      out == s.outs[1]
      index(e) == ((e[1][1] * g.cout + e[2]) * g.oh + e[1][2]) * g.ow + e[1][3]
      acc(e) == Read(<<p.acc, PixelRow(g, p, e[1]) * g.oct + e[2] - p.oc0>>)
      ok(e) == /\ acc(e) = ConvSum(s, g, e[1][1], e[2], e[1][2], e[1][3])
               /\ Current(s.ins[3], e[2])
  IN Over(Pixels(g, p) \X Channels(g, p), LAMBDA e : Loc(out, index(e)),
          LAMBDA e : IF ok(e) THEN Elem(out, index(e)) ELSE Nothing)

Writes(s, p) ==
  CASE p.do = "kernel" -> KernelWrites(s)
    [] p.do = "loop"   -> LoopWrites(s, p)
    [] p.do = "slab"   -> SlabWrites(s, p)
    [] p.do = "pool"   -> PoolWrites(s, p)
    [] p.do = "job"    -> MatmulWrites(s, p)
    [] p.do = "stage"  -> StageWrites(s, p.g)
    [] p.do = "im2col" -> Im2colWrites(s, p)
    [] p.do = "pack"   -> PackWrites(s, p)
    [] p.do = "gemm"   -> GemmWrites(p)
    [] p.do = "bias"   -> BiasWrites(s, p)

-----------------------------------------------------------------------------
(* The runs of the program.  DRAM is written once and keeps what a run     *)
(* leaves in it; the data of the program itself is loaded before each run. *)

Kept == IF runs = 0 THEN img ELSE [l \in {x \in DOMAIN mem : x[1] = "dram"} |-> mem[l]]

Start ==
  /\ phase \in {"ready", "eot"} /\ runs < MaxRuns
  /\ IF runs = 0 THEN opLimit' \in 1..(Len(stmts) + 1) ELSE opLimit' = opLimit + 1
  /\ mem' = Kept \uplus img
  /\ ip' = 1 /\ tile' = 1 /\ runs' = runs + 1 /\ phase' = "run"
  /\ UNCHANGED <<image, lowering>>

Stmt == stmts[ip]
Step == Stmt.steps[tile]

RunStep ==
  /\ phase = "run" /\ ip <= Len(stmts)
  /\ mem' = Writes(Stmt, Step) \uplus mem
  /\ IF tile < Len(Stmt.steps) THEN tile' = tile + 1 /\ UNCHANGED <<ip, phase>>
     ELSE /\ tile' = 1 /\ ip' = ip + 1
          /\ phase' = IF ip >= opLimit THEN "eot" ELSE "run"
  /\ UNCHANGED <<image, lowering, opLimit, runs>>

\* The results are compared with what the model computed on the host; a
\* program that finds a difference loops for ever.
GoldenCheck ==
  /\ phase = "run" /\ ip > Len(stmts)
  /\ phase' = IF \A c \in Outputs : \A i \in Range0(layout[c].n) : Current(c, i)
              THEN "eot" ELSE "spin"
  /\ UNCHANGED <<image, lowering, running>>

-----------------------------------------------------------------------------
Init ==
  /\ graph \in Graphs
  /\ phase = "visit" /\ at = 1 /\ todo = <<>> /\ dying = <<>>
  /\ buf = [n \in {} |-> n] /\ shape = [n \in {} |-> <<>>]
  /\ layout = [n \in {} |-> <<>>] /\ pinned = {}
  /\ notes = [stage |-> FALSE, col |-> 0, cache |-> 0, wt |-> 0, acc |-> 0,
              gemm |-> 0, act |-> 0]
  /\ stmts = <<>> /\ img = None /\ mem = None
  /\ ip = 1 /\ tile = 1 /\ opLimit = 0 /\ runs = 0
  /\ ImageInit

Lower ==
  \/ VisitInput \/ VisitSkip \/ VisitOutput
  \/ EmitBinary \/ EmitUnary \/ EmitAlias \/ EmitView \/ EmitGetitem \/ EmitArange
  \/ EmitMeshgrid \/ EmitStack \/ EmitCat \/ EmitPad \/ EmitPermute \/ EmitSlice
  \/ EmitSelect \/ EmitUpsample \/ EmitMaxPool \/ EmitMatmul \/ EmitConv
  \/ AllocOne \/ AllocFail \/ ReleaseOne \/ NextNode

Run == Start \/ RunStep \/ GoldenCheck

\* Nothing is left to do: the compiler refused the graph, the program stopped
\* for the last time, or it loops for ever.
Stopped ==
  /\ phase \in {"failed", "spin"} \/ (phase = "eot" /\ runs = MaxRuns)
  /\ UNCHANGED vars

Next == Lower \/ Run \/ Stopped

Spec == Init /\ [][Next]_vars

-----------------------------------------------------------------------------
\* The state of LoweringCtx and of the running program (codegen_handlers.py:65-84,
\* codegen.py:24-44): every node lowered so far has a buffer with a layout, and
\* sees it under a shape of as many elements: no view (codegen_handlers.py:189-208,
\* 468-481) reads past what it aliases.
TypeOK ==
  /\ at \in 1..Len(Nodes)
  /\ phase \in {"visit", "alloc", "release", "ready", "failed", "run", "eot", "spin"}
  /\ DOMAIN buf = DOMAIN shape /\ ToSet(dying) \subseteq DOMAIN buf
  /\ \A f \in DOMAIN buf : buf[f] \in DOMAIN layout \cup {t.name : t \in ToSet(todo)}
  /\ pinned \subseteq DOMAIN layout \cup {t.name : t \in ToSet(todo)}
  /\ ip \in 1..(Len(stmts) + 1) /\ (phase = "run" /\ ip <= Len(stmts) => tile \in DOMAIN Stmt.steps)
  /\ opLimit \in Nat /\ runs \in 0..MaxRuns
  /\ \A f \in DOMAIN buf :
       buf[f] \in DOMAIN layout \ {t.name : t \in ToSet(todo)} => Numel(shape[f]) = layout[buf[f]].n

\* The goldens of the host are baked into the program "so FPGA EOT implies correct
\* outputs" (compile.py:68): it compares its results with them and never finds a
\* difference, which would be the end of it (codegen.py:384-413).
GoldensMatch == phase # "spin"

\* When a statement is done each buffer it makes holds, at every index, the
\* element the graph asks for: no tile, panel, edge or batch was missed,
\* repeated or read from the wrong place, and none of its inputs had been
\* given to another buffer (codegen_handlers.py:738-1271, codegen.py:122-149).
\* It holds in every run, the later ones over the memory of the earlier.  The
\* results of the graph are still there when the program compares them with the
\* host's (codegen.py:384-413): it never enters the endless loop.
ResultsRight ==
  /\ phase \in {"run", "eot"} /\ ip > 1 /\ tile = 1 =>
       \A c \in ToSet(stmts[ip - 1].outs) : \A i \in Range0(layout[c].n) : Current(c, i)
  /\ GoldensMatch

Cells(c) == {Loc(c, i) : i \in Range0(layout[c].n)}

\* The cells of the one DCCM buffer all layers share, by kind of layer.
DccmCells == Max({notes.cache, notes.act + notes.col, notes.act,
                  IF notes.stage THEN 2 * Slab ELSE 0})

\* A step writes only the buffers its statement makes and the DCCM arrays,
\* inside the sizes _emit_stream_dccm declares after the last layer
\* (codegen.py:285-317, codegen_handlers.py:138-156).
InBounds ==
  phase = "run" /\ ip <= Len(stmts) =>
    DOMAIN Writes(Stmt, Step) \subseteq
      {Dccm(i) : i \in Range0(DccmCells)}
      \cup {<<"stream_wt", i>> : i \in Range0(notes.wt)}
      \cup {<<"stream_acc", i>> : i \in Range0(notes.acc)}
      \cup UNION {Cells(c) : c \in ToSet(Stmt.outs) \cup Stmt.work}

\* A statement never writes where its inputs are: they are given back after
\* its result was placed, not before (codegen.py:245-247), and not at all
\* while an alias of theirs is used later (codegen.py:136-143).
InputsKept ==
  phase = "ready" =>
    \A s \in ToSet(stmts) : \A c \in ToSet(s.outs) \cup s.work, d \in ToSet(s.ins) :
      Cells(c) \cap Cells(d) = {}

\* When the graph is lowered every region is back in the image but those of
\* the trace inputs, the constants, the results and what nobody ever used:
\* an alias neither loses a buffer nor keeps it (codegen.py:122-149).
AllReleased ==
  phase = "ready" =>
    \A c \in {b \in Buffer : held[b] # Nowhere} :
      \/ c \in pinned \cup Outputs
      \/ \A f \in DOMAIN buf : buf[f] = c => LastUse(f) = 0

\* A buffer is released neither too early nor never (codegen.py:122-149).
ReleasesRight == InputsKept /\ AllReleased

\* What pyvedas_gemm_job needs for a job, packed operands, padding and C tile
\* (gemm_mmio.c:115-129), is within the scratch the compiler declared for the
\* whole nest (gemm_tiles.py:66-72), whichever tile is cut short.
JobBytes(j, n) ==
  LET packed == j.mt * j.kt + j.kt * j.nt IN
  IF j.nt = n /\ j.k0 = 0 THEN packed ELSE Align4(packed) + 4 * j.mt * j.nt

ScratchFits ==
  phase = "ready" =>
    \A s \in ToSet(stmts) : \A p \in ToSet(s.steps) :
      /\ p.do = "job"  => JobBytes(p.job, p.n) <= s.scratch
      /\ p.do = "gemm" => JobBytes(p.job, p.g.oct) <= IF p.nest = "plain" THEN s.scratch ELSE notes.gemm

\* All a program touches, and all its GEMM jobs need, is declared: DRAM
\* buffers, DCCM arrays and scratch, whichever tile is cut short.
FitsMemory == InBounds /\ ScratchFits
=============================================================================
