-------------------------------- MODULE Shapes --------------------------------
(***************************************************************************)
(* The shapes the handlers of the JIT compute for their results            *)
(* (pyvedas/jit/codegen_handlers.py), and the element offsets they write   *)
(* into the generated C.  A shape is a sequence of sizes; Bad stands for   *)
(* the RegistryError that stops the compilation.                           *)
(***************************************************************************)
EXTENDS Integers, SequencesExt

Bad == <<-1>>

Numel(s) == FoldLeft(LAMBDA n, d : n * d, 1, s)

Total(s) == FoldLeft(LAMBDA n, d : n + d, 0, s)

At(s, i, d) == [s EXCEPT ![i] = d]

\* A dimension counted from the end; dimensions count from 0 as in the code.
NormDim(d, rank) == IF d < 0 THEN d + rank ELSE d

DimOK(d, rank) == NormDim(d, rank) \in 0..(rank - 1)

-----------------------------------------------------------------------------
\* Mutant: the number of elements is not compared.
InferViewUnchecked(n, dims) ==
  LET known == Numel(SelectSeq(dims, LAMBDA d : d # -1)) IN
  [i \in DOMAIN dims |-> IF dims[i] = -1 THEN n \div known ELSE dims[i]]

\* _infer_view: one size may be -1 and is what the others leave.
InferView(n, dims) ==
  LET open  == {i \in DOMAIN dims : dims[i] = -1}
      known == Numel(SelectSeq(dims, LAMBDA d : d # -1))
      full  == IF open = {} THEN dims
               ELSE At(dims, Max(open), n \div known)
  IN IF \/ Cardinality(open) > 1
        \/ \E i \in DOMAIN dims : dims[i] < -1
        \/ open # {} /\ (known = 0 \/ n % known # 0)
     THEN Bad
     ELSE IF Numel(full) = n THEN full ELSE Bad

\* A shape with sizes of 1 in front, up to the given rank.
Padded(s, rank) == [i \in 1..(rank - Len(s)) |-> 1] \o s

Broadcast(a, b) ==
  LET rank == Max({Len(a), Len(b)})
      p == Padded(a, rank)
      q == Padded(b, rank)
  IN IF \E i \in 1..rank : p[i] # q[i] /\ p[i] # 1 /\ q[i] # 1
     THEN Bad ELSE [i \in 1..rank |-> Max({p[i], q[i]})]

Batch(s) == SubSeq(s, 1, Len(s) - 2)
Rows(s)  == s[Len(s) - 1]
Cols(s)  == s[Len(s)]

MatmulShape(a, b) ==
  IF Len(a) < 2 \/ Len(b) < 2 THEN Bad
  ELSE IF Cols(a) # Rows(b) THEN Bad
  ELSE LET batch == Broadcast(Batch(a), Batch(b)) IN
       IF batch = Bad THEN Bad ELSE batch \o <<Rows(a), Cols(b)>>

-----------------------------------------------------------------------------
(* A handler of one C call has the shape of its result and the number of  *)
(* elements the call is told to write, from its own arguments.             *)

Stack(shapes, dim) ==
  LET s == shapes[1]
      d == NormDim(dim, Len(s) + 1)
      inner == Numel(SubSeq(s, d + 1, Len(s)))
      outer == Numel(SubSeq(s, 1, d))
  IN IF ~ DimOK(dim, Len(s) + 1) \/ \E i \in DOMAIN shapes : shapes[i] # s
     THEN [out |-> Bad, count |-> 0]
     ELSE [out   |-> SubSeq(s, 1, d) \o <<Len(shapes)>> \o SubSeq(s, d + 1, Len(s)),
           count |-> Len(shapes) * outer * inner]

Cat(shapes, dim) ==
  LET s == shapes[1]
      d == NormDim(dim, Len(s)) + 1
      sizes == [i \in DOMAIN shapes |-> shapes[i][d]]
      inner == Numel(SubSeq(s, d + 1, Len(s)))
      outer == Numel(SubSeq(s, 1, d - 1))
  IN IF ~ DimOK(dim, Len(s)) THEN [out |-> Bad, count |-> 0]
     ELSE [out |-> At(s, d, Total(sizes)), count |-> outer * Total(sizes) * inner]

\* F.pad: the pairs of the last dimension come first.
Pad(s, pad) ==
  LET pairs == Len(pad) \div 2
      wide(i) == LET k == Len(s) - i IN
                 IF k < pairs THEN s[i] + pad[2 * k + 1] + pad[2 * k + 2] ELSE s[i]
      out == [i \in DOMAIN s |-> wide(i)]
  IN IF Len(pad) % 2 # 0 THEN [out |-> Bad, count |-> 0]
     ELSE [out |-> out, count |-> Numel(out)]

Permute(s, dims) ==
  LET out == [i \in DOMAIN dims |-> s[dims[i] + 1]] IN
  IF Len(dims) # Len(s) THEN [out |-> Bad, count |-> 0]
  ELSE [out |-> out, count |-> Numel(out)]

\* The bounds of a slice are clipped to the dimension, never beyond it.
Slice(s, dim, start, end) ==
  LET d == NormDim(dim, Len(s)) + 1
      n == s[d]
      clip(x) == Max({0, Min({IF x < 0 THEN x + n ELSE x, n})})
      len == Max({0, clip(end) - clip(start)})
  IN IF ~ DimOK(dim, Len(s)) THEN [out |-> Bad, count |-> 0]
     ELSE [out |-> At(s, d, len), count |-> Numel(At(s, d, len))]

Select(s, dim) ==
  LET out == RemoveAt(s, dim + 1) IN [out |-> out, count |-> Numel(out)]

\* Where a window of size k and step st fits a padded length.
Windows(len, k, st, pad) == (len + 2 * pad - k) \div st + 1

MaxPool(s, g) ==
  LET out == <<s[1], s[2], Windows(s[3], g.kh, g.sh, g.pad),
               Windows(s[4], g.kw, g.sw, g.pad)>>
  IN [out |-> out, count |-> Numel(out)]

UpsampleNearest(s, oh, ow) ==
  [out |-> <<s[1], s[2], oh, ow>>, count |-> s[1] * s[2] * oh * ow]

UpsampleBilinear(s, oh, ow) ==
  [out |-> <<s[1], s[2], oh, ow>>, count |-> s[1] * s[2] * oh * ow]

\* emit_conv2d: NCHW input, OIHW weight.
ConvShape(x, w, st, pad) ==
  IF x[2] # w[2] THEN Bad
  ELSE <<x[1], w[1], Windows(x[3], w[3], st, pad), Windows(x[4], w[4], st, pad)>>

-----------------------------------------------------------------------------
(* Offsets.  Stride(s, d) is the distance of two elements that differ by  *)
(* one in dimension d; the loops leave out the sizes of 1.                 *)

Stride(s, d) == Numel(SubSeq(s, d + 1, Len(s)))

\* offset() of _emit_broadcast_loop: the element of s for the coordinates.
LoopOffset(s, coord) ==
  Total([d \in DOMAIN s |-> IF s[d] # 1 THEN coord[d] * Stride(s, d) ELSE 0])

\* _batch_offset_expr: where the matrix of the batch coordinates starts.
BatchOffset(coord, orig, inner) ==
  LET s == Padded(orig, Len(coord)) IN
  Total([d \in DOMAIN s |-> IF s[d] # 1 THEN coord[d] * Stride(s, d) * inner ELSE 0])

Coords(s) == {c \in [DOMAIN s -> 0..(Max({1} \cup ToSet(s)) - 1)] :
                \A d \in DOMAIN s : c[d] < s[d]}

\* Reference: row-major order, by Horner's rule; a size of 1 repeats.
Ravel(s, coord) ==
  FoldLeft(LAMBDA n, d : n * s[d] + (IF s[d] = 1 THEN 0 ELSE coord[d]),
           0, [d \in DOMAIN s |-> d])
=============================================================================
