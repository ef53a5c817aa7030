-------------------------------- MODULE MCJit --------------------------------
(***************************************************************************)
(* Graphs for Jit: one or more for every handler and every loop nest, and  *)
(* all the graphs of three operations that share, alias and drop buffers.  *)
(***************************************************************************)
EXTENDS Jit

N(name, op, in, args) ==
  [name |-> name, op |-> op, in |-> in, at |-> args, shape |-> <<>>, small |-> FALSE]
X(name, s) == [N(name, "placeholder", <<>>, <<>>) EXCEPT !.shape = s]
W(name, s, small) == [N(name, "get_attr", <<>>, <<>>) EXCEPT !.shape = s, !.small = small]
Out(names) == N("output", "output", names, <<>>)

G(stream, nodes) == [nodes |-> nodes, stream |-> stream, nest |-> "none"]

-----------------------------------------------------------------------------
\* Shape handlers, one after the other.
Shuffle(s) == G(s, <<X("x", <<2, 3>>),
  N("a", "cat", <<"x", "x">>, <<-1>>), N("b", "slice", <<"a">>, <<1, 1, -2>>),
  N("c", "pad", <<"b">>, <<1, 0>>), N("d", "permute", <<"c">>, <<1, 0>>),
  N("e", "select", <<"d">>, <<0>>), N("f", "stack", <<"e", "e">>, <<0>>),
  N("y", "requant_i32", <<"f">>, <<>>), Out(<<"y">>)>>)

Grid(s) == G(s, <<
  N("a", "arange", <<>>, <<2>>), N("b", "arange", <<>>, <<3>>),
  N("m", "meshgrid", <<"a", "b">>, <<>>), N("p", "getitem", <<"m">>, <<1>>),
  N("q", "getitem", <<"m">>, <<0>>), N("c", "binary", <<"p", "q">>, <<>>),
  N("t", "alias", <<"c">>, <<>>), N("skip", "skip", <<"a">>, <<>>),
  N("d", "unary_same", <<"t">>, <<>>), Out(<<"d", "t">>)>>)

Spread(s) == G(s, <<X("x", <<2, 1, 3>>), X("y", <<2, 1>>),
  N("a", "binary", <<"x", "y">>, <<>>), N("b", "view", <<"a">>, <<4, -1>>),
  N("c", "binary", <<"b">>, <<>>), Out(<<"c">>)>>)

Sampling(s) == G(s, <<X("x", <<1, 2, 2, 1>>),
  N("a", "upsample_nearest", <<"x">>, <<4, 2>>),
  N("b", "max_pool2d", <<"a">>, <<2, 2, 2, 1, 0>>),
  N("c", "upsample_bilinear", <<"b">>, <<1, 2>>), Out(<<"c">>)>>)

\* Pools of windows that overlap, in slabs and with padding.
Pool(h, w, k, st, pad) == G(TRUE, <<X("x", <<1, 2, h, w>>),
  N("a", "max_pool2d", <<"x">>, <<k, k, st, st, pad>>),
  N("b", "unary_same", <<"a">>, <<>>), Out(<<"b">>)>>)

Matmul(a, b) == G(TRUE, <<X("x", a), W("w", b, TRUE),
  N("a", "unary_same", <<"x">>, <<>>), N("c", "gemm_mmio", <<"a", "w">>, <<>>),
  N("d", "unary_same", <<"c">>, <<>>), Out(<<"d">>)>>)

\* Two convolutions of different sizes, and a pool between them.
Convs(nest, stream, small) == [nodes |-> <<
  X("x", <<1, 1, 3, 3>>), W("w", <<3, 1, 2, 2>>, small), W("y", <<3>>, FALSE),
  W("v", <<2, 3, 1, 1>>, TRUE), W("d", <<2>>, FALSE),
  N("a", "conv2d", <<"x", "w", "y">>, <<1, 1>>),
  N("b", "max_pool2d", <<"a">>, <<2, 2, 2, 2, 0>>),
  N("c", "conv2d", <<"b", "v", "d">>, <<1, 0>>),
  Out(<<"c">>)>>, stream |-> stream, nest |-> nest]

Batch2 == G(TRUE, <<X("x", <<2, 1, 3, 2>>), W("w", <<2, 1, 2, 2>>, TRUE), W("b", <<2>>, FALSE),
  N("a", "conv2d", <<"x", "w", "b">>, <<2, 1>>), Out(<<"a">>)>>)

\* Refused: shapes that do not fit, a name used twice, an image too large.
Refused == {
  G(TRUE, <<X("x", <<2, 3>>), N("a", "view", <<"x">>, <<4, -1>>), Out(<<"a">>)>>),
  G(TRUE, <<X("x", <<2, 3>>), N("a", "view", <<"x">>, <<2, 2>>), Out(<<"a">>)>>),
  G(TRUE, <<X("x", <<2, 3>>), X("y", <<2>>), N("a", "binary", <<"x", "y">>, <<>>), Out(<<"a">>)>>),
  G(TRUE, <<X("x", <<2, 3>>), N("a", "getitem", <<"x">>, <<0>>), Out(<<"a">>)>>),
  G(TRUE, <<X("x", <<2, 3>>), N("a", "gemm_mmio", <<"x", "x">>, <<>>), Out(<<"a">>)>>),
  G(TRUE, <<X("x", <<2, 3>>), X("y", <<2>>), N("a", "requant_i32", <<"x", "y">>, <<>>), Out(<<"a">>)>>),
  G(TRUE, <<X("x", <<1, 1, 2, 2>>), W("w", <<1, 2, 1, 1>>, TRUE), X("b", <<1>>),
            N("a", "conv2d", <<"x", "w", "b">>, <<1, 0>>), Out(<<"a">>)>>),
  G(FALSE, <<X("x", <<2>>), N("m", "meshgrid", <<"x", "x">>, <<>>),
            N("m_1", "unary_same", <<"x">>, <<>>), Out(<<"m_1">>)>>),
  G(TRUE, <<X("x", <<8, 6>>), N("a", "unary_same", <<"x">>, <<>>), Out(<<"a">>)>>)}

-----------------------------------------------------------------------------
\* Every graph of three operations on earlier values in which both the
\* first and the second are used.
Ops(i, V) ==
  LET name == <<"a", "b", "c">>[i] IN
  {N(name, "binary", <<v>>, <<>>) : v \in V}
  \cup {N(name, "view", <<v>>, <<-1>>) : v \in V}
  \cup {N(name, "slice", <<v>>, <<0, 0, 2>>) : v \in V \ {"y"}}
  \cup {N(name, "cat", <<v, w>>, <<0>>) : v \in V, w \in V}

Sharing ==
  {G(TRUE, <<X("x", <<3>>), N("y", "unary_same", <<"x">>, <<>>), a, b, c, Out(<<"c", r>>)>>) : r \in {"c", "a"},
     a \in Ops(1, {"y"}), b \in Ops(2, {"y", "a"}), c \in Ops(3, {"y", "a", "b"})}

Used(g, n) == \E i \in DOMAIN g.nodes : n \in ToSet(g.nodes[i].in)

\* The buffer of node i, by the nodes it is an alias of.
Roots(g) ==
  LET index(n) == CHOOSE j \in DOMAIN g.nodes : g.nodes[j].name = n
      root[i \in DOMAIN g.nodes] ==
        IF g.nodes[i].op \in {"view", "alias"} THEN root[index(g.nodes[i].in[1])] ELSE i
  IN [n \in {g.nodes[i].name : i \in DOMAIN g.nodes} |-> root[index(n)]]

\* No node is the last user of one buffer under two names: _release_dead
\* gives such a buffer back twice (JitTwice.cfg).
Clean(g) ==
  LET root == Roots(g)
      last(n) == Max({0} \cup {i \in DOMAIN g.nodes : n \in ToSet(g.nodes[i].in)})
  IN \A i \in DOMAIN g.nodes : \A v, w \in ToSet(g.nodes[i].in) :
       v # w /\ root[v] = root[w] /\ last(v) = i /\ last(w) = i =>
         \E f \in DOMAIN root : root[f] = root[v] /\ last(f) > i

\* The graphs that are not: y and a view of it are used for the last time by
\* one node, and two results are made behind it.
TwiceGraphs ==
  {G(TRUE, <<X("x", <<3>>), N("y", "unary_same", <<"x">>, <<>>), N("v", "view", <<"y">>, <<-1>>),
             N("a", op, <<"y", "v">>, <<0>>), N("b", "slice", <<"a">>, <<0, 0, 2>>),
             N("c", "slice", <<"a">>, <<0, 1, 3>>), Out(<<"b", "c">>)>>) : op \in {"cat", "binary"}}

MCGraphs ==
  {Shuffle(TRUE), Shuffle(FALSE), Grid(TRUE), Grid(FALSE), Spread(TRUE), Sampling(TRUE),
   Sampling(FALSE), Pool(2, 2, 2, 1, 0), Pool(4, 5, 2, 1, 0), Pool(3, 4, 3, 2, 1),
   Matmul(<<3, 8>>, <<8, 3>>), Matmul(<<3, 5>>, <<5, 3>>), Matmul(<<2, 3, 2>>, <<1, 2, 3>>), Matmul(<<3, 2>>, <<2, 1, 2, 2>>),
   Convs("none", FALSE, TRUE), Batch2}
  \cup {Convs(n, TRUE, s) : n \in {"none", "oc_outer", "spatial_outer", "cache_col"}, s \in BOOLEAN}
  \cup Refused \cup {g \in Sharing : Clean(g) /\ Used(g, "a") /\ Used(g, "b")}

MCBuffer == {"x", "y", "a", "b", "c", "d", "e", "f", "m_0", "m_1", "w", "v"}
MCBytes == {4 * i : i \in 1..48}
=============================================================================
