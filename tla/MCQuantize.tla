----------------------------- MODULE MCQuantize -----------------------------
(***************************************************************************)
(* Filters to be quantised and graphs to be dequantised, in the forms the  *)
(* code tells apart, and what their numbers and their edges owe to them.   *)
(***************************************************************************)
EXTENDS Quantize, TLC

VARIABLES x, y

None == [a \in {} |-> 0]
Node(type, ins, tensor, attrs) == [type |-> type, ins |-> ins, tensor |-> tensor, attrs |-> attrs]
NoTensor == Tensor(<<>>, "none", 1, <<>>)
Given(scale) == ("scale" :> scale) @@ ("offset" :> <<0>>)
DataNode == Node("Data", <<>>, NoTensor, None)

(***************************************************************************)
(* Filters: values around the ends of the ranges and around the ties.      *)
(***************************************************************************)
Shapes == {<<2, 2, 1, 1>>, <<2, 2, 1, 2>>, <<3, 1, 1, 1>>, <<1, 2, 2>>}
Patterns == {<<0, 3, -5, 8>>, <<0, 4, -4, 4>>, <<30, -32, 1, -2>>, <<508, -516, 1030, 2>>, <<1024, 0, 1020, 5>>}
Cycle(s, n) == [i \in 1 .. n |-> s[((i - 1) % Len(s)) + 1]]
Scales(dims) == {<<4>>, <<4, 2>>, <<3, 4, 1>>, <<>>}
Weights ==
  {[type |-> type, dims |-> dims, data |-> Cycle(p, Product(dims)), scale |-> scale, input |-> input, dtype |-> dtype] :
     type \in {"Convolution", "ConvTranspose"}, dims \in Shapes, p \in Patterns, scale \in Scales(<<>>),
     input \in {"FLOAT16", "UINT8"}, dtype \in {"INT8", "INT4", "2BIT", "INT16"}}

(***************************************************************************)
(* Graphs: a Data node, constants, and one or two operators.               *)
(***************************************************************************)
Filter8(dims) == Tensor(dims, "INT8", 1, Cycle(<<1, -2, 3, 127, -128>>, Product(dims)))
FilterFloat(dims) == [Filter8(dims) EXCEPT !.dtype = "FLOAT"]
Filter4(dims) == Tensor(dims, "INT4", 1, Cycle(<<248, 143, 7>>, Product(dims) \div 2))
Filters == {Filter8(<<2, 2, 1, 2>>), FilterFloat(<<2, 2, 1, 2>>), Filter4(<<2, 2, 1, 2>>), Filter4(<<3, 1, 1, 1>>)}
Bias == Tensor(<<2>>, "INT32", 4, <<5, -6>>)
Info(weights, vector) == [weights |-> weights, vector |-> vector, data |-> 2]
Old(scale, vector, quantType) == ("QuantizeInfo" :> Info(scale, vector)) @@ ("quantType" :> quantType)
Consts(filter) == {Node("Const", <<>>, filter, None), Node("QuantizedConst", <<>>, filter, Given(<<4, 2>>)),
                   Node("QuantizedConst", <<>>, filter, Given(<<4>>)), Node("QuantizedConst", <<>>, filter, None)}
Attrs == {None, Old(<<4, 2>>, TRUE, 4), Old(<<4>>, FALSE, 1), Old(<<4, 2>>, FALSE, 5), Old(<<>>, TRUE, 4), Old(<<4, 2, 1>>, TRUE, 7)}
Graph(nodes, attrs) == [nodes |-> nodes, attrs |-> attrs]
Flags == {None, ONE_SIDE :> TRUE, ONE_SIDE :> FALSE}

\* 1 Data, 2 between the two kinds of numbers or another Data, 3 filter, 4 bias, 5 the operator, 6 a second one, 7 behind them
Between == {Node("QuantizeV2", <<1>>, NoTensor, Given(<<1>>) @@ ("dtype" :> "UINT8")), Node("QuantizeV2", <<1>>, NoTensor, None), DataNode}
OneOp ==
  {Graph(<<DataNode, b, c, Node("Const", <<>>, Bias, None), Node(type, ins, NoTensor, attrs), Node("Relu", <<5>>, NoTensor, None),
           Node("DequantizeV2", <<5>>, NoTensor, None), Node("Relu", <<7>>, NoTensor, None)>>, flag) :
     b \in Between, c \in UNION {Consts(f) : f \in Filters}, type \in {"Convolution", "ConvTranspose"},
     ins \in {<<2, 3, 4>>, <<2, 3>>}, attrs \in Attrs, flag \in Flags}
ShapeOp ==
  {Graph(<<DataNode, Node(shape, <<>>, Tensor(<<4>>, "INT32", 4, <<1, 2, 3, 4>>), None), Node("Const", <<>>, Filter8(<<2, 2, 1, 2>>), None),
           Node("Const", <<>>, Bias, None), Node(type, <<2, 1, 3>> \o more, NoTensor, attrs)>>, None) :
     shape \in {"Const", "Data"}, type \in {"Convolution", "ConvTranspose"}, more \in {<<>>, <<4>>}, attrs \in Attrs}
TwoOps ==
  {Graph(<<DataNode, DataNode, Node("Const", <<>>, Filter8(<<2, 2, 1, 2>>), None), Node("Const", <<>>, Filter8(<<2, 2, 1, 2>>), None),
           Node(t1, <<1, 3>>, NoTensor, a1), Node(t2, <<2, f>>, NoTensor, a2)>>, None) :
     t1 \in {"Convolution", "ConvTranspose"}, t2 \in {"Convolution", "MatMul"}, a1 \in Attrs, a2 \in Attrs, f \in 3 .. 4}
Graphs == OneOp \cup ShapeOp \cup TwoOps
QuantCases == {[kind |-> "weight", of |-> w] : w \in Weights} \cup {[kind |-> "graph", of |-> g] : g \in Graphs}

\* The graph to dequantise: a quantised filter is taken back as the constant of an operator of its type.
Holding(w, t) == Graph(<<DataNode, Node("QuantizedConst", <<>>, t, Given(w.scale)), Node(w.type, <<1, 2>>, NoTensor, None)>>, None)
Quantize(w) == QuantizeWeight(w.type, Tensor(w.dims, "FLOAT", 4, w.data), w.scale, w.input, w.dtype)
GraphOf(c) ==
  IF c.kind = "graph" THEN {c.of} ELSE {Holding(c.of, small.value) : small \in {s \in {Quantize(c.of)} : s.ok}}
Change(g) == [back |-> DequantizeComputeGraph(g), seen |-> CheckOneSideQuantize(g)]

(***************************************************************************)
(* Properties.                                                             *)
(***************************************************************************)
\* The scale of the output channel the element belongs to, found from its coordinates.
Coordinates(dims) == [a : 0 .. dims[1] - 1, b : 0 .. dims[2] - 1, c : 0 .. Product(SubSeq(dims, 3, Len(dims))) - 1]
Where(dims, k) == (k.a * dims[2] + k.b) * Product(SubSeq(dims, 3, Len(dims))) + k.c + 1
Named(type, scale, k) == IF Len(scale) = 1 THEN scale[1] ELSE scale[(IF type = "ConvTranspose" THEN k.b ELSE k.a) + 1]
\* A transposed convolution that was given one scale reads others behind it.
Astray(type, scale, k) == type = "ConvTranspose" /\ Len(scale) = 1 /\ k.b > 0
Near(v, w, s) == 2 * Absolute(v - w) <= s

\* A filter that is quantised and taken back is what it was up to half a scale, or the end of the range; but an odd
\* number of INT4 and 2-bit filters cannot be taken back, and an INT4 that is out of range by a multiple of 256 is not
\* noticed.
WeightComesBack ==
  LET w == x.of IN
  /\ y.back.ok <=> FourDims(w.type, w.dims) /\ (w.dtype = "INT8" \/ (w.dtype = "INT4" /\ Product(w.dims) % 2 = 0))
  /\ y.back.ok => \A k \in Coordinates(w.dims) :
       LET v == y.back.value.nodes[2].tensor.data[Where(w.dims, k)]
           f == w.data[Where(w.dims, k)]
           s == Named(w.type, w.scale, k)
           high == IF w.dtype = "INT8" THEN 127 * s ELSE 7 * s IN
       IF Astray(w.type, w.scale, k) THEN v = Unknown
       ELSE \/ Near(v, f, s)
            \/ w.dtype = "INT8" /\ f > high /\ v = high
            \/ w.dtype = "INT8" /\ f < -high - s /\ v = -high - s
            \/ w.dtype = "INT4" /\ Absolute(f) > 100 * s /\ \E m \in -2 .. 2 : Near(v, f + 256 * m * s, s)
  /\ w.dtype = "INT8" /\ y.seen.ok => y.seen.value = (w.input # "FLOAT16")

\* What a filter held before it was dequantised.
Before(t) == IF t.dtype = "INT4" THEN TransFilterINT4ToINT8(t).value.data ELSE t.data
Scale(g, n) ==
  LET p == GetConstInputs(g, n)[GetFilterIndex(g, n)] IN
  IF g.nodes[p].type = "QuantizedConst" THEN g.nodes[p].attrs["scale"] ELSE g.nodes[n].attrs["QuantizeInfo"].weights
Quantised(g, n) ==
  /\ g.nodes[n].type \in QuantOps /\ GetConstInputs(g, n) # <<>>
  /\ Has(g.nodes[n], "QuantizeInfo") \/ \E p \in ToSet(GetConstInputs(g, n)) : g.nodes[p].type = "QuantizedConst"
FilterOf(g, n) == GetConstInputs(g, n)[GetFilterIndex(g, n)]

\* A graph that was dequantised holds, for each filter, its numbers times the scale of their channel, which
\* is the channel of the operator that reads it first; nothing in it says
\* that it is quantised; and whoever was linked still is, unless it read a node that stood between the two kinds of
\* numbers.  A filter that two operators read is refused, and so is one that is quantised twice.
Dequantised ==
  LET g == x.of
      h == y.back.value IN
  y.back.ok =>
    /\ \A n \in DOMAIN g.nodes : Quantised(g, n) =>
         LET p == FilterOf(g, n)
             dims == g.nodes[p].tensor.dims
             type == g.nodes[OutDataNode(g, p)].type IN
         /\ h.nodes[p].tensor.dtype = "FLOAT"
         /\ \A k \in Coordinates(dims) :
              LET v == h.nodes[p].tensor.data[Where(dims, k)] IN
              IF Astray(type, Scale(g, n), k) THEN v = Unknown
              ELSE v = Before(g.nodes[p].tensor)[Where(dims, k)] * Named(type, Scale(g, n), k)
         /\ \A m \in DOMAIN g.nodes \ {n} : Quantised(g, m) => FilterOf(g, m) # p
    /\ ~CheckGraphQuantized(h)
    /\ \A n \in DOMAIN g.nodes : \A i \in DOMAIN h.nodes[n].ins :
         h.nodes[n].ins[i] = IF g.nodes[g.nodes[n].ins[i]].type \in Converters THEN 0 ELSE g.nodes[n].ins[i]

QuantizeSound == IF x.kind = "weight" THEN WeightComesBack ELSE Dequantised
=============================================================================
