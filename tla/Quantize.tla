------------------------------ MODULE Quantize ------------------------------
(***************************************************************************)
(* framework/omg/quantize_optimizer: constants are made small integers, a  *)
(* scale for all of them or for each output channel, and made floats       *)
(* again.  A model that was quantised on one side only, the constants, has *)
(* to be dequantised before a ROM that cannot read it loads it.            *)
(*                                                                         *)
(* A graph is [nodes, attrs], its nodes in the order of their list, each   *)
(* [type, ins, tensor, attrs]: ins are the positions of the producers, 0   *)
(* when nothing is linked.  A tensor is [dims, dtype, width, data], width  *)
(* the bytes of an element of its data: two INT4 or four 2-bit values make *)
(* one element.  Floats are whole numbers; products of dimensions do not   *)
(* overflow in the models that are checked.                                *)
(***************************************************************************)
EXTENDS Integers, Sequences, SequencesExt

QuantOps == {"Convolution", "ConvolutionDepthwise", "FullyConnection", "MatMul", "ConvTranspose", "GemmD"}
ConstTypes == {"Const", "QuantizedConst"}
Converters == {"QuantizeV2", "DequantizeV2"}
OldAttrs == {"QuantizeInfo", "QuantizeInfoExt", "quantizeInfoExt", "quantType"}
ONE_SIDE == "is_one_side_quantized"
Unknown == 9999   \* what lies behind the end of an array

Has(n, a) == a \in DOMAIN n.attrs
Without(attrs, names) == [a \in DOMAIN attrs \ names |-> attrs[a]]
Bytes(t) == t.width * Len(t.data)
Product(dims) == FoldLeft(LAMBDA p, d : p * d, 1, dims)
Tensor(dims, dtype, width, data) == [dims |-> dims, dtype |-> dtype, width |-> width, data |-> data]
No == [ok |-> FALSE]
Yes(value) == [ok |-> TRUE, value |-> value]
\* What failed is not gone on with.
AndThen(done, Op(_)) == IF done.ok THEN Op(done.value) ELSE No

(***************************************************************************)
(* Which constant of an operator is what.                                  *)
(***************************************************************************)
Producer(g, n, i) == IF i \in DOMAIN g.nodes[n].ins THEN g.nodes[n].ins[i] ELSE 0
GetConstInputs(g, n) == SelectSeq(g.nodes[n].ins, LAMBDA p : p # 0 /\ g.nodes[p].type \in ConstTypes)
OutDataNode(g, n) ==
  LET uses == SelectSeq([k \in DOMAIN g.nodes |-> k], LAMBDA k : n \in ToSet(g.nodes[k].ins)) IN
  IF uses = <<>> THEN 0 ELSE uses[1]

\* The output shape of a transposed convolution, its first input, may be a constant too.  Positions count from 1.
ShapeIsConst(g, n) ==
  g.nodes[n].type = "ConvTranspose" /\ Producer(g, n, 1) # 0 /\ g.nodes[Producer(g, n, 1)].type = "Const"
GetFilterIndex(g, n) == IF Len(GetConstInputs(g, n)) # 1 /\ ShapeIsConst(g, n) THEN 2 ELSE 1
GetBiasIndex(g, n) == IF Len(GetConstInputs(g, n)) # 2 /\ ShapeIsConst(g, n) THEN 3 ELSE 2

(***************************************************************************)
(* Packing.                                                                *)
(***************************************************************************)
Nibble(v) == v % 16
Signed4(v) == IF v > 7 THEN v - 16 ELSE v
Element(s, i) == IF i \in DOMAIN s THEN s[i] ELSE 0
CompressInt4ToInt8(s) ==
  IF \E i \in DOMAIN s : s[i] \notin -8 .. 7 THEN <<>>
  ELSE [k \in 1 .. (Len(s) + 1) \div 2 |-> Nibble(s[2 * k - 1]) + 16 * Nibble(Element(s, 2 * k))]
Bits2(v) == IF v \in 0 .. 1 THEN v ELSE 2
CompressInt2ToInt8(s) ==
  [k \in 1 .. (Len(s) + 3) \div 4 |->
     LET At(j) == Bits2(Element(s, 4 * (k - 1) + j)) IN At(1) + 4 * At(2) + 16 * At(3) + 64 * At(4)]
CompressWeightToINT8(t, dtype) ==
  LET packed == IF dtype = "2BIT" THEN CompressInt2ToInt8(t.data) ELSE CompressInt4ToInt8(t.data) IN
  IF packed = <<>> THEN No ELSE Yes([t EXCEPT !.data = packed, !.dtype = dtype])

TransFilterINT4ToINT8(t) ==
  IF Product(t.dims) # 2 * Bytes(t) THEN No
  ELSE Yes(Tensor(t.dims, "INT8", 1,
             [i \in 1 .. 2 * Bytes(t) |-> LET b == t.data[(i + 1) \div 2] IN Signed4(IF i % 2 = 1 THEN b % 16 ELSE b \div 16)]))

\* A faulty variant of KernelNum: channels are the first dimension of every filter.
KernelNumFirst(type, dims) == dims[1]

(***************************************************************************)
(* One element of a filter, read for the operator `type` that consumes it. *)
(* The channels of the output are the second dimension of the filter of a  *)
(* transposed convolution, which looks for a scale for each even when one  *)
(* was given for all.                                                      *)
(***************************************************************************)
KernelNum(type, dims) == IF type = "ConvTranspose" THEN dims[2] ELSE dims[1]
Channel(type, dims, i) ==
  IF type = "ConvTranspose" THEN (i \div (dims[3] * dims[4])) % KernelNum(type, dims)
  ELSE i \div (Product(dims) \div KernelNum(type, dims))
ScaleOf(type, dims, scale, i) ==
  LET c == Channel(type, dims, i) + 1 IN
  IF c \in DOMAIN scale THEN scale[c] ELSE IF type = "ConvTranspose" THEN Unknown ELSE scale[1]
CheckWeightParams(t, scale, kernelNum) ==
  /\ t.dtype \in {"FLOAT", "INT8"}
  /\ Bytes(t) \div (IF t.dtype = "FLOAT" THEN 4 ELSE 1) = Product(t.dims)
  /\ Len(scale) >= 1 /\ Len(scale) \in {1, kernelNum}
FourDims(type, dims) == type = "ConvTranspose" => Len(dims) = 4

CalculateFP32Data(type, t, scale) ==
  [i \in DOMAIN t.data |-> LET s == ScaleOf(type, t.dims, scale, i - 1) IN IF s = Unknown THEN Unknown ELSE t.data[i] * s]
\* The filter is an INT8 from here on whatever happens; a model quantised on one side calls it FLOAT.
TransFilterINT8ToFP32(type, t, scale) ==
  LET t8 == [t EXCEPT !.dtype = "INT8"] IN
  IF ~FourDims(type, t.dims) \/ ~CheckWeightParams(t8, scale, KernelNum(type, t.dims)) THEN No
  ELSE Yes(Tensor(t.dims, "FLOAT", 4, CalculateFP32Data(type, t8, scale)))

\* Rounded to nearest, a tie away from zero.
Absolute(a) == IF a < 0 THEN -a ELSE a
Round(w, s) == LET q == (2 * Absolute(w) + s) \div (2 * s) IN IF w < 0 THEN -q ELSE q
CompressInt8Data(w, s) == Yes(LET r == Round(w, s) IN IF r > 127 THEN 127 ELSE IF r < -128 THEN -128 ELSE r)
\* The number is cut to eight bits before it is tested.
ToInt8(v) == ((v + 128) % 256) - 128
CompressInt4Data(w, s) == LET r == ToInt8(Round(w, s)) IN IF r \in -8 .. 7 THEN Yes(r) ELSE No
CompressInt2Data(w, s) == CASE w = 0 -> Yes(0) [] w = s -> Yes(1) [] w = -s -> Yes(-1) [] OTHER -> No
CompressData(dtype, w, s) ==
  CASE s = Unknown -> Yes(Unknown) [] s # Unknown /\ dtype = "INT8" -> CompressInt8Data(w, s) [] dtype = "INT4" -> CompressInt4Data(w, s)
    [] dtype = "2BIT" -> CompressInt2Data(w, s) [] OTHER -> No
TransFilterFP32ToINT8(type, t, scale, dtype) ==
  IF ~CheckWeightParams(t, scale, KernelNum(type, t.dims)) \/ (type = "ConvTranspose" /\ dtype # "INT8") THEN No
  ELSE LET each == [i \in DOMAIN t.data |-> IF ~FourDims(type, t.dims) THEN Yes(0)   \* no rows, no columns
                                               ELSE CompressData(dtype, t.data[i], ScaleOf(type, t.dims, scale, i - 1))] IN
       IF \E i \in DOMAIN each : ~each[i].ok THEN No
       ELSE Yes(Tensor(t.dims, dtype, 1, [i \in DOMAIN each |-> each[i].value]))
\* The filter of a model quantised on one side keeps the type of a float.
QuantizeWeight(type, t, scale, input, dtype) ==
  LET small == TransFilterFP32ToINT8(type, t, scale, dtype)
      packed == IF small.ok /\ dtype \in {"2BIT", "INT4"} THEN CompressWeightToINT8(small.value, dtype) ELSE small IN
  IF packed.ok /\ input = "FLOAT16" /\ dtype = "INT8" THEN Yes([packed.value EXCEPT !.dtype = "FLOAT"]) ELSE packed

(***************************************************************************)
(* Dequantising a graph.  The filter and the bias are changed where they   *)
(* are, also for other operators that read them.                           *)
(***************************************************************************)
SetTensor(g, n, t) == [g EXCEPT !.nodes[n].tensor = t]
DeCompressFilters(g, n, scale) ==
  LET t == g.nodes[n].tensor
      wide == IF t.dtype = "INT4" THEN TransFilterINT4ToINT8(t) ELSE Yes(t)
      peer == OutDataNode(g, n)
      floats == IF peer # 0 THEN AndThen(wide, LAMBDA w : TransFilterINT8ToFP32(g.nodes[peer].type, w, scale)) ELSE No IN
  AndThen(floats, LAMBDA f : Yes(SetTensor(g, n, f)))

TransBiasINT32ToFp32(t, info) ==
  IF t.data = <<>> \/ (info.vector /\ Len(t.data) # Len(info.weights)) THEN No
  ELSE Yes(Tensor(t.dims, "FLOAT", 4,
             [i \in DOMAIN t.data |-> t.data[i] * info.weights[IF info.vector THEN i ELSE 1] * info.data]))
DeCompressBias(g, n, info) ==
  LET c == GetConstInputs(g, n)
      b == GetBiasIndex(g, n) IN
  IF b > Len(c) \/ g.nodes[c[b]].tensor.dtype # "INT32" THEN Yes(g)
  ELSE AndThen(TransBiasINT32ToFp32(g.nodes[c[b]].tensor, info), LAMBDA t : Yes(SetTensor(g, c[b], t)))

DequantizeOldIR(g, n) ==
  IF ~Has(g.nodes[n], "QuantizeInfo") THEN Yes(g)
  ELSE LET info == g.nodes[n].attrs["QuantizeInfo"]
           c == GetConstInputs(g, n)
           f == GetFilterIndex(g, n)
           filter == IF info.weights # <<>> /\ f <= Len(c) THEN DeCompressFilters(g, c[f], info.weights) ELSE No IN
       AndThen(filter, LAMBDA h : DeCompressBias(h, n, info))

DequantizeConst(g, n) ==
  AndThen(IF Has(g.nodes[n], "scale") THEN DeCompressFilters(g, n, g.nodes[n].attrs["scale"]) ELSE No,
          LAMBDA h : Yes([h EXCEPT !.nodes[n].type = "Const", !.nodes[n].attrs = Without(@, {"scale", "offset"})]))
DequantizeOp(g, n) ==
  AndThen(DequantizeOldIR(g, n), LAMBDA h : Yes([h EXCEPT !.nodes[n].attrs = Without(@, OldAttrs)]))

\* The nodes between the two kinds of numbers are removed with their edges: whoever read one reads nothing.
RemoveNodes(g, gone) ==
  [g EXCEPT !.nodes = [k \in DOMAIN @ |->
     IF k \in gone THEN [@[k] EXCEPT !.type = "Removed", !.ins = <<>>]
     ELSE [@[k] EXCEPT !.ins = [i \in DOMAIN @ |-> IF @[i] \in gone THEN 0 ELSE @[i]]]]]
DequantizeNode(done, n) ==
  AndThen(done, LAMBDA g :
    CASE g.nodes[n].type = "QuantizedConst" -> DequantizeConst(g, n)
      [] g.nodes[n].type \in QuantOps -> DequantizeOp(g, n)
      [] OTHER -> Yes(g))
\* The flag of the graph is taken back where there is one.
Cleaned(g) ==
  [RemoveNodes(g, {k \in DOMAIN g.nodes : g.nodes[k].type \in Converters}) EXCEPT
     !.attrs = [a \in DOMAIN @ |-> IF a = ONE_SIDE THEN FALSE ELSE @[a]]]
DequantizeComputeGraph(g) ==
  AndThen(FoldLeft(DequantizeNode, Yes(g), [k \in DOMAIN g.nodes |-> k]), LAMBDA h : Yes(Cleaned(h)))

(***************************************************************************)
(* Is a graph quantised?                                                   *)
(***************************************************************************)
TypesOf(quantType) ==
  CASE quantType = 1 -> <<"UINT8", "INT8">> [] quantType = 2 -> <<"UINT8", "2BIT">> [] quantType = 3 -> <<"INT4", "INT4">>
    [] quantType = 4 -> <<"FLOAT", "INT8">> [] quantType = 6 -> <<"INT16", "INT8">> [] OTHER -> <<>>
GetOpQuantizeInfoFromOldIR(n) ==
  CASE ~Has(n, "QuantizeInfo") \/ ~Has(n, "quantType") -> No
    [] Has(n, "QuantizeInfo") /\ Has(n, "quantType") /\ Has(n, "aipp_conv_flag") -> Yes(<<"UNDEFINED", "UNDEFINED">>)
    [] OTHER -> IF TypesOf(n.attrs["quantType"]) = <<>> THEN No ELSE Yes(TypesOf(n.attrs["quantType"]))
Params(n) == \A a \in {"scale", "offset"} : Has(n, a) /\ n.attrs[a] # <<>>
GetOpQuantizeInfo(g, n) ==
  LET Ins(type) == SelectSeq(g.nodes[n].ins, LAMBDA p : p # 0 /\ g.nodes[p].type = type)
      data == Ins("QuantizeV2")
      consts == Ins("QuantizedConst") IN
  CASE \E p \in ToSet(data \o consts) : ~Params(g.nodes[p]) -> No
    [] \E p \in ToSet(data) : ~Has(g.nodes[p], "dtype") -> No
    [] consts = <<>> -> GetOpQuantizeInfoFromOldIR(g.nodes[n])
    [] OTHER -> Yes(<<IF data = <<>> THEN "FLOAT" ELSE g.nodes[Last(data)].attrs["dtype"], g.nodes[Last(consts)].tensor.dtype>>)

\* The attribute of the graph, or some operator that says so: an operator that says otherwise stops nothing.
OneSide(g, n) ==
  LET node == g.nodes[n]
      types == GetOpQuantizeInfo(g, n) IN
  \/ Has(node, "quantType") /\ node.attrs["quantType"] = 4
  \/ types.ok /\ types.value = <<"FLOAT", "INT8">>
CheckOneSideQuantize(g) ==
  LET ops == {n \in DOMAIN g.nodes : g.nodes[n].type \in QuantOps}
      wrong == {n \in ops : Has(g.nodes[n], "quantType") /\ g.nodes[n].attrs["quantType"] \notin 1 .. 6}
      Before(n) == \E m \in ops : m < n /\ OneSide(g, m) IN
  CASE ONE_SIDE \in DOMAIN g.attrs -> Yes(g.attrs[ONE_SIDE])
    [] ONE_SIDE \notin DOMAIN g.attrs /\ \E n \in wrong : ~Before(n) -> No
    [] OTHER -> Yes(\E n \in ops : OneSide(g, n))
CheckGraphQuantized(g) ==
  \/ CheckOneSideQuantize(g).ok /\ CheckOneSideQuantize(g).value
  \/ \E n \in DOMAIN g.nodes : g.nodes[n].type \in Converters \cup {"QuantizedConst"}
                              \/ (g.nodes[n].type \in QuantOps /\ Has(g.nodes[n], "QuantizeInfo"))
=============================================================================
