---------------------------- MODULE IrConverters ----------------------------
(***************************************************************************)
(* The converters between the versions 0, 3 and 5 of an operator: one      *)
(* operator per function of framework/compatible, from the node and the    *)
(* row of the table to the node converted. `new` says that the conversion  *)
(* is from the old version to the new one.                                 *)
(***************************************************************************)
EXTENDS IrNode

AndThen(n, F(_)) == IF n.ok THEN F(n) ELSE n
Volume(dims) == FoldLeft(LAMBDA a, d : a * d, 1, dims)

(***************************************************************************)
(* Conversions that read the table only.                                   *)
(***************************************************************************)
TransformTypeConverter(n, cfg, new) ==
  IF cfg.new = new /\ cfg.dst # "" THEN [n EXCEPT !.type = cfg.dst] ELSE n

\* A faulty variant of UpdateAttrConverter: the old name stays.
UpdateAttrKept(n, cfg, new) ==
  FoldLeft(LAMBDA m, r : LET src == IF new THEN r[1] ELSE r[2]
                             dst == IF new THEN r[2] ELSE r[1] IN
             IF HasAttr(m, src) THEN SetAttr(m, dst, m.attrs[src]) ELSE m,
           n, cfg.attrs)

\* Attributes are renamed one after the other; a rename to the name of another attribute replaces it.
UpdateAttrConverter(n, cfg, new) ==
  FoldLeft(LAMBDA m, r : LET src == IF new THEN r[1] ELSE r[2]
                             dst == IF new THEN r[2] ELSE r[1] IN
             IF HasAttr(m, src) THEN SetAttr(DelAttr(m, src), dst, m.attrs[src]) ELSE m,
           n, cfg.attrs)
TypeAndAttrConverter(n, cfg, new) == UpdateAttrConverter(TransformTypeConverter(n, cfg, new), cfg, new)
SetIntAttrDefValueConverter(n, cfg, new) ==
  IF new THEN n ELSE Default(n, cfg.attrs[1][1], <<"int", cfg.attrs[1][2]>>)
EmptyInputNodeRemoveForOMConverter(n, new) == IF new /\ GetUnSetInputIndexs(n) # <<>> THEN RemoveIdleEndpoint(n) ELSE n

(***************************************************************************)
(* Attributes that are numbers in one version and names in another.        *)
(***************************************************************************)
Formats == <<"NCHW", "NHWC">>
PadModes == [SPECIFIC |-> 4, VALID |-> 5, SAME |-> 6]
PadNames == [v \in 0 .. 6 |-> CASE v = 5 -> "VALID" [] v = 6 -> "SAME" [] OTHER -> "SPECIFIC"]
MirrorModes == <<"REFLECT", "SYMMETRIC">>
CropMethods == [bilinear |-> 0, nearest |-> 1]
Activations == [Sigmoid |-> 0, Tanh |-> 1, ReLU |-> 2, ReLU1 |-> 3, ReLU6 |-> 4]

DataFormatToEnum(n) ==
  IF ~IsA(n, "data_format", "str") THEN n
  ELSE IF GetStr(n, "data_format", "") \in ToSet(Formats)
  THEN SetInt(n, "format", IF GetStr(n, "data_format", "") = "NCHW" THEN 0 ELSE 1) ELSE Fail(n)
DataFormatToString(n) ==
  IF ~IsA(n, "format", "int") THEN n
  ELSE IF GetInt(n, "format", 0) \in 0 .. 1 THEN SetStr(n, "data_format", Formats[GetInt(n, "format", 0) + 1]) ELSE Fail(n)
PadModeToEnum(n) ==
  IF ~IsA(n, "pad_mode", "str") THEN n
  ELSE IF GetStr(n, "pad_mode", "") \in DOMAIN PadModes
  THEN SetInt(n, "pad_mode", PadModes[GetStr(n, "pad_mode", "")]) ELSE Fail(n)
PadModeToString(n) ==
  IF ~IsA(n, "pad_mode", "int") THEN n
  ELSE IF GetInt(n, "pad_mode", 0) \in DOMAIN PadNames
  THEN SetStr(n, "pad_mode", PadNames[GetInt(n, "pad_mode", 0)]) ELSE Fail(n)

\* A convolution without padding whose pads are not zero has specific padding.
SetConvPadmode(n) ==
  IF n.type = "Convolution" /\ GetStr(n, "pad_mode", "") = "VALID" /\ \E p \in ToSet(GetListInt(n, "pads")) : p # 0
  THEN DelAttr(SetStr(n, "pad_mode", "SPECIFIC"), "pad_conv") ELSE n

MirrorPadOMConverter(n, new) ==
  LET kind == IF new THEN "int" ELSE "str"
      m == IF IsA(n, "mode", kind) THEN n.attrs["mode"][2] ELSE 0 IN
  IF ~HasAttr(n, "mode") THEN Fail(n)
  ELSE IF ~IsA(n, "mode", kind) THEN n
  ELSE IF new THEN IF m \in 1 .. 2 THEN SetStr(n, "mode", MirrorModes[m]) ELSE Fail(DelAttr(n, "mode"))
  ELSE IF m \in ToSet(MirrorModes) THEN SetInt(n, "mode", IF m = "REFLECT" THEN 1 ELSE 2) ELSE Fail(DelAttr(n, "mode"))
BiasAddOMConverter(n, new) == IF new THEN DataFormatToString(n) ELSE DataFormatToEnum(n)
DepthToSpaceOMConverter(n, new) == IF new \/ ~IsA(n, "data_format", "str") THEN n ELSE DataFormatToEnum(n)

(***************************************************************************)
(* Convolutions.                                                           *)
(***************************************************************************)
\* Weights of halves become floats; an empty one ends the conversion.
HalvesToFloats(ws) ==
  LET empty == {k \in DOMAIN ws : ws[k].dtype = "FLOAT16" /\ ws[k].data = <<>>} IN
  [k \in DOMAIN ws |-> IF ws[k].dtype = "FLOAT16" /\ (\A e \in empty : k < e) THEN [ws[k] EXCEPT !.dtype = "FLOAT"] ELSE ws[k]]

\* The conversion of a matrix: transposed or not, its elements divided by the scaler.
TransWeights(w, x, y, trans, scaler) ==
  LET scaled(v) == IF scaler \in {0, 1} THEN v ELSE v \div scaler IN
  IF w.dtype \notin {"INT8", "FLOAT16", "FLOAT"} \/ x * y <= 0 \/ x * y # Len(w.data) THEN w
  ELSE [w EXCEPT !.data = [p \in 1 .. x * y |->
          LET to == p - 1 IN
          IF trans THEN scaled(w.data[(to % x) * y + (to \div x) + 1]) ELSE scaled(w.data[p])]]
Is11(dims) == Len(dims) = 4 /\ dims[3] = 1 /\ dims[4] = 1
MatrixOf(w, trans, scale, scaler) ==
  LET d == w.dims
      flat == [w EXCEPT !.dims = IF trans THEN <<d[2], d[1]>> ELSE <<d[1], d[2]>>] IN
  IF scale \/ trans THEN TransWeights(flat, d[1], d[2], trans, scaler) ELSE flat
GemmDAdjustConstDimSize(n, transposed, factors) ==
  LET ws == MutableWeights(n) IN
  IF Len(ws) > 2 THEN Fail(n)
  ELSE ChangeWeights(n, [k \in DOMAIN ws |->
         IF Is11(ws[k].dims) THEN MatrixOf(ws[k], k = 1 /\ ~transposed, TRUE, factors[k]) ELSE ws[k]])
GemmDAdjustDimSize(n) ==
  LET flat == [n EXCEPT !.ins = [i \in DOMAIN @ |->
                 IF Len(@[i].dims) > 2 THEN [@[i] EXCEPT !.dims = SubSeq(@, 1, 2)] ELSE @[i]]] IN
  AndThen(SplitIfMerged(flat), LAMBDA m :
    GemmDAdjustConstDimSize(m, GetBool(n, "transpose_b", FALSE), <<GetFloat(n, "alpha", 1), GetFloat(n, "beta", 1)>>))
MatMulTransWeights(n) ==
  LET transposed == GetBool(n, "transpose_x2", FALSE)
      ws == MutableWeights(n)
      second == Linked(n, 2) /\ ~IsConst(n.ins[2]) IN
  IF InEdgeSize(n) # 2 \/ n.graph.hcs THEN n
  ELSE AndThen(SplitIfMerged(n), LAMBDA m :
         ChangeWeights(m, [k \in DOMAIN ws |->
           IF ~Is11(ws[k].dims) THEN ws[k]
           ELSE MatrixOf(ws[k], ~(k = 1 /\ Len(ws) # 1) /\ ~second /\ ~transposed, FALSE, 1)]))
ConstantOMConverter(n, new) ==
  IF ~new THEN ChangeWeights(n, HalvesToFloats(MutableWeights(n)))
  ELSE IF Version(n) # 5 THEN n
  ELSE IF n.type = "GemmD" THEN GemmDAdjustDimSize(n)
  ELSE IF n.type = "MatMul" THEN MatMulTransWeights(n) ELSE n

\* has_bias is found from the weights, and a bias with one dimension is made 1, C, 1, 1.
BiasComplete(n) ==
  LET ws == MutableWeights(n)
      size == Len(ws)
      bias == IF n.type = "ConvTranspose"
              THEN \/ size = 3 /\ Len(ws[1].dims) = 1 /\ ws[1].dtype = "INT32"
                   \/ size = 2 /\ ws[1].dtype = ws[2].dtype /\ ws[1].dtype \in {"FLOAT", "FLOAT16"}
              ELSE size = 2
      shaped == IF bias /\ Len(ws[size].dims) = 1
                THEN ChangeWeights(n, [ws EXCEPT ![size].dims = <<1, @[1], 1, 1>>]) ELSE n
      found == IF HasAttr(n, "has_bias") \/ ~bias THEN n ELSE SetBool(shaped, "has_bias", TRUE) IN
  IF HasAttr(found, "has_bias") THEN Default(found, "has_bias_value", <<"bool", GetBool(found, "has_bias", FALSE)>>) ELSE found

Conv2DTransposeConverter(n, cfg, new) ==
  LET old == Version(n) = 0
      renamed == IF new \/ old THEN TypeAndAttrConverter(n, cfg, new) ELSE n
      padded == IF new THEN renamed ELSE PadModeToEnum(renamed)
      moded == IF new \/ ~old THEN padded
               ELSE SetMissing(IF GetInt(padded, "mode", 0) = 3 THEN SetInt(padded, "mode", 1) ELSE padded,
                               [mode |-> <<"int", 1>>, algo |-> <<"int", 0>>]) IN
  AndThen(padded, LAMBDA m : ConstantOMConverter(moded, new))
OnCorrelation(n) == n.type = "Correlation" /\ HasAttr(n, "original_op_names") /\ InEdgeSize(n) = 2
ConvOMConverterOldToNew(n) ==
  AndThen(AndThen(AndThen(DataFormatToString(n), LAMBDA m : PadModeToString(m)), LAMBDA m : SetConvPadmode(m)), LAMBDA m :
    IF ~OnCorrelation(m) THEN m
    ELSE IF ~Linked(m, 2) THEN Fail(m)
    ELSE IF m.ins[2].op = "Reshape" THEN InsertBefore(m, 2, "Permute", <<3, 2, 0, 1>>) ELSE m)
ConrreationOMConverterNewToOld(n) ==
  LET m == IF n.type = "Correlation" THEN Default(n, "num_output", <<"int", n.ins[2].dims[1]>>) ELSE n IN
  IF ~OnCorrelation(m) THEN m
  ELSE IF ~Linked(m, 2) THEN Fail(m)
  ELSE IF m.ins[2].op # "Permute" THEN m
  ELSE AndThen(InsertBefore(m, 2, "Permute", <<0, 2, 3, 1>>), LAMBDA k : InsertBefore(k, 1, "Permute", <<0, 1, 2, 3>>))
ConvOMConverter(n, new) ==
  LET grouped == IF n.type = "ConvolutionDepthwise" THEN Default(n, "groups", <<"int", 1>>) ELSE n IN
  IF new THEN ConvOMConverterOldToNew(n)
  ELSE AndThen(AndThen(DataFormatToEnum(grouped), LAMBDA m : PadModeToEnum(m)), LAMBDA m :
         ConrreationOMConverterNewToOld(
           Default(BiasComplete(Default(m, "mode", <<"int", 1>>)), "algo", <<"int", 0>>)))

(***************************************************************************)
(* Neural networks.                                                        *)
(***************************************************************************)
HardSwishConverter(n, cfg, new) ==
  IF new THEN n ELSE SetFloat(SetInt([n EXCEPT !.type = cfg.dst], "mode", 16), "coef", 0)
SpaceToDepthConverter(n, new) ==
  IF new /\ ~HasAttr(n, "data_format") /\ ~HasAttr(n, "format") THEN SetStr(n, "data_format", "NHWC") ELSE n
ToDynamicInputConverter(n, new) == IF new THEN SetInt(n, "N", InEdgeSize(n)) ELSE n
FullyConnectionConverter(n, cfg, new) ==
  LET m == TypeAndAttrConverter(n, cfg, new)
      drop(k, a, kind) == IF IsA(k, a, kind) THEN DelAttr(k, a) ELSE k IN
  IF new THEN SetInt(SetBool(m, "transpose", FALSE), "axis", 1)
  ELSE drop(drop(m, "transpose", "bool"), "axis", "int")
ScaleConverter(n, new) == IF new THEN n ELSE Default(n, "has_bias_value", <<"bool", GetBool(n, "bias_term", FALSE)>>)
NormConverter(n, new, type) ==
  IF new \/ HasAttr(n, "reduction_indices") THEN n
  ELSE SetAttr(SetStr(n, "norm_type", type), "reduction_indices", <<"ints", <<>>>>)
InstanceNormConverter(n, new) == NormConverter(n, new, "InstanceNorm")
LayerNormConverter(n, new) == NormConverter(n, new, "LayerNorm")
ProposalConverter(n, cfg, new) ==
  LET m == UpdateAttrConverter(n, cfg, new) IN
  IF ~new /\ GetBool(m, "output_actual_rois_num", FALSE) THEN Fail(m) ELSE m

\* The hidden size is a quarter of one dimension of the first weight.
HiddenSize(n, dim, least, names) ==
  LET ws == MutableWeights(n) IN
  IF ~HasAttr(n, "hidden_size") /\ ws # <<>> /\ Len(ws[1].dims) >= least
  THEN [n EXCEPT !.attrs = [a \in names |-> <<"int", ws[1].dims[dim] \div 4>>] @@ @] ELSE n
LSTMConverter(n, new) ==
  LET closed == RemoveIdleEndpoint(n)
      one == IF Len(closed.outs) = 3 THEN [closed EXCEPT !.outs = SubSeq(@, 1, 1)] ELSE closed
      full == SetMissing(one, [num_output |-> <<"int", 1>>, num_layers |-> <<"int", 1>>, support_cont |-> <<"bool", TRUE>>]) IN
  IF new THEN SetBool(n, "expose_hidden", FALSE) ELSE HiddenSize(full, 1, 1, {"hidden_size"})
BidirectionLSTMConverterOldToNew(n) ==
  LET m == SetBool(SetStr(n, "cell_type", "LSTM"), "state_is_tuple", TRUE) IN
  Default(m, "activation", <<"int", GetInt(m, "lstm_activate", 0)>>)
BidirectionLSTMConverter(n, new) ==
  LET m == Default(RemoveIdleEndpoint(n), "lstm_time_major", <<"bool", FALSE>>)
      name == GetStr(m, "activation", "")
      activated == IF HasAttr(m, "lstm_activate") THEN m
                   ELSE IF name \in DOMAIN Activations
                   THEN SetInt(DelAttr(m, "activation"), "lstm_activate", Activations[name])
                   ELSE SetInt(m, "lstm_activate", GetInt(m, "activation", 0)) IN
  IF new THEN BidirectionLSTMConverterOldToNew(n) ELSE HiddenSize(activated, 2, 2, {"ht", "hidden_size"})
ReLU6OMConverter(n, new) ==
  IF ~new /\ GetInt(n, "mode", 0) = 14 THEN SetFloat(SetInt(n, "mode", 3), "coef", 6) ELSE n
ScaleOMConverter(n, new) == IF new THEN n ELSE Default(n, "has_bias_value", <<"bool", InEdgeSize(n) = 3>>)
PriorBoxConverter(n, cfg, new) ==
  LET count(a) == <<"int", Len(GetAttr(n, a, "floats", <<>>))>> IN
  IF new THEN n
  ELSE [TransformTypeConverter(n, cfg, new) EXCEPT !.attrs =
         [min_size_num |-> count("min_size"), max_size_num |-> count("max_size"), variance_num |-> count("variance"),
          aspect_ratio_num |-> count("aspect_ratio")] @@ @]
PReluConverter(n, cfg, new) ==
  LET m == Default(TransformTypeConverter(n, cfg, new), "channel_shared", <<"bool", FALSE>>)
      ws == MutableWeights(m)
      d == ws[1].dims IN
  IF new THEN n
  ELSE IF Len(ws) # 1 THEN Fail(m)
  ELSE IF Len(d) = 4 /\ d[1] = 1 /\ d[3] = 1 /\ d[4] = 1 THEN m
  ELSE IF Len(d) = 3 /\ d[2] = 1 /\ d[3] = 1
  THEN SetWeights(m, <<Tensor(<<1>> \o d, "FLOAT", SubSeq(ws[1].data, 1, d[1]))>>)
  ELSE Fail(m)

\* The dimensions before the first that is not 1 go.
ChangeConstShapeForLayerNorm(n) ==
  LET cut(d) == LET some == {i \in DOMAIN d : d[i] # 1} IN
                IF some = {} THEN <<>> ELSE SubSeq(d, CHOOSE i \in some : \A j \in some : i <= j, Len(d)) IN
  ChangeWeights(n, [k \in DOMAIN MutableWeights(n) |-> [MutableWeights(n)[k] EXCEPT !.dims = cut(@)]])
LayerNormOMConverter(n, new) ==
  LET m == ChangeConstShapeForLayerNorm(RemoveIdleEndpoint(n))
      axes == GetListInt(m, "reduction_indices")
      ws == MutableWeights(m)
      normed == SetInt(m, "begin_norm_axis", axes[1])
      at == {i \in DOMAIN m.ins[1].dims : m.ins[1].dims[i] = ws[1].dims[1]} IN
  IF ~new \/ GetUnSetInputIndexs(n) = <<>> THEN n
  ELSE IF (HasAttr(m, "begin_norm_axis") /\ HasAttr(m, "begin_params_axis")) \/ axes = <<>> THEN m
  ELSE IF ws = <<>> THEN Fail(m)
  ELSE IF ws[1].dims = <<>> \/ at = {} THEN normed
  ELSE SetInt(normed, "begin_params_axis", (CHOOSE i \in at : \A j \in at : i <= j) - 1)
AlgoOMConverter(n, new) ==
  IF new THEN n
  ELSE Default(n, "algo", <<"int", CASE n.type = "Softmax" -> 1 [] n.type = "LogSoftmax" -> 2 [] OTHER -> 0>>)
SetAttrForLSTM(n) ==
  SetMissing(n, [a \in {"fw_state_concat", "bw_state_concat", "fwbw_state_concat"} |-> <<"bool", FALSE>>]
    @@ [a \in {"x_index", "input_mode", "direction_mode"} |-> <<"int", 0>>]
    @@ [a \in {"cont_index", "num_layers"} |-> <<"int", 1>>] @@ [a \in {"xstatic_index", "mode"} |-> <<"int", 2>>]
    @@ [a \in {"input_data_layout", "output_data_layout"} |-> <<"int", 4>>] @@ [seqlen_index |-> <<"int", -1>>])

\* Of seven inputs, the third to the sixth move round by one.
ReConnetLSTMOutput(n) ==
  LET round == (3 :> 4) @@ (4 :> 5) @@ (5 :> 6) @@ (6 :> 3) IN
  IF Len(n.ins) # 7 THEN n
  ELSE IF \E i \in 3 .. 6 : ~Linked(n, i) THEN Fail(n)
  ELSE [n EXCEPT !.ins = [i \in DOMAIN @ |->
         IF i \in DOMAIN round THEN Endpoint(@[i].dims, @[round[i]].op, @[round[i]].tensor) ELSE @[i]]]
LSTMOMConverter(n, cfg, new) ==
  LET m == IF GetBool(n, "support_cont", FALSE) THEN TransformTypeConverter(n, cfg, new) ELSE n IN
  IF new THEN ReConnetLSTMOutput(m) ELSE SetAttrForLSTM(HiddenSize(m, 1, 2, {"hidden_size"}))
ProposalOMConverter(n, new) == IF new THEN n ELSE Default(n, "top_size", <<"int", Len(n.outs)>>)
NextOpSet == {"Softmax", "FullyConnection", "ChannelAxpy", "Flatten", "FlattenV2", "SSDNormalize", "Normalize",
              "FSRDetectionOutput", "SSDPriorBox", "PriorBox", "Activation", "NetOutput"}
FullyConnectionOMConverter(n, new) ==
  IF new \/ Len(n.outs[1]) # 4 THEN n
  ELSE IF n.next = Idle THEN Fail(n)
  ELSE IF n.next \in NextOpSet THEN [n EXCEPT !.outs[1] = SubSeq(@, 1, 2)] ELSE n

(***************************************************************************)
(* Arrays.                                                                 *)
(***************************************************************************)
SelectConverter(n, new) ==
  IF ~new /\ \E i \in DOMAIN n.ins : n.ins[i].op = "Data" /\ Len(n.ins[i].dims) = 1
  THEN SetInt(n, "inferred_format", 0) ELSE n
\* The constants of a gather are told to be without a format.
GatherV2DConverter(n, cfg, new) == IF new THEN n ELSE TransformTypeConverter(n, cfg, new)
ConcatDConverter(n, cfg, new) ==
  LET m == TypeAndAttrConverter(n, cfg, new) IN
  IF new THEN n
  ELSE IF ~IsA(m, "N", "int") \/ GetInt(m, "N", 0) < InEdgeSize(m) \/ ~IsA(m, "axis", "int") THEN m
  ELSE PushIsInputConst(SetWeights(m, Append(MutableWeights(m), Tensor(<<1>>, "INT32", <<GetInt(m, "axis", 0)>>))))
\* A node without constants is reported converted: the failure is returned as FALSE, which is the code of success.
OneHotConverter(n, new) ==
  LET ws == MutableWeights(n) IN
  IF new \/ HasAttr(n, "T") \/ ws = <<>> THEN n
  ELSE IF Len(ws) < 3 THEN Fail(n) ELSE SetAttr(n, "T", <<"int", ws[Len(ws)].dtype>>)
PadConverter(n, new) == IF new THEN n ELSE SetMissing(n, [mode |-> <<"int", 0>>, t_paddings |-> <<"int", 3>>])
SplitVConverter(n, new) ==
  LET ws == MutableWeights(n) IN
  IF ~new THEN n
  ELSE IF Len(ws) # 2 THEN Fail(n)
  ELSE IF ws[2].dtype # "INT32" THEN Fail(n) ELSE SetWeights(n, <<ws[1], Tensor(<<>>, "INT32", SubSeq(ws[2].data, 1, 1))>>)

\* A constant that holds one 32-bit integer.
IsScalar(t) == t.dtype = "INT32" /\ Len(t.data) = 1
ConvertLastConstInputToAttr(n) ==
  LET last == InEdgeSize(n)
      t == n.ins[last].tensor IN
  IF last = 0 THEN Fail(n)
  ELSE TransConstInputToAttr(n, last, IF IsScalar(t) THEN SetInt(n, "concat_dim", t.data[1]) ELSE n)
SurplusInputNodeRemoveForConcatOp(n) ==
  LET ws == MutableWeights(n) IN
  IF IsA(n, "N", "int") /\ InEdgeSize(n) = GetInt(n, "N", 0) + 1 /\ ws # <<>> /\ Last(ws).dtype = "INT32"
  THEN RemoveSpecificInput(n, InEdgeSize(n)) ELSE n
ConcatDOMConverter(n, new) ==
  LET m == SetInt(n, "Tidx", 3) IN
  IF ~new THEN m ELSE IF HasAttr(n, "concat_dim") THEN SurplusInputNodeRemoveForConcatOp(m) ELSE ConvertLastConstInputToAttr(m)
RemoveNth(n, new, size, i) == IF new /\ Len(n.ins) = size THEN RemoveSpecificInput(n, i) ELSE n
GatherV2DOMConverter(n, new) == RemoveNth(n, new, 3, 3)
SplitDOMConverter(n, new) ==
  LET t == n.ins[1].tensor IN
  IF ~new \/ Len(n.ins) # 2 THEN n
  ELSE IF HasAttr(n, "split_dim") THEN RemoveSpecificInput(n, 1)
  ELSE TransConstInputToAttr(n, 1, IF IsScalar(t) THEN SetInt(n, "split_dim", t.data[1]) ELSE n)
ReshapeOMConverter(n, new) == IF new THEN DelAttr(n, "to_be_deleted") ELSE n
PadOMConverter(n, new) == IF new \/ IsA(n, "mode", "int") THEN n ELSE SetInt(n, "mode", 0)
SplitVOMConverter(n, new) ==
  LET ws == MutableWeights(n) IN
  IF new \/ IsA(n, "axis", "int") \/ Len(n.ins) # 3 THEN n
  ELSE IF Len(ws) # 2 THEN Fail(n)
  ELSE IF ~IsScalar(ws[2]) THEN Fail(n) ELSE SetInt(n, "axis", ws[2].data[1])
FlattenOMConverter(n, cfg, new) == IF ~new /\ n.graph.ssd THEN TransformTypeConverter(n, cfg, new) ELSE n

\* Begins, ends and strides of every dimension give the begin, the end, the axis and the stride of the first that is cut.
NoSlice == "none"
GetStridedSliceV2ConstInputValue(ws, d) ==
  LET size == Len(d)
      first(S) == CHOOSE i \in S : \A j \in S : i <= j
      begun == {i \in 1 .. size : ws[1].data[i] # 0}
      ended == {i \in 1 .. size : ws[2].data[i] # d[i]}
      value(i) == <<ws[1].data[i], ws[2].data[i], i - 1, ws[3].data[i]>> IN
  IF size # 0 /\ \E k \in 1 .. 3 : Len(ws[k].data) # size THEN <<"failed">>
  ELSE IF begun # {} THEN value(first(begun)) ELSE IF ended # {} THEN value(first(ended)) ELSE <<>>
ChangeStridedSliceV2ConstInputShape(n, ws, value) ==
  LET flat == [n EXCEPT !.ins = [i \in DOMAIN @ |-> IF i = 1 THEN @[i] ELSE [@[i] EXCEPT !.dims = <<1>>]]]
      t(i) == Tensor(<<1>>, IF i <= 3 THEN ws[i].dtype ELSE "INT32", <<value[i]>>) IN
  PushIsInputConst(SetWeights(flat, [i \in 1 .. 4 |-> t(i)]))
StridedSliceV2OMConverter(n, new) ==
  LET ws == MutableWeights(n)
      value == GetStridedSliceV2ConstInputValue(ws, n.ins[1].dims) IN
  IF ~new \/ Len(ws) # 3 THEN n
  ELSE AndThen(SplitIfMerged(n), LAMBDA m :
         IF value = <<"failed">> THEN Fail(m)
         ELSE IF value = <<>> THEN m ELSE ChangeStridedSliceV2ConstInputShape(m, ws, value))

(***************************************************************************)
(* Mathematics.                                                            *)
(***************************************************************************)
ArgMaxConverter(n, cfg, new) ==
  LET m == TransformTypeConverter(n, cfg, new)
      ws == MutableWeights(m) IN
  IF ~new \/ ws = <<>> THEN m
  ELSE IF ws[1].dtype # "FLOAT" THEN m
  ELSE IF Len(ws[1].data) # 1 THEN Fail(m) ELSE SetWeights(m, [ws EXCEPT ![1] = Tensor(<<1>>, "INT32", @.data)])
L2NormalizeConverter(n, new) ==
  LET axes == GetListInt(n, "axis") IN IF new \/ axes = <<>> THEN n ELSE SetInt(n, "axis", axes[1])
AxesFromConst(n, new) ==
  LET ws == MutableWeights(n) IN
  IF new \/ HasAttr(n, "axis") THEN n
  ELSE IF Len(ws) # 1 THEN Fail(n)
  ELSE IF ws[1].dtype # "INT32" THEN Fail(n) ELSE SetAttr(n, "axis", <<"ints", ws[1].data>>)
ReduceMaxConverter(n, new) == AxesFromConst(n, new)
ReduceMinConverter(n, new) == AxesFromConst(n, new)
ArgMaxOMConverterOldToNew(n) ==
  LET m == Default(n, "output_type", <<"int", 0>>) IN
  IF InEdgeSize(m) = 2 \/ ~HasAttr(m, "axis") THEN m
  ELSE AndThen(SplitIfMerged(m), LAMBDA k :
         IF ~IsA(k, "axis", "int") THEN Fail(k)
         ELSE SetWeights(k, Append(MutableWeights(k), Tensor(<<1>>, "INT32", <<GetInt(k, "axis", 0)>>))))
ArgMaxOMConverter(n, new) ==
  LET ws == MutableWeights(n)
      t == IF Len(ws) = 1 THEN ws[1] ELSE ws[2] IN
  IF new THEN ArgMaxOMConverterOldToNew(n)
  ELSE IF HasAttr(n, "axis_type") THEN n
  ELSE IF InEdgeSize(n) = 1 THEN SetInt(n, "axis_type", 2)
  ELSE IF GetInt(n, "output_type", -1) # 0 THEN SetInt(SetInt(n, "axis_type", 3), "axis", 0)
  ELSE IF ws = <<>> THEN Fail(SetInt(n, "axis_type", 1))
  ELSE IF t.data = <<>> THEN Fail(SetInt(n, "axis_type", 1))
  ELSE SetInt(SetInt(n, "axis_type", 1), "axis", t.data[1])
SumOMConverter(n, new) == IF new THEN n ELSE SetInt(n, "Tidx", 3)
L2NormalizeOMConverter(n, new) == RemoveNth(n, new, 2, 1)
ReduceMaxOMConverter(n, new) ==
  LET m == EmptyInputNodeRemoveForOMConverter(n, new)
      axes == GetListInt(m, "axis") IN
  IF ~new \/ ~IsA(m, "axis", "ints") \/ Len(m.ins) # 1 THEN m
  ELSE IF axes = <<>> THEN Fail(m)
  ELSE PushIsInputConst(SetWeights(m, Append(MutableWeights(m), Tensor(<<Len(axes)>>, "INT32", axes))))

\* Casts that the builder itself put in are left alone.
CastOMConverter(n, new) ==
  LET to == GetInt(n, "dst_dtype", -1) IN
  IF n.name \in {"data_cast_", "netoutput_cast_"} THEN n
  ELSE IF new /\ to = 1 THEN SetInt(n, "dst_dtype", 0)
  ELSE IF ~new /\ to = 0 /\ GetInt(n, "src_dtype", 0) \in {2, 4} THEN SetInt(n, "dst_dtype", 1) ELSE n

(***************************************************************************)
(* Images and detection.                                                   *)
(***************************************************************************)
CropAndResizeConvertConstOpToAttr(n) ==
  LET t == Last(MutableWeights(n)) IN
  IF HasAttr(n, "crop_size_h") /\ HasAttr(n, "crop_size_w") THEN n
  ELSE IF InEdgeSize(n) # 4 \/ ~Linked(n, 4) THEN Fail(n)
  ELSE IF n.ins[4].op # "Const" \/ t.dims # <<2>> \/ t.dtype # "INT32" THEN Fail(n)
  ELSE SetInt(SetInt(n, "crop_size_h", t.data[1]), "crop_size_w", t.data[2])
CropAndResizeAttrConvertToConstOp(n) ==
  LET m == RemoveIdleEndpoint(n)
      size == <<GetInt(m, "crop_size_h", 0), GetInt(m, "crop_size_w", 0)>> IN
  IF ~IsA(m, "crop_size_h", "int") \/ ~IsA(m, "crop_size_w", "int") THEN m
  ELSE PushIsInputConst(DelAttr(DelAttr(SetWeights(m, Append(MutableWeights(m), Tensor(<<2>>, "INT32", size))),
                                        "crop_size_h"), "crop_size_w"))
CropAndResizeConverter(n, new) ==
  IF new THEN CropAndResizeAttrConvertToConstOp(n)
  ELSE AndThen(IF Version(n) = 0 THEN CropAndResizeConvertConstOpToAttr(n) ELSE n, LAMBDA m :
         IF ~IsA(m, "method", "str") THEN m
         ELSE IF GetStr(m, "method", "") \in DOMAIN CropMethods THEN SetInt(m, "method", CropMethods[GetStr(m, "method", "")])
         ELSE Fail(DelAttr(m, "method")))
CropAndResizeOMConverter(n, new) == IF new THEN CropAndResizeAttrConvertToConstOp(n) ELSE n
InterpConverter(n, new) ==
  IF ~new /\ GetInt(n, "height", 0) = -1 /\ GetInt(n, "width", 0) = -1
  THEN SetInt(SetInt(n, "height", 0), "width", 0) ELSE n
ROIAlignConverter(n, cfg, new) ==
  LET m == TransformTypeConverter(n, cfg, new)
      scale == GetAttr(m, "spatial_scale", "floats", <<>>)
      h == GetInt(m, "pooled_height", 0)
      w == GetInt(m, "pooled_width", 0) IN
  IF new THEN n
  ELSE IF scale = <<>> \/ ~HasAttr(m, "pooled_height") \/ ~HasAttr(m, "pooled_width") THEN Fail(m)
  ELSE SetFloat(SetInt(SetInt(DelAttr(DelAttr(m, "pooled_height"), "pooled_width"), "pooled_h", h), "pooled_w", w),
                "spatial_scale", scale[1])
ROIAlignOMConverter(n, cfg, new) ==
  LET m == TransformTypeConverter(n, cfg, new)
      old == {"pooled_h", "pooled_w", "sampling_ratio"} IN
  IF ~new THEN n
  ELSE IF \E a \in old \cup {"spatial_scale"} : ~HasAttr(m, a) THEN Fail(m)
  ELSE [m EXCEPT !.attrs =
         [pooled_height |-> <<"int", GetInt(m, "pooled_h", 0)>>, pooled_width |-> <<"int", GetInt(m, "pooled_w", 0)>>,
          spatial_scale |-> <<"floats", <<GetFloat(m, "spatial_scale", 0)>>>>,
          sample_num |-> <<"int", GetInt(m, "sampling_ratio", 0)>>] @@ [a \in DOMAIN @ \ old |-> @[a]]]
ResizeNearestNeighborOMConverter(n, new) == RemoveNth(n, new, 3, 2)
NonMaxSuppressionOMConverter(n, new) ==
  LET ws == MutableWeights(n) IN
  IF new THEN IF Len(n.ins) = 4 THEN RemoveSpecificInput(RemoveSpecificInput(n, 4), 3) ELSE n
  ELSE IF ~IsA(n, "score_threshold", "float") THEN n
  ELSE SetFloat(n, "score_threshold", IF Len(ws) >= 3 THEN ws[3].data[1] ELSE 0)
\* What the visitor refuses is removed all the same.
FSRDetectionOutputConverterConstToAttr(n) ==
  LET m == IF Len(n.ins) > 4 THEN RemoveSpecificInput(n, 5) ELSE n
      t == m.ins[4].tensor IN
  IF MutableWeights(n) = <<>> THEN Fail(n)
  ELSE IF Len(n.ins) <= 3 THEN n
  ELSE IF Len(m.ins) < 4 THEN Fail(m)
  ELSE TransConstInputToAttr(m, 4,
         IF t.dims = <<2>> /\ t.dtype = "INT32" /\ Len(t.data) = 2
         THEN SetFloat(SetFloat(SetInt(SetInt(m, "img_h", t.data[1]), "img_w", t.data[2]), "alpha", 1), "beta", 0) ELSE m)
ChangeFSRInputSequence(n) ==
  IF Linked(n, 1) /\ Linked(n, 3) THEN [n EXCEPT !.ins[1] = n.ins[3], !.ins[3] = n.ins[1]] ELSE Fail(n)
FSRDetectionOutputConverter(n, cfg, new) ==
  LET m == IF new \/ Version(n) = 0 THEN UpdateAttrConverter(n, cfg, new) ELSE n IN
  IF new \/ HasAttr(m, "img_h") \/ HasAttr(m, "img_w") THEN m
  ELSE AndThen(ChangeFSRInputSequence(m), LAMBDA k : FSRDetectionOutputConverterConstToAttr(k))
FSRDetectionOutputOMConverter(n, new) ==
  IF ~new THEN SetFloat(SetFloat(n, "alpha", 1), "beta", 0)
  ELSE IF ~HasAttr(n, "img_h") \/ ~HasAttr(n, "img_w") THEN n
  ELSE PushIsInputConst(SetWeights(n, Append(MutableWeights(n),
         Tensor(<<2>>, "INT32", <<GetInt(n, "img_h", 0), GetInt(n, "img_w", 0)>>))))

(***************************************************************************)
(* Operators the framework itself puts in.                                 *)
(***************************************************************************)
PadV3Converter(n, cfg, new) ==
  LET m == TransformTypeConverter(n, IF Len(MutableWeights(n)) = 2 THEN [cfg EXCEPT !.dst = "PadV2"] ELSE cfg, new) IN
  IF new THEN n ELSE IF IsA(m, "mode", "int") THEN m ELSE SetInt(m, "mode", 0)
ChangeDimOrderOMConverter(n, new) ==
  IF ~new \/ Len(n.ins) # 2 THEN n
  ELSE RemoveSpecificInput(IF n.type = "Transpose" THEN [n EXCEPT !.type = "Permute"] ELSE n, 2)
YoloDetectionOutputOMConverter(n, new) ==
  IF new THEN n
  ELSE [n EXCEPT !.attrs = [a \in {"iou_threshold_decay", "coor_scale_factor", "alpha"} |-> <<"float", 1>>]
                           @@ [beta |-> <<"float", 0>>] @@ @]

(***************************************************************************)
(* If and While: the version before 5 has one Data node per subgraph, with *)
(* an output for each input, and version 5 one Data node for each. A Data  *)
(* node is [index, uses, listed]: its index attribute (-1: none), the      *)
(* consumers of each of its outputs, and whether the subgraph lists it     *)
(* among its inputs.                                                       *)
(***************************************************************************)
Refused == [index |-> -2, uses |-> <<>>, listed |-> FALSE]

\* A subgraph that lists no inputs is walked by the type of its nodes.
InNodes(g) == LET listed == SelectSeq(g, LAMBDA d : d.listed) IN IF listed = <<>> THEN g ELSE listed
ControlDataFlowNewToOldForSubGraph(g) ==
  LET ins == InNodes(g)
      size == Len(ins)
      of(i) == CHOOSE k \in DOMAIN ins : ins[k].index = i IN
  IF Len(g) <= 1 THEN g
  ELSE IF {ins[k].index : k \in DOMAIN ins} # 0 .. size - 1 THEN <<Refused>>
  ELSE Append(SelectSeq(g, LAMBDA d : d \notin ToSet(ins)),
              [index |-> -1, uses |-> [i \in 1 .. size |-> ins[of(i - 1)].uses[1]], listed |-> TRUE])
\* The new nodes are not made inputs of the subgraph. The inputs are walked while the node is taken from them, so a
\* subgraph that lists a node with several outputs lists no other.
CreatNewData4SubGraphOldToNew(d) ==
  [i \in DOMAIN d.uses |-> [index |-> i - 1, uses |-> <<d.uses[i]>>, listed |-> FALSE]]
ControlDataFlowOldToNewForSubGraph(g) ==
  FlattenSeq([k \in DOMAIN g |-> IF g[k] \in ToSet(InNodes(g)) /\ Len(g[k].uses) > 1 THEN CreatNewData4SubGraphOldToNew(g[k]) ELSE <<g[k]>>])
ControlDataFlowOMConverter(n, new) ==
  LET subs == [k \in DOMAIN n.subs |-> IF new THEN ControlDataFlowOldToNewForSubGraph(n.subs[k])
                                       ELSE ControlDataFlowNewToOldForSubGraph(n.subs[k])] IN
  IF <<Refused>> \in ToSet(subs) THEN Fail(n) ELSE [n EXCEPT !.subs = subs]
=============================================================================
