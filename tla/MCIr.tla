-------------------------------- MODULE MCIr --------------------------------
(***************************************************************************)
(* Operators of every type the transformer converts, in the forms their    *)
(* converters tell apart, and what their transfer owes to them.            *)
(***************************************************************************)
EXTENDS IrTransformer

VARIABLES x, y

\* The standard and versions of ROMs on both sides of every boundary.
Roms == {<<>>, <<100, 100, 10, 10>>, <<100, 310, 10, 10>>, <<100, 320, 10, 10>>, <<100, 320, 11, 10>>, <<100, 330, 10, 10>>,
         <<100, 333, 10, 10>>, <<100, 500, 10, 10>>, <<100, 501, 10, 10>>}

No == [merged |-> "no", lite |-> FALSE, ssd |-> FALSE, hcs |-> FALSE]
None == [a \in {} |-> <<>>]
D(dims) == Endpoint(dims, "Data", NoTensor)
I(dims, data) == ConstEndpoint(Tensor(dims, "INT32", data))
F(dims, data) == ConstEndpoint(Tensor(dims, "FLOAT", data))
H(dims, data) == ConstEndpoint(Tensor(dims, "FLOAT16", data))
Free == Endpoint(<<>>, Idle, NoTensor)
Num(a, v) == a :> <<"int", v>>
Str(a, v) == a :> <<"str", v>>
Flt(a, v) == a :> <<"float", v>>
Yes(a, v) == a :> <<"bool", v>>
Ints(a, v) == a :> <<"ints", v>>
Node(type, attrs, ins) ==
  [ok |-> TRUE, type |-> type, name |-> "op", attrs |-> attrs, ins |-> ins,
   consts |-> [i \in DOMAIN ins |-> IsConst(ins[i])], outs |-> <<<<1, 8, 1, 1>>>>, next |-> "Softmax", graph |-> No, subs |-> <<>>]
In == <<D(<<1, 2, 3, 4>>)>>
Filter == F(<<2, 2, 1, 1>>, <<11, 12, 13, 14>>)
Sub(index, uses, listed) == [index |-> index, uses |-> uses, listed |-> listed]

\* Types that are only renamed, with an attribute that stays.
Renamed == {Node(t, Num("k", 7), In) : t \in DOMAIN IrOldTypes \cup (DOMAIN IrNewTypes \ {"PRelu", "ROIAlignV2"})}
Convs ==
  {Node(t, attrs @@ Ints(IF new THEN "pads" ELSE "pad", <<1, 1, 0, 0>>) @@ Num(IF new THEN "groups" ELSE "group", 2), ins) :
     t \in {"Convolution", "ConvolutionDepthwise", "ConvTranspose", "Deconvolution", "Correlation"}, new \in BOOLEAN,
     attrs \in {None, Str("data_format", "NHWC"), Num("format", 0), Str("pad_mode", "VALID"), Str("pad_mode", "SAME"), Num("pad_mode", 5),
                Str("pad_mode", "other"), Str("pad_mode", "SAME") @@ Str("data_format", "ND"), Num("mode", 3), Num("mode", 3) @@ Num("pad_mode", 2)},
     ins \in {In \o <<Filter>>, In \o <<Filter, F(<<2>>, <<15, 16>>)>>, In \o <<H(<<2, 2, 1, 1>>, <<1, 2, 3, 4>>)>>}}
  \cup {Node("Correlation", Str("original_op_names", "c"), In \o <<Endpoint(<<2, 2, 1, 1>>, op, NoTensor)>>) :
          op \in {"Reshape", "Permute", "Data"}}
Matrices ==
  {[Node(t, attrs, ins) EXCEPT !.graph = g] : t \in {"MatMul", "GemmD"},
     attrs \in {None, Yes("transposeX", TRUE) @@ Yes("transposeW", TRUE), Yes("transpose_x2", TRUE), Yes("transpose_b", TRUE),
                Flt("alpha", 2) @@ Flt("beta", 2)},
     ins \in {<<D(<<2, 2>>), Filter>>, <<D(<<2, 2, 1, 1>>), H(<<2, 2, 1, 1>>, <<1, 2, 3, 4>>)>>,
              <<Filter, F(<<2, 1, 1, 1>>, <<15, 16>>)>>, <<Filter, D(<<2, 2>>)>>},
     g \in {No, [No EXCEPT !.lite = TRUE], [No EXCEPT !.hcs = TRUE], [No EXCEPT !.merged = "yes"], [No EXCEPT !.merged = "broken"]}}
Arrays ==
  {Node("ConcatD", attrs, ins) : attrs \in {None, Num("axis", 2) @@ Num("N", 2), Num("concat_dim", 2) @@ Num("N", 2), Num("N", 1)},
     ins \in {<<D(<<2>>), D(<<2>>)>>, <<D(<<2>>), D(<<2>>), I(<<1>>, <<2>>)>>, <<D(<<2>>), D(<<2>>), I(<<2>>, <<21, 22>>)>>}}
  \cup {Node(t, attrs, ins) : t \in {"SplitD", "Split"}, attrs \in {None, Num("axis", 3) @@ Num("output_num", 2), Num("split_dim", 3)},
          ins \in {In, <<I(<<1>>, <<3>>)>> \o In, <<I(<<2>>, <<21, 22>>)>> \o In, In \o In}}
  \cup {Node("SplitV", attrs, In \o <<I(<<2>>, <<1, 1>>), c>>) : attrs \in {None, Num("axis", 1)},
          c \in {I(<<1>>, <<31>>), F(<<1>>, <<31>>), D(<<1>>), I(<<2>>, <<31, 32>>)}}
  \cup {Node(t, attrs, ins) : t \in {"ReduceMax", "ReduceMin", "ArgMaxExt2", "ArgMax", "Sum", "L2Normalize", "Permute", "Transpose"},
          attrs \in {None, Ints("axis", <<41>>), Num("axis", 41), Num("output_type", 3), Num("output_type", 0), Num("axis_type", 3)},
          ins \in {In, In \o <<I(<<1>>, <<42>>)>>, In \o <<F(<<1>>, <<1>>)>>, In \o <<Free>>}}
  \cup {Node("StridedSliceV2", None, In \o <<I(<<4>>, begin), I(<<4>>, end), I(<<4>>, <<1, 1, 1, 1>>)>>) :
          begin \in {<<0, 0, 0, 0>>, <<0, 1, 0, 0>>}, end \in {<<1, 2, 3, 4>>, <<1, 2, 3, 3>>}}
  \cup {Node("MirrorPad", a, In) : a \in {None, Num("mode", 1), Num("mode", 3), Str("mode", "SYMMETRIC"), Str("mode", "other")}}
  \cup {Node(t, None, ins) : t \in {"OneHot", "GatherV2D", "ResizeNearestNeighbor", "NonMaxSuppressionV3D", "PadV3", "InstanceNorm"},
          ins \in {In, In \o <<I(<<1>>, <<51>>)>>, In \o <<I(<<1>>, <<51>>), I(<<1>>, <<52>>), F(<<1>>, <<1>>)>>,
                   In \o In \o In, In \o <<Free, Free>>, In \o In \o <<F(<<1>>, <<1>>), F(<<1>>, <<1>>)>>}}
Networks ==
  {Node(t, a, In) : t \in {"Activation", "Softmax", "LogSoftmax", "Interp", "Scale", "Select", "Eltwise", "SpaceToDepth", "DepthToSpace",
                            "Pad", "Reshape", "FullyConnection", "Proposal", "YoloDetectionOutput", "BiasAdd", "CastT", "Slice"},
     a \in {None, Num("mode", 14), Num("mode", 6), Num("height", -1) @@ Num("width", -1), Num("height", 4) @@ Num("width", 4),
            Num("shrink_factor", 2), Str("data_format", "NHWC"), Str("data_format", "ND"), Yes("output_actual_rois_num", TRUE), Num("dst_dtype", 1),
            Num("dst_dtype", 0) @@ Num("src_dtype", 4), Yes("to_be_deleted", TRUE), Flt("nms_thresh", 1), Yes("bias_term", TRUE)}}
  \cup {[Node("FlattenV2", None, In) EXCEPT !.graph = [No EXCEPT !.ssd = s]] : s \in BOOLEAN}
  \cup {[Node("FullyConnection", None, In) EXCEPT !.outs = o, !.next = next] : o \in {<<<<1, 8>>>>, <<<<1, 8, 1, 1>>>>}, next \in {Idle, "Relu"}}
  \cup {Node("PRelu", None, In \o <<c>>) : c \in {F(<<1, 2, 1, 1>>, <<1, 2>>), F(<<2, 1, 1>>, <<1, 2>>), F(<<2>>, <<1, 2>>), D(<<2>>)}}
  \cup {Node("PriorBox", "min_size" :> <<"floats", <<1, 2>>>>, In), Node("SSDPriorBox", None, In)}
  \cup {Node(t, a, In \o <<F(<<8, 4>>, <<1>>)>> \o more) : t \in {"LSTM", "RNN", "BidirectionLSTM"},
          a \in {None, Yes("support_cont", TRUE), Str("activation", "Tanh"), Num("lstm_activate", 2)},
          more \in {<<>>, <<Free>>, <<D(<<1>>), F(<<2>>, <<2>>), F(<<3>>, <<3>>), D(<<4>>), D(<<5>>)>>}}
  \cup {Node("LayerNorm", a, In \o <<F(<<1, 1, 3, 4>>, <<1>>)>> \o more) :
          a \in {None, Ints("reduction_indices", <<1, 2>>), Num("begin_norm_axis", 1) @@ Num("begin_params_axis", 1)}, more \in {<<>>, <<Free>>}}
Images ==
  {Node("CropAndResize", a, <<D(<<1, 2, 3, 4>>), D(<<1, 4>>), D(<<1>>)>> \o more) :
     a \in {None, Num("crop_size_h", 61) @@ Num("crop_size_w", 62), Str("method", "nearest"), Str("method", "other")},
     more \in {<<>>, <<I(<<2>>, <<61, 62>>)>>, <<F(<<2>>, <<1, 2>>)>>, <<D(<<2>>)>>}}
  \cup {Node(t, a, In) : t \in {"ROIAlign", "ROIAlignV2"},
          a \in {Num("pooled_h", 2) @@ Num("pooled_w", 3) @@ Num("sampling_ratio", 1) @@ Flt("spatial_scale", 5), None,
                 Num("pooled_height", 2) @@ Num("pooled_width", 3) @@ Num("sample_num", 1) @@ ("spatial_scale" :> <<"floats", <<5>>>>)}}
  \cup {Node("FSRDetectionOutput", a, <<D(<<1>>), D(<<2>>), D(<<3>>)>> \o more) :
          a \in {None, Flt("nms_threshold", 2), Num("img_h", 71) @@ Num("img_w", 72)},
          more \in {<<>>, <<I(<<2>>, <<71, 72>>)>>, <<I(<<3>>, <<73, 74, 75>>)>>, <<I(<<2>>, <<71, 72>>), I(<<1>>, <<1>>)>>}}
  \cup {Node(t, a, In) : t \in {"SSDDetectionOutput", "DecodeBBox", "Multinomial", "LRN", "Upsample", "BatchMatMul"},
          a \in {Flt("nms_threshold", 3), Flt("decodeClip", 4), Num("output_dtype", 5), Flt("lrn_alpha", 6), Num("scale_h", 7), Yes("adj_x", TRUE)}}
Branches ==
  {[Node(t, None, In) EXCEPT !.subs = <<g>>] : t \in {"If", "While"},
     g \in {<<Sub(-1, <<"a", "b">>, TRUE)>>, <<Sub(1, <<"b">>, TRUE), Sub(0, <<"a">>, TRUE)>>, <<Sub(0, <<"a">>, FALSE), Sub(1, <<"b">>, FALSE)>>,
            <<Sub(0, <<"a">>, TRUE), Sub(0, <<"b">>, TRUE)>>, <<Sub(-1, <<"a">>, TRUE)>>}}
Fields ==
  {Node(t, a, ins) : t \in {"Data", "Size", "Shape", "Dequantize", "MaxUnpool2D", "MaxPoolWithArgmaxV2", "BNInference", "ConvTranspose", "Eltwise",
                             "NonMaxSuppressionV3D", "L2Normalize", "LRN"},
     a \in {None, Num("dtype", 3), Num("dtype", 9), Num("N", 2), Str("mode", "SCALED"), Str("data_format", "NHWC"), Ints("axis", <<1>>), Ints("axis", <<2>>),
            Flt("iou_threshold", 1) @@ Flt("score_threshold", 1) @@ Num("max_output_size", 1), Str("norm_region", "WITHIN_CHANNEL")},
     ins \in {<<>>, In, In \o In, <<Free>> \o In, <<Free>> \o In \o In,
              In \o <<F(<<1>>, <<1>>), F(<<1>>, <<2>>), F(<<1>>, <<3>>), F(<<1>>, <<4>>)>>}}
IrNodes == Fields \cup Renamed \cup Convs \cup Matrices \cup Arrays \cup Networks \cup Images \cup Branches
IrCases == [node : IrNodes, version : {0, 3, 5}, rom : Roms]

\* The transfer of an operator to a ROM, of that to the standard, to the ROM again, and to the standard again.
StartOf(c) == IF c.version = 0 THEN c.node ELSE SetInt(c.node, "version", c.version)
To(n, rom) == IF n.ok THEN TransferToTargetVersion(<<n>>, rom)[1] ELSE n
Transfer(c) ==
  [steps |-> FoldLeft(LAMBDA done, rom : Append(done, To(Last(done), rom)), <<StartOf(c)>>, <<c.rom, <<>>, c.rom, <<>>>>),
   verified |-> VerifyIrReservedField(<<c.node>>)[1]]
Fitted == y.steps[2]
Std == y.steps[3]
Back == y.steps[5]

\* A transfer that succeeds stamps the version the ROM understands, and the test of fitness agrees, but for the third
\* generation, which it does not know.
Wanted(rom) ==
  CASE rom = <<>> \/ rom[2] \in {100, 151, 211} -> 5
    [] OTHER -> IF rom[2] <= 320 THEN 0 ELSE IF rom[2] >= 333 /\ rom[2] # 500 THEN 5 ELSE 3
StampFits ==
  Fitted.ok /\ x.node.type # "Const" =>
    Version(Fitted) = Wanted(x.rom) /\ IsCompatible(<<Fitted>>, x.rom) = Is3rdRomVersion(x.rom)

\* A standard operator taken to an older ROM and back is what it was, attributes that were added aside, but for some
\* types that do not come back, some attributes that change and some inputs that are added or taken away.
OneWayTypes == {"FlattenV2", "HardSwish", "Normalize", "PRelu", "PadV3", "PriorBox"}
OneWayAttrs ==
  ({"LSTM", "RNN", "BidirectionLSTM"} \X {"activation"})
  \cup ({"Convolution", "ConvolutionDepthwise", "ConvTranspose", "Activation"} \X {"mode"})
  \cup ({"ArgMaxExt2", "L2Normalize", "ConcatD"} \X {"axis"}) \cup ({"Interp"} \X {"height", "width"})
  \cup {<<"CropAndResize", "method">>, <<"NonMaxSuppressionV3D", "score_threshold">>}
OneWayInputs == {"LSTM", "RNN", "BidirectionLSTM", "Correlation", "CropAndResize", "FSRDetectionOutput"}
Producers(n) == [i \in DOMAIN n.ins |-> n.ins[i].op]
Arms(n) == [k \in DOMAIN n.subs |-> {<<d.index, d.uses>> : d \in ToSet(n.subs[k])}]
RoundTrip ==
  LET n == Std
      m == Back IN
  m.ok =>
    /\ n.type = m.type \/ n.type \in OneWayTypes
    /\ \A a \in DOMAIN n.attrs : (HasAttr(m, a) /\ m.attrs[a] = n.attrs[a]) \/ <<n.type, a>> \in OneWayAttrs
    /\ Producers(n) = Producers(m) \/ n.type \in OneWayInputs
    /\ Arms(n) = Arms(m)

\* The value of a constant that is taken away is kept in an attribute, if it has the size the converter reads and the
\* attribute was not there before.
Dropped == {"Permute", "Transpose", "NonMaxSuppressionV3D"}
SizeRead(n) == IF n.type = "FSRDetectionOutput" THEN 2 ELSE 1
Given(n) == \E a \in {"concat_dim", "split_dim", "axis", "img_h"} : HasAttr(n, a)
Values(n) == {n.ins[i].tensor.data : i \in {j \in DOMAIN n.ins : IsConst(n.ins[j]) /\ n.ins[j].tensor.dtype = "INT32"}}
InAttrs(n, v) == \E a \in DOMAIN n.attrs : n.attrs[a] = <<"int", v>> \/ (n.attrs[a][1] = "ints" /\ v \in ToSet(n.attrs[a][2]))
ValuesKept ==
  Std.ok /\ x.node.type \notin Dropped /\ ~Given(x.node) =>
    \A t \in Values(x.node) \ Values(Std) :
      Len(t) = SizeRead(x.node) => \A i \in DOMAIN t : InAttrs(Std, t[i])

\* An operator that passes the verification passes it again unchanged; but the constants of a batch normalisation are
\* exchanged every time, so that a graph verified twice is not the graph verified once.
VerifiedOnce ==
  y.verified.ok => LET again == VerifyIrReservedField(<<y.verified>>)[1] IN
    /\ again.ok
    /\ IF x.node.type = "BNInference" /\ Len(MutableWeights(x.node)) = 4
       THEN again.ins = x.node.ins /\ y.verified.ins # x.node.ins ELSE again = y.verified

TransferSound == StampFits /\ RoundTrip /\ ValuesKept /\ VerifiedOnce
=============================================================================
