---------------------------- MODULE IrTransformer ----------------------------
(***************************************************************************)
(* framework/compatible/ir_transformer.cpp and ir_verify.cpp: an operator  *)
(* is stamped with the version of its definition, 0, 3 or 5, and a model   *)
(* is transferred to the version the ROM of the device understands, or to  *)
(* the standard, the last.  Two tables of converters by type of operator   *)
(* do the work, one between 0 and 3 and one between 3 and 5.               *)
(***************************************************************************)
EXTENDS IrConverters

(***************************************************************************)
(* Fields that must have the value the hardware supports.                  *)
(***************************************************************************)
Only(n, a, kind, value) == IF GetAttr(n, a, kind, value) = value THEN n ELSE Fail(n)
DataVerify(n) == IF n.ins = <<>> THEN Fail(n) ELSE SetInt(n, "real_dim_cnt", Len(n.ins[1].dims))
FullyConnectionVerify(n) == Only(n, "transpose", "bool", FALSE)
ScaleVerify(n) == AndThen(Only(n, "scale_from_blob", "bool", FALSE), LAMBDA m : Only(m, "num_axes", "int", 1))
SizeVerify(n) == Only(n, "dtype", "int", 3)
LRNVerify(n) == Only(n, "norm_region", "str", "ACROSS_CHANNELS")
\* The four constants change places, whatever was done to them before.
BNInferenceVerify(n) ==
  LET ws == MutableWeights(n) IN IF Len(ws) # 4 THEN n ELSE SetWeights(n, <<ws[3], ws[4], ws[1], ws[2]>>)
DepthwiseConv2DVerify(n) == SetInt(n, "groups", 1)
EltwiseVerify(n) ==
  IF HasAttr(n, "N") /\ GetInt(n, "N", 0) # Len(n.ins) - Len(GetUnSetInputIndexs(n)) THEN Fail(n) ELSE n
ShapeVerify(n) == Only(n, "dtype", "int", 3)
DequantizeVerify(n) == Only(n, "mode", "str", "MIN_COMBINED")
QuantizeVerify(n) == Only(n, "mode", "str", "MIN_COMBINED")
LayerNormVerify(n) == n
ProposalVerify(n) == IF GetBool(n, "output_actual_rois_num", FALSE) THEN n ELSE Fail(n)
LSTMVerify(n) == Only(n, "expose_hidden", "bool", FALSE)
BidirectionLSTMVerify(n) ==
  AndThen(Only(n, "state_is_tuple", "bool", TRUE), LAMBDA m : Only(m, "cell_type", "str", "LSTM"))
DepthToSpaceVerify(n) == Only(n, "data_format", "str", "NHWC")
ActivationVerify(n) == IF GetInt(n, "mode", -1) \in 0 .. 15 THEN n ELSE Fail(n)
L2NormalizeVerify(n) == IF GetListInt(n, "axis") # <<>> /\ GetListInt(n, "axis")[1] = 1 THEN n ELSE Fail(n)
NonMaxSuppressionV3DVerify(n) ==
  IF \A a \in {"iou_threshold", "score_threshold", "max_output_size"} : HasAttr(n, a) THEN n ELSE Fail(n)
InterpVerify(n) ==
  CASE GetInt(n, "shrink_factor", 0) > 0 -> SetInt(n, "output_dim_mode", 1)
    [] GetInt(n, "shrink_factor", 0) <= 0 /\ GetInt(n, "zoom_factor", 0) > 0 -> SetInt(n, "output_dim_mode", 0)
    [] GetInt(n, "shrink_factor", 0) <= 0 /\ GetInt(n, "zoom_factor", 0) <= 0 ->
         IF GetInt(n, "height", 0) > 0 /\ GetInt(n, "width", 0) > 0 THEN SetInt(n, "output_dim_mode", 2) ELSE Fail(n)
\* Without a first input the second and the third change places before the idle endpoint goes.
ConvTransposeVerify(n) ==
  IF Linked(n, 1) THEN n
  ELSE IF ~Linked(n, 2) \/ ~Linked(n, 3) THEN Fail(n)
  ELSE RemoveIdleEndpoint([n EXCEPT !.ins = [i \in DOMAIN @ |->
         IF i \in 2 .. 3 THEN Endpoint(@[i].dims, @[5 - i].op, @[5 - i].tensor) ELSE @[i]]])
MaxUnpool2DVerify(n) == Only(n, "data_format", "str", "NCHW")
MaxPoolWithArgmaxV2Verify(n) == IF GetInt(n, "dtype", 3) \in {3, 9} THEN n ELSE Fail(n)

IrVerify(n) ==
  CASE n.type = "Data" -> DataVerify(n)                   [] n.type = "FullyConnection" -> FullyConnectionVerify(n)
    [] n.type = "Scale" -> ScaleVerify(n)                 [] n.type = "Size" -> SizeVerify(n)
    [] n.type = "LRN" -> LRNVerify(n)                     [] n.type = "BNInference" -> BNInferenceVerify(n)
    [] n.type = "ConvolutionDepthwise" -> DepthwiseConv2DVerify(n)
    [] n.type = "Eltwise" -> EltwiseVerify(n)             [] n.type = "Shape" -> ShapeVerify(n)
    [] n.type = "Dequantize" -> DequantizeVerify(n)       [] n.type = "Quantize" -> QuantizeVerify(n)
    [] n.type = "LayerNorm" -> LayerNormVerify(n)         [] n.type = "DepthToSpace" -> DepthToSpaceVerify(n)
    [] n.type = "Proposal" -> ProposalVerify(n)           [] n.type = "LSTM" -> LSTMVerify(n)
    [] n.type = "BidirectionLSTM" -> BidirectionLSTMVerify(n)
    [] n.type = "Activation" -> ActivationVerify(n)       [] n.type = "Interp" -> InterpVerify(n)
    [] n.type = "NonMaxSuppressionV3D" -> NonMaxSuppressionV3DVerify(n)
    [] n.type = "L2Normalize" -> L2NormalizeVerify(n)     [] n.type = "ConvTranspose" -> ConvTransposeVerify(n)
    [] n.type = "MaxUnpool2D" -> MaxUnpool2DVerify(n)     [] n.type = "MaxPoolWithArgmaxV2" -> MaxPoolWithArgmaxV2Verify(n)
    [] OTHER -> n

\* What the verification of an interpolation returns is ignored.
InterpOMConverter(n, new) == IF HasAttr(n, "output_dim_mode") \/ new THEN n ELSE [InterpVerify(n) EXCEPT !.ok = n.ok]

(***************************************************************************)
(* The table between 0 and 3: types renamed on the way up, types renamed   *)
(* on the way down, and attributes renamed, old name first.                *)
(***************************************************************************)
IrOldTypes ==
  [BatchNorm |-> "BNInference", BatchNormExt2 |-> "BNInference", Gather |-> "GatherV2D", ReduceProd |-> "ReduceProdD",
   ReduceAll |-> "ReduceAllD", ArgMax |-> "ArgMaxExt2", RandomUniform |-> "RandomUniformNoSeed", Concat |-> "ConcatD",
   Deconvolution |-> "ConvTranspose", Split |-> "SplitD", Cast |-> "CastT", Pooling |-> "PoolingD",
   FullConnection |-> "FullyConnection", TopKV2 |-> "TopK", Clip |-> "ClipByValue",
   NonMaxSuppression |-> "NonMaxSuppressionV3D", ChannelShuffle |-> "ShuffleChannelV2",
   RandomNormal |-> "RandomNormalNoSeed", RandomShuffle |-> "RandomShuffleNoSeed"]
IrNewTypes ==
  [BNInference |-> "BatchNorm", GatherV2D |-> "Gather", ReduceProdD |-> "ReduceProd", ReduceAllD |-> "ReduceAll",
   ArgMaxExt2 |-> "ArgMax", RandomUniformNoSeed |-> "RandomUniform", ConcatD |-> "Concat",
   ConvTranspose |-> "Deconvolution", SplitD |-> "Split", CastT |-> "Cast", PoolingD |-> "Pooling",
   FullyConnection |-> "FullConnection", TopK |-> "TopKV2", ClipByValue |-> "Clip",
   NonMaxSuppressionV3D |-> "NonMaxSuppression", ShuffleChannelV2 |-> "ChannelShuffle",
   RandomNormalNoSeed |-> "RandomNormal", RandomShuffleNoSeed |-> "RandomShuffle", HardSwish |-> "Activation",
   PriorBox |-> "SSDPriorBox", Normalize |-> "SSDNormalize", PadV3 |-> "Pad", PRelu |-> "PReLU",
   FlattenV2 |-> "Flatten", ROIAlignV2 |-> "ROIAlign"]
ConvAttrs == <<<<"pad", "pads">>, <<"stride", "strides">>, <<"dilation", "dilations">>, <<"group", "groups">>>>
SplitAttrs == <<<<"axis", "split_dim">>, <<"output_num", "num_split">>>>
CastAttrs == <<<<"SrcT", "src_dtype">>, <<"DstT", "dst_dtype">>>>
FullAttrs == <<<<"filter_quant_type", "w_quant_type">>, <<"filter_quant_scales", "w_quant_scales">>>>
IrAttrs ==
  [t \in {"Deconvolution", "ConvTranspose", "Convolution", "ConvolutionDepthwise", "Correlation", "Correlation_V2"} |-> ConvAttrs]
  @@ [t \in {"Concat", "ConcatD"} |-> <<<<"axis", "concat_dim">>>>]
  @@ [Softmax |-> <<<<"algo", 1>>>>, LogSoftmax |-> <<<<"algo", 2>>>>, Slice |-> <<<<"axis", 0>>>>,
      SplitD |-> SplitAttrs, Split |-> SplitAttrs, Cast |-> CastAttrs, CastT |-> CastAttrs,
      FullConnection |-> FullAttrs, FullyConnection |-> FullAttrs,
      LRN |-> <<<<"lrn_localsize", "depth_radius">>, <<"lrn_alpha", "alpha">>, <<"lrn_beta", "beta">>, <<"lrn_k", "bias">>>>,
      BatchMatMul |-> <<<<"adj_x", "adj_x1">>, <<"adj_y", "adj_x2">>>>,
      MatMul |-> <<<<"transposeX", "transpose_x1">>, <<"transposeW", "transpose_x2">>>>,
      Proposal |-> <<<<"nms_thresh", "iou_thresh">>>>,
      ChannelShuffle |-> <<<<"num_group", "group">>>>, ShuffleChannelV2 |-> <<<<"num_group", "group">>>>,
      Upsample |-> <<<<"scale_h", "stride_h">>, <<"scale_w", "stride_w">>>>,
      FSRDetectionOutput |-> <<<<"nms_threshold", "iou_threshold">>, <<"confidence_threshold", "score_threshold">>,
                               <<"batch_size", "batch_rois">>>>]
Config(type, old, fresh, attrs) ==
  [dst |-> IF type \in DOMAIN old THEN old[type] ELSE IF type \in DOMAIN fresh THEN fresh[type] ELSE "",
   new |-> type \in DOMAIN old, attrs |-> IF type \in DOMAIN attrs THEN attrs[type] ELSE <<>>]

IrDefConvert(n, new) ==
  LET t == n.type
      cfg == Config(t, IrOldTypes, IrNewTypes, IrAttrs) IN
  CASE t = "HardSwish" -> HardSwishConverter(n, cfg, new)        [] t = "Select" -> SelectConverter(n, new)
    [] t = "SpaceToDepth" -> SpaceToDepthConverter(n, new)       [] t = "Eltwise" -> ToDynamicInputConverter(n, new)
    [] t = "GatherV2D" -> GatherV2DConverter(n, cfg, new)        [] t = "ArgMax" -> ArgMaxConverter(n, cfg, new)
    [] t = "ConcatD" -> ConcatDConverter(n, cfg, new)
    [] t \in {"Softmax", "LogSoftmax", "Slice"} -> SetIntAttrDefValueConverter(n, cfg, new)
    [] t = "CropAndResize" -> CropAndResizeConverter(n, new)
    [] t \in {"ConvTranspose", "Convolution", "ConvolutionDepthwise"} -> Conv2DTransposeConverter(n, cfg, new)
    [] t \in {"Correlation", "Correlation_V2", "LRN", "BatchMatMul", "MatMul", "Upsample"} -> UpdateAttrConverter(n, cfg, new)
    [] t \in {"FullConnection", "FullyConnection"} -> FullyConnectionConverter(n, cfg, new)
    [] t = "Scale" -> ScaleConverter(n, new)                     [] t = "OneHot" -> OneHotConverter(n, new)
    [] t \in {"PriorBox", "SSDPriorBox"} -> PriorBoxConverter(n, cfg, new)
    [] t = "L2Normalize" -> L2NormalizeConverter(n, new)         [] t = "ReduceMax" -> ReduceMaxConverter(n, new)
    [] t = "ReduceMin" -> ReduceMinConverter(n, new)             [] t = "InstanceNorm" -> InstanceNormConverter(n, new)
    [] t = "LayerNorm" -> LayerNormConverter(n, new)             [] t = "Proposal" -> ProposalConverter(n, cfg, new)
    [] t = "Pad" -> PadConverter(n, new)                         [] t = "PadV3" -> PadV3Converter(n, cfg, new)
    [] t = "LSTM" -> LSTMConverter(n, new)                       [] t \in {"BidirectionLSTM", "RNN"} -> BidirectionLSTMConverter(n, new)
    [] t = "FSRDetectionOutput" -> FSRDetectionOutputConverter(n, cfg, new)
    [] t = "PRelu" -> PReluConverter(n, cfg, new)                [] t = "Interp" -> InterpConverter(n, new)
    [] t = "SplitV" -> SplitVConverter(n, new)                   [] t = "ROIAlignV2" -> ROIAlignConverter(n, cfg, new)
    [] t \in {"Concat", "Deconvolution", "SplitD", "Split", "Cast", "CastT", "ChannelShuffle", "ShuffleChannelV2"} ->
         TypeAndAttrConverter(n, cfg, new)
    [] OTHER -> TransformTypeConverter(n, cfg, new)

(***************************************************************************)
(* The table between 3 and 5.                                              *)
(***************************************************************************)
OmOldTypes == [ROIAlign |-> "ROIAlignV2", RNN |-> "LSTM"]
OmNewTypes ==
  [ResizeNearestNeighborV2 |-> "ResizeNearestNeighbor", PriorBox |-> "SSDPriorBox", Normalize |-> "SSDNormalize",
   PRelu |-> "PReLU", LSTM |-> "RNN", FlattenV2 |-> "Flatten"]
OmAttrs ==
  [SSDDetectionOutput |-> <<<<"shared_location", "share_location">>, <<"nms_threshold", "iou_threshold">>>>,
   DecodeBBox |-> <<<<"decodeClip", "decode_clip">>>>, Multinomial |-> <<<<"output_dtype", "dtype">>>>]
OmDefConvert(n, new) ==
  LET t == n.type
      cfg == Config(t, OmOldTypes, OmNewTypes, OmAttrs) IN
  CASE t = "MirrorPad" -> MirrorPadOMConverter(n, new)
    [] t \in {"Convolution", "Correlation", "ConvolutionDepthwise", "ConvTranspose"} -> ConvOMConverter(n, new)
    [] t = "BiasAdd" -> BiasAddOMConverter(n, new)               [] t = "Interp" -> InterpOMConverter(n, new)
    [] t = "ArgMaxExt2" -> ArgMaxOMConverter(n, new)             [] t = "ConcatD" -> ConcatDOMConverter(n, new)
    [] t \in {"SSDDetectionOutput", "DecodeBBox", "Multinomial"} -> UpdateAttrConverter(n, cfg, new)
    [] t = "Activation" -> ReLU6OMConverter(n, new)              [] t = "Scale" -> ScaleOMConverter(n, new)
    [] t \in {"ResizeNearestNeighborV2", "Normalize"} -> TransformTypeConverter(n, cfg, new)
    [] t = "ResizeNearestNeighbor" -> ResizeNearestNeighborOMConverter(n, new)
    [] t = "PriorBox" -> PriorBoxConverter(n, cfg, new)          [] t = "PRelu" -> PReluConverter(n, cfg, new)
    [] t = "LayerNorm" -> LayerNormOMConverter(n, new)
    [] t \in {"InstanceNorm", "RandomUniformNoSeed", "ReduceProdD"} -> EmptyInputNodeRemoveForOMConverter(n, new)
    [] t \in {"MatMul", "GemmD"} -> ConstantOMConverter(n, new)  [] t \in {"Softmax", "LogSoftmax"} -> AlgoOMConverter(n, new)
    [] t \in {"Sum", "ReduceSum"} -> SumOMConverter(n, new)      [] t \in {"If", "While"} -> ControlDataFlowOMConverter(n, new)
    [] t = "ROIAlign" -> ROIAlignOMConverter(n, cfg, new)        [] t \in {"RNN", "LSTM"} -> LSTMOMConverter(n, cfg, new)
    [] t = "L2Normalize" -> L2NormalizeOMConverter(n, new)       [] t = "NonMaxSuppressionV3D" -> NonMaxSuppressionOMConverter(n, new)
    [] t = "CropAndResize" -> CropAndResizeOMConverter(n, new)   [] t = "FSRDetectionOutput" -> FSRDetectionOutputOMConverter(n, new)
    [] t = "GatherV2D" -> GatherV2DOMConverter(n, new)           [] t = "ReduceMax" -> ReduceMaxOMConverter(n, new)
    [] t = "SplitD" -> SplitDOMConverter(n, new)                 [] t = "DepthToSpace" -> DepthToSpaceOMConverter(n, new)
    [] t = "CastT" -> CastOMConverter(n, new)                    [] t = "Proposal" -> ProposalOMConverter(n, new)
    [] t = "FullyConnection" -> FullyConnectionOMConverter(n, new)
    [] t = "Reshape" -> ReshapeOMConverter(n, new)               [] t = "Pad" -> PadOMConverter(n, new)
    [] t = "SplitV" -> SplitVOMConverter(n, new)                 [] t = "FlattenV2" -> FlattenOMConverter(n, cfg, new)
    [] t \in {"Permute", "Transpose"} -> ChangeDimOrderOMConverter(n, new)
    [] t = "StridedSliceV2" -> StridedSliceV2OMConverter(n, new)
    [] t = "YoloDetectionOutput" -> YoloDetectionOutputOMConverter(n, new)
    [] OTHER -> n

(***************************************************************************)
(* Versions of the ROM: the groups of three digits of the string, the      *)
(* empty one for the standard.  Groups are compared as the strings are.    *)
(***************************************************************************)
BASE_ROM_VERSION == <<100, 320>>
BASE_990C20_VERSION == <<100, 320, 10>>
BASE_VERSION3_BASE == <<100, 330>>
BASE_UX11_VERSION == <<100, 333>>
BASE_BALC10_VERSION == <<100, 500>>
Cut(rom, base) == IF Len(rom) > Len(base) THEN SubSeq(rom, 1, Len(base)) ELSE rom
Before(r, s) ==
  \/ IsStrictPrefix(r, s)
  \/ \E i \in DOMAIN r \cap DOMAIN s : r[i] < s[i] /\ SubSeq(r, 1, i - 1) = SubSeq(s, 1, i - 1)
Is3rdRomVersion(rom) == Len(rom) > 2 /\ SubSeq(rom, 1, 2) \in {<<100, 100>>, <<100, 151>>, <<100, 211>>}

\* Only a version with a fourth group is cut to two groups.
GetRomVersion(rom) ==
  LET long == Len(rom) > Len(BASE_990C20_VERSION)
      cut == IF long THEN Cut(rom, BASE_ROM_VERSION) ELSE rom IN
  [old |-> rom # <<>> /\ ~Before(BASE_ROM_VERSION, cut) /\ ~Is3rdRomVersion(rom),
   is990C20 |-> long /\ Cut(rom, BASE_990C20_VERSION) = BASE_990C20_VERSION]
BeforeUX11(rom) == Before(rom, BASE_UX11_VERSION) \/ rom = BASE_BALC10_VERSION
\* A faulty variant of OldOm: the chip 500 is taken for a newer one.
OldOmBefore500(rom) == rom # <<>> /\ ~Is3rdRomVersion(rom) /\ Before(Cut(rom, BASE_UX11_VERSION), BASE_UX11_VERSION)
OldOm(rom) == rom # <<>> /\ ~Is3rdRomVersion(rom) /\ BeforeUX11(Cut(rom, BASE_UX11_VERSION))

\* The stamp changes before the conversion and stays when it fails. HardSwish is known to one ROM of the old version.
IRConverter(n, rom) ==
  LET r == GetRomVersion(rom)
      to == IF r.old THEN 0 ELSE 3 IN
  IF Version(n) \notin {0, 3} \/ Version(n) = to THEN n
  ELSE IrDefConvert(SetInt(n, "version", to), IF n.type = "HardSwish" THEN ~r.is990C20 ELSE ~r.old)
OMConverter(n, rom) ==
  LET old == OldOm(rom)
      stamped == SetInt(n, "version", IF old THEN 3 ELSE 5) IN
  IF old # (Version(n) = 5) THEN n
  ELSE IF n.graph.lite /\ n.type \in {"MatMul", "ConcatD"} THEN stamped
  ELSE OmDefConvert(stamped, ~old)

\* Constants are not converted, and the first failure ends the transfer.
ByTable(table, n, rom) == IF table = "IR" THEN IRConverter(n, rom) ELSE OMConverter(n, rom)
TransferNode(n, rom) ==
  IF n.type = "Const" \/ Version(n) \notin {0, 3, 5} THEN n
  ELSE FoldLeft(LAMBDA m, table : AndThen(m, LAMBDA k : ByTable(table, k, rom)), n,
                IF Version(n) = 5 THEN <<"OM", "IR">> ELSE <<"IR", "OM">>)
TransferToTargetVersion(nodes, rom) ==
  FoldLeft(LAMBDA done, n : Append(done, IF \A k \in DOMAIN done : done[k].ok THEN TransferNode(n, rom) ELSE n), <<>>, nodes)
TransferToStandard(nodes) == TransferToTargetVersion(nodes, <<>>)

\* TRUE when some node is NOT fit for the ROM.
IsCompatible(nodes, rom) ==
  LET cut == Cut(rom, BASE_UX11_VERSION) IN
  rom # <<>> /\ \E k \in DOMAIN nodes :
    CASE Version(nodes[k]) = 5 -> BeforeUX11(cut)
      [] Version(nodes[k]) = 3 -> Before(cut, BASE_VERSION3_BASE) \/ ~BeforeUX11(cut)
      [] Version(nodes[k]) = 0 -> Before(BASE_ROM_VERSION, cut)
      [] OTHER -> FALSE
\* The verification changes the operators it goes over, up to the first it refuses.
VerifyIrReservedField(nodes) ==
  FoldLeft(LAMBDA done, n : Append(done, IF \A k \in DOMAIN done : done[k].ok THEN IrVerify(n) ELSE n), <<>>, nodes)
=============================================================================
