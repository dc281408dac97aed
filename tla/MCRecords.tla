----------------------------- MODULE MCRecords -----------------------------
(***************************************************************************)
(* The values Records is checked with.                                     *)
(***************************************************************************)
EXTENDS Records

(* Option records: build options that reach every branch of the conversion, *)
(* at most one failing malloc, and a plugin that has every setter or lacks  *)
(* one.                                                                     *)
Orders == {<<>>, <<[name |-> "conv", devices |-> <<"NPU", "CPU">>], [name |-> "pool", devices |-> <<>>]>>}

DeviceConfigs ==
  [deviceConfigMode : {"AUTO", "MODEL_LEVEL", "OP_LEVEL"}, fallBackMode : {"ENABLE", "DISABLE"},
   modelDeviceOrder : {<<>>, <<"GPU", "CPU">>}, opDeviceOrder : Orders,
   deviceMemoryReusePlan : {"HIGH"}]

ShapeConfigs ==
  {[enable |-> FALSE, maxCachedNum |-> 0, cacheMode |-> "BUILDED_MODEL"],
   [enable |-> TRUE, maxCachedNum |-> 10, cacheMode |-> "LOADED_MODEL"],
   [enable |-> TRUE, maxCachedNum |-> 11, cacheMode |-> "LOADED_MODEL"]}

BuildInputs ==
  [inputTensorDescs : {<<>>, <<<<1, 3>>, <<4>>>>, <<<<1>>, <<>>>>}, formatMode : {"USE_ORIGIN"},
   precisionMode : {"FP32"}, dynamicShapeConfig : ShapeConfigs, modelDeviceConfig : DeviceConfigs,
   tuningStrategy : {"OFF"}, estimatedOutputSize : {0}, quantizeConfig : {0, 7}]

MallocFaults == {{}} \cup {{n} : n \in 1..16}
SettersMissing == {{}, {"opDeviceOrder"}}

-----------------------------------------------------------------------------
(* Built models: a compiled model as it is, truncated, and with custom data *)
(* in front of it or behind it, and a serialised IR graph.                  *)
Cells == INSTANCE BuiltModel WITH
  rom <- device, Delivered <- {}, Customs <- {}, Roms <- {}
Aipp == [type |-> <<<<"type", 1>>>>, value |-> <<<<"value", 1>>, <<"value", 2>>>>]
Om(type) == <<<<type, 0>>, <<"customDataLen", 0>>, <<"body", 1>>>>
OmgOm == <<<<"STANDARD_IR_GRAPH", 0>>, <<"customDataLen", 7>>, <<"body", 2>>>> \o Cells!CustomCells(Aipp)
Ir == <<<<"ir", 1>>>>

ModelsDelivered ==
  {Om("HCS_PARTITION"), OmgOm, Ir, Cells!CustomCells(Aipp) \o Om("IR_GRAPH"), SubSeq(Cells!CustomCells(Aipp), 1, 4)}
CustomsSet == {[type |-> <<<<"type", 1>>>>, value |-> <<>>]}
Foundations ==
  {{"build", "irBuild", "client", "tensorInfo"}, {"build", "buildV2", "compatible"}, {"ndTensorInfo", "tensorInfoV2"}}

-----------------------------------------------------------------------------
(* IR graphs: networks that need each rule of the builder and the          *)
(* serializer, with calls in any order, and a file of an old model.        *)
Op(name, type) == [name |-> name, type |-> type]
Link(o, i, p) == [call |-> "SetInput", by |-> "name", op |-> o, index |-> i, from |-> p, output |-> -3]
LinkTo(o, i, p, j) == [Link(o, i, p) EXCEPT !.by = "index", !.output = j]
Describe(o, i) == [call |-> "UpdateInputDesc", op |-> o, index |-> i]
Builder(o, b, kind) == [call |-> "SetGraphBuilder", op |-> o, branch |-> b, builder |-> kind]
Branch(o, b, kind) == [Builder(o, b, kind) EXCEPT !.call = "SetSubgraphBuilder"]
Count(o, n) == [call |-> "SubgraphCountRegister", op |-> o, number |-> n]
Gone(o) == [call |-> "Destroy", op |-> o]
NoFile == [made |-> "none"]
Network(list, todo, inputs) ==
  [ops |-> list, calls |-> todo, inputs |-> inputs, outputs |-> {<<>>, <<Len(list)>>}, file |-> NoFile]

OldOp(name, type, input, kept) ==
  [name |-> name, type |-> type, input |-> input, input_desc |-> <<>>, outs |-> 1, named |-> <<>>, subs |-> <<>>,
   members |-> <<>>, has_out_attr |-> FALSE, attrs |-> kept]
OldFile(type, old) ==
  [made |-> "file", input |-> <<"d">>, output |-> <<"x">>,
   op |-> <<[OldOp("d", "Data", <<<<>>>>, [members |-> <<TRUE>>, input_desc |-> <<TRUE>>]) EXCEPT !.has_out_attr = ~old,
                                                                                               !.members = <<TRUE>>],
            [OldOp("x", type, <<<<"d", 0>>, <<"d", 0>>>>, [members |-> <<FALSE, TRUE>>, input_desc |-> <<TRUE, TRUE>>])
               EXCEPT !.has_out_attr = ~old, !.input_desc = IF old THEN <<>> ELSE <<TRUE, TRUE>>]>>]

IrNetworks ==
  {Network(<<Op("d", "Data"), Op("c", "Const"), Op("a", "Add")>>,
           {Describe(1, 0), Link(3, 0, 1), Link(3, 1, 2), Link(3, 1, 1), LinkTo(3, 5, 2, 0)}, {<<1>>, <<1, 1>>, <<2>>}),
   Network(<<Op("d", "Data"), Op("a", "Add"), Op("b", "Add")>>,
           {Link(2, 0, 1), Link(2, 1, 3), Link(2, 1, 2), Link(3, 0, 2), Link(3, 1, 1)}, {<<1>>}),
   Network(<<Op("d", "Data"), Op("e", "Data"), Op("t", "TopK"), Op("t", "ConcatD")>>,
           {Link(3, 0, 1), Link(3, 1, 2), LinkTo(4, 0, 3, 1), LinkTo(4, 1, 3, 0), Link(4, 0, 3)}, {<<1, 2>>, <<2>>}),
   Network(<<Op("d", "Data"), Op("c", "Const"), Op("v", "ConvTranspose"), Op("a", "Add")>>,
           {Describe(1, 0), Link(3, 0, 2), Link(3, 1, 2), Link(3, 2, 1), Link(4, 0, 3), Link(4, 1, 2)}, {<<1>>}),
   Network(<<Op("d", "Data"), Op("c", "Const"), Op("n", "NonMaxSuppressionV6")>>,
           {Link(3, 0, 1), Link(3, 1, 1), Link(3, 3, 2), LinkTo(3, -1, 2, 0)}, {<<1>>}),
   Network(<<Op("d", "Data"), Op("m", "QuantizedMatMul"), Op("c", "Const")>>,
           {Link(2, 0, 1), Link(2, 1, 3), LinkTo(2, -1, 1, 0), LinkTo(2, 0, 1, -1), Gone(3)}, {<<1>>}),
   Network(<<Op("d", "Data"), Op("i", "If")>>,
           {Link(2, 0, 1), Builder(2, "then_branch", "graph"), Builder(2, "else_branch", "graph"),
            Builder(2, "else_branch", "null")}, {<<1>>}),
   Network(<<Op("d", "Data"), Op("w", "While")>>,
           {Link(2, 0, 1), Builder(2, "cond", "graph"), Builder(2, "body", "graph"), Builder(2, "body", "empty")}, {<<1>>}),
   Network(<<Op("d", "Data"), Op("s", "Case")>>,
           {Link(2, 0, 1), Count(2, 2), Branch(2, 0, "graph"), Branch(2, 1, "graph")}, {<<1>>}),
   Network(<<Op("d", "Data"), Op("i", "NextIteration"), Op("a", "Add"), Op("b", "Add")>>,
           {Link(2, 0, 1), Link(3, 0, 4), Link(3, 1, 2), Link(4, 0, 3), Link(4, 1, 1)}, {<<1>>}),
   Network(<<Op("d", "Data"), Op("Node_Output", "Add")>>, {Link(2, 0, 1), Link(2, 1, 1)}, {<<1>>})}
  \cup {[Network(<<Op("d", "Data")>>, {}, {}) EXCEPT !.file = OldFile(type, old)] :
          type \in {"Add", "NonMaxSuppressionV6"}, old \in BOOLEAN}

-----------------------------------------------------------------------------
(* Attributes: one name, a value of each rule, and up to four calls on a    *)
(* new descriptor, on one of an old model and on one of a new model.        *)
AttrInputs ==
  {[kind |-> "int", v |-> <<1>>], [kind |-> "int", v |-> <<3>>], [kind |-> "int", v |-> <<-3>>],
   [kind |-> "tensor", v |-> <<2>>], [kind |-> "tensor", v |-> <<-99>>],
   [kind |-> "graph", v |-> <<4>>], [kind |-> "graph", v |-> <<-98>>], [kind |-> "bytes", v |-> <<5>>],
   [kind |-> "list_int", v |-> <<1, 2>>], [kind |-> "list_tensor", v |-> <<1, 2>>],
   [kind |-> "list_tensor", v |-> <<1, -99>>]}
NewDesc ==
  [hasOutAttr |-> FALSE, layout |-> "", dtype |-> "UNDEFINED", device |-> "", size |-> <<>>, key |-> "",
   keyWrapper |-> "none", last |-> "", attrs |-> <<>>]
Defs == INSTANCE Attributes WITH
  Names <- {}, Values <- {}, DataTypes <- {}, MaxCalls <- 0, Raws <- {},
  desc <- attrDesc, undefined <- freed, calls <- asked
OldDesc ==
  [NewDesc EXCEPT !.layout = "ND", !.dtype = "INT8",
                  !.attrs = [n \in {"size"} |-> [Defs!AttrDef EXCEPT !.case = "int", !.val = <<1>>]]]
AttrRaws ==
  {NewDesc, OldDesc, [NewDesc EXCEPT !.hasOutAttr = TRUE, !.layout = "ND", !.dtype = "INT8", !.device = "CPU"]}

-----------------------------------------------------------------------------
(* Tensor buffers: a device without an NPU, and ROMs of both generations     *)
(* that lack a function each; creations of every kind, with one failing     *)
(* malloc, creators that refuse, and an object larger than the image.       *)
FourDims(dims, esize) == [dims |-> dims, esize |-> esize, float |-> esize = 4]
NoDims == FourDims(<<>>, 1)
Pair == FourDims(<<1, 1, 1, 2>>, 1)
Vector == FourDims(<<2>>, 1)
Creation(kind, d, n) == [by |-> kind, desc |-> d, bytes |-> n]
Creations ==
  {Creation("desc", NoDims, 0), Creation("desc", FourDims(<<1, 1, 1, 1>>, 4), 0), Creation("size", Vector, 2),
   Creation("format", Pair, 2)} \cup {Creation(kind, Pair, n) : kind \in {"buffer", "noCopy"}, n \in {2, 4}}
Image(format, h, w, handle) == [format |-> format, b |-> 1, h |-> h, w |-> w, handle |-> handle]
First == {"create_v2", "CreateWithDataType", "create", "image", "handle"}
Second == {"nd_create", "nd_size", "nd_image", "nd_handle"}
Library(hcl, creators, functions) == [npu |-> creators # {}, oldHcl |-> hcl, creators |-> creators, functions |-> functions]
FunctionsOf(kinds) == {<<k, f>> : k \in kinds, f \in {"Destroy", "GetSize", "Fd"}}
Case(fault, refuses, extra) == [fault |-> fault, refuses |-> refuses, extra |-> extra]
Libraries ==
  {Library(FALSE, {}, {}),
   Library(FALSE, {"create", "CreateWithDataType"}, FunctionsOf({"tensor"}) \ {<<"tensor", "GetSize">>}),
   Library(FALSE, First, FunctionsOf({"tensor"}) \ {<<"tensor", "Destroy">>}),
   Library(TRUE, First \cup Second, FunctionsOf({"tensor", "nd"}))}
TensorDescs == {Pair, FourDims(<<1, 0, 1, 1>>, 4)}
TensorImages == {Image("YUV420SP", 1, 2, 0), Image("YUV422SP", 1, 2, 4), Image("RGB888", 3, 3, 0)}
Cases ==
  {Case(f, {}, 0) : f \in {"none", "data", "record", "wrapper"}}
  \cup {Case("none", {"nd_create", "nd_image", "create_v2"}, 0), Case("none", {}, 1)}
=============================================================================
