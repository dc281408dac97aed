----------------------------- MODULE AippGraph -----------------------------
(***************************************************************************)
(* AIPP, the image preprocessing in front of a model: the builder replaces *)
(* each chain of image operators behind a Data node by one Aipp node and   *)
(* writes down, in the model's custom data, which graph inputs held the    *)
(* parameters (hiai_ir_aipp_compatible.cpp, aipp_infershape_util.cpp,      *)
(* aipp_param_info_converter.cpp); the runtime reads that note to describe *)
(* the model's inputs and to take them apart again for each run            *)
(* (aipp_input_converter.cpp).                                             *)
(*                                                                         *)
(* A graph is a sequence of nodes in the order they were added, with       *)
(* "inputs", the graph inputs in their order, and "dead", the nodes that   *)
(* were removed.  A node has the source of its first input and, if it is   *)
(* an image operator, the node that holds its parameter, 0 for none.       *)
(* Indices count from 1.                                                   *)
(***************************************************************************)
EXTENDS AippColors, SequencesExt

CONSTANT WordBits  \* the bits of a word of std::vector<bool>

ImageTypes ==
  <<"ImageCropV2", "ImageChannelSwapV2", "ImageColorSpaceConvertionV2", "ImageResizeV2",
    "ImageDataTypeConvertionV2", "ImageRotateV2", "ImagePadV2">>
IsAippImageType(type) == type \in Range(ImageTypes)
Place(type) == CHOOSE i \in DOMAIN ImageTypes : ImageTypes[i] = type
IsLessSequence(first, second) == Place(first) < Place(second)

Alive(g) == DOMAIN g.nodes \ g.dead
OutNodes(g, n) == SelectSeq([i \in DOMAIN g.nodes |-> i], LAMBDA k : k \in Alive(g) /\ g.nodes[k].src = n)
Positions(s) == [i \in DOMAIN s |-> i]
NodesOf(g, type) == SelectSeq(Positions(g.nodes), LAMBDA k : k \in Alive(g) /\ g.nodes[k].type = type)
FirstOf(sets) == IF \A i \in DOMAIN sets : sets[i] = <<>> THEN <<>>
                 ELSE sets[CHOOSE i \in DOMAIN sets : sets[i] # <<>> /\ \A j \in 1 .. i - 1 : sets[j] = <<>>]

-----------------------------------------------------------------------------
(* The chains of a graph.  A visitor that returns true stops the walk over  *)
(* the consumers, so the first consumer that ends a chain decides.          *)
SaveImageChainNode(g) ==
  LET from[n \in DOMAIN g.nodes] ==
        LET IsNextNodeMatch(next) ==
              CASE g.nodes[next].type = "Aipp" -> <<>>
                [] ~IsAippImageType(g.nodes[next].type) -> <<n>>
                [] OTHER -> IF IsLessSequence(g.nodes[n].type, g.nodes[next].type) /\ from[next] # <<>>
                            THEN <<n>> \o from[next] ELSE <<>>
            next == OutNodes(g, n)
        IN  CASE g.nodes[n].src = 0 \/ g.nodes[n].param = 0 -> <<>>
              [] next = <<>> -> <<n>>
              [] OTHER -> FirstOf([i \in DOMAIN next |-> IsNextNodeMatch(next[i])])
  IN  from

Search(g) ==
  LET from == SaveImageChainNode(g)
      OfData(data) == LET images == SelectSeq(OutNodes(g, data), LAMBDA k : IsAippImageType(g.nodes[k].type) /\ from[k] # <<>>)
                      IN  [i \in DOMAIN images |-> <<data>> \o from[images[i]]]
  IN  FlattenSeq([i \in DOMAIN NodesOf(g, "Data") |-> OfData(NodesOf(g, "Data")[i])])

-----------------------------------------------------------------------------
(* The shapes along a chain, [c, h, w].  A parameter is taken for what its  *)
(* size says: GetAippParam of another structure is null.                    *)
GetAippParam(g, n, kinds) == g.nodes[g.nodes[n].param].para.kind \in kinds
Channels(format) == CASE format = "YUV400" -> 1 [] format \in {"YVU444SP", "YUV444SP"} -> 4 [] OTHER -> 3
KindsOf(type) == IF type = "ImageColorSpaceConvertionV2" THEN {"CscPara", "CscMatrixPara"} ELSE {type}
ReadsParam(type) == type \notin {"ImageChannelSwapV2", "ImageDataTypeConvertionV2"}
Swaps(angle) == angle \in {90, 270}

NextShape(type, s, para) ==
  CASE type \in {"ImageCropV2", "ImageResizeV2"} -> [s EXCEPT !.w = para.w, !.h = para.h]
    [] type = "ImageColorSpaceConvertionV2" -> [s EXCEPT !.c = Channels(para.format)]
    [] type = "ImageRotateV2" -> IF Swaps(para.angle) THEN [s EXCEPT !.w = s.h, !.h = s.w] ELSE s
    [] type = "ImagePadV2" -> [s EXCEPT !.w = @ + para.w, !.h = @ + para.h]
    [] OTHER -> s

CanInfer(g, chain) ==
  \A i \in 2 .. Len(chain) :
    ReadsParam(g.nodes[chain[i]].type) => GetAippParam(g, chain[i], KindsOf(g.nodes[chain[i]].type))
InferShape(g, chain) ==
  FoldLeft(LAMBDA s, n : NextShape(g.nodes[n].type, s, g.nodes[g.nodes[n].param].para), g.nodes[chain[1]].shape, Tail(chain))

-----------------------------------------------------------------------------
(* The configuration of a chain.  PackAippImagesInfo stops at the first      *)
(* parameter of the wrong size, and Pack's answer is ignored: the Aipp node  *)
(* then has no attributes at all, and what was packed so far stays.          *)
IdxOf(s, n) == CHOOSE i \in DOMAIN s : s[i] = n
InNodes(g) == SelectSeq(g.inputs, LAMBDA k : k \in Alive(g))
GetIdxOfInputNode(g, n) == IdxOf(InNodes(g), n)
GetIdxOfInputData(g, n) == IdxOf(SelectSeq(InNodes(g), LAMBDA k : g.nodes[k].type = "Data"), n)

PackDynamicAippImageInfo(g, config, p) ==
  IF g.nodes[p].type # "ConfigData" THEN config
  ELSE [config EXCEPT !.data = Append(@, [idx |-> GetIdxOfInputNode(g, p), type |-> g.nodes[p].para.type])]

\* The first parameter that names an image format gives the chain its input format.
InputFormat(config, para) == IF config.format = "INVALID" THEN para.image ELSE config.format
ConvertConst2AippParamInfo(config, type, para) ==
  LET named == [config EXCEPT !.format = InputFormat(config, para)]
      kept == [named EXCEPT !.info = Append(@, [type |-> type, para |-> para])] IN
  CASE para.kind \notin KindsOf(type) -> [config EXCEPT !.ok = FALSE]
    [] para.kind = "CscMatrixPara" -> [kept EXCEPT !.format = config.format]
    [] para.kind = "CscPara" ->
         LET csc == [kept EXCEPT !.ok = SetCscParas(para.image, para.format, para.space).ok]
         IN  IF NamesInput(para.image) THEN csc ELSE [csc EXCEPT !.format = config.format]
    [] OTHER -> kept

PackAippImagesInfo(g, chain) ==
  FoldLeft(LAMBDA config, n :
             IF ~config.ok THEN config
             ELSE ConvertConst2AippParamInfo(PackDynamicAippImageInfo(g, config, g.nodes[n].param),
                                             g.nodes[n].type, g.nodes[g.nodes[n].param].para),
           [ok |-> TRUE, graphDataIdx |-> GetIdxOfInputNode(g, chain[1]),
            tensorDataIdx |-> GetIdxOfInputData(g, chain[1]), data |-> <<>>, info |-> <<>>, format |-> "INVALID"],
           Tail(chain))

\* The attributes of the Aipp node: a switch and the values of every function, off where no operator gave any.
InfoOf(config, type) == SelectSeq(config.info, LAMBDA e : e.type = type)
ConvertAippParamInfo2Attr(config) == [type \in Range(ImageTypes) |-> InfoOf(config, type)]
AippMode(config) == IF config.data = <<>> THEN "STATIC" ELSE "DYNAMIC"
ConvertAippInfoToAttrs(g, chain, config) ==
  [mode |-> AippMode(config), format |-> config.format, funcs |-> ConvertAippParamInfo2Attr(config), size |-> g.nodes[chain[1]].shape]

-----------------------------------------------------------------------------
(* The fusion: an Aipp node between the Data node and what consumed the last *)
(* image operator, and the chains removed when every Aipp node is in place.  *)
Relinked(g, from, to) ==
  [g EXCEPT !.nodes = [k \in DOMAIN g.nodes |-> IF k \in Alive(g) /\ @[k].src = from THEN [@[k] EXCEPT !.src = to] ELSE @[k]],
            !.outputs = [i \in DOMAIN @ |-> IF @[i] = from THEN to ELSE @[i]]]
AddAippNode(g, chain) ==
  LET aipp == [type |-> "Aipp", src |-> chain[1], param |-> 0, shape |-> InferShape(g, chain), para |-> <<>>]
  IN  [Relinked(g, chain[Len(chain)], Len(g.nodes) + 1) EXCEPT !.nodes = Append(@, aipp)]

RemoveChainNodes(g, chain) ==
  [g EXCEPT !.dead = @ \cup {chain[i] : i \in 2 .. Len(chain)} \cup {g.nodes[chain[i]].param : i \in 2 .. Len(chain)}]

\* Every consumer of an Aipp node that is a CastT is bypassed.
CastTAfterAippOptimizer(g) ==
  FoldLeft(LAMBDA h, k : [Relinked(h, k, g.nodes[k].src) EXCEPT !.dead = @ \cup {k}], g,
           SelectSeq(NodesOf(g, "CastT"), LAMBDA k : g.nodes[k].src # 0 /\ g.nodes[g.nodes[k].src].type = "Aipp"))

FuseOne(f, chain) ==
  IF ~f.ok \/ ~CanInfer(f.graph, chain) THEN [f EXCEPT !.ok = FALSE]
  ELSE LET config == PackAippImagesInfo(f.graph, chain)
           attrs == IF config.ok THEN <<ConvertAippInfoToAttrs(f.graph, chain, config)>> ELSE <<>>
       IN  [f EXCEPT !.graph = AddAippNode(@, chain), !.attrs = Append(@, attrs),
                     !.configs = IF config.data = <<>> THEN @ ELSE Append(@, config)]

Unfused(g) == [ok |-> TRUE, graph |-> g, attrs |-> <<>>, configs |-> <<>>]

(* Faulty variant of FusionAippImages: a chain is removed when it is fused.  *)
FusionRemovingEach(g, chains) ==
  FoldLeft(LAMBDA f, chain : LET fused == FuseOne(f, chain)
                             IN  IF ~fused.ok THEN fused ELSE [fused EXCEPT !.graph = RemoveChainNodes(@, chain)],
           Unfused(g), chains)

FusionAippImages(g, chains) ==
  LET fused == FoldLeft(FuseOne, Unfused(g), chains)
  IN  IF ~fused.ok THEN fused
      ELSE [fused EXCEPT !.graph = FoldLeft(RemoveChainNodes, @, chains)]

GenerateAippCompatibleInfo(g) ==
  LET fused == FusionAippImages(g, Search(g))
  IN  IF ~fused.ok THEN fused ELSE [fused EXCEPT !.graph = CastTAfterAippOptimizer(@)]

-----------------------------------------------------------------------------
(* What the runtime makes of the configurations.  Both directions place what *)
(* the configurations name and put the rest, in order, in what is left.      *)
DynamicInputCount(configs) == FoldLeft(LAMBDA n, c : n + Len(c.data), 0, configs)
None == [kind |-> "none"]

FillRest(slots, isFree, values, used) ==
  LET rest == SelectSeq(Positions(values), LAMBDA j : j \notin used)
      free == SelectSeq(Positions(slots), LAMBDA i : isFree[i])
  IN  [i \in DOMAIN slots |->
         IF ~isFree[i] \/ IdxOf(free, i) > Len(rest) THEN slots[i] ELSE values[rest[IdxOf(free, i)]]]

\* The descriptors of the model's inputs: the parameters are inputs as well.  The marks of those inputs,
\* modelInputTensorVisited, are a vector<bool> with the size of the data's descriptors.  Its storage is whole words,
\* cleared to their end: an index beyond the size and within the last word works, one beyond the last word is memory
\* of somebody else, and what comes of the call is undefined.
Bits(size) == ((size + WordBits - 1) \div WordBits) * WordBits
ParaDesc(type) == [kind |-> "para", type |-> type]
Marked(configs) ==
  UNION {{configs[i].graphDataIdx} \cup {configs[i].data[j].idx : j \in DOMAIN configs[i].data} : i \in DOMAIN configs}
ConvertInputTensorDesc(configs, descs) ==
  LET none == [i \in 1 .. DynamicInputCount(configs) + Len(descs) |-> None]
      Put(slots, c) == FoldLeft(LAMBDA s, d : [s EXCEPT ![d.idx] = ParaDesc(d.type)],
                                [slots EXCEPT ![c.graphDataIdx] = descs[c.tensorDataIdx]], c.data)
  IN  IF Len(none) > Bits(Len(descs)) THEN [defined |-> FALSE, descs |-> <<>>]
      ELSE [defined |-> TRUE,
            descs |-> FillRest(FoldLeft(Put, none, configs), [i \in DOMAIN none |-> i \notin Marked(configs)],
                               descs, {configs[i].tensorDataIdx : i \in DOMAIN configs})]

(* A run.  The parameters of a chain are set one function after the other;   *)
(* each comes from the input the configuration names for its type, or from   *)
(* the configuration itself.                                                 *)
ConvertFuncs == <<"ImageCropV2", "ImageChannelSwapV2", "ImageColorSpaceConvertionV2", "ImageResizeV2",
                  "ImageDataTypeConvertionV2", "ImagePadV2">>
HasDynamicPara(config, type) == SelectSeq(config.data, LAMBDA d : d.type = type)

\* An input of the wrong size is refused; so is a crop or a resize beyond the size the model was built for, and a
\* colour conversion to another format than the model's or from the image's.
BuiltFormat(para) ==
  IF para.kind = "CscPara" /\ ~Enabled(SetCscParas(para.image, para.format, para.space)) THEN "RGB888" ELSE para.format
Accepts(config, type, given, image) ==
  LET built == InfoOf(config, type)[1].para IN
  /\ given.kind \in KindsOf(type)
  /\ type \in {"ImageCropV2", "ImageResizeV2"} => given.w <= built.w /\ given.h <= built.h
  /\ given.kind = "CscPara" => given.format = BuiltFormat(built) /\ CscOfFormat(image, given.format, "JPEG").ok

\* The channel swap is set in any case, and a conversion the builder disabled is not.
StaticParas(config, type) ==
  CASE InfoOf(config, type) = <<>> -> IF type = "ImageChannelSwapV2" THEN <<[kind |-> type]>> ELSE <<>>
    [] OTHER -> LET para == InfoOf(config, type)[1].para
                IN  IF para.kind = "CscPara" /\ ~Enabled(SetCscParas(para.image, para.format, para.space)) THEN <<>> ELSE <<para>>

PrepareParam(para, config, type, inputs) ==
  LET dynamic == HasDynamicPara(config, type)
      image == inputs[config.graphDataIdx].image
  IN  CASE dynamic = <<>> -> [para EXCEPT !.set = @ \o StaticParas(config, type)]
        [] Accepts(config, type, inputs[dynamic[1].idx], image) -> [para EXCEPT !.set = Append(@, inputs[dynamic[1].idx])]
        [] OTHER -> [para EXCEPT !.ok = FALSE]

ConvertParams(config, i, inputs) ==
  FoldLeft(LAMBDA para, type : IF para.ok THEN PrepareParam(para, config, type, inputs) ELSE para,
           [ok |-> TRUE, aippIndex |-> i, inputIndex |-> config.tensorDataIdx, set |-> <<>>], ConvertFuncs)

\* One configuration: its data, then its parameters.  A refused parameter stops the conversion where it is.
TakeConfig(s, config, i, inputs) ==
  LET para == ConvertParams(config, i, inputs)
      data == [s.data EXCEPT ![config.tensorDataIdx] = inputs[config.graphDataIdx]]
      used == s.used \cup {config.graphDataIdx}
  IN  IF ~s.ok THEN s
      ELSE IF ~para.ok THEN [s EXCEPT !.ok = FALSE, !.data = data, !.used = used]
      ELSE [s EXCEPT !.data = data, !.paras = Append(@, para),
                     !.used = used \cup {config.data[j].idx : j \in DOMAIN config.data}]

ConvertInputs2DataInptusParaInputs(configs, inputs) ==
  LET none == [i \in 1 .. Len(inputs) - DynamicInputCount(configs) |-> None]
      s == FoldLeft(LAMBDA t, i : TakeConfig(t, configs[i], i, inputs),
                    [ok |-> TRUE, data |-> none, paras |-> <<>>, used |-> {}], Positions(configs))
  IN  IF s.ok THEN [s EXCEPT !.data = FillRest(@, [i \in DOMAIN none |-> s.data[i] = None], inputs, s.used)] ELSE s

\* Its answer is ignored: the run goes on with what was converted, and is refused only for a missing data input.
RunAipp(configs, inputs) ==
  LET s == ConvertInputs2DataInptusParaInputs(configs, inputs)
  IN  [ok |-> Len(inputs) > DynamicInputCount(configs) /\ \A i \in DOMAIN s.data : s.data[i] # None,
       data |-> s.data, paras |-> s.paras, refused |-> ~s.ok]
=============================================================================
