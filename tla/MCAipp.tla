------------------------------- MODULE MCAipp -------------------------------
(***************************************************************************)
(* The graphs and colours the image preprocessing is tried on, and what    *)
(* its results, y, owe to them, x.                                         *)
(***************************************************************************)
EXTENDS AippGraph

VARIABLES x, y

\* Graphs of up to three image operators behind two images.  An operator consumes an image or an earlier operator,
\* its parameter is a constant or an input of the model, and an operator, a cast or nothing else consumes it.
Image(types, sources, tails) == [type : types, src : sources, dynamic : BOOLEAN, tail : tails]
Two == {<<a, b>> : a \in Image({"ImageCropV2", "ImageColorSpaceConvertionV2", "ImagePadV2"}, {1, 2}, {"none", "Op", "CastT"}),
                   b \in Image({"ImageChannelSwapV2", "ImageResizeV2", "ImageRotateV2"}, {1, 2, 4}, {"none", "Op", "CastT"})}
Three == {<<a, b, c>> : a \in Image({"ImageCropV2"}, {1, 2}, {"none", "Op"}), b \in Image({"ImageResizeV2"}, {1, 2, 4}, {"none", "Op"}),
                        c \in Image({"ImageResizeV2", "ImagePadV2"}, {1, 2, 4, 7}, {"Op"})}
Para(type) ==
  [kind |-> IF type = "ImageColorSpaceConvertionV2" THEN "CscPara" ELSE type, type |-> type, w |-> 4, h |-> 2, angle |-> 90,
   image |-> IF type = "ImageCropV2" THEN "INVALID" ELSE "YUYV", format |-> "RGB888", space |-> "JPEG"]
Size == [c |-> 3, h |-> 8, w |-> 16]
NodeOf(type, src, param, para) == [type |-> type, src |-> src, param |-> param, shape |-> Size, para |-> para]
GraphOf(images, order) ==
  LET Nodes(i) == LET image == images[i] IN
        <<NodeOf(IF image.dynamic THEN "ConfigData" ELSE "Const", 0, 0, Para(image.type)),
          NodeOf(image.type, image.src, 3 * i, <<>>), NodeOf(image.tail, IF image.tail = "none" THEN 0 ELSE 3 * i + 1, 0, <<>>)>>
      nodes == <<NodeOf("Data", 0, 0, <<>>), NodeOf("Data", 0, 0, <<>>)>> \o FlattenSeq([i \in DOMAIN images |-> Nodes(i)])
      inputs == SelectSeq(order, LAMBDA k : k \in DOMAIN nodes /\ nodes[k].type \in {"Data", "ConfigData"})
  IN  [nodes |-> nodes, inputs |-> inputs, dead |-> {},
       outputs |-> SelectSeq([k \in DOMAIN nodes |-> k], LAMBDA k : nodes[k].type \in {"Op", "CastT"})]
Orders == {<<1, 2, 3, 6, 9>>, <<9, 6, 3, 2, 1>>, <<3, 1, 6, 9, 2>>}
AippGraphs == {GraphOf(images, order) : images \in Two \cup Three, order \in Orders}
Colors == [input : ImageFormats, target : Targets \cup {"YUYV"}, space : ColorSpaces]

\* The builder and the runtime agree on a conversion of colours wherever the runtime knows the format of the image;
\* grey stays grey, up to a rounding of one, and exchanged planes exchange the rows of the matrix.
ColorsAgree ==
    LET m == y.runtime.matrix
        Row(i) == m[3 * i - 2] + (m[3 * i - 1] + m[3 * i])
        Partner == [RGB888 |-> "BGR888", BGR888 |-> "RGB888", YUV444SP |-> "YVU444SP", YVU444SP |-> "YUV444SP", YUV400 |-> "YUV400"]
        n == CscOfFormat(x.input, Partner[x.target], x.space).matrix
    IN  /\ x.input \in InputFormats =>
             /\ y.runtime.ok <=> y.builder.ok /\ Enabled(y.builder)
             /\ y.runtime.ok => y.runtime = y.builder
        /\ y.runtime.ok =>
             CASE x.target \in {"RGB888", "BGR888"} ->
                    m[1] > 0 /\ m[4] = m[1] /\ m[7] = m[1] /\ SubSeq(m, 1, 3) = SubSeq(n, 7, 9) /\ SubSeq(m, 4, 6) = SubSeq(n, 4, 6)
               [] x.target = "YUV400" -> Row(1) = 256 /\ Row(2) = 0 /\ Row(3) = 0
               [] OTHER -> Row(1) > 0 /\ Row(2) \in -1 .. 0 /\ Row(3) \in -1 .. 0 /\ SubSeq(m, 4, 6) = SubSeq(n, 7, 9)

\* A fused model: what it describes as inputs and how it takes a run's inputs apart agree with the graph it was
\* built from, and no node loses its input but one that branches off inside a chain.  A rotation given with a run is
\* described as an input and then ignored.  The description is undefined for more inputs than a word of marks has bits.
Chains == Search(x)
InChains == UNION {Range(Chains[i]) : i \in DOMAIN Chains}
Loose == {k \in Alive(y.graph) : y.graph.nodes[k].src \in y.graph.dead}
BranchesOff == {k \in DOMAIN x.nodes : k \notin InChains /\ \E i \in DOMAIN Chains : \E j \in 2 .. Len(Chains[i]) - 1 : x.nodes[k].src = Chains[i][j]}
FusedGraphSound ==
  /\ y.ok /\ Loose = BranchesOff /\ Len(y.attrs) = Len(Chains)
  /\ \A i \in DOMAIN Chains : \A n \in Range(Tail(Chains[i])) :
       y.attrs[i] # <<>> =>
         LET set == y.attrs[i][1].funcs[x.nodes[n].type]
         IN  Len(set) = 1 /\ set[1].para = x.nodes[x.nodes[n].param].para

Configs == {k \in DOMAIN x.nodes : x.nodes[k].type = "ConfigData"}
Consumed == \A k \in Configs : k \in y.graph.dead
DataOf(k) == [kind |-> "data", node |-> k, image |-> "INVALID"]
DescOf(k) == IF k \in Configs THEN ParaDesc(x.nodes[k].para.type) ELSE DataOf(k)
GivenTo(k, big) ==
  IF k \notin Configs THEN DataOf(k) ELSE [x.nodes[k].para EXCEPT !.w = IF k = big THEN @ + 1 ELSE @]
InputsRouted ==
  Consumed =>
    LET datas == SelectSeq(x.inputs, LAMBDA k : k \notin Configs)
        descs == ConvertInputTensorDesc(y.configs, [i \in DOMAIN datas |-> DataOf(datas[i])])
        run == [big \in {0} \cup Configs |-> RunAipp(y.configs, [i \in DOMAIN x.inputs |-> GivenTo(x.inputs[i], big)])]
    IN  /\ descs.defined => descs.descs = [i \in DOMAIN x.inputs |-> DescOf(x.inputs[i])]
        /\ Len(x.inputs) <= WordBits => descs.defined
        /\ \A big \in {0} \cup Configs :
             /\ run[big].ok => run[big].data = [i \in DOMAIN datas |-> DataOf(datas[i])]
             /\ ~run[big].refused => run[big].ok /\ Len(run[big].paras) = Len(y.configs)
             /\ \A i \in DOMAIN run[big].paras : \A d \in DOMAIN y.configs[i].data :
                  LET k == x.inputs[y.configs[i].data[d].idx]
                  IN  y.configs[i].data[d].type # "ImageRotateV2" => GivenTo(k, big) \in Range(run[big].paras[i].set)
=============================================================================
