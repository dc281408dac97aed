--------------------------- MODULE ModelCompatible ---------------------------
(***************************************************************************)
(* model_runtime/direct/model_compatible: before the direct runtime hands  *)
(* a model to the ROM, the model is taken to what that ROM understands.    *)
(* The weights of a model file may be merged in a partition of their own;  *)
(* they are given back to the constants when the graph has to be changed.  *)
(* Whether the file that is written still carries them is told by a plain  *)
(* static flag, IS_MERGED, that all calls in the process share.            *)
(*                                                                         *)
(* A buffer is [kind, length, parts, graph]: kind is "standard" for a file *)
(* with a standard graph, "other" for any other file, and "raw" for what   *)
(* has no header of a file; length is the length in the header, parts the  *)
(* partitions [type, size] and graph what its MODEL_DEF holds.  A graph is *)
(* [loads, nodes, consts, infershaped, origin]:                            *)
(*   nodes    the nodes of IrNode, each with its id, the producers it      *)
(*            reads ("from") and, for a Data node, the types of its input  *)
(*            and output ("io")                                            *)
(*   consts   the constants of a file, each [offset, data, size, quant]:   *)
(*            its place in the merged weights or NoOffset, its bytes or    *)
(*            Absent, and whether it was quantised on one side             *)
(* Sizes are counted in units that no property looks into.                 *)
(***************************************************************************)
EXTENDS IrTransformer

CONSTANTS Call,    \* the calls, each in a thread of its own
          Roms,    \* the versions HIAI_GetVersion may give, tuples of their groups; the empty one when it cannot be had
          Inputs   \* the buffers each call may be given

VARIABLES rom, call, IS_MERGED

vars == <<rom, call, IS_MERGED>>

DT_FLOAT == 0
DT_FLOAT16 == 1
NoOffset == -1
Absent == "absent"
TableSize(num) == 4 + 12 * num
Total(sizes) == FoldLeft(LAMBDA a, b : a + b, 0, sizes)

(***************************************************************************)
(* The file (om_file_helper.cpp).  Partitions of a type this version does  *)
(* not know are not taken up.                                              *)
(***************************************************************************)
MAX_PARTITION_NUM == 35
KnownTypes == {"MODEL_DEF", "WEIGHTS_DATA", "TASK_INFO", "TASK_GRAPH", "SIGNATURE_INFO", "MODEL_CONFIG", "AIPP_CUSTOM_INFO"}
DefSize(g) == 8 * Len(g.nodes) + Total([k \in DOMAIN g.consts |-> IF g.consts[k].data = Absent THEN 1 ELSE g.consts[k].size])
Part(type, size) == [type |-> type, size |-> size]
BodySize(parts) == Total([i \in DOMAIN parts |-> parts[i].size])
GetModelPartition(f, type) == SelectSeq(f.parts, LAMBDA p : p.type = type /\ type \in KnownTypes)
HasPartition(f, type) == GetModelPartition(f, type) # <<>>
OmInit(f) ==
  /\ f.length = TableSize(Len(f.parts)) + BodySize(f.parts)
  /\ Len(f.parts) <= MAX_PARTITION_NUM /\ HasPartition(f, "MODEL_DEF")

(***************************************************************************)
(* What a ROM supports.                                                    *)
(***************************************************************************)
Chip(r, base) == Cut(r, base) = base
IsNeedBuildUnmergedIrModel(r) == Chip(r, <<100, 320>>)
IsNeedChangeModelType(r) == Chip(r, <<100, 333>>)
IsNeedForwardCompatible(r) == Before(Cut(r, <<100, 333>>), <<100, 333>>) \/ Chip(r, <<100, 333>>) \/ Chip(r, <<100, 500>>)
UpTo(r, last) == Cut(r, last) = last \/ Before(r, last)
IsNotSupportSpecialDeconvRom(r) ==
  \/ Chip(r, <<100, 320, 10>>) /\ UpTo(r, <<100, 320, 10, 21>>)
  \/ Chip(r, <<100, 320, 11>>) /\ UpTo(r, <<100, 320, 11, 17>>)
IsSpecialDeconvModel(g) == \E k \in DOMAIN g.nodes : g.nodes[k].type = "ConvTranspose" /\ Len(MutableWeights(g.nodes[k])) = 1
\* A version that is too short for the numbers that are read from it ends the call with an exception.
OriginFormat(r, g) ==
  CASE ~g.origin -> "supported"
    [] g.origin /\ Len(r) < 3 -> "throws"
    [] OTHER -> LET old == \/ r[2] = 320 \/ (r[2] = 330 /\ r[3] % 100 \in {10, 11} /\ Before(r, <<100, 330, r[3] % 100, 38>>))
                           \/ r[2] = 500 /\ Before(r, <<100, 500, 10, 38>>) IN
                IF old THEN "refused" ELSE "supported"
NoQuantBefore ==
  (<<100, 320, 10>> :> 23) @@ (<<100, 320, 11>> :> 19) @@ (<<100, 320, 12>> :> 11) @@ (<<100, 330, 10>> :> 11)
  @@ (<<100, 330, 11>> :> 11) @@ (<<100, 330, 12>> :> 11) @@ (<<100, 500, 10>> :> 11)
IsSupportQuantize(r) ==
  Len(r) >= 4 /\ LET product == SubSeq(r, 1, 3) IN product \in DOMAIN NoQuantBefore => r[4] >= NoQuantBefore[product]

(***************************************************************************)
(* The merged weights.                                                     *)
(***************************************************************************)
IsNeedUnmergedWeight(f, r, g) ==
  /\ HasPartition(f, "WEIGHTS_DATA")
  /\ \/ IsNeedBuildUnmergedIrModel(r) \/ IsCompatible(g.nodes, r)
     \/ IsNeedChangeModelType(r) /\ \E k \in DOMAIN g.nodes : g.nodes[k].type \in {"GemmD", "MatMul"}
CanUnmerge(g, size) == \A k \in DOMAIN g.consts : g.consts[k].offset \in 0 .. size - g.consts[k].size
RemakeUnmergedIrGraph(g) ==
  [g EXCEPT !.consts = [k \in DOMAIN @ |-> [@[k] EXCEPT !.data = "bytes", !.offset = NoOffset]]]

\* Quantised constants need their bytes, and become four times as long (see Quantize).
CheckOneSideQuantize(g) == \E k \in DOMAIN g.consts : g.consts[k].quant
Dequantize(const) == IF const.quant THEN [const EXCEPT !.quant = FALSE, !.size = 4 * @] ELSE const
DequantizeComputeGraph(g) ==
  [ok |-> \A k \in DOMAIN g.consts : g.consts[k].quant => g.consts[k].data # Absent,
   g |-> [g EXCEPT !.consts = [k \in DOMAIN @ |-> Dequantize(@[k])]]]

(***************************************************************************)
(* The inputs become halves for the chip 320: a cast behind every Data     *)
(* node, decided by the first of its consumers; a cast back to floats that *)
(* is there is taken out instead.                                          *)
(***************************************************************************)
Consumers(g, id) == SelectSeq(g.nodes, LAMBDA n : id \in ToSet(n.from))
NodeOf(g, id) == CHOOSE n \in ToSet(g.nodes) : n.id = id
Casts(n, src, dst) == n.type = "CastT" /\ GetInt(n, "src_dtype", 0) = src /\ GetInt(n, "dst_dtype", 0) = dst
IsNotNetOuput(g, n) == Consumers(g, n.id) # <<>> /\ Consumers(g, n.id)[1].type # "NetOutput"
Bypasses(g, n) == Casts(n, DT_FLOAT16, DT_FLOAT) /\ IsNotNetOuput(g, n)
DataNodes(g) == SelectSeq(g.nodes, LAMBDA n : n.type = "Data" /\ Consumers(g, n.id) # <<>>)
ToRemove(g) ==
  {Consumers(g, d.id)[1].id : d \in {e \in ToSet(DataNodes(g)) : Bypasses(g, Consumers(g, e.id)[1])}}
NeedsCast(g, d) ==
  LET first == Consumers(g, d.id)[1] IN
  /\ ~Bypasses(g, first) /\ ~Casts(first, DT_FLOAT, DT_FLOAT16) /\ first.type # "LshProject"
  /\ d.io = <<DT_FLOAT, DT_FLOAT>>
CreateCastOp(id, from) ==
  [id |-> id, from |-> <<from>>, io |-> <<>>, ok |-> TRUE, type |-> "CastT", name |-> "data_cast_",
   attrs |-> [dst_dtype |-> <<"int", DT_FLOAT16>>, src_dtype |-> <<"int", DT_FLOAT>>, version |-> <<"int", 5>>],
   ins |-> <<Endpoint(<<>>, "Data", NoTensor)>>, consts |-> <<FALSE>>, outs |-> <<<<>>>>, next |-> Idle,
   graph |-> [merged |-> "no", lite |-> FALSE, ssd |-> FALSE, hcs |-> FALSE], subs |-> <<>>]
Redirect(g, old, new) == [g EXCEPT !.nodes = [k \in DOMAIN @ |-> [@[k] EXCEPT !.from = [i \in DOMAIN @ |-> IF @[i] = old THEN new ELSE @[i]]]]]
ByPassNode(g, n) == [Redirect(g, n.id, n.from[1]) EXCEPT !.nodes = SelectSeq(@, LAMBDA m : m.id # n.id)]
InsertAfter(g, d) ==
  LET id == 1 + CHOOSE m \in {n.id : n \in ToSet(g.nodes)} : \A n \in ToSet(g.nodes) : n.id <= m IN
  [Redirect(g, d.id, id) EXCEPT !.nodes = Append(@, CreateCastOp(id, d.id))]
InsertInputConverterOP(g) ==
  LET gone == SelectSeq(g.nodes, LAMBDA n : n.id \in ToRemove(g))
      cast == SelectSeq(DataNodes(g), LAMBDA d : NeedsCast(g, d)) IN
  FoldLeft(InsertAfter, FoldLeft(LAMBDA h, n : ByPassNode(h, NodeOf(h, n.id)), g, gone), cast)

\* Anything else that has a target type of floats is told to give halves.
ParserCastNode(g) ==
  [g EXCEPT !.nodes = [k \in DOMAIN @ |->
     IF @[k].name \notin {"data_cast_", "netoutput_cast_"} /\ GetInt(@[k], "dst_dtype", -1) = DT_FLOAT
     THEN SetInt(@[k], "dst_dtype", DT_FLOAT16) ELSE @[k]]]
\* On the chip 333 the casts behind inputs give halves.
WidensInput(n) == n.name = "data_cast_" /\ IsA(n, "src_dtype", "int") /\ IsA(n, "dst_dtype", "int") /\ Casts(n, DT_FLOAT16, DT_FLOAT)
CastInputs(g) ==
  [g EXCEPT !.nodes = [k \in DOMAIN @ |-> IF WidensInput(@[k]) THEN SetInt(@[k], "dst_dtype", DT_FLOAT16) ELSE @[k]]]

\* The operators are taken to the version of the chip alone: two groups of its version.
Flagged(g) == IF g.infershaped = Absent THEN [g EXCEPT !.infershaped = "no"] ELSE g
Halved(r, g) == IF IsNeedBuildUnmergedIrModel(r) THEN ParserCastNode(InsertInputConverterOP(g)) ELSE g
AllOk(nodes) == \A k \in DOMAIN nodes : nodes[k].ok
\* g with its operators as the nodes of a transfer, which changed the graph if it gave one another version.
Transferred(g, nodes, changed) ==
  [ok |-> AllOk(nodes), g |-> [g EXCEPT !.nodes = nodes],
   changed |-> changed \/ \E k \in DOMAIN nodes : Version(nodes[k]) # Version(g.nodes[k])]
TransferGraph(g, r, changed) == Transferred(g, TransferToTargetVersion(g.nodes, r), changed)
TransferInputs(g, r, changed) ==
  IF IsNeedChangeModelType(r)
  THEN TransferGraph(CastInputs(g), Cut(r, BASE_ROM_VERSION), changed \/ \E n \in ToSet(g.nodes) : WidensInput(n))
  ELSE TransferGraph(g, Cut(r, BASE_ROM_VERSION), changed)
ForwardCompatible(r, g) ==
  IF IsNeedForwardCompatible(r) THEN TransferInputs(Halved(r, Flagged(g)), r, g.infershaped = Absent)
  ELSE [ok |-> TRUE, g |-> g, changed |-> FALSE]

\* A faulty variant of KeptPartitions: the merged weights are always kept.
KeptPartitionsAll(f, merged) == SelectSeq(<<"MODEL_CONFIG", "WEIGHTS_DATA">>, LAMBDA t : HasPartition(f, t))

(***************************************************************************)
(* The file that is written: the first partition keeps the type the first  *)
(* one of the input had, whatever it was, and what is neither the graph,   *)
(* its configuration nor its weights is left behind.                       *)
(***************************************************************************)
KeptPartitions(f, merged) ==
  SelectSeq(<<"MODEL_CONFIG", "WEIGHTS_DATA">>, LAMBDA t : HasPartition(f, t) /\ (t = "WEIGHTS_DATA" => merged))
JointModel(f, g, merged) ==
  LET kept == KeptPartitions(f, merged)
      parts == <<Part(f.parts[1].type, DefSize(g))>> \o [i \in DOMAIN kept |-> GetModelPartition(f, kept[i])[1]] IN
  [f EXCEPT !.parts = parts, !.length = TableSize(Len(parts)) + BodySize(parts), !.graph = g]

(***************************************************************************)
(* A graph that was built by the interface (ir_build_transformer.cpp): the *)
(* older chips want the filters of convolutions in another order.          *)
(***************************************************************************)
Product(dims) == FoldLeft(LAMBDA p, d : p * d, 1, dims)
\* Element p of a filter in the order height, width, channel, number, found in the old order.
OldPlace(dims, p) ==
  LET K == dims[1]
      C == dims[2]
      k == p % K
      c == (p \div K) % C
      w == (p \div (K * C)) % dims[4]
      h == p \div (K * C * dims[4]) IN ((k * C + c) * dims[3] + h) * dims[4] + w
\* The data follow the dimensions only when they are floats.
TransWeightKCHW2HWCK(t) ==
  LET new == <<t.dims[3], t.dims[4], t.dims[2], t.dims[1]>>
      count == Product(t.dims) IN
  CASE Len(t.dims) # 4 \/ count = 0 -> [ok |-> FALSE]
    [] Len(t.dims) = 4 /\ count # 0 /\ t.dtype # "FLOAT" -> [ok |-> TRUE, t |-> [t EXCEPT !.dims = new]]
    [] OTHER -> IF Len(t.data) # count THEN [ok |-> FALSE]
                ELSE [ok |-> TRUE, t |-> Tensor(new, "FLOAT", [i \in 1 .. count |-> t.data[OldPlace(t.dims, i - 1) + 1]])]
AsFilter(t) == IF Len(t.dims) = 1 THEN [t EXCEPT !.dims = <<1, @[1], 1, 1>>] ELSE t
\* With a filter and a bias it is the bias that changes.
ConvTransWeight(n) ==
  LET ws == MutableWeights(n)
      moved == TransWeightKCHW2HWCK(IF Len(ws) = 1 THEN ws[1] ELSE AsFilter(ws[2])) IN
  CASE n.type \notin {"Convolution", "ConvolutionDepthwise", "ConvTranspose"} -> n
    [] GetStr(n, "data_format", "") # "NHWC" \/ Len(ws) \notin 1 .. 2 -> n
    [] OTHER -> IF moved.ok THEN ChangeWeights(n, [ws EXCEPT ![Len(ws)] = moved.t]) ELSE Fail(n)
OldOrder(r) == BeforeUX11(Cut(r, BASE_UX11_VERSION)) /\ ~Is3rdRomVersion(r)
TransferIRToTargetVersion(nodes, r) == IF OldOrder(r) THEN [k \in DOMAIN nodes |-> ConvTransWeight(nodes[k])] ELSE nodes
TransferredIR(g, r) == Transferred(g, TransferIRToTargetVersion(g.nodes, r), TRUE)
Then(made, Op(_)) == IF made.ok THEN Op(made.g) ELSE made
MakeCompatibleIRAPI(r, g) ==
  IF ~g.loads \/ r = <<>> THEN [ok |-> FALSE]
  ELSE Then(TransferredIR(g, r), LAMBDA moved : Then(TransferGraph(moved, r, TRUE), LAMBDA fit :
         IF IsSupportQuantize(r) THEN [ok |-> TRUE, g |-> fit] ELSE DequantizeComputeGraph(fit)))

(***************************************************************************)
(* A call in its steps: HIAI_MakeDirectCompatibleModel, with the reads and *)
(* writes of the flag apart.                                               *)
(***************************************************************************)
\* of: the call whose result this one was given, 0 when it was given a buffer of its own.
NoCall == [at |-> "idle", of |-> 0, file |-> <<>>, g |-> <<>>, changed |-> FALSE, out |-> <<>>, raced |-> FALSE]
Init == rom \in Roms /\ call = [c \in Call |-> NoCall] /\ IS_MERGED = FALSE

End(c, how) == call' = [call EXCEPT ![c].at = how]
\* A write of the flag comes between the mark and the save of another call.
Raced(f, c) == [d \in Call |-> IF d # c /\ f[d].at \in {"remake", "convert", "save"} THEN [f[d] EXCEPT !.raced = TRUE] ELSE f[d]]

FirstStep(f) ==
  CASE f.kind = "raw" -> "ir" [] f.kind = "other" -> "as is" [] OTHER -> IF OmInit(f) THEN "load" ELSE "failed"
MakeDirectCompatibleModel(c, f, of) ==
  /\ call[c].at = "idle"
  /\ call' = [call EXCEPT ![c] = [NoCall EXCEPT !.file = f, !.of = of, !.at = FirstStep(f)]]
  /\ UNCHANGED <<rom, IS_MERGED>>

\* MakeCompatibleIRAPI: nothing of it is shared.
Build(c) ==
  /\ call[c].at = "ir"
  /\ \E made \in {MakeCompatibleIRAPI(rom, call[c].file.graph)} :
       IF made.ok THEN call' = [call EXCEPT ![c].out = [call[c].file EXCEPT !.graph = made.g], ![c].at = "done"] ELSE End(c, "failed")
  /\ UNCHANGED <<rom, IS_MERGED>>

Refusal(g) ==
  CASE ~g.loads \/ (IsNotSupportSpecialDeconvRom(rom) /\ IsSpecialDeconvModel(g)) -> "failed"
    [] OTHER -> [supported |-> "none", throws |-> "threw", refused |-> "failed"][OriginFormat(rom, g)]
\* IsNeedUnmergedWeight sets the flag before it looks at the version.
Load(c) ==
  LET f == call[c].file
      g == f.graph
      marks == HasPartition(f, "WEIGHTS_DATA")
      mine == [call EXCEPT ![c].g = g, ![c].at = IF IsNeedUnmergedWeight(f, rom, g) THEN "remake" ELSE "convert"] IN
  /\ call[c].at = "load"
  /\ \/ Refusal(g) # "none" /\ End(c, Refusal(g)) /\ UNCHANGED IS_MERGED
     \/ Refusal(g) = "none" /\ marks /\ call' = Raced(mine, c) /\ IS_MERGED' = TRUE
     \/ Refusal(g) = "none" /\ ~marks /\ call' = mine /\ UNCHANGED IS_MERGED
  /\ UNCHANGED rom

\* UnmergedWeightGraph
Remake(c) ==
  LET g == call[c].g
      fits == CanUnmerge(g, GetModelPartition(call[c].file, "WEIGHTS_DATA")[1].size) IN
  /\ call[c].at = "remake"
  /\ \/ ~fits /\ End(c, "failed") /\ UNCHANGED IS_MERGED
     \/ /\ fits
        /\ call' = Raced([call EXCEPT ![c].g = RemakeUnmergedIrGraph(g), ![c].changed = TRUE, ![c].at = "convert"], c)
        /\ IS_MERGED' = FALSE
  /\ UNCHANGED rom

\* The rest of MakeModelCompatible
Floats(g) == IF CheckOneSideQuantize(g) THEN DequantizeComputeGraph(g) ELSE [ok |-> TRUE, g |-> g]
Convert(c) ==
  LET changed == call[c].changed \/ CheckOneSideQuantize(call[c].g) IN
  /\ call[c].at = "convert"
  /\ \E fit \in {Then(Floats(call[c].g), LAMBDA g : ForwardCompatible(rom, g))} :
       IF fit.ok
       THEN call' = [call EXCEPT ![c].g = fit.g, ![c].changed = changed \/ fit.changed,
                                 ![c].at = IF changed \/ fit.changed THEN "save" ELSE "as is"]
       ELSE End(c, "failed")
  /\ UNCHANGED <<rom, IS_MERGED>>

SaveModel(c) ==
  /\ call[c].at = "save"
  /\ call' = [call EXCEPT ![c].out = JointModel(call[c].file, call[c].g, IS_MERGED), ![c].at = "done"]
  /\ UNCHANGED <<rom, IS_MERGED>>

\* A model that was restored may be saved and restored again.
Again(c) == \E d \in Call : call[d].at = "done" /\ MakeDirectCompatibleModel(c, call[d].out, d)
Step(c) == Build(c) \/ Load(c) \/ Remake(c) \/ Convert(c) \/ SaveModel(c)
Next == \E c \in Call : (\E f \in Inputs[c] : MakeDirectCompatibleModel(c, f, 0)) \/ Again(c) \/ Step(c)
Spec == Init /\ [][Next]_vars

\* The result of MakeCompatibleBuffer: the buffer the ROM is given.
Ended(c) == call[c].at \in {"as is", "done"}
MakeCompatibleBuffer(c) == IF call[c].at = "done" THEN call[c].out ELSE call[c].file

(***************************************************************************)
(* Properties.                                                             *)
(***************************************************************************)
\* Each constant of a file has its weights once: its own bytes, or its place in the partition the file carries.
HeldOnce(f) ==
  \A k \in DOMAIN f.graph.consts :
    LET const == f.graph.consts[k] IN (const.data # Absent) # (const.offset # NoOffset /\ HasPartition(f, "WEIGHTS_DATA"))
\* A file that is restored while no other call touches the flag loses no weights and carries none twice.
WeightsOnce(c) == HeldOnce(call[c].file) /\ ~call[c].raced => HeldOnce(MakeCompatibleBuffer(c))

\* The operators of the result have the version its ROM understands. A file is judged by the two groups of the chip
\* alone, where a third-party ROM looks like an old one; and left as it is on chips that know every version.
ChipVersion(r) == IF r[2] <= 320 THEN 0 ELSE IF r[2] >= 333 /\ r[2] # 500 THEN 5 ELSE 3
RomVersion(f) ==
  IF rom = <<>> \/ (f.kind = "raw" /\ Is3rdRomVersion(rom)) THEN 5 ELSE ChipVersion(rom)
Converted(f) == f.kind = "raw" \/ (f.kind = "standard" /\ IsNeedForwardCompatible(rom))
RomFits(c) ==
  LET f == MakeCompatibleBuffer(c) IN
  Converted(f) => \A k \in DOMAIN f.graph.nodes :
    f.graph.nodes[k].type = "Const" \/ Version(f.graph.nodes[k]) = RomVersion(f)

\* Casts apart, every operator reads what it read.
CastTypes == {"CastT", "Cast"}
Through(g) ==
  LET behind[id \in {n.id : n \in ToSet(g.nodes)}] ==
        IF NodeOf(g, id).type \in CastTypes THEN behind[NodeOf(g, id).from[1]] ELSE id IN
  [id \in {n.id : n \in {m \in ToSet(g.nodes) : m.type \notin CastTypes}} |->
     [i \in DOMAIN NodeOf(g, id).from |-> behind[NodeOf(g, id).from[i]]]]
LinksKept(c) == Through(MakeCompatibleBuffer(c).graph) = Through(call[c].file.graph)

\* On the chip 320 the first reader of a float input is a cast to halves, or the operator that takes floats; and that of
\* an input of halves is no cast to floats, but for one before the output, one of the old version and in a file
\* that needed nothing else.
Reads(g, d) == Consumers(g, d.id)[1]
OldCast(n, src, dst) == n.type = "Cast" /\ GetInt(n, "SrcT", 0) = src /\ GetInt(n, "DstT", 0) = dst
InputsHalved(c) ==
  LET g == MakeCompatibleBuffer(c).graph IN
  call[c].file.kind = "standard" /\ IsNeedBuildUnmergedIrModel(rom) =>
    \A d \in ToSet(DataNodes(g)) :
      LET n == Reads(g, d) IN
      /\ d.io = <<DT_FLOAT, DT_FLOAT>> => n.type = "LshProject" \/ OldCast(n, DT_FLOAT, DT_FLOAT16)
      /\ call[c].at = "done" /\ OldCast(n, DT_FLOAT16, DT_FLOAT) =>
           Reads(g, n).type = "NetOutput" \/ NodeOf(call[c].file.graph, n.id).type = "Cast"

\* The filter of a convolution that was built has the order its chip wants, unless a bias took its place or it is not
\* of floats, when its dimensions change and its numbers do not.
FiltersMoved(c) ==
  LET f == call[c].file
      out == call[c].out IN
  call[c].at = "done" /\ f.kind = "raw" =>
    \A k \in DOMAIN f.graph.nodes :
      LET n == f.graph.nodes[k]
          old == MutableWeights(n)[1]
          new == MutableWeights(out.graph.nodes[k])[1]
          s == old.dims
          cells == [k : 0 .. s[1] - 1, c : 0 .. s[2] - 1, h : 0 .. s[3] - 1, w : 0 .. s[4] - 1] IN
      n.type = "Convolution" /\ MutableWeights(n) # <<>> =>
        IF GetStr(n, "data_format", "") = "NHWC" /\ OldOrder(rom) /\ Len(MutableWeights(n)) = 1
        THEN /\ new.dims = <<s[3], s[4], s[2], s[1]>>
             /\ old.dtype = "FLOAT" => \A p \in cells :
                  new.data[((p.h * s[4] + p.w) * s[2] + p.c) * s[1] + p.k + 1] = old.data[((p.k * s[2] + p.c) * s[3] + p.h) * s[4] + p.w + 1]
             /\ old.dtype # "FLOAT" => new.data = old.data
        ELSE new.dims = old.dims /\ new.data = old.data

\* The result keeps its configuration and can be loaded, if its graph was the first partition; restored again it needs
\* nothing more.  But for the chip 320 every float input gets one more cast each time, and on the chip 333 the cast of an
\* old version is seen only the second time, when it has the name it is looked for by.
FileSound(c) ==
  LET f == call[c].file IN
  call[c].at = "done" /\ f.kind = "standard" =>
    /\ OmInit(call[c].out) <=> f.parts[1].type = "MODEL_DEF"
    /\ GetModelPartition(call[c].out, "MODEL_CONFIG") = GetModelPartition(f, "MODEL_CONFIG")
CastsLeft(f) ==
  \/ IsNeedBuildUnmergedIrModel(rom) /\ \E d \in ToSet(DataNodes(f.graph)) : NeedsCast(f.graph, d)
  \/ IsNeedChangeModelType(rom) /\ \E n \in ToSet(f.graph.nodes) : WidensInput(n)
RestoredAgain(c) ==
  LET f == call[c].file IN
  call[c].of # 0 /\ f.kind = "standard" /\ OmInit(f) /\ ~call[call[c].of].raced =>
    /\ call[c].at \notin {"failed", "threw"}
    /\ Ended(c) => call[c].at = (IF CastsLeft(f) THEN "done" ELSE "as is")

ModelsRestored ==
  \A c \in Call :
    /\ Ended(c) => WeightsOnce(c) /\ RomFits(c) /\ LinksKept(c) /\ InputsHalved(c) /\ FiltersMoved(c) /\ FileSound(c)
    /\ RestoredAgain(c)
=============================================================================
