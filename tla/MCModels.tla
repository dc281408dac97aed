------------------------------- MODULE MCModels -------------------------------
(***************************************************************************)
(* Buffers and versions of ROMs in the forms ModelCompatible tells apart.  *)
(***************************************************************************)
EXTENDS IrNode, FiniteSets

Roms == {<<>>, <<100, 100, 10, 10>>, <<100, 320>>, <<100, 320, 10, 10>>, <<100, 320, 10, 22>>, <<100, 320, 11, 18>>,
         <<100, 330, 10, 37>>, <<100, 333, 10, 10>>, <<100, 500, 10, 10>>, <<100, 500, 10, 38>>, <<100, 510, 10, 10>>}

None == [a \in {} |-> <<>>]
Num(a, v) == a :> <<"int", v>>
Float == <<0, 0>>
Half == <<1, 1>>
Node(id, type, name, attrs, from, io, ins) ==
  [id |-> id, from |-> from, io |-> io, ok |-> TRUE, type |-> type, name |-> name, attrs |-> attrs, ins |-> ins,
   consts |-> [i \in DOMAIN ins |-> IsConst(ins[i])], outs |-> <<<<1, 8, 1, 1>>>>, next |-> Idle,
   graph |-> [merged |-> "no", lite |-> FALSE, ssd |-> FALSE, hcs |-> FALSE], subs |-> <<>>]
In == <<Endpoint(<<1, 2, 2, 2>>, "Data", NoTensor)>>
Stamp(version) == IF version = 0 THEN None ELSE Num("version", version)
Data(id, io, version) == Node(id, "Data", "in", Stamp(version), <<>>, io, In)
Cast(id, from, src, dst, version) ==
  Node(id, IF version = 0 THEN "Cast" ELSE "CastT", IF from = 1 THEN "data_cast_" ELSE "cast",
       (IF version = 0 THEN Num("SrcT", src) @@ Num("DstT", dst) ELSE Num("src_dtype", src) @@ Num("dst_dtype", dst)) @@ Stamp(version),
       <<from>>, <<>>, In)
Op(id, type, from, attrs, version) == Node(id, type, "op", attrs @@ Stamp(version), from, <<>>, In)
Filter(type) == ConstEndpoint(Tensor(<<2, 3, 2, 1>>, type, [i \in 1 .. 12 |-> i]))
Conv(id, type, from, attrs, version, ws) == Node(id, type, "op", attrs @@ Stamp(version), from, <<>>, In \o ws)

Const(offset, data, quant) == [offset |-> offset, data |-> data, size |-> 4, quant |-> quant]
Graph(nodes, consts) == [loads |-> TRUE, nodes |-> nodes, consts |-> consts, infershaped |-> "absent", origin |-> FALSE]

\* What follows the inputs: an operator, a cast either way, an output behind a cast, two readers.
Chains(version) ==
  {<<Data(1, io, version), Op(2, "Relu", <<1>>, None, version), Op(3, "NetOutput", <<2>>, None, version)>> : io \in {Float, Half}}
  \cup {<<Data(1, <<t, t>>, version), Cast(2, 1, t, 1 - t, version), Op(3, "Relu", <<2>>, None, version), Op(4, "Add", <<1, 3>>, None, version)>> :
          t \in 0 .. 1}
  \cup {<<Data(1, Half, version), Cast(2, 1, 1, 0, version), Op(3, "NetOutput", <<2>>, None, version)>>,
        <<Data(1, Float, version), Op(2, "LshProject", <<1>>, None, version), Op(3, "Relu", <<1>>, None, version)>>,
        <<Data(1, Float, version), Op(2, "Relu", <<1>>, None, version), Cast(3, 2, 1, 0, version), Op(4, "GemmD", <<3>>, None, version)>>,
        <<Data(1, Float, version), Conv(2, "ConvTranspose", <<1>>, None, version, <<Filter("FLOAT")>>)>>}
Plain(version) == <<Data(1, Half, version), Op(2, "Relu", <<1>>, None, version)>>

Merged == <<Const(0, "absent", FALSE), Const(12, "absent", TRUE)>>
Own == <<Const(-1, "bytes", FALSE)>>
Part(type, size) == [type |-> type, size |-> size]
DefSize(g) == 8 * Len(g.nodes) + FoldLeft(LAMBDA a, k : a + IF k.data = "absent" THEN 1 ELSE k.size, 0, g.consts)
File(g, before, after) ==
  LET parts == before \o <<Part("MODEL_DEF", DefSize(g))>> \o after IN
  [kind |-> "standard", length |-> 4 + 12 * Len(parts) + FoldLeft(LAMBDA a, p : a + p.size, 0, parts), parts |-> parts, graph |-> g]
Raw(g) == [kind |-> "raw", length |-> 0, parts |-> <<Part("MODEL_DEF", 1)>>, graph |-> g]
WEIGHTS == Part("WEIGHTS_DATA", 16)
CONFIG == Part("MODEL_CONFIG", 3)
OTHERS == Part("TASK_INFO", 5)

Files ==
  {File(Graph(ch, cs), <<>>, IF cs = Own THEN <<CONFIG>> ELSE <<OTHERS, WEIGHTS>>) :
     ch \in UNION {Chains(v) : v \in {0, 3, 5}}, cs \in {Own, <<Merged[1]>>}}
  \cup {File(Graph(Plain(v), cs), <<>>, more) : v \in {0, 3, 5},
          cs \in {Merged, <<Const(13, "absent", FALSE)>>, <<Const(-1, "absent", FALSE)>>, <<Const(-1, "bytes", TRUE)>>},
          more \in {<<>>, <<WEIGHTS>>, <<WEIGHTS, CONFIG>>}}
  \cup {File([Graph(Plain(3), Own) EXCEPT !.infershaped = i, !.origin = o], b, <<CONFIG>>) : i \in {"absent", "no", "yes"}, o \in BOOLEAN,
          b \in {<<>>, <<OTHERS>>, <<WEIGHTS>>}}
  \cup {File([Graph(ch, Own) EXCEPT !.infershaped = "yes"], <<>>, <<>>) : ch \in Chains(0)}
  \cup {[File(Graph(Plain(3), Own), <<>>, <<CONFIG>>) EXCEPT !.kind = "other"],
        [File(Graph(Plain(3), Own), <<>>, <<CONFIG>>) EXCEPT !.length = @ + 1],
        File([Graph(Plain(3), Own) EXCEPT !.loads = FALSE], <<>>, <<>>),
        [File(Graph(Plain(3), Own), <<>>, <<>>) EXCEPT !.parts = <<Part("TASK_INFO", @[1].size)>>]}
  \cup {Raw(Graph(<<Data(1, Float, v), Conv(2, type, <<1>>, a, v, ws)>>, <<Const(-1, "bytes", q)>>)) :
          v \in {0, 5}, type \in {"Convolution"}, a \in {None, "data_format" :> <<"str", "NHWC">>}, q \in BOOLEAN,
          ws \in {<<Filter("FLOAT")>>, <<Filter("FLOAT16")>>, <<Filter("FLOAT"), ConstEndpoint(Tensor(<<2>>, "FLOAT", <<5, 6>>))>>,
                  <<ConstEndpoint(Tensor(<<2, 3>>, "FLOAT", <<1, 2, 3, 4, 5, 6>>))>>, <<ConstEndpoint(Tensor(<<1, 1, 2, 2>>, "FLOAT", <<1>>))>>, <<>>}}
  \cup {Raw([Graph(<<>>, <<>>) EXCEPT !.loads = FALSE])}

\* Buffers for two calls that meet at the flag.
Racers ==
  {File(Graph(Plain(v), <<Merged[1]>>), <<>>, <<WEIGHTS>>) : v \in {0, 3}}
  \cup {File(Graph(<<Data(1, Half, 5), Op(2, "GemmD", <<1>>, None, 5)>>, <<Merged[1]>>), <<>>, <<WEIGHTS>>), File(Graph(Plain(0), Own), <<>>, <<>>)}
Given == [c \in 1 .. 2 |-> IF c = 1 THEN Files \cup Racers ELSE Racers]
=============================================================================
