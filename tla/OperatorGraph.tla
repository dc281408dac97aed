--------------------------- MODULE OperatorGraph ---------------------------
(***************************************************************************)
(* The way of an IR graph: an application creates operators and links      *)
(* them, Graph::SetInputs builds the compute graph that they reach,        *)
(* Model::Save writes it and Model::Load makes a graph of the file again.  *)
(* Operators refer to one another by weak pointers, a file refers to nodes *)
(* by their names and to inputs by their position.                         *)
(*                                                                         *)
(* Indexes count from 0 as in the source, -1 is the control anchor.        *)
(* Tensor descriptors are abstracted to whether they are described (their  *)
(* format is not FORMAT_RESERVED), a subgraph is the branch it was built   *)
(* for ('/' in its name is not modelled), and the lists an operator keeps  *)
(* beside its attributes to one of them, "members".                        *)
(***************************************************************************)
EXTENDS Integers, Sequences, FiniteSets, SequencesExt

CONSTANTS Networks   \* what an application may build: operators, calls, inputs, outputs; or an old file

VARIABLES
  app,     \* the network at hand, with the calls still to make
  ops,     \* the operators of the application
  graph,   \* what the last SetInputs built
  file,    \* what the last Save wrote
  copy     \* what the last Load made

vars == <<app, ops, graph, file, copy>>

None == [made |-> "none"]
Failed == [made |-> "failed"]
Undefined == [made |-> "undefined"]
Only == -3                   \* the output of a source that has one only

-----------------------------------------------------------------------------
(* Operator types.                                                          *)

\* Inputs and outputs in the order of their names, whether the inputs are described
\* when registered (dynamic ones are), and the order in which subgraphs are built,
\* saved and loaded.
Types ==
  LET Plain(order) == [order |-> order, dynamic |-> FALSE, outOrder |-> <<0>>]
      Dynamic(order) == [Plain(order) EXCEPT !.dynamic = TRUE]
  IN [Data |-> Plain(<<0>>), Const |-> Plain(<<>>), Add |-> Plain(<<0, 1>>), MatMul |-> Plain(<<2, 0, 1>>),
      TopK |-> [Plain(<<1, 0>>) EXCEPT !.outOrder = <<1, 0>>], NextIteration |-> Plain(<<0>>),
      ConvTranspose |-> Plain(<<3, 1, 4, 0, 2>>), NonMaxSuppressionV6 |-> Plain(<<0, 3, 2, 4, 1>>),
      ConcatD |-> Dynamic(<<0, 1>>), While |-> Dynamic(<<0>>), If |-> Plain(<<0>>), Case |-> Plain(<<0>>)]

Built == [If |-> <<"then_branch", "else_branch">>, While |-> <<"body", "cond">>]
Kept == [If |-> <<"then_branch", "else_branch">>, While |-> <<"cond", "body">>]
Restored == [If |-> <<"else_branch", "then_branch">>, While |-> <<"cond", "body">>]

\* The names of a node's subgraphs in the order of a table: a Case lists its own.
Branches(table, type, named) ==
  CASE type \in {"If", "While"} -> table[type]
    [] type = "Case" -> named
    [] OTHER -> <<>>

\* The framework's name of a type.
IR_OPTYPE_TO_FMK_OPTYPE(type) ==
  CASE type = "QuantizedMatMul" -> "MatMul" [] type = "Crop" -> "Slice"
    [] type = "ResizeBilinearV2" -> "ResizeBilinear" [] type = "QuantizedFullyConnection" -> "FullyConnection"
    [] type = "BatchNormExt2" -> "BatchNorm" [] OTHER -> type

IsGraphInputType(type) == type \in {"Data", "ImageData", "DynamicImageData", "ConfigData"}
IsNonInputType(type) == IsGraphInputType(type) /\ type # "ConfigData"
IsOptionalInput(type, index) ==
  \/ type = "MatMul" /\ index = 2
  \/ type = "NonMaxSuppressionV6" /\ index \in {2, 3, 4}
IsExempt(type) == type \in {"ConvTranspose", "SSDDetectionOutput", "SSDPostprocessor", "SSDAnchorGenerator", "_Retval"}

\* Types whose reload gives every input a descriptor.
NEED_ADD_INPUTDESC == {"LSTM", "BidirectionLSTM", "RNN", "NonMaxSuppressionV6"}

\* A fresh operator.
Operator(new) ==
  LET type == IR_OPTYPE_TO_FMK_OPTYPE(new.type)
  IN [name |-> new.name, type |-> type, alive |-> TRUE, outs |-> Len(Types[type].outOrder),
      described |-> [i \in 1..Len(Types[type].order) |-> Types[type].dynamic],
      in |-> <<>>, out |-> <<>>, isInputConst |-> <<>>, named |-> <<>>, builders |-> <<>>]

-----------------------------------------------------------------------------
(* Linking operators (operator.cpp, operator_impl.cpp).                     *)

Put(f, key, value) == [k \in DOMAIN f \cup {key} |-> IF k = key THEN value ELSE f[k]]
LinkToOutputOpLast(op, output, peer) == [op EXCEPT !.out = Put(op.out, output, <<peer>>)]  \* faulty
LinkToOutputOp(op, output, peer) ==
  [op EXCEPT !.out = Put(op.out, output, (IF output \in DOMAIN op.out THEN op.out[output] ELSE <<>>) \o <<peer>>)]

\* The vector grows up to the index, with FALSE.
SetOpIsInputConst(op, index, isConst) ==
  [op EXCEPT !.isInputConst =
     [i \in 1..(IF index < Len(@) THEN Len(@) ELSE index + 1) |->
        IF i = index + 1 THEN isConst ELSE i <= Len(@) /\ @[i]]]

\* What the implementation links: a known input without a link, and a known output
\* or the only one.  A control input takes no descriptor.
ImplSetInput(all, c) ==
  LET to == all[c.op]
      from == all[c.from]
      output == IF c.output = Only THEN 0 ELSE c.output
      refused ==
        \/ c.index \notin -1..(Len(to.described) - 1) \/ c.index \in DOMAIN to.in
        \/ output \notin -1..(from.outs - 1) \/ (c.output = Only /\ from.outs # 1)
      linked == [all EXCEPT ![c.op].in = Put(@, c.index, <<c.from, output>>),
                            ![c.op].described = IF c.index = -1 \/ output = -1 THEN @ ELSE [@ EXCEPT ![c.index + 1] = TRUE]]
  IN IF refused THEN all ELSE [linked EXCEPT ![c.from] = LinkToOutputOp(@, output, <<c.op, c.index>>)]

\* Every form of SetInput ends by noting whether the source is a Const, whether it
\* was linked or not; a form by name needs a known name for that.
SetInput(c) ==
  LET after == ImplSetInput(ops, c)
      notes == c.index >= 0 /\ (c.by = "index" \/ c.index < Len(ops[c.op].described))
  IN ops' = IF notes THEN [after EXCEPT ![c.op] = SetOpIsInputConst(@, c.index, ops[c.from].type = "Const")] ELSE after

UpdateInputDesc(c) == ops' = [ops EXCEPT ![c.op].described[c.index + 1] = TRUE]

\* The graph's name becomes an attribute in any case, a builder is not replaced.
SetGraphBuilder(c) ==
  ops' = [ops EXCEPT ![c.op].named = IF c.branch \in ToSet(@) THEN @ ELSE Append(@, c.branch),
                     ![c.op].builders = IF c.branch \in DOMAIN @ THEN @ ELSE Put(@, c.branch, c.builder)]

SubgraphCountRegister(c) == ops' = [ops EXCEPT ![c.op].named = [i \in 1..c.number |-> i - 1]]
SetSubgraphBuilder(c) ==
  ops' = [ops EXCEPT ![c.op].builders = IF c.branch \in DOMAIN @ THEN @ ELSE Put(@, c.branch, c.builder)]

\* An operator that goes out of scope is gone: links hold weak pointers.
DestroyOperator(c) == ops' = [ops EXCEPT ![c.op].alive = FALSE]

Call ==
  \E c \in app.calls :
    /\ graph = None /\ ops[c.op].alive /\ (c.call = "SetInput" => ops[c.from].alive)
    /\ app' = [app EXCEPT !.calls = @ \ {c}]
    /\ CASE c.call = "SetInput" -> SetInput(c)
         [] c.call = "UpdateInputDesc" -> UpdateInputDesc(c)
         [] c.call = "SetGraphBuilder" -> SetGraphBuilder(c)
         [] c.call = "SubgraphCountRegister" -> SubgraphCountRegister(c)
         [] c.call = "SetSubgraphBuilder" -> SetSubgraphBuilder(c)
         [] c.call = "Destroy" -> DestroyOperator(c)
    /\ UNCHANGED <<graph, file, copy>>

-----------------------------------------------------------------------------
(* Building the compute graph (graph_builder.cpp, graph_spec.cpp).          *)

\* The subgraphs of a node: a name attribute must be set, a missing builder is
\* skipped, a builder that builds no graph fails the node.
GetNodeSubGraphAttrs(op) == Branches(Built, op.type, op.named)
GetGraphBuilder(op, branch) == IF branch \in DOMAIN op.builders THEN op.builders[branch] ELSE "null"
SubGraphsBuild(op) ==
  /\ ToSet(GetNodeSubGraphAttrs(op)) \subseteq ToSet(op.named) /\ (op.type = "Case" => op.named # <<>>)
  /\ \A b \in ToSet(GetNodeSubGraphAttrs(op)) : GetGraphBuilder(op, b) # "empty"
NodeSubGraphs(op) == SelectSeq(GetNodeSubGraphAttrs(op), LAMBDA b : GetGraphBuilder(op, b) # "null")

\* The operators a node leads to: the readers of its outputs, then its sources, both
\* in the order of the names ("-1" is the first).
BuildOutNode(op) ==
  LET order == SelectSeq(<<-1>> \o Types[op.type].outOrder, LAMBDA j : j \in DOMAIN op.out)
      Readers(links) == [k \in 1..Len(links) |-> links[k][1]]
  IN FlattenSeq([j \in 1..Len(order) |-> Readers(op.out[order[j]])])
BuildInNode(op) ==
  LET order == SelectSeq(<<-1>> \o Types[op.type].order, LAMBDA i : i \in DOMAIN op.in)
  IN [k \in 1..Len(order) |-> op.in[order[k]][1]]

\* The operators reached, depth first; none if one cannot be added: it is gone, bears
\* the reserved name or its subgraphs cannot be built.
BuildNode(inputs) ==
  LET walk[stack \in Seq(DOMAIN ops), nodes \in Seq(DOMAIN ops)] ==
        IF stack = <<>> THEN nodes
        ELSE LET o == Head(stack)
             IN IF ~ops[o].alive THEN <<>>
                ELSE IF o \in ToSet(nodes) THEN walk[Tail(stack), nodes]
                ELSE IF ops[o].name = "Node_Output" \/ ~SubGraphsBuild(ops[o]) THEN <<>>
                ELSE walk[BuildOutNode(ops[o]) \o BuildInNode(ops[o]) \o Tail(stack), Append(nodes, o)]
  IN walk[inputs, <<>>]

\* No edge leaves a control output for a data input or a node for itself.
BuildGraphEdges(nodes) ==
  \A o \in ToSet(nodes) :
    /\ -1 \notin DOMAIN ops[o].out
    /\ \A j \in DOMAIN ops[o].out : \A k \in 1..Len(ops[o].out[j]) : ops[o].out[j][k][1] # o

\* The node of an operator.
MakeNode(nodes, o) ==
  LET op == ops[o]
      At(p) == CHOOSE n \in 1..Len(nodes) : nodes[n] = p
  IN [op |-> o, name |-> op.name, type |-> op.type, described |-> op.described, outs |-> op.outs, named |-> op.named,
      subs |-> NodeSubGraphs(op), members |-> op.isInputConst,
      ins |-> [i \in 1..Len(op.described) |-> IF i - 1 \in DOMAIN op.in THEN <<At(op.in[i - 1][1]), op.in[i - 1][2]>> ELSE <<>>],
      ctrl |-> IF -1 \in DOMAIN op.in THEN <<At(op.in[-1][1])>> ELSE <<>>]

\* Edges into a node, and the nodes that read from one, once for every edge.
InEdgeSize(node) == Cardinality({i \in 1..Len(node.ins) : node.ins[i] # <<>>}) + Len(node.ctrl)
ActualNodeInDegree(node) ==
  IF node.type = "NextIteration" /\ InEdgeSize(node) > 0 THEN InEdgeSize(node) - 1 ELSE InEdgeSize(node)
ListOutNodes(nodes, n) ==
  LET op == ops[nodes[n].op]
      peers(data) == FlattenSeq([j \in 1..op.outs |->
        IF j - 1 \in DOMAIN op.out THEN SelectSeq(op.out[j - 1], LAMBDA peer : (peer[2] # -1) = data) ELSE <<>>])
      all == peers(TRUE) \o peers(FALSE)
  IN [k \in 1..Len(all) |-> CHOOSE m \in 1..Len(nodes) : nodes[m].op = all[k][1]]

\* The walk that takes the edges of a node away from its readers' in-degrees.  A
\* reader without a degree left fails it, a failure further down is not seen.
RecurseOutNodes(nodes) ==
  LET walk[n \in DOMAIN nodes, degrees \in [DOMAIN nodes -> Nat]] ==
        FoldLeft(LAMBDA acc, m :
                   IF ~acc.ok THEN acc
                   ELSE IF acc.degrees[m] = 0 THEN [acc EXCEPT !.ok = FALSE]
                   ELSE LET less == [acc.degrees EXCEPT ![m] = @ - 1]
                        IN [acc EXCEPT !.degrees = IF less[m] = 0 THEN walk[m, less].degrees ELSE less],
                 [ok |-> TRUE, degrees |-> degrees], ListOutNodes(nodes, n))
  IN walk

\* The check for cycles: the walks from the nodes of degree 0, the last one first, take
\* all degrees to 0.  A failed walk counts as success, for the Status is returned as a
\* bool.
CheckNodesInDegree(nodes, stack, degrees) ==
  LET last == FoldRight(LAMBDA n, acc : IF acc.ok THEN RecurseOutNodes(nodes)[n, acc.degrees] ELSE acc,
                        stack, [ok |-> TRUE, degrees |-> degrees])
  IN ~last.ok \/ \A n \in DOMAIN nodes : last.degrees[n] = 0
InDegreesValid(nodes) ==
  LET degrees == [n \in DOMAIN nodes |-> ActualNodeInDegree(nodes[n])]
  IN CheckNodesInDegree(nodes, SelectSeq([n \in DOMAIN nodes |-> n], LAMBDA n : degrees[n] = 0), degrees)

IsInputFullyLinked(node) ==
  IsNonInputType(node.type) \/ \A i \in 1..Len(node.ins) : IsOptionalInput(node.type, i - 1) \/ node.ins[i] # <<>>
IsInputsFullyLinked(nodes) == \A n \in 1..Len(nodes) : IsExempt(nodes[n].type) \/ IsInputFullyLinked(nodes[n])
GraphIsValid(nodes) ==
  InDegreesValid(nodes) /\ IsGraphInputType(nodes[1].type) /\ IsInputsFullyLinked(nodes)

\* The position of an input in the list: the last one of its name.
BuildInputOrder(inputs) ==
  [name \in {ops[inputs[i]].name : i \in 1..Len(inputs)} |->
     CHOOSE i \in 1..Len(inputs) : ops[inputs[i]].name = name /\ \A j \in (i + 1)..Len(inputs) : ops[inputs[j]].name # name]

PreCheckPara(inputs) == inputs # <<>> /\ \A i \in 1..Len(inputs) : ops[inputs[i]].alive /\ IsGraphInputType(ops[inputs[i]].type)

GraphBuild(inputs) ==
  IF ~PreCheckPara(inputs) THEN Failed
  ELSE LET found == BuildNode(inputs)
       IN IF found = <<>> THEN Failed
          ELSE IF ~BuildGraphEdges(found) \/ Len(inputs) >= Len(found) THEN Failed
          ELSE LET nodes == [n \in 1..Len(found) |-> MakeNode(found, found[n])]
               IN IF GraphIsValid(nodes)
                  THEN [made |-> "graph", nodes |-> nodes, inputs |-> <<>>, outputs |-> <<>>, order |-> BuildInputOrder(inputs)]
                  ELSE Failed

\* Graph::SetInputs: a graph that cannot be built leaves none.
SetInputs ==
  /\ graph = None
  /\ \E inputs \in app.inputs : graph' = GraphBuild(inputs)
  /\ UNCHANGED <<app, ops, file, copy>>

\* Graph::SetOutputs finds nodes by the names of operators, the first of the name.
FindNode(g, name) == {n \in 1..Len(g.nodes) : g.nodes[n].name = name /\ \A m \in 1..(n - 1) : g.nodes[m].name # name}
SetOutputs ==
  /\ graph.made = "graph" /\ graph.outputs = <<>> /\ file = None
  /\ \E outputs \in app.outputs :
       graph' = [graph EXCEPT !.outputs = FlattenSeq([k \in 1..Len(outputs) |-> SetToSeq(FindNode(graph, ops[outputs[k]].name))])]
  /\ UNCHANGED <<app, ops, file, copy>>

-----------------------------------------------------------------------------
(* Saving (graph_serializer.cpp, node_serializer.cpp, op_desc.cpp).         *)

\* The inputs of a graph: those it lists, else the nodes of an input type in the order
\* given, the others behind them.
WalkInNodes(g) ==
  LET typed == SelectSeq([n \in 1..Len(g.nodes) |-> n], LAMBDA n : IsGraphInputType(g.nodes[n].type))
      Ordered(k) == SelectSeq(typed, LAMBDA n : g.nodes[n].name \in DOMAIN g.order /\ g.order[g.nodes[n].name] = k)
  IN IF g.inputs # <<>> THEN g.inputs
     ELSE FlattenSeq([k \in 1..Len(g.nodes) |-> Ordered(k)])
            \o SelectSeq(typed, LAMBDA n : g.nodes[n].name \notin DOMAIN g.order)

\* The outputs it lists: a graph that is built has no NetOutput.
WalkOutNodes(g) == g.outputs

SaveEdgeCompact(g, node) ==   \* faulty: no place for an input without a link
  LET linked == SelectSeq(node.ins, LAMBDA from : from # <<>>)
  IN [i \in 1..Len(linked) |-> <<g.nodes[linked[i][1]].name, linked[i][2]>>]
       \o [i \in 1..Len(node.ctrl) |-> <<g.nodes[node.ctrl[i]].name, -1>>]

\* A node's inputs by the names of their sources: empty for an input without a link,
\* the control edges last.
SaveEdge(g, node) ==
  [i \in 1..Len(node.ins) |-> IF node.ins[i] = <<>> THEN <<>> ELSE <<g.nodes[node.ins[i][1]].name, node.ins[i][2]>>]
    \o [i \in 1..Len(node.ctrl) |-> <<g.nodes[node.ctrl[i]].name, -1>>]

SaveSubGraphs(node) == Branches(Kept, node.type, node.named)

\* Descriptors without a format are left out.
SerializeTo(g, node) ==
  [name |-> node.name, type |-> node.type, input |-> SaveEdge(g, node),
   input_desc |-> SelectSeq(node.described, LAMBDA d : d), outs |-> node.outs, named |-> node.named,
   subs |-> SaveSubGraphs(node), members |-> node.members, has_out_attr |-> TRUE, attrs |-> <<>>]

\* A subgraph that a node names and does not have fails the save.
SaveGraph(g) ==
  IF \E n \in 1..Len(g.nodes) : ~ToSet(SaveSubGraphs(g.nodes[n])) \subseteq ToSet(g.nodes[n].subs) THEN Failed
  ELSE [made |-> "file",
        input |-> [k \in 1..Len(WalkInNodes(g)) |-> g.nodes[WalkInNodes(g)[k]].name],
        output |-> [k \in 1..Len(WalkOutNodes(g)) |-> g.nodes[WalkOutNodes(g)[k]].name],
        op |-> [n \in 1..Len(g.nodes) |-> SerializeTo(g, g.nodes[n])]]

Save ==
  /\ graph.made = "graph" /\ file = None
  /\ file' = SaveGraph(graph)
  /\ UNCHANGED <<app, ops, graph, copy>>

-----------------------------------------------------------------------------
(* Loading (proto_op_def.cpp, then the same files).                         *)

\* Types with optional inputs get one descriptor for every input, a blank one for an
\* empty input, while there are fewer descriptors than inputs; the read is past the
\* end of the original ones if those run out.
GetsDescriptors(op) == op.type \in NEED_ADD_INPUTDESC /\ Len(op.input) > Len(op.input_desc)
Taken(op, i) == Cardinality({k \in 1..i : op.input[k] # <<>>})
PastTheEnd(op) == GetsDescriptors(op) /\ Taken(op, Len(op.input)) > Len(op.input_desc)
OptionalInputHandle(op) ==
  IF ~GetsDescriptors(op) THEN op
  ELSE [op EXCEPT !.input_desc = [i \in 1..Len(op.input) |-> op.input[i] # <<>> /\ @[Taken(op, i)]]]

\* The operators of an old model keep their lists and descriptors in attributes: the
\* lists are appended, the descriptors replaced.
CompatibleMemberHandle(op) ==
  IF op.has_out_attr THEN op
  ELSE [op EXCEPT !.has_out_attr = TRUE,
                  !.members = IF "members" \in DOMAIN op.attrs THEN @ \o op.attrs["members"] ELSE @,
                  !.input_desc = IF "input_desc" \in DOMAIN op.attrs THEN op.attrs["input_desc"] ELSE @]

ProtoOpDef(op) == CompatibleMemberHandle(OptionalInputHandle(op))

\* The inputs of an operator with the index of the anchor each is for: a control edge
\* does not count.
GetNodeNameAndIndex(op) ==
  [k \in 1..Len(op.input) |->
     [from |-> op.input[k], index |-> Cardinality({j \in 1..(k - 1) : op.input[j] = <<>> \/ op.input[j][2] >= 0})]]

\* The node: an anchor for every descriptor, the edges by name (a source or an anchor
\* that does not exist fails the load).
NodeNamed(f, name) == {n \in 1..Len(f.op) : f.op[n].name = name}
HandleNodeNameRef(f, op) ==
  \A k \in 1..Len(op.input) :
    op.input[k] # <<>> =>
      /\ NodeNamed(f, op.input[k][1]) # {}
      /\ op.input[k][2] >= 0 =>
           /\ \A n \in NodeNamed(f, op.input[k][1]) : op.input[k][2] < f.op[n].outs
           /\ GetNodeNameAndIndex(op)[k].index < Len(op.input_desc)
RestoreNode(f, op) ==
  LET edges == GetNodeNameAndIndex(op)
      At(name) == CHOOSE n \in NodeNamed(f, name) : TRUE
      Into(i) == {k \in 1..Len(edges) : edges[k].from # <<>> /\ edges[k].from[2] >= 0 /\ edges[k].index = i}
      ctrl == SelectSeq(op.input, LAMBDA from : from # <<>> /\ from[2] < 0)
  IN [name |-> op.name, type |-> op.type, described |-> op.input_desc, outs |-> op.outs, named |-> op.named,
      subs |-> Branches(Restored, op.type, op.named), members |-> op.members,
      ins |-> [i \in 1..Len(op.input_desc) |->
                 IF Into(i - 1) = {} THEN <<>>
                 ELSE LET from == edges[CHOOSE k \in Into(i - 1) : TRUE].from IN <<At(from[1]), from[2]>>],
      ctrl |-> [k \in 1..Len(ctrl) |-> At(ctrl[k][1])]]

LoadGraph(f) ==
  LET parsed == [f EXCEPT !.op = [n \in 1..Len(f.op) |-> ProtoOpDef(f.op[n])]]
      At(name) == CHOOSE n \in NodeNamed(parsed, name) : TRUE
  IN IF \E n \in 1..Len(f.op) : PastTheEnd(f.op[n]) THEN Undefined
     ELSE IF \E n \in 1..Len(f.op) :
               Cardinality(NodeNamed(f, f.op[n].name)) > 1 \/ f.op[n].subs # Branches(Kept, f.op[n].type, f.op[n].named)
          THEN Failed
     ELSE IF \E name \in ToSet(f.input \o f.output) : NodeNamed(f, name) = {} THEN Failed
     ELSE IF \E n \in 1..Len(f.op) : ~HandleNodeNameRef(parsed, parsed.op[n]) THEN Failed
     ELSE [made |-> "graph", nodes |-> [n \in 1..Len(f.op) |-> RestoreNode(parsed, parsed.op[n])],
           inputs |-> [k \in 1..Len(f.input) |-> At(f.input[k])],
           outputs |-> [k \in 1..Len(f.output) |-> At(f.output[k])], order |-> <<>>]

Load ==
  /\ file.made = "file" /\ copy = None
  /\ copy' = LoadGraph(file)
  /\ UNCHANGED <<app, ops, graph, file>>

-----------------------------------------------------------------------------
Init ==
  /\ app \in Networks
  /\ ops = [o \in 1..Len(app.ops) |-> Operator(app.ops[o])]
  /\ graph = None
  /\ file = app.file
  /\ copy = None

Next == Call \/ SetInputs \/ SetOutputs \/ Save \/ Load
Spec == Init /\ [][Next]_vars

-----------------------------------------------------------------------------
(* Properties.                                                              *)

\* Operators agree on their links: an input is linked once, and the source lists the
\* reader under that output (operator_impl.cpp:44-133).
LinksAgree ==
  \A o, p \in 1..Len(ops) : \A i \in -1..4, j \in -1..1 :
    LET listed == IF j \in DOMAIN ops[p].out THEN {k \in 1..Len(ops[p].out[j]) : ops[p].out[j][k] = <<o, i>>} ELSE {}
        linked == i \in DOMAIN ops[o].in /\ ops[o].in[i] = <<p, j>>
    IN Cardinality(listed) = (IF linked THEN 1 ELSE 0)

Linked(o, p) == \E i \in DOMAIN ops[o].in : ops[o].in[i][1] = p

\* A graph that is built holds every operator its inputs lead to, along links in
\* either direction, and the links between them; none of these operators was gone,
\* and without a NextIteration it has no cycle: the walk that looks for one gives up
\* at the first such node (graph_spec.cpp:146-157).
GraphMirrorsNetwork ==
  graph.made = "graph" =>
    LET held == {graph.nodes[n].op : n \in 1..Len(graph.nodes)}
        At(o) == CHOOSE n \in 1..Len(graph.nodes) : graph.nodes[n].op = o
        Cycle(s) == s # {} /\ \A o \in s : \E p \in s : Linked(o, p)
    IN /\ Cardinality(held) = Len(graph.nodes)
       /\ \E inputs \in app.inputs : ToSet(inputs) \subseteq held
       /\ \A o \in held, p \in 1..Len(ops) : Linked(o, p) \/ Linked(p, o) => p \in held
       /\ \A o \in held :
            /\ \A i \in 0..(Len(ops[o].described) - 1) :
                 graph.nodes[At(o)].ins[i + 1] =
                   IF i \in DOMAIN ops[o].in THEN <<At(ops[o].in[i][1]), ops[o].in[i][2]>> ELSE <<>>
            /\ graph.nodes[At(o)].ctrl = IF -1 \in DOMAIN ops[o].in THEN <<At(ops[o].in[-1][1])>> ELSE <<>>
       /\ (\A o \in held : ops[o].type # "NextIteration") => ~\E s \in SUBSET held : Cycle(s)

\* Links behind an input without a descriptor: saved descriptors close up, so the
\* position of such a link has none after the reload (op_desc.cpp:128-149).
LinkedBehindGap(node) ==
  node.type \notin NEED_ADD_INPUTDESC /\ \E i, k \in 1..Len(node.ins) : i < k /\ ~node.described[i] /\ node.ins[k] # <<>>
NamesClash(g) == \E m, n \in 1..Len(g.nodes) : m # n /\ g.nodes[m].name = g.nodes[n].name
ControlsOptional(g) == \E n \in 1..Len(g.nodes) : g.nodes[n].type \in NEED_ADD_INPUTDESC /\ g.nodes[n].ctrl # <<>>

\* Two graphs are the same: nodes by name, links, subgraphs, lists; inputs without a
\* link may be missing at the end.
SameGraph(g, h) ==
  /\ Len(g.nodes) = Len(h.nodes)
  /\ \A n \in 1..Len(g.nodes) :
       LET a == g.nodes[n]
           b == h.nodes[n]
           In(node, i) == IF i <= Len(node.ins) THEN node.ins[i] ELSE <<>>
       IN /\ a.name = b.name /\ a.type = b.type /\ a.outs = b.outs /\ a.members = b.members /\ a.ctrl = b.ctrl
          /\ \A i \in 1..5 : In(a, i) = In(b, i)
          /\ ToSet(a.subs) = ToSet(b.subs)
  /\ WalkInNodes(g) = WalkInNodes(h) /\ WalkOutNodes(g) = WalkOutNodes(h)

\* A graph that was saved loads, and is the same, unless names clash or a link lies
\* behind a gap: then the load fails.  It is undefined for a control edge into an
\* operator that gets its descriptors at the reload only (proto_op_def.cpp:47-58).
SavedGraphComesBack ==
  graph.made = "graph" /\ copy # None =>
    /\ copy # Undefined =>
         (copy = Failed <=> NamesClash(graph) \/ \E n \in 1..Len(graph.nodes) : LinkedBehindGap(graph.nodes[n]))
    /\ copy = Undefined => ControlsOptional(graph)
    /\ copy.made = "graph" => SameGraph(graph, copy)

\* A graph that was built saves unless a subgraph was never built, and a graph that
\* was loaded saves and loads again as it is.
SaveFails ==
  file = Failed => \E n \in 1..Len(graph.nodes) : Len(graph.nodes[n].subs) < Len(SaveSubGraphs(graph.nodes[n]))
LoadedSavesAgain ==
  copy.made = "graph" =>
    LET again == SaveGraph(copy) IN again # Failed /\ LoadGraph(again).made = "graph" /\ SameGraph(copy, LoadGraph(again))

\* An old model has the lists of its attributes, and a descriptor for every input, but
\* undefined behaviour where the descriptors are wanted before they are there.
OldModelLoads ==
  graph = None /\ copy # None =>
    \/ copy = Undefined /\ \E n \in 1..Len(file.op) : file.op[n].type \in NEED_ADD_INPUTDESC /\ ~file.op[n].has_out_attr
    \/ copy.made = "graph" /\ \A n \in 1..Len(file.op) : ~file.op[n].has_out_attr => copy.nodes[n].members # <<>>

GraphsComeBack == SavedGraphComesBack /\ SaveFails /\ LoadedSavesAgain /\ OldModelLoads
=============================================================================
