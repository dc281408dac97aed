------------------------------- MODULE IrNode -------------------------------
(***************************************************************************)
(* What the converters of operators do to one node: its attributes, its    *)
(* inputs and the constants linked to them.                                *)
(*                                                                         *)
(* A node is [ok, type, name, attrs, ins, consts, outs, next, graph, subs]:*)
(*   ok      FALSE once a conversion of it has failed                      *)
(*   attrs   the attributes present, each <<kind, value>>; the version     *)
(*           stamp is the attribute "version"                              *)
(*   ins     the input endpoints, each with its descriptor and the         *)
(*           producer linked to it: [dims, op, tensor]; op is Idle when    *)
(*           nothing is linked                                             *)
(*   consts  the is_input_const vector of the operator                     *)
(*   outs    the shapes of the outputs                                     *)
(*   next    the type of the first consumer                                *)
(*   graph   what converters ask of the owner graph                        *)
(*   subs    the subgraphs, each a sequence of Data nodes                  *)
(***************************************************************************)
EXTENDS Integers, Sequences, SequencesExt, TLC

Idle == "Idle"
ConstTypes == {"Const", "QuantizedConst"}
NoTensor == [dims |-> <<>>, dtype |-> "none", data |-> <<>>]
Tensor(dims, dtype, data) == [dims |-> dims, dtype |-> dtype, data |-> data]
Endpoint(dims, op, tensor) == [dims |-> dims, op |-> op, tensor |-> tensor]
ConstEndpoint(t) == Endpoint(t.dims, "Const", t)

Fail(n) == [n EXCEPT !.ok = FALSE]

(***************************************************************************)
(* Attributes. A typed read fails when the attribute has another type; a   *)
(* write replaces the attribute whatever its type.                         *)
(***************************************************************************)
HasAttr(n, a) == a \in DOMAIN n.attrs
IsA(n, a, kind) == HasAttr(n, a) /\ n.attrs[a][1] = kind
GetAttr(n, a, kind, default) == IF IsA(n, a, kind) THEN n.attrs[a][2] ELSE default
GetInt(n, a, default) == GetAttr(n, a, "int", default)
GetBool(n, a, default) == GetAttr(n, a, "bool", default)
GetStr(n, a, default) == GetAttr(n, a, "str", default)
GetFloat(n, a, default) == GetAttr(n, a, "float", default)
GetListInt(n, a) == GetAttr(n, a, "ints", <<>>)
SetAttr(n, a, value) == [n EXCEPT !.attrs = (a :> value) @@ @]
SetInt(n, a, v) == SetAttr(n, a, <<"int", v>>)
SetBool(n, a, v) == SetAttr(n, a, <<"bool", v>>)
SetStr(n, a, v) == SetAttr(n, a, <<"str", v>>)
SetFloat(n, a, v) == SetAttr(n, a, <<"float", v>>)
DelAttr(n, a) == [n EXCEPT !.attrs = [b \in DOMAIN @ \ {a} |-> @[b]]]

\* Attributes that are given a value only if they are missing.
SetMissing(n, values) == [n EXCEPT !.attrs = @ @@ values]
Default(n, a, value) == SetMissing(n, a :> value)

Version(n) == GetInt(n, "version", 0)

(***************************************************************************)
(* Inputs and constants.                                                   *)
(***************************************************************************)
Linked(n, i) == i \in DOMAIN n.ins /\ n.ins[i].op # Idle
IsConst(e) == e.op \in ConstTypes
InEdgeSize(n) == Len(SelectSeq(n.ins, LAMBDA e : e.op # Idle))
GetConstInputs(n) == SelectSeq([i \in DOMAIN n.ins |-> i], LAMBDA i : IsConst(n.ins[i]))
GetUnSetInputIndexs(n) == SelectSeq([i \in DOMAIN n.ins |-> i], LAMBDA i : n.ins[i].op = Idle)
MutableWeights(n) == LET c == GetConstInputs(n) IN [k \in DOMAIN c |-> n.ins[c[k]].tensor]

\* The tensors of the constants are changed in place; their descriptors at the node are not.
ChangeWeights(n, ws) ==
  LET c == GetConstInputs(n)
      at == [i \in ToSet(c) |-> CHOOSE k \in DOMAIN c : c[k] = i]
  IN  [n EXCEPT !.ins = [i \in DOMAIN @ |-> IF i \in DOMAIN at THEN [@[i] EXCEPT !.tensor = ws[at[i]]] ELSE @[i]]]

\* The tensors that are left over become constants: at the endpoints that are not set, then at new ones.
TransTensorToConstInput(n, ws) ==
  LET free == GetUnSetInputIndexs(n)
      kept == [i \in DOMAIN n.ins |-> LET k == {j \in DOMAIN free \cap DOMAIN ws : free[j] = i} IN
                 IF k = {} THEN n.ins[i] ELSE ConstEndpoint(ws[CHOOSE j \in k : TRUE])]
      more == SubSeq(ws, Len(free) + 1, Len(ws))
  IN  [n EXCEPT !.ins = kept \o [k \in DOMAIN more |-> ConstEndpoint(more[k])]]
SetWeights(n, ws) ==
  LET c == Len(GetConstInputs(n)) IN
  IF Len(ws) < c THEN Fail(n)
  ELSE TransTensorToConstInput(ChangeWeights(n, ws), SubSeq(ws, c + 1, Len(ws)))

UpdateIsInputConst(n) == [n EXCEPT !.consts = [i \in DOMAIN n.ins |-> IsConst(n.ins[i])]]
PushIsInputConst(n) == [n EXCEPT !.consts = Append(@, TRUE)]

\* The linked endpoints close up, each with its descriptor, and the idle ones at the end go.
RemoveIdleEndpoint(n) == UpdateIsInputConst([n EXCEPT !.ins = SelectSeq(@, LAMBDA e : e.op # Idle)])

\* Inputs are numbered from 1 here. The edge is taken off, and its producer if it is left alone, if there is an edge.
UnlinkEdgeAndRemoveIsolateInput(n, i) ==
  IF Linked(n, i) THEN [n EXCEPT !.ins[i].op = Idle, !.ins[i].tensor = NoTensor] ELSE n
RemoveSpecificInput(n, i) == RemoveIdleEndpoint(UnlinkEdgeAndRemoveIsolateInput(n, i))

\* `written` is the node as the visitor left it; what the visitor returned is ignored.
TransConstInputToAttr(n, i, written) ==
  IF Linked(n, i) /\ IsConst(n.ins[i]) THEN RemoveSpecificInput(written, i) ELSE Fail(n)

\* A new node between the node and its producer.
InsertBefore(n, i, op, order) ==
  IF Linked(n, i) THEN [n EXCEPT !.ins[i].op = op, !.ins[i].tensor = Tensor(<<>>, "none", order)] ELSE Fail(n)

\* The merged weights of the graph are given back to its constants; one may lie outside the block.
SplitGraphMergedWeight(n) == IF n.graph.merged = "broken" THEN Fail(n) ELSE [n EXCEPT !.graph.merged = "no"]
SplitIfMerged(n) == IF n.graph.merged # "no" THEN SplitGraphMergedWeight(n) ELSE n
=============================================================================
