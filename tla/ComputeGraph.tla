---------------------------- MODULE ComputeGraph ----------------------------
(***************************************************************************)
(* The core of a compute graph (framework/graph/core): the store of nodes, *)
(* the graph's inputs and outputs, the edges between anchors, and the      *)
(* calls that change them: GraphModifier, GraphBypasser, GraphPruner,      *)
(* LegacyGraph::RemoveNode and the sorted walk of GraphTopoWalker.         *)
(*                                                                         *)
(* There are several graphs, and a node may move between them, or be given *)
(* to a second one while the first still holds it.  A node that is in no   *)
(* graph stands for one that is yet to be made: the last graph that lets   *)
(* go of a node frees it.  One thread edits the graphs.  Adding a node to  *)
(* a graph it is in, and moving one out of a graph it is not in, is refused *)
(* before anything changes, and left out.                                  *)
(***************************************************************************)
EXTENDS Integers, Sequences, FiniteSets, SequencesExt

CONSTANTS
  Graph, Node,
  Kind,       \* what the type of each node says of it
  Ins, Outs,  \* how many data anchors each node has
  Address,    \* where the allocator put each node
  Start,      \* the graphs the calls begin with
  Edge,       \* the edges AddEdge is asked for
  Lists,      \* the nodes SetInputs and SetOutputs are given
  None,       \* no node
  MAX_CALLS   \* bound: calls in a behaviour

VARIABLES
  store,    \* GraphStore::nodes_
  inputs, outputs,
  change,   \* GraphTopoWalker::change_: the store may not be in order
  edges,    \* the peers of all anchors
  ok,       \* the last call returned SUCCESS
  shared,   \* history: the nodes that were put into a graph while another one held them
  call,     \* history: the last call, its graph and the node it was about
  calls     \* history: number of calls

lists == <<store, inputs, outputs>>
vars == <<lists, change, edges, shared, ok, call, calls>>

Kinds == {"Data", "Const", "Op", "NetOutput"}

Links == [src : Node, out : Int, dst : Node, in : Int]

ASSUME GraphAssumption ==
  /\ Kind \in [Node -> Kinds]
  /\ Ins \in [Node -> Nat] /\ Outs \in [Node -> Nat]
  /\ Address \in [Node -> Nat]
  /\ \A m, n \in Node : Address[m] = Address[n] => m = n
  /\ IsFiniteSet(Node)
  /\ Edge \subseteq Links /\ Lists \subseteq Seq(Node)
  /\ None \notin Node
  /\ MAX_CALLS \in Nat

-----------------------------------------------------------------------------
(* Edges *)

\* The index of a control anchor.
CTRL == -1

Link(src, out, dst, in) == [src |-> src, out |-> out, dst |-> dst, in |-> in]

IsData(e) == e.out >= 0 /\ e.in >= 0
IsCtrl(e) == e.out = CTRL /\ e.in = CTRL

InData(E, n) == {e \in E : e.dst = n /\ IsData(e)}
InCtrl(E, n) == {e \in E : e.dst = n /\ IsCtrl(e)}
OutData(E, n) == {e \in E : e.src = n /\ IsData(e)}
OutCtrl(E, n) == {e \in E : e.src = n /\ IsCtrl(e)}

Fed(E, n, i) == \E e \in E : e.dst = n /\ e.in = i

\* Faulty variant: the anchors are not looked up.
LinkableAnywhere(E, e) == IF IsCtrl(e) THEN e \notin E ELSE ~Fed(E, e.dst, e.in)

\* NodeStore::AddEdge and LinkTo of the anchors.
Linkable(E, e) ==
  \/ IsCtrl(e) /\ e \notin E
  \/ /\ e.out \in 0 .. Outs[e.src] - 1
     /\ e.in \in 0 .. Ins[e.dst] - 1
     /\ ~Fed(E, e.dst, e.in)

\* The anchors of an edge are there.
Anchored(e) ==
  IsCtrl(e) \/ (e.out \in 0 .. Outs[e.src] - 1 /\ e.in \in 0 .. Ins[e.dst] - 1)

\* The nodes of S and those they read from, directly or not.
Upstream(E, S) ==
  LET up[k \in 0 .. Cardinality(Node)] ==
        IF k = 0 THEN S
        ELSE LET T == up[k - 1] IN T \cup {e.src : e \in {d \in E : d.dst \in T}}
  IN up[Cardinality(Node)]

\* Stores, inputs and outputs of the graphs, and edges, that go together; two graphs
\* have no nodes in common but those of S.
Owned(Of, In, Out, E, S) ==
  /\ \A g \in Graph : IsInjective(Of[g])
  /\ \A g, h \in Graph : g # h => ToSet(Of[g]) \cap ToSet(Of[h]) \subseteq S
  /\ \A g \in Graph : ToSet(In[g]) \cup ToSet(Out[g]) \subseteq ToSet(Of[g])
  /\ \A e \in E : {e.src, e.dst} \subseteq UNION {ToSet(Of[g]) : g \in Graph}
  /\ \A d, e \in E : IsData(d) /\ d.dst = e.dst /\ d.in = e.in => d = e

\* The calls begin with graphs that earlier calls may have made.
ASSUME StartAssumption ==
  \A s \in Start :
    /\ s.store \in [Graph -> Seq(Node)]
    /\ s.inputs \in [Graph -> Seq(Node)] /\ s.outputs \in [Graph -> Seq(Node)]
    /\ s.edges \subseteq Links /\ IsFiniteSet(s.edges) /\ \A e \in s.edges : Anchored(e)
    /\ Owned(s.store, s.inputs, s.outputs, s.edges, {})

-----------------------------------------------------------------------------
(* What a call has done so far: the edges it leaves, the nodes it took out, *)
(* whether it told the listeners, and whether it still goes well.           *)

Same == [ok |-> TRUE, edges |-> edges, gone |-> {}, told |-> FALSE]
Failed(r) == [r EXCEPT !.ok = FALSE]

Stored(g) == ToSet(store[g])
AllStored == UNION {Stored(g) : g \in Graph}

\* Faulty variant: an edge is added and nobody is told.
AddedSilently(r, e) == [r EXCEPT !.edges = @ \cup {e}]

Added(r, e) == [r EXCEPT !.edges = @ \cup {e}, !.told = TRUE]

\* A step of a call: "add" and "del" are GraphModifier's AddEdge and RemoveEdge,
\* "ensure" adds a control edge unless it is there, "unlink" tells nobody, and
\* "fail" gives up.
Step(g, r, s) ==
  LET e == s.edge
      inGraph == {e.src, e.dst} \subseteq Stored(g) \ r.gone
  IN
  IF ~r.ok THEN r ELSE
  CASE s.op \in {"del", "unlink"} /\ inGraph /\ e \in r.edges ->
         [r EXCEPT !.edges = @ \ {e}, !.told = @ \/ s.op = "del"]
    [] s.op = "ensure" /\ inGraph /\ e \in r.edges -> r
    [] s.op \in {"add", "ensure"} /\ inGraph /\ e.src # e.dst /\ Linkable(r.edges, e) ->
         Added(r, e)
    [] OTHER -> Failed(r)

Do(op, e) == [op |-> op, edge |-> e]

\* GraphModifier::RemoveNode: a node that leaves the graph loses its edges.
Removed(r, n) ==
  [r EXCEPT !.edges = {e \in @ : n \notin {e.src, e.dst}}, !.gone = @ \cup {n}, !.told = TRUE]

\* GraphStore::RemoveNode leaves the edges alone; NodeStore::~NodeStore drops them
\* unless another graph holds the node.
Released(g, r, n) ==
  IF \E h \in Graph \ {g} : n \in Stored(h)
  THEN [r EXCEPT !.gone = @ \cup {n}, !.told = TRUE]
  ELSE Removed(r, n)

\* The list without the nodes of S.
Without(s, S) == FoldLeft(LAMBDA q, n : IF n \in S THEN q ELSE Append(q, n), <<>>, s)

ByAddress(S) ==
  CHOOSE s \in SetToSeqs(S) : \A i, j \in DOMAIN s : i < j => Address[s[i]] < Address[s[j]]

\* Faulty variant: the node is erased once.
EraseFirst(s, S) ==
  IF S = {} THEN s ELSE
    LET n == CHOOSE m \in S : TRUE IN
    IF Contains(s, n) THEN RemoveAt(s, SelectInSeq(s, LAMBDA m : m = n)) ELSE s

\* EraseNode sorts the list by pointer and drops doubles, whether it finds the
\* node or not.
Erase(s, S) == IF S = {} THEN s ELSE ByAddress(ToSet(s) \ S)

Return(op, g, n, o) ==
  /\ ok' = o
  /\ call' = [op |-> op, graph |-> g, node |-> n]

Commit(g, r) ==
  /\ store' = [store EXCEPT ![g] = Without(@, r.gone)]
  /\ inputs' = [inputs EXCEPT ![g] = Erase(@, r.gone)]
  /\ outputs' = [outputs EXCEPT ![g] = Erase(@, r.gone)]
  /\ edges' = r.edges
  /\ change' = [change EXCEPT ![g] = @ \/ r.told]
  /\ UNCHANGED shared

-----------------------------------------------------------------------------
(* Nodes *)

\* The node is new, or comes with a pointer to it that another graph has as well.
AddNode(g, n) ==
  /\ n \notin Stored(g)
  /\ store' = [store EXCEPT ![g] = Append(@, n)]
  /\ change' = [change EXCEPT ![g] = TRUE]
  /\ shared' = IF n \in AllStored THEN shared \cup {n} ELSE shared \ {n}
  /\ Return("add", g, n, TRUE)
  /\ UNCHANGED <<inputs, outputs, edges>>

\* A new node, behind the first one when that is Data.
AddNodeFront(g, n) ==
  /\ n \notin AllStored
  /\ LET offset == IF store[g] # <<>> /\ Kind[Head(store[g])] = "Data" THEN 1 ELSE 0 IN
       store' = [store EXCEPT ![g] = InsertAt(@, offset + 1, n)]
  /\ change' = [change EXCEPT ![g] = TRUE]
  /\ shared' = shared \ {n}
  /\ Return("add", g, n, TRUE)
  /\ UNCHANGED <<inputs, outputs, edges>>

RemoveNode(g, n) ==
  LET r == IF n \in Stored(g) THEN Removed(Same, n) ELSE Failed(Same) IN
  Commit(g, r) /\ Return("remove", g, n, r.ok)

\* The status of each removal is dropped.
RemoveNodes(g, m, n) ==
  /\ m \in Stored(g) /\ n # m
  /\ Commit(g, IF n \in Stored(g) THEN Removed(Removed(Same, m), n) ELSE Removed(Same, m))
  /\ Return("removeAll", g, None, TRUE)

\* Faulty variant: a constant goes though others read it.
ConstStepAlways(g, r, e) ==
  LET q == Step(g, r, Do("del", e)) IN
  IF q.ok THEN Released(g, q, e.src) ELSE q

\* Takes a constant off its reader, and out when nothing else is linked behind it.
ConstStep(g, r, e) ==
  LET q == Step(g, r, Do("del", e)) IN
  IF q.ok /\ \A f \in q.edges : f.src # e.src THEN Released(g, q, e.src) ELSE q

ConstSteps(g, r, consts) == FoldLeft(LAMBDA q, e : ConstStep(g, q, e), r, consts)

\* Edges to one node by the anchor they enter.
ByAnchor(E) == {s \in SetToSeqs(E) : \A i, j \in DOMAIN s : i < j => s[i].in < s[j].in}

WithoutConsts(g, n) ==
  LET consts == CHOOSE s \in ByAnchor({e \in InData(edges, n) : Kind[e.src] = "Const"}) : TRUE IN
  ConstSteps(g, Same, consts)

RemoveNodeWithConstInputs(g, n) ==
  /\ n \in Stored(g)
  /\ LET q == WithoutConsts(g, n)
         r == IF q.ok THEN Removed(q, n) ELSE q
     IN Commit(g, r) /\ Return("remove", g, n, r.ok)

-----------------------------------------------------------------------------
(* Edges *)

EdgeCall(g, step) ==
  LET r == Step(g, Same, step) IN Commit(g, r) /\ Return("edge", g, None, r.ok)

AddEdge(g, e) == EdgeCall(g, Do("add", e))

\* RemoveEdge(const Edge&)
RemoveEdge(g, e) == EdgeCall(g, Do("del", e))

\* RemoveEdge(const Endpoint&, const Endpoint&)
RemoveEdgeOfEndpoints(g, e) == EdgeCall(g, Do("unlink", e))

\* RemoveEdge(const Node&, const Node&): the first data edge between two nodes.
RemoveEdgeBetween(g, m, n) ==
  LET between == {e \in InData(edges, n) : e.src = m} IN
  EdgeCall(g, IF between = {} THEN Do("fail", Link(m, 0, n, 0))
              ELSE Do("unlink", CHOOSE e \in between : \A d \in between : e.in <= d.in))

HasSingleIdleInputAndSingleOutput(n) ==
  Cardinality({i \in 0 .. Ins[n] - 1 : ~Fed(edges, n, i)}) = 1 /\ Outs[n] = 1

\* The inserted node is linked by its input 0.
InsertBefore(g, target, idx, n) ==
  /\ {target, n} \subseteq Stored(g)
  /\ LET feeds == {e \in InData(edges, target) : e.in = idx}
         old == CHOOSE e \in feeds : TRUE
         p == Step(g, Same, Do("unlink", old))
         q == Step(g, p, Do("add", Link(old.src, old.out, n, 0)))
         r == IF feeds = {} \/ ~HasSingleIdleInputAndSingleOutput(n) THEN Failed(Same)
              ELSE Step(g, q, Do("add", Link(n, 0, target, idx)))
     IN Commit(g, r) /\ Return("insert", g, n, r.ok)

Relink(g, r, n, e) ==
  Step(g, Step(g, r, Do("del", e)), Do("add", Link(n, 0, e.dst, e.in)))

RelinkAll(g, r, n, peers) == FoldLeft(LAMBDA q, e : Relink(g, q, n, e), r, peers)

InsertAfter(g, target, idx, n) ==
  /\ {target, n} \subseteq Stored(g)
  /\ \E peers \in SetToSeqs({e \in OutData(edges, target) : e.out = idx}) :
       LET q == RelinkAll(g, Same, n, peers)
           r == IF ~HasSingleIdleInputAndSingleOutput(n) THEN Failed(Same)
                ELSE Step(g, q, Do("add", Link(target, idx, n, 0)))
       IN Commit(g, r) /\ Return("insert", g, n, r.ok)

-----------------------------------------------------------------------------
(* GraphBypasser *)

PreCheck(g, E, n) ==
  /\ n \in Stored(g)
  /\ \/ Cardinality(InData(E, n)) = 1 /\ OutData(E, n) \cup OutCtrl(E, n) # {}
     \/ /\ InData(E, n) = {} /\ OutData(E, n) = {}
        /\ InCtrl(E, n) # {} /\ OutCtrl(E, n) # {}

\* Faulty variant: only the data edges are saved.
InOrdersData(E, n) == ByAnchor(InData(E, n))

\* The orders in which ListInEdges and ListOutEdges may name the edges: those of
\* an anchor are in the order they were linked.
InOrders(E, n) ==
  {d \o c : d \in ByAnchor(InData(E, n)), c \in SetToSeqs(InCtrl(E, n))}
OutOrders(E, n) ==
  {d \o c : d \in {s \in SetToSeqs(OutData(E, n)) : \A i, j \in DOMAIN s : i < j => s[i].out <= s[j].out},
            c \in SetToSeqs(OutCtrl(E, n))}

\* The in edge s and the out edge d of the node become one.
LinkPoint(s, d) ==
  IF IsData(s) /\ IsCtrl(d) THEN Do("ensure", Link(s.src, CTRL, d.dst, CTRL))
  ELSE IF IsCtrl(s) /\ IsData(d) THEN Do("fail", d)
  ELSE Do("add", Link(s.src, s.out, d.dst, d.in))

LinkTo(g, r, s, dsts) == FoldLeft(LAMBDA q, d : Step(g, q, LinkPoint(s, d)), r, dsts)

LinkPoints(g, r, srcs, dsts) == FoldLeft(LAMBDA q, s : LinkTo(g, q, s, dsts), r, srcs)

\* What ByPassNode may do after r; the node is out before its edges are joined.
ByPassed(g, r, n) ==
  IF PreCheck(g, r.edges, n)
  THEN {LinkPoints(g, Removed(r, n), srcs, dsts) :
          srcs \in InOrders(r.edges, n), dsts \in OutOrders(r.edges, n)}
  ELSE {Failed(r)}

ByPassNode(g, n) ==
  \E r \in ByPassed(g, Same, n) : Commit(g, r) /\ Return("bypass", g, n, r.ok)

\* LegacyGraph::RemoveNode
LegacyRemoveNode(g, n) ==
  LET q == WithoutConsts(g, n)
      results == IF ~q.ok \/ n \notin Stored(g) THEN {Failed(q)}
                 ELSE IF PreCheck(g, q.edges, n) THEN ByPassed(g, q, n)
                 ELSE {Removed(q, n)}
  IN \E r \in results : Commit(g, r) /\ Return("remove", g, n, r.ok)

\* Takes the node out of graph h; it is destroyed when that fails half way.
MoveNodeFrom(g, h, n) ==
  /\ n \in Stored(h) \ Stored(g)
  /\ \E r \in ByPassed(h, Same, n) :
       /\ inputs' = [inputs EXCEPT ![h] = Erase(@, r.gone)]
       /\ outputs' = [outputs EXCEPT ![h] = Erase(@, r.gone)]
       /\ edges' = r.edges
       /\ store' = [store EXCEPT ![h] = Without(@, r.gone),
                                 ![g] = IF r.ok THEN Append(@, n) ELSE @]
       /\ change' = [change EXCEPT ![h] = @ \/ r.told, ![g] = @ \/ r.ok]
       /\ Return("bypass", g, n, r.ok)
  /\ UNCHANGED shared

\* The node keeps its edges.  Graph g has let go of it before graph h is asked whether
\* it has the node already.
MoveNode(g, h, n) ==
  /\ g # h /\ n \in Stored(g)
  /\ LET new == n \notin Stored(h) IN
       /\ store' = [store EXCEPT ![g] = Without(@, {n}), ![h] = IF new THEN Append(@, n) ELSE @]
       /\ change' = [change EXCEPT ![g] = TRUE, ![h] = @ \/ new]
       /\ Return("move", g, n, new)
  /\ inputs' = [inputs EXCEPT ![g] = Erase(@, {n})]
  /\ outputs' = [outputs EXCEPT ![g] = Erase(@, {n})]
  /\ UNCHANGED <<edges, shared>>

-----------------------------------------------------------------------------
(* Inputs, outputs, pruning and the sorted walk *)

AddInput(g, n) ==
  /\ inputs' = IF n \in Stored(g) THEN [inputs EXCEPT ![g] = Append(@, n)] ELSE inputs
  /\ Return("list", g, None, n \in Stored(g))
  /\ UNCHANGED <<store, outputs, edges, change, shared>>

AddOutput(g, n) ==
  /\ outputs' = IF n \in Stored(g) THEN [outputs EXCEPT ![g] = Append(@, n)] ELSE outputs
  /\ Return("list", g, None, n \in Stored(g))
  /\ UNCHANGED <<store, inputs, edges, change, shared>>

\* The nodes of s up to the first that is not in the graph.
Found(g, s) ==
  LET missing == SelectInSeq(s, LAMBDA n : n \notin Stored(g)) IN
  IF missing = 0 THEN s ELSE SubSeq(s, 1, missing - 1)

SetInputs(g, s) ==
  /\ inputs' = [inputs EXCEPT ![g] = Found(g, s)]
  /\ Return("list", g, None, Found(g, s) = s)
  /\ UNCHANGED <<store, outputs, edges, change, shared>>

SetOutputs(g, s) ==
  /\ outputs' = [outputs EXCEPT ![g] = Found(g, s)]
  /\ Return("list", g, None, Found(g, s) = s)
  /\ UNCHANGED <<store, inputs, edges, change, shared>>

RemoveOutputNode(g, n) ==
  /\ n \in Stored(g)
  /\ outputs' = [outputs EXCEPT ![g] = Erase(@, {n})]
  /\ Return("list", g, None, Contains(outputs[g], n))
  /\ UNCHANGED <<store, inputs, edges, change, shared>>

\* GraphListWalker::WalkOutNodes
OutNodes(g) ==
  IF outputs[g] # <<>> THEN ToSet(outputs[g]) ELSE {n \in Stored(g) : Kind[n] = "NetOutput"}

\* Faulty variant: a node that only a control edge needs is dead.
ActiveNodesData(g) ==
  ToSet(inputs[g]) \cup Upstream({e \in edges : IsData(e)}, OutNodes(g))

ActiveNodes(g) == ToSet(inputs[g]) \cup Upstream(edges, OutNodes(g))

\* The walk up from the outputs remembers no node: it ends only without a cycle.
Prune(g) ==
  LET dead == Stored(g) \ ActiveNodes(g) IN
  /\ \A n \in Upstream(edges, OutNodes(g)) : n \notin Upstream(edges, {e.src : e \in {d \in edges : d.dst = n}})
  /\ store' = [store EXCEPT ![g] = Without(@, dead)]
  /\ edges' = {e \in edges : {e.src, e.dst} \cap dead = {}}
  /\ change' = [change EXCEPT ![g] = @ \/ dead # {}]
  /\ Return("prune", g, None, TRUE)
  /\ UNCHANGED <<inputs, outputs, shared>>

\* Every node comes after those it reads from, which are in the graph.
InOrder(s) ==
  \A e \in edges : \A j \in DOMAIN s : s[j] = e.dst => \E i \in 1 .. j - 1 : s[i] = e.src

\* The nodes of S in order, a node at a time: what the sort of GraphSorter returns.
Sorted(g) ==
  LET ready(s) == {n \in Stored(g) \ ToSet(s) :
                     \A e \in edges : e.dst = n => e.src \in ToSet(s)}
      begun[k \in 0 .. Len(store[g])] ==
        IF k = 0 THEN {<<>>}
        ELSE UNION {{Append(s, n) : n \in ready(s)} : s \in begun[k - 1]}
  IN {s \in begun[Len(store[g])] : s # <<>> => Kind[s[1]] = "Data"}

MayFail(g) ==
  \/ Sorted(g) = {}
  \/ \E n \in Stored(g) : Kind[n] # "Data" /\ \A e \in edges : e.dst # n

\* Walks the nodes in order, sorting them first when something changed.
DFSWalk(g) ==
  /\ \/ /\ ~change[g]
        /\ UNCHANGED <<store, change>>
        /\ Return("walk", g, None, TRUE)
     \/ /\ change[g]
        /\ \E s \in Sorted(g) : store' = [store EXCEPT ![g] = s]
        /\ change' = [change EXCEPT ![g] = FALSE]
        /\ Return("walk", g, None, TRUE)
     \/ /\ change[g] /\ MayFail(g)
        /\ UNCHANGED <<store, change>>
        /\ Return("walk", g, None, FALSE)
  /\ UNCHANGED <<inputs, outputs, edges, shared>>

-----------------------------------------------------------------------------
(* Specification *)

Init ==
  /\ \E s \in Start :
       store = s.store /\ inputs = s.inputs /\ outputs = s.outputs /\ edges = s.edges
  /\ change = [g \in Graph |-> TRUE]
  /\ shared = {}
  /\ ok = TRUE
  /\ call = [op |-> "none", graph |-> None, node |-> None]
  /\ calls = 0

NodeCall(g, n) ==
  \/ AddNode(g, n) \/ AddNodeFront(g, n)
  \/ RemoveNode(g, n) \/ RemoveNodeWithConstInputs(g, n) \/ LegacyRemoveNode(g, n)
  \/ ByPassNode(g, n)
  \/ AddInput(g, n) \/ AddOutput(g, n) \/ RemoveOutputNode(g, n)
  \/ \E m \in Node : RemoveNodes(g, m, n) \/ RemoveEdgeBetween(g, m, n)
  \/ \E h \in Graph : MoveNodeFrom(g, h, n) \/ MoveNode(g, h, n)

Indices == 0 .. 1

Next ==
  /\ calls < MAX_CALLS
  /\ calls' = calls + 1
  /\ \E g \in Graph :
       \/ \E n \in Node : NodeCall(g, n)
       \/ \E e \in Edge : AddEdge(g, e)
       \/ \E e \in edges : RemoveEdge(g, e) \/ RemoveEdgeOfEndpoints(g, e)
       \/ \E target, n \in Stored(g), idx \in Indices :
            InsertBefore(g, target, idx, n) \/ InsertAfter(g, target, idx, n)
       \/ \E s \in Lists : SetInputs(g, s) \/ SetOutputs(g, s)
       \/ Prune(g)
       \/ DFSWalk(g)

Spec == Init /\ [][Next]_vars
-----------------------------------------------------------------------------
(* Properties *)

Calls == {"none", "add", "remove", "removeAll", "edge", "insert", "bypass", "move",
          "list", "prune", "walk"}

\* Type invariant; every anchor an edge names is there.
TypeOK ==
  /\ store \in [Graph -> Seq(Node)]
  /\ inputs \in [Graph -> Seq(Node)] /\ outputs \in [Graph -> Seq(Node)]
  /\ change \in [Graph -> BOOLEAN]
  /\ edges \subseteq Links /\ \A e \in edges : Anchored(e)
  /\ shared \subseteq Node
  /\ ok \in BOOLEAN
  /\ call \in [op : Calls, graph : Graph \cup {None}, node : Node \cup {None}]
  /\ calls \in 0 .. MAX_CALLS

\* A node is in one graph at most, unless it was given to a second one (graph_modifier.cpp:55
\* asks the graph it comes to, and no other), and once; the inputs and outputs of a graph are
\* nodes of it, also when a node leaves that was listed twice; no edge leads to or
\* from a node that is gone; a data input has one source (anchor.cpp:164).
NodesOwned == Owned(store, inputs, outputs, edges, shared)

\* A graph that is not marked as changed is in order, so that a walk that skips the
\* sort (graph_topo_walker.cpp:29) visits no node before one it reads from.  An edge
\* between nodes that two graphs have is told to one of them only.
OrderCurrent ==
  \A g \in Graph : ~change[g] /\ Stored(g) \cap shared = {} => InOrder(store[g]) /\ (store[g] # <<>> => Kind[store[g][1]] = "Data")

\* Edges d and e end at the same anchor and bring the output of the same anchor,
\* one of them through node n as edges E link it.
SameValue(E, d, e, n) ==
  /\ d.dst = e.dst /\ d.in = e.in
  /\ \/ d.src = e.src /\ d.out = e.out
     \/ e.src = n /\ \E f \in InData(E, n) : f.src = d.src /\ f.out = d.out

\* After a node was inserted, bypassed or moved away, every input of every other
\* node still gets the output it got before, through the inserted or without the
\* bypassed node, and every node still waits for those it waited for, by data or
\* control edges.
ReadersKept ==
  [][ call'.op \in {"insert", "bypass"} /\ ok' =>
        LET n == call'.node IN
        /\ \A d \in {e \in edges : IsData(e) /\ e.dst # n} : \E e \in edges' :
             SameValue(edges', d, e, n) \/ SameValue(edges, e, d, n)
        /\ \A m \in AllStored' \ {n} :
             Upstream(edges, {m}) \ {n} \subseteq Upstream(edges', {m}) ]_vars

\* Removing or bypassing a node, whether that succeeds or fails, leaves every edge
\* between other nodes, and takes along only constants that nothing else reads.
OthersKept ==
  [][ call'.op \in {"remove", "bypass"} =>
        LET gone == AllStored \ AllStored' IN
        /\ {e \in edges : {e.src, e.dst} \cap (gone \cup {call'.node}) = {}} \subseteq edges'
        /\ \A m \in gone \ {call'.node} :
             Kind[m] = "Const" /\ \A e \in edges : e.src = m => e.dst \in gone \cup {call'.node} ]_vars

\* Pruning leaves what the outputs depend on as it was.
PruneKeepsOutputs ==
  [][ call'.op = "prune" =>
        \A g \in {call'.graph} :
          LET live == Upstream(edges, OutNodes(g)) IN
          /\ OutNodes(g) \subseteq Stored(g)'
          /\ {e \in edges : e.dst \in live} \subseteq edges' ]_vars

-----------------------------------------------------------------------------
(* What the runs check together *)

\* Nodes, edges and the order of every graph describe one graph.
StructureSound == NodesOwned /\ OrderCurrent

\* An edit disturbs neither the readers of what it moves nor anything else.
EdgesKept == ReadersKept /\ OthersKept

=============================================================================
