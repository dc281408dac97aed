----------------------------- MODULE GraphSorter -----------------------------
(***************************************************************************)
(* GraphSorter::SortNodesDFS (framework/graph/core/cgraph/graph_sorter.cpp): *)
(* puts the nodes of a compute graph into an order in which every node     *)
(* comes after the nodes it reads from, the inputs in the order the user   *)
(* gave.                                                                   *)
(*                                                                         *)
(* Edges may come from and go to nodes that are not in the graph (they     *)
(* were moved to another one).  An edge is a record with its source, its   *)
(* destination and the anchor it enters; data and control edges count      *)
(* alike.                                                                  *)
(***************************************************************************)
EXTENDS Naturals, Sequences, FiniteSets

CONSTANTS
  Node,       \* nodes, in this graph or another
  Edge,       \* the edges there may be
  Store,      \* the nodes of a graph, in the orders they may be stored in
  Order,      \* the orders of inputs a user may give
  Kind,       \* what the type of each node says of it
  SIZE_MAX,   \* largest value of std::size_t
  None        \* no position in the user's order of inputs

\* Types in both of node_checker.cpp's lists (Data, ImageData, ...), in the
\* list of graph inputs only (ConfigData), in that of types without inputs only
\* (Aipp, Input, ...), NextIteration, and all others.
Kinds == {"Data", "ConfigData", "Source", "NextIteration", "Op"}
GraphInputTypes == {"Data", "ConfigData"}
NonInputTypes == {"Data", "Source"}

Elements(s) == {s[i] : i \in 1 .. Len(s)}

Distinct(s) == \A i, j \in 1 .. Len(s) : s[i] = s[j] => i = j

ASSUME SorterAssumption ==
  /\ IsFiniteSet(Edge)
  /\ \A e \in Edge : e.src \in Node /\ e.dst \in Node
  /\ Store \subseteq Seq(Node)
  /\ \A s \in Store : Distinct(s)
  /\ Order \subseteq [Node -> Nat \cup {None}]
  /\ Kind \in [Node -> Kinds]
  /\ SIZE_MAX \in Nat /\ Cardinality(Edge) < SIZE_MAX
  /\ None \notin Nat

VARIABLES
  (* the graph *)
  nodes,         \* QuickQueryNodes::store_
  edges,
  inputOrder,    \* inputOrder_, by node: its position or None
  (* members of the GraphDfsSorter *)
  noEntryNodes,  \* a list used as a stack: its top is the last element
  dataIter,      \* dataIter_, as a position in the list
  nodeEdgeMap,
  dfsNodes,
  (* locals *)
  pc,
  next,          \* position of the walk over all nodes
  outEdges,      \* out edges of the node visited last that are not listed yet
  (* history *)
  given          \* the nodes as they were at first

graph == <<edges, inputOrder, given>>
vars == <<nodes, graph, noEntryNodes, dataIter, nodeEdgeMap, dfsNodes, pc, next, outEdges>>

Mapped == Elements(nodes)

InEdges(n) == {e \in edges : e.dst = n}

-----------------------------------------------------------------------------
(* PrepareNodes *)

\* Faulty variant: the loop's back edge counts.
InEdgeSizePlain(n) == Cardinality(InEdges(n))

\* Faulty variant: two edges from one node count once.
InEdgeSizeNodes(n) ==
  LET size == Cardinality({e.src : e \in InEdges(n)}) IN
  IF Kind[n] = "NextIteration" /\ size > 0 THEN size - 1 ELSE size

\* The in edges a node waits for; a loop enters NextIteration from behind.
InEdgeSize(n) ==
  LET size == Cardinality(InEdges(n)) IN
  IF Kind[n] = "NextIteration" /\ size > 0 THEN size - 1 ELSE size

\* std::list::insert before position i.
Insert(s, i, n) ==
  [j \in 1 .. Len(s) + 1 |-> IF j < i THEN s[j] ELSE IF j = i THEN n ELSE s[j - 1]]

\* Faulty variant: every node without entry goes to the top.
SaveNoEntryNodeOnTop(n) ==
  /\ noEntryNodes' = Append(noEntryNodes, n)
  /\ UNCHANGED dataIter

SaveNoEntryNode(n) ==
  IF Kind[n] \in NonInputTypes
  THEN /\ noEntryNodes' = Insert(noEntryNodes, dataIter, n)
       /\ UNCHANGED dataIter
  ELSE /\ noEntryNodes' = Insert(noEntryNodes, 1, n)
       /\ dataIter' = dataIter + 1

Visit ==
  /\ pc = "prepare" /\ next <= Len(nodes)
  /\ LET n == nodes[next] IN
       /\ nodeEdgeMap' = [nodeEdgeMap EXCEPT ![n] = InEdgeSize(n)]
       /\ IF InEdgeSize(n) = 0
          THEN SaveNoEntryNode(n)
          ELSE UNCHANGED <<noEntryNodes, dataIter>>
  /\ next' = next + 1
  /\ UNCHANGED <<nodes, graph, dfsNodes, pc, outEdges>>

\* SortByOrder with the order of a stack.
Before(a, b) ==
  IF inputOrder[a] # None /\ inputOrder[b] # None
  THEN inputOrder[a] > inputOrder[b]
  ELSE inputOrder[b] # None

\* Taking the elements of s in the order p sorts them stably.
StableSort(s, p) ==
  /\ Distinct(p)
  /\ \A i, j \in 1 .. Len(s) : i < j =>
       /\ ~Before(s[p[j]], s[p[i]])
       /\ p[i] < p[j] \/ Before(s[p[i]], s[p[j]])

PrepareNoEntryNodes ==
  /\ pc = "prepare" /\ next > Len(nodes)
  /\ \E p \in [1 .. Len(noEntryNodes) -> 1 .. Len(noEntryNodes)] :
       /\ StableSort(noEntryNodes, p)
       /\ noEntryNodes' = [i \in 1 .. Len(noEntryNodes) |-> noEntryNodes[p[i]]]
  /\ pc' = "walk"
  /\ UNCHANGED <<nodes, graph, dataIter, nodeEdgeMap, dfsNodes, next, outEdges>>

-----------------------------------------------------------------------------
(* SortDfsNodes *)

\* Takes the node on the top of the stack.
WalkNode ==
  /\ pc = "walk" /\ outEdges = {} /\ noEntryNodes # <<>>
  /\ LET n == noEntryNodes[Len(noEntryNodes)] IN
       /\ dfsNodes' = Append(dfsNodes, n)
       /\ outEdges' = {e \in edges : e.src = n}
  /\ noEntryNodes' = SubSeq(noEntryNodes, 1, Len(noEntryNodes) - 1)
  /\ UNCHANGED <<nodes, graph, dataIter, nodeEdgeMap, pc, next>>

\* Faulty variant: the count is a signed number.
DecrementedSigned(x) == x - 1

\* Faulty variant: the count stops at zero.
DecrementedToZero(x) == IF x = 0 THEN 0 ELSE x - 1

\* An unsigned number of std::size_t.
Decremented(x) == IF x = 0 THEN SIZE_MAX ELSE x - 1

Ready(x) == x = 0

\* The visitor of ListOutEdges; the order of the edges is not determined by the
\* graph's nodes.
WalkEdge ==
  /\ pc = "walk"
  /\ \E e \in outEdges :
       /\ outEdges' = outEdges \ {e}
       /\ IF e.dst \in Mapped
          THEN LET size == Decremented(nodeEdgeMap[e.dst]) IN
               /\ nodeEdgeMap' = [nodeEdgeMap EXCEPT ![e.dst] = size]
               /\ noEntryNodes' = IF Ready(size) THEN Append(noEntryNodes, e.dst)
                                                 ELSE noEntryNodes
          ELSE UNCHANGED <<nodeEdgeMap, noEntryNodes>>
  /\ UNCHANGED <<nodes, graph, dataIter, dfsNodes, pc, next>>

IsBeginWithData == dfsNodes # <<>> => Kind[dfsNodes[1]] \in GraphInputTypes

\* Faulty variant: a graph with a cycle is sorted as far as it goes.
IsGraphNoCycleEver == TRUE

IsGraphNoCycle == Len(dfsNodes) = Cardinality(Mapped)

CheckGraphValid ==
  /\ pc = "walk" /\ outEdges = {} /\ noEntryNodes = <<>>
  /\ pc' = IF IsBeginWithData /\ IsGraphNoCycle THEN "write" ELSE "failed"
  /\ next' = 1
  /\ UNCHANGED <<nodes, graph, noEntryNodes, dataIter, nodeEdgeMap, dfsNodes, outEdges>>

-----------------------------------------------------------------------------
(* WriteBackNodes: QuickQueryNodes::UpdateNodes *)

Swapped(s, i, j) == [s EXCEPT ![i] = s[j], ![j] = s[i]]

\* The search starts at the current position and always finds the node.
UpdateNode ==
  /\ pc = "write" /\ next <= Len(dfsNodes)
  /\ \E j \in next .. Len(nodes) :
       /\ nodes[j] = dfsNodes[next]
       /\ nodes' = Swapped(nodes, next, j)
  /\ next' = next + 1
  /\ UNCHANGED <<graph, noEntryNodes, dataIter, nodeEdgeMap, dfsNodes, pc, outEdges>>

UpdateDone ==
  /\ pc = "write" /\ next > Len(dfsNodes)
  /\ pc' = IF next > Len(nodes) THEN "sorted" ELSE "failed"
  /\ UNCHANGED <<nodes, graph, noEntryNodes, dataIter, nodeEdgeMap, dfsNodes, next, outEdges>>

-----------------------------------------------------------------------------
(* Specification *)

Init ==
  /\ nodes \in Store
  /\ edges \in SUBSET {e \in Edge : e.src \in Mapped \/ e.dst \in Mapped}
  /\ inputOrder \in Order
  /\ given = nodes
  /\ noEntryNodes = <<>> /\ dataIter = 1
  /\ nodeEdgeMap = [n \in Node |-> 0]
  /\ dfsNodes = <<>>
  /\ pc = "prepare" /\ next = 1
  /\ outEdges = {}

Ended == pc \in {"sorted", "failed"}

Step == \/ Visit \/ PrepareNoEntryNodes \/ WalkNode \/ WalkEdge
        \/ CheckGraphValid \/ UpdateNode \/ UpdateDone

Next == Step \/ (Ended /\ UNCHANGED vars)

Spec == Init /\ [][Next]_vars
-----------------------------------------------------------------------------
(* Properties *)

\* Type invariant; the stack and the result hold nodes of the graph.
TypeOK ==
  /\ nodes \in Seq(Node) /\ given \in Seq(Node)
  /\ edges \in SUBSET Edge
  /\ inputOrder \in Order
  /\ noEntryNodes \in Seq(Mapped)
  /\ dataIter \in 1 .. Len(given) + 1
  /\ nodeEdgeMap \in [Node -> 0 .. SIZE_MAX]
  /\ dfsNodes \in Seq(Mapped)
  /\ pc \in {"prepare", "walk", "write", "sorted", "failed"}
  /\ next \in 1 .. Len(given) + 1
  /\ outEdges \in SUBSET edges

\* Node m stands before node n.
Precedes(s, m, n) == \E i, j \in 1 .. Len(s) : i < j /\ s[i] = m /\ s[j] = n

\* The edges that node n does not come after.
Behind(s, n) == {e \in InEdges(n) : ~Precedes(s, e.src, n)}

\* A sort that succeeds returns the same nodes, each after the nodes it reads
\* from; only one edge of a loop may lead back, into NextIteration.
SortedIsTopological ==
  pc = "sorted" =>
    /\ Distinct(nodes) /\ Elements(nodes) = Elements(given)
    /\ \A n \in Mapped :
         IF Kind[n] = "NextIteration"
         THEN \A e, f \in Behind(nodes, n) : e = f
         ELSE Behind(nodes, n) = {}

\* A sort that succeeds puts a graph input first, and keeps the inputs in the
\* order the user gave (graph_sorter.cpp:205-208), before inputs without one.  A
\* sort of a graph whose inputs are all plain data fails for a cycle only.
InputsInOrder ==
  /\ pc = "sorted" =>
       /\ nodes # <<>> => Kind[nodes[1]] \in GraphInputTypes
       /\ \A m, n \in {k \in Mapped : InEdges(k) = {}} :
            Precedes(nodes, m, n) /\ inputOrder[n] # None =>
              inputOrder[m] # None /\ inputOrder[m] <= inputOrder[n]
  /\ pc = "failed" /\ (\E n \in Mapped : Kind[n] = "Data" /\ InEdges(n) = {})
       /\ (\A n \in Mapped : Kind[n] # "Source" /\ (inputOrder[n] # None => Kind[n] = "Data"))
         => ~IsGraphNoCycle

\* Node n reads from S or from nodes that are not in the graph; one edge does not
\* keep NextIteration waiting.
Waits(n, S) ==
  LET missing == {e \in InEdges(n) : e.src \in S \/ e.src \notin Mapped} IN
  IF Kind[n] = "NextIteration" THEN \E e, f \in missing : e # f ELSE missing # {}

\* A sort that fails leaves the nodes as they were, and has a reason: nodes that
\* wait for each other or for a node of another graph, or a graph that begins
\* with a node of another kind.
FailureJustified ==
  pc = "failed" =>
    /\ nodes = given
    /\ \/ ~IsBeginWithData
       \/ \E S \in SUBSET Mapped : S # {} /\ \A n \in S : Waits(n, S)

\* A node is listed once, so the walk ends: an edge that comes after its
\* destination was listed, as the back edge of a loop does, takes the count below
\* zero, where it is never zero again (graph_sorter.cpp:126-129).
ListedOnce ==
  /\ Distinct(noEntryNodes) /\ Distinct(dfsNodes)
  /\ Elements(noEntryNodes) \cap Elements(dfsNodes) = {}

-----------------------------------------------------------------------------
(* What the runs check together *)

\* A sort that succeeds yields a topological order that keeps the inputs'.
OrderSound == SortedIsTopological /\ InputsInOrder

=============================================================================
