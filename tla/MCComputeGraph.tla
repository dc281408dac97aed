--------------------------- MODULE MCComputeGraph ---------------------------
(* Small graphs for TLC. *)
EXTENDS ComputeGraph, TLC

CONSTANTS main, sub, dat, wgt, sum, act, cast, net

MCKind == [m \in Node |-> CASE m = dat -> "Data" [] m = wgt -> "Const"
                            [] m = net -> "NetOutput" [] OTHER -> "Op"]

MCIns == [m \in Node |-> CASE m \in {dat, wgt} -> 0 [] m = sum -> 2 [] OTHER -> 1]
MCOuts == [m \in Node |-> IF m = net THEN 0 ELSE 1]

MCAddress == net :> 1 @@ act :> 2 @@ dat :> 3 @@ sum :> 4 @@ cast :> 5 @@ wgt :> 6

\* sum reads the data and the weights, act reads sum, net reads act.
Chain == {Link(dat, 0, sum, 0), Link(wgt, 0, sum, 1), Link(sum, 0, act, 0), Link(act, 0, net, 0)}

Lone == main :> <<>> @@ sub :> <<>>

\* An unsorted chain with a control edge; a node between control edges and weights
\* that are read twice; data that are read twice and a sum with an input to fill;
\* a graph behind data that may lend its other node.
MCStart ==
  { [store |-> main :> <<act, dat, wgt, sum, net>> @@ sub :> <<cast>>,
     inputs |-> Lone, outputs |-> main :> <<act, net>> @@ sub :> <<>>,
     edges |-> Chain \cup {Link(wgt, CTRL, act, CTRL)}],
    [store |-> main :> <<dat, wgt, sum, act, cast>> @@ sub :> <<>>,
     inputs |-> main :> <<dat>> @@ sub :> <<>>, outputs |-> Lone,
     edges |-> {Link(dat, CTRL, act, CTRL), Link(act, CTRL, sum, CTRL), Link(wgt, 0, sum, 1),
                Link(wgt, 0, cast, 0)}],
    [store |-> main :> <<dat, net, act, sum>> @@ sub :> <<wgt, cast>>,
     inputs |-> Lone, outputs |-> main :> <<net>> @@ sub :> <<cast, wgt>>,
     edges |-> {Link(dat, 0, sum, 0), Link(dat, 0, act, 0), Link(act, 0, net, 0),
                Link(wgt, 0, cast, 0), Link(wgt, CTRL, cast, CTRL)}],
    [store |-> main :> <<act, net>> @@ sub :> <<dat, cast>>,
     inputs |-> Lone, outputs |-> Lone, edges |-> {Link(act, 0, net, 0)}] }

MCEdge ==
  {Link(cast, 0, sum, 0), Link(act, 0, cast, 0), Link(net, 0, cast, 0), Link(dat, 0, cast, 0),
   Link(dat, CTRL, cast, CTRL), Link(cast, CTRL, sum, CTRL), Link(wgt, CTRL, sum, CTRL)}

MCLists == {<<>>, <<sum, act>>, <<dat, cast, act>>}
=============================================================================
