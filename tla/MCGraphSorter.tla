---------------------------- MODULE MCGraphSorter ----------------------------
(* Small graphs for TLC. *)
EXTENDS GraphSorter, TLC

CONSTANTS dataA, dataB, config, source, cOp, oOp, nextIt, other

\* A node that is not stored is one of another graph.
MCKind ==
  [m \in Node |-> CASE m \in {dataA, dataB} -> "Data" [] m = config -> "ConfigData"
                     [] m = source -> "Source" [] m = nextIt -> "NextIteration" [] OTHER -> "Op"]

\* oOp reads from everywhere, twice from dataA; cOp and oOp may wait for each
\* other; nextIt closes a loop.
MCEdge ==
  LET to(srcs, m) == {[src |-> p, dst |-> m, anchor |-> 0] : p \in srcs} IN
  to({dataA, dataB, cOp, nextIt, config}, oOp) \cup to({dataA, oOp, source}, cOp)
    \cup to({oOp, cOp}, nextIt) \cup to({oOp}, other)
    \cup {[src |-> dataA, dst |-> oOp, anchor |-> 1]}

MCStore == {<<>>, <<cOp, dataA, oOp, dataB, nextIt>>, <<nextIt, dataB, oOp, dataA>>,
            <<config, source, oOp, cOp>>}

MCOrder ==
  LET unordered == [m \in Node |-> None] IN
  {unordered, [unordered EXCEPT ![dataA] = 2, ![dataB] = 1],
   [unordered EXCEPT ![dataB] = 0], [unordered EXCEPT ![config] = 0]}
==============================================================================
