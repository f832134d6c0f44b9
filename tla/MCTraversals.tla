---------------------------- MODULE MCTraversals ----------------------------
(***************************************************************************)
(* All graphs of three nodes without loops, and some of up to five nodes:  *)
(* a loop, a long chain, a diamond, two cycles that share a node, and two  *)
(* guarantors that share one of their own, one with another besides, and a *)
(* shorter and a longer path to the same node.  b and d name each other    *)
(* twice, and a names d twice.                                             *)
(***************************************************************************)
EXTENDS Traversals

CONSTANTS a, b, c, d, e

Small == {x \in {a, b, c} \X {a, b, c} : x[1] # x[2]}

MCGraphs ==
    SUBSET Small
    \cup {{<<a, a>>, <<a, b>>},
          {<<a, b>>, <<b, c>>, <<c, d>>, <<d, e>>},
          {<<a, b>>, <<a, c>>, <<b, d>>, <<c, d>>},
          {<<a, b>>, <<b, a>>, <<a, c>>, <<c, d>>, <<d, a>>, <<b, d>>},
          {<<a, b>>, <<a, c>>, <<b, d>>, <<c, d>>, <<c, e>>},
          {<<a, b>>, <<b, d>>, <<d, e>>, <<a, c>>, <<c, e>>}}

MCRows ==
    [x \in Nodes \X Nodes |-> IF x \in {<<a, d>>, <<b, d>>, <<d, b>>} THEN 2 ELSE 1]
=============================================================================
