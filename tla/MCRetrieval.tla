---------------------------- MODULE MCRetrieval ----------------------------
(***************************************************************************)
(* Four entities of three concepts.  A buyer and a bank can be reached     *)
(* from the supplier s in one hop or two, the second supplier in three.    *)
(* The graph lists two relations of an entity; some have more from the     *)
(* beginning, others when relations are added.                             *)
(***************************************************************************)
EXTENDS Retrieval, TLC

CONSTANTS s, t, b, k   \* suppliers, a buyer and a bank

MCEntities == <<s, t, b, k>>

MCConceptOf == s :> "Supplier" @@ t :> "Supplier" @@ b :> "Buyer" @@ k :> "Bank"

MCGraphs ==
    {{}, {<<s, "sells", b>>, <<b, "owes", k>>},
     {<<s, "sells", b>>, <<s, "sells", k>>, <<b, "owes", k>>},
     {<<s, "sells", b>>, <<b, "owes", k>>, <<k, "owes", t>>},
     {<<s, "sells", b>>, <<t, "sells", b>>, <<b, "owes", k>>, <<k, "owes", t>>}}

MCRelations == {<<s, "sells", t>>, <<t, "sells", b>>, <<b, "owes", t>>, <<k, "owes", s>>}

Vector(id, d, x) == [id |-> id, dimension |-> d, similarity |-> x]

MCBatches ==
    {<<Vector(s, 1, 60), Vector(b, 1, 60), Vector(k, 1, -60)>>,
     <<Vector(t, 1, 60), Vector(b, 2, 30)>>,
     <<Vector(t, 2, 45), Vector(b, 2, 30), Vector(k, 2, 60)>>}

Hop(type, concept) == [type |-> type, concept |-> concept]

MCPatterns ==
    {<< >>, <<Hop("sells", "Buyer")>>, <<Hop("sells", "Buyer"), Hop("owes", "Bank")>>,
     <<Hop("sells", "Buyer"), Hop("owes", "Bank"), Hop("owes", "Supplier")>>}

Weights(semantic, graph, path) == [semantic |-> semantic, graph |-> graph, path |-> path]

MCHybridQueries ==
    [dimension : {None, 1}, seed : {s}, top : {1, 3}, pattern : MCPatterns,
     strategy : {"filter_then_fuse", "independent_then_fuse", "fuse_then_filter"},
     weights : {Weights(6, 4, 2)}]
    \cup [dimension : {1, 2}, seed : {None, b}, top : {1}, pattern : {<<Hop("owes", "Bank")>>},
          strategy : {"independent_then_fuse"}, weights : {Weights(6, 4, 2), Weights(1, 9, 0), Weights(2, -2, 0)}]

MCSemanticQueries == [dimension : {1, 2}, top : {1, 2}, concept : {None, "Supplier", "Buyer"}]

MCMatchQueries ==
    [start : {"Supplier"}, filter : {{s}, {s, t}}, pattern : MCPatterns, limit : {1, 3}]
=============================================================================
