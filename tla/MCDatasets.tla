----------------------------- MODULE MCDatasets -----------------------------
(***************************************************************************)
(* Two datasets, two entity ids of two concepts, two clients.              *)
(***************************************************************************)
EXTENDS Datasets, TLC

CONSTANTS e1, e2, c1, c2

MCBatches ==
    {<<[id |-> e1, concept |-> "company"]>>,
     <<[id |-> e1, concept |-> "person"], [id |-> e2, concept |-> "person"]>>}

Symmetry == Permutations({c1, c2})
=============================================================================
