-------------------------- MODULE MCEntityImports --------------------------
(* Three imports, two at a time, of two entities with one field.           *)
EXTENDS EntityImports, TLC

CONSTANTS e1, e2, f, x

MCEntities == {e1, e2}

Has(v) == [k \in {f} |-> v]

Both(d1, d2) == e1 :> d1 @@ e2 :> d2

\* A None or an empty dict becoming a value, a value going, an entity going.
MCSent == {Both(Has(x), Has(x)), Both(Has(Null), Has(Null)),
           Both(None, Empty)}
MCKnown == {Both(Has(Null), Has(x)), Both(Has(x), Empty)}

Symmetry == Permutations(Workers) \cup Permutations(Batches)
=============================================================================
