--------------------------- MODULE MCGraphStores ---------------------------
(* Two ids, one of them with rows of two concepts; relations either way;    *)
(* dual writes with and without relations, one of which add_edge refuses;   *)
(* an import of an entity and a relation past the graph.                    *)
EXTENDS GraphStores

CONSTANTS a, b

KCa == <<"C", a>>
KCb == <<"C", b>>
KDb == <<"D", b>>

MCKeys == {KCa, KCb, KDb}
MCPlace == KCa :> 1 @@ KCb :> 2 @@ KDb :> 3

AB == [type |-> "R", from |-> a, to |-> b]
BA == [type |-> "R", from |-> b, to |-> a]

MCRelations == {AB, BA}

Ent(k, d) == [key |-> k, data |-> d]
Rel(r, d) == [rel |-> r, data |-> d]

Dual(e, rs) == [kind |-> "dual", entities |-> <<e>>, relations |-> rs, space |-> "s"]
Import(es, rs) == [kind |-> "import", entities |-> es, relations |-> rs, space |-> NoEntity]

MCSent ==
    {Dual(Ent(KCa, 1), <<Rel(AB, 1)>>),
     Dual(Ent(KCa, 2), <<Rel(AB, 3), Rel(BA, 1)>>),
     Dual(Ent(KCb, 1), << >>),
     Dual(Ent(KDb, 2), <<Rel(AB, 2)>>),
     Import(<<Ent(KCb, 2)>>, <<Rel(BA, 2)>>)}

MCClashing == {3}
=============================================================================
