-------------------------- MODULE MCEntityAnalysis --------------------------
(* A supplier with an invoice, and two metrics: an aggregate over neighbours *)
(* that an attribute may replace, and a formula over it.                     *)
EXTENDS EntityAnalysis, TLC

CONSTANTS supplier, invoice, total, score, v1, v2

MCEntities == {supplier, invoice}
MCVersions == {v1, v2}
MCMetrics == {total, score}
MCOrder == <<total, score>>
MCFormulas == {score}
MCAggregates == {total}
MCDeps == (total :> {}) @@ (score :> {total})
MCGiven == (total :> {v2}) @@ (score :> {v1})
MCNeighbours == (supplier :> {invoice}) @@ (invoice :> {})
MCTagged == (v1 :> 2) @@ (v2 :> 1)
MCContexts == {{}, {total}}
=============================================================================
