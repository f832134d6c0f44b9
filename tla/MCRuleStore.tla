----------------------------- MODULE MCRuleStore -----------------------------
(***************************************************************************)
(* Two concurrent requests, a usual group name and one that looks like a   *)
(* uuid in two spaces, a step that a file has twice.                       *)
(***************************************************************************)
EXTENDS RuleStore, TLC

CONSTANTS a, i1, i2, plain, hex

MCGroupIds == {i1, i2}
MCUuidLike == {i1, i2, hex}
MCNames == {plain, hex}
MCStepIds == {a}
MCImports == {{[id |-> a, order |-> 0], [id |-> a, order |-> 1]}}
MCOrderings == {<<a>>}

Symmetry == Permutations(MCGroupIds) \cup Permutations(Spaces)
                \cup Permutations(Fields) \cup Permutations(Values)
                \cup Permutations(Workers)
=============================================================================
