--------------------------- MODULE MCRuleAnalysis ---------------------------
(* Three rules over two elements: every wiring with at most one input and  *)
(* one output, fan-out and fan-in over both elements (double edges), two   *)
(* priorities, a disabled rule, one out of target, one that writes what it *)
(* does not declare.                                                       *)
EXTENDS RuleAnalysis, TLC

CONSTANTS a, b

MCElements == {a, b}

Rule(in, out, prio) ==
    [inputs |-> in, outputs |-> out, writes |-> out,
     else_writes |-> IF prio = 1 THEN out ELSE {},
     priority |-> prio, enabled |-> TRUE, in_target |-> TRUE]

Single == {{}, {a}, {b}}

MCDefinitions ==
    {Rule(in, out, prio) : in \in Single, out \in Single, prio \in {1, 2}}
    \cup {Rule(MCElements, {}, 2), Rule({}, MCElements, 1),
          [Rule({a}, {b}, 1) EXCEPT !.enabled = FALSE],
          [Rule({a}, {b}, 1) EXCEPT !.in_target = FALSE],
          [Rule({a}, {}, 2) EXCEPT !.writes = {a}]}
=============================================================================
