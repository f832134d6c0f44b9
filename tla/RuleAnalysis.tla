---------------------------- MODULE RuleAnalysis ----------------------------
(***************************************************************************)
(* Ordering and running the rules of a consumption view.                   *)
(*                                                                         *)
(* A rule depends on another when it has an input among the other's        *)
(* outputs.  Two routes sort the rules of a view along this graph with     *)
(* Kahn's algorithm: the dependency-graph route shows the order, and the   *)
(* analysis of an entity gives every enabled rule a level in that order,   *)
(* runs the rules by level and falls back to plain priorities when the     *)
(* graph has a cycle.  One request runs here, one loop step at a time.     *)
(*                                                                         *)
(* A rule id is its position in rule_definitions.  The value of an element *)
(* is the rule that wrote it.  Conditions and formulas are the expression  *)
(* engine's: a condition may hold or not, a formula may fail.              *)
(***************************************************************************)
EXTENDS Integers, Sequences, FiniteSets, SequencesExt

CONSTANTS
    Rules,        \* positions in rule_definitions
    Elements,     \* what rules read and write, "decision" among them
    Definitions,  \* the rule definitions a view may hold
    NameKey       \* the literal key "name"

\* inputs and outputs are what a rule declares, writes and else_writes what
\* its two actions set.
RuleDef == [inputs : SUBSET Elements, outputs : SUBSET Elements,
            writes : SUBSET Elements, else_writes : SUBSET Elements,
            priority : Int, enabled : BOOLEAN, in_target : BOOLEAN]

ASSUME RulesAssumption ==
    /\ Rules \subseteq Nat \ {0}
    /\ IsFiniteSet(Rules)
    /\ IsFiniteSet(Elements)
    /\ Definitions \subseteq RuleDef
    /\ NameKey \notin Elements

VARIABLES
    request,    \* which of the two routes
    def,        \* the view's rule definitions
    phase,      \* "sort", then "levels" or "fallback", then "done"
    indegree,   \* remaining_in_degree
    queue,      \* the rules whose producers are all sorted
    order,      \* the sorted rules; the keys of rule_levels, as inserted
    stepResults, \* the steps of the result
    computed,   \* context.computed_metrics: who wrote each element
    final       \* final_outputs

analysisVars ==
    <<request, def, phase, indegree, queue, order, stepResults, computed, final>>

None == 0

-----------------------------------------------------------------------------
\* _build_rule_dependency_graph.

\* The rules that are sorted: an analysis leaves out the disabled ones.
Nodes == IF request = "analyze" THEN {r \in Rules : def[r].enabled} ELSE Rules

\* One edge for each element that r takes from p.
Edges(p, r) ==
    {<<p, e>> : e \in IF p = r THEN {} ELSE def[p].outputs \cap def[r].inputs}

Producers(r) == {p \in Nodes : Edges(p, r) # {}}

InDegree(r) == Cardinality(UNION {Edges(p, r) : p \in Nodes})

\* sorted() is stable: by falling priority, or just as listed.
Earlier(byPriority, q, r) ==
    IF byPriority /\ def[q].priority # def[r].priority
    THEN def[q].priority > def[r].priority
    ELSE q < r

Arranged(byPriority, S) ==
    {s \in [1..Cardinality(S) -> S] :
        /\ ToSet(s) = S
        /\ \A i, j \in DOMAIN s : i < j => Earlier(byPriority, s[i], s[j])}

\* Mutant of Reported: leaves the disabled rules out of the steps.
ReportedNothing(s) == <<>>

\* The steps recorded for rules that do not run.
Reported(s) ==
    [i \in 1..Len(s) |-> [rule |-> s[i], status |-> "skipped", wrote |-> {}]]

AnalysisInit ==
    /\ request \in {"analyze", "graph"}
    /\ def \in [Rules -> Definitions]
    /\ phase = "sort"
    /\ indegree = [r \in Nodes |-> InDegree(r)]
    /\ queue \in Arranged(request = "graph", {r \in Nodes : indegree[r] = 0})
    /\ order = <<>>
    /\ \E s \in Arranged(FALSE, Rules \ Nodes) : stepResults = Reported(s)
    /\ computed = [e \in Elements |-> None]
    /\ final = [k \in Elements \cup {NameKey} |-> None]

-----------------------------------------------------------------------------
\* The loop of _compute_rule_levels and of _topological_sort_rules.

\* Mutant of Sort: queues a rule as soon as one of its producers is sorted.
SortTooEarly ==
    /\ phase = "sort"
    /\ queue # <<>>
    /\ LET r == Head(queue)
           left == [q \in Nodes |-> indegree[q] - Cardinality(Edges(r, q))]
           ready == {q \in Nodes : Edges(r, q) # {}}
                        \ (ToSet(queue) \cup ToSet(order))
       IN  /\ order' = Append(order, r)
           /\ indegree' = left
           /\ \E s \in Arranged(request = "graph", ready) :
                 queue' = Tail(queue) \o s
    /\ UNCHANGED <<request, def, phase, stepResults, computed, final>>

Sort ==
    /\ phase = "sort"
    /\ queue # <<>>
    /\ LET r == Head(queue)
           left == [q \in Nodes |-> indegree[q] - Cardinality(Edges(r, q))]
           ready == {q \in Nodes : Edges(r, q) # {} /\ left[q] = 0}
       IN  /\ order' = Append(order, r)
           /\ indegree' = left
           /\ \E s \in Arranged(request = "graph", ready) :
                 queue' = Tail(queue) \o s
    /\ UNCHANGED <<request, def, phase, stepResults, computed, final>>

Unsorted == Nodes \ ToSet(order)

Sorted == phase = "sort" /\ queue = <<>>

\* The dependency-graph route appends what a cycle holds back, as listed.
ShowOrder ==
    /\ Sorted
    /\ request = "graph"
    /\ \E s \in Arranged(FALSE, Unsorted) : order' = order \o s
    /\ phase' = "done"
    /\ UNCHANGED <<request, def, indegree, queue, stepResults, computed, final>>

RunByLevels ==
    /\ Sorted
    /\ request = "analyze"
    /\ Unsorted = {}
    /\ phase' = "levels"
    /\ UNCHANGED <<request, def, indegree, queue, order, stepResults, computed, final>>

\* Mutant of FallBack: nobody catches the ValueError.
FallBackNever == FALSE /\ UNCHANGED analysisVars

\* ValueError("Circular dependency detected ..."), caught by the analysis.
FallBack ==
    /\ Sorted
    /\ request = "analyze"
    /\ Unsorted # {}
    /\ phase' = "fallback"
    /\ UNCHANGED <<request, def, indegree, queue, order, stepResults, computed, final>>

-----------------------------------------------------------------------------
\* Running the rules.

\* _compute_rule_levels: the level of a rule is the number of its producers.
LevelOf(r) == Cardinality(Producers(r))

Position(r) == CHOOSE i \in 1..Len(order) : order[i] = r

\* Levels are run one after the other; within one, and in the fallback, the
\* rules are sorted by falling priority.
Turn(r) == IF phase = "levels"
           THEN <<LevelOf(r), -def[r].priority, Position(r)>>
           ELSE <<0, -def[r].priority, r>>

Sooner(t, u) ==
    \E i \in 1..3 : t[i] < u[i] /\ \A j \in 1..(i - 1) : t[j] = u[j]

Waiting == Nodes \ {stepResults[i].rule : i \in 1..Len(stepResults)}

IsNext(r) ==
    /\ phase \in {"levels", "fallback"}
    /\ r \in Waiting
    /\ \A q \in Waiting \ {r} : Sooner(Turn(r), Turn(q))

Record(r, status, out) ==
    /\ stepResults' = Append(stepResults, [rule |-> r, status |-> status, wrote |-> out])
    /\ computed' = [e \in Elements |-> IF e \in out THEN r ELSE computed[e]]
    /\ UNCHANGED <<request, def, phase, indegree, queue, order>>

\* The entity's type is not among the rule's target objects; the fallback
\* does not look at them.
OutOfTarget(r) ==
    /\ IsNext(r)
    /\ phase = "levels"
    /\ ~def[r].in_target
    /\ Record(r, "skipped", {})
    /\ UNCHANGED final

InTarget(r) == IsNext(r) /\ (phase = "levels" => def[r].in_target)

\* final_outputs after a step that passed.  The fallback takes each output
\* item {"name": ..., "value": ...} for a pair and stores only its keys.
KeepOutputs(r, out) ==
    LET keys == IF phase = "levels" \/ out = {} THEN out ELSE {NameKey}
    IN  final' = [k \in DOMAIN final |-> IF k \in keys THEN r ELSE final[k]]

\* _execute_single_rule, the condition holds.
Pass(r) ==
    /\ InTarget(r)
    /\ \E out \in SUBSET def[r].writes :
          Record(r, "passed", out) /\ KeepOutputs(r, out)

\* ... or not, or its evaluation fails: the else action.
Miss(r) ==
    /\ InTarget(r)
    /\ \E out \in SUBSET def[r].else_writes : Record(r, "skipped", out)
    /\ UNCHANGED final

Respond ==
    /\ phase \in {"levels", "fallback"}
    /\ Waiting = {}
    /\ phase' = "done"
    /\ UNCHANGED <<request, def, indegree, queue, order, stepResults, computed, final>>

AnalysisNext ==
    \/ Sort \/ ShowOrder \/ RunByLevels \/ FallBack \/ Respond
    \/ \E r \in Rules : OutOfTarget(r) \/ Pass(r) \/ Miss(r)

\* One coroutine that waits for nothing: it takes its next step.
AnalysisSpec == AnalysisInit /\ [][AnalysisNext]_analysisVars /\ WF_analysisVars(AnalysisNext)

-----------------------------------------------------------------------------
Step == [rule : Rules, status : {"passed", "skipped"}, wrote : SUBSET Elements]

AnalysisTypeOK ==
    /\ request \in {"analyze", "graph"}
    /\ def \in [Rules -> Definitions]
    /\ phase \in {"sort", "levels", "fallback", "done"}
    /\ indegree \in [Nodes -> Nat]
    /\ queue \in Seq(Nodes)
    /\ order \in Seq(Nodes)
    /\ stepResults \in Seq(Step)
    /\ computed \in [Elements -> Rules \cup {None}]
    /\ final \in [Elements \cup {NameKey} -> Rules \cup {None}]

\* A finite graph has a cycle iff some of its rules all wait for each other.
Cyclic ==
    \E S \in (SUBSET Nodes) \ {{}} : \A r \in S : Producers(r) \cap S # {}

\* Rules are sorted after all their producers.
SortedAfterProducers ==
    (request = "graph" /\ phase = "done" => ~Cyclic) =>
        \A i \in 1..Len(order) : \A p \in Producers(order[i]) :
            \E j \in 1..(i - 1) : order[j] = p

\* The fallback is taken for the rule sets with a cycle and for no others.
FallbackIffCyclic ==
    /\ phase = "fallback" => Cyclic
    /\ phase = "levels" => ~Cyclic

\* Kahn's loop over edges that elements double: it orders the rules after their
\* producers, and gives up exactly when some of them wait for each other.
SortCorrect == SortedAfterProducers /\ FallbackIffCyclic

\* The order that the dependency-graph route shows holds every rule once.
ShownOrderComplete ==
    request = "graph" /\ phase = "done" =>
        IsInjective(order) /\ ToSet(order) = Rules

\* An analysis reports on every rule of the view exactly once, whether it is
\* disabled, out of target, in a cycle or run.
EveryRuleReportedOnce ==
    request = "analyze" /\ phase = "done" =>
        \A r \in Rules : \E i \in 1..Len(stepResults) :
            \A j \in 1..Len(stepResults) : stepResults[j].rule = r <=> j = i

\* Every request ends.
Terminates == <>(phase = "done")

=============================================================================
