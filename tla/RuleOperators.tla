---------------------------- MODULE RuleOperators ----------------------------
(***************************************************************************)
(* The operators of the rule engine as functions of their parameters and   *)
(* of the evaluation context, and the evaluation of a rule's condition.    *)
(*                                                                         *)
(* A context is a function from the names that are set to their values; a  *)
(* name may be set to NULL, which differs from not being set.  Scores and  *)
(* amounts are integers: a weight of 30 is 30 percent.  A number or NULL   *)
(* is found where an operator calculates, so that NULL is what raises.     *)
(***************************************************************************)
EXTENDS Integers, Sequences, FiniteSets, FiniteSetsExt

CONSTANT NULL

\* dict.get
Get(ctx, name, default) == IF name \in DOMAIN ctx THEN ctx[name] ELSE default

Nothing == << >>

\* A dictionary with one entry, and dict.update: f is written over g.
Entry(key, value) == [k \in {key} |-> value]

f ++ g == [k \in DOMAIN f \cup DOMAIN g |-> IF k \in DOMAIN f THEN f[k] ELSE g[k]]

Returns(out) == [raised |-> FALSE, out |-> out]

Raises == [raised |-> TRUE, out |-> Nothing]

-----------------------------------------------------------------------------
\* A field that is not set is None in the expression; comparing None raises.
EvaluateExpression(atom, ctx) ==
    LET value == Get(ctx, atom.field, NULL)
    IN  IF value = NULL THEN "raised"
        ELSE IF value >= atom.min THEN "true" ELSE "false"

\* allOf stops at the first condition that does not hold, anyOf at the first
\* that does, and both at one that raises: what follows is not evaluated.
Evaluate(when, ctx) ==
    LET goOn == IF when.all THEN "true" ELSE "false"
        outcome(i) == EvaluateExpression(when.atoms[i], ctx)
        stops == {i \in DOMAIN when.atoms : outcome(i) # goOn}
    IN  IF when.atoms = << >> THEN "true"
        ELSE IF stops = {} THEN goOn
        ELSE outcome(Min(stops))

-----------------------------------------------------------------------------
SetFlag(p, ctx) ==
    Returns(Entry(p.flag_name, p.flag_value) ++ Entry(p.flag_name \o "_set", TRUE))

ApproveEligibility(p, ctx) ==
    Returns([eligible |-> TRUE, rejection_reason |-> "approved"])

RejectEligibility(p, ctx) ==
    Returns([eligible |-> FALSE, rejection_reason |-> "criteria"])

\* The level and type of the alert are keys of the result like any other.
TriggerAlert(p, ctx) ==
    Returns([level |-> p.alert_level, type |-> p.alert_type,
             alert_triggered |-> TRUE])

GraphTraversal(p, ctx) ==
    Returns([graph_aggregation |-> NULL, relation_type |-> p.relation_type])

\* The formula is times * source.  An error is caught: the key becomes NULL.
ComputeFormula(p, ctx) ==
    LET value == Get(ctx, p.source, NULL)
    IN  IF value = NULL
        THEN Returns(Entry(p.output_key, NULL) ++ Entry(p.output_key \o "_error", TRUE))
        ELSE Returns(Entry(p.output_key, p.times * value)
                     ++ Entry(p.output_key \o "_computed", TRUE))

\* The score that the components of the schema add up to, cut to an integer.
CreditScore(stability, compliance, centrality, reputation, depth) ==
    (30 * stability + 25 * compliance + 15 * centrality + 15 * reputation
     + 15 * Max({0, 100 - 10 * depth})) \div 100

\* A grade is named by the score it starts at; the lowest, D, by 0.
Grade[score \in 0..100] ==
    Max({t \in {0, 20, 30, 40, 50, 60, 70, 80, 85, 90} : t <= score})

CalculateCreditScore(p, ctx) ==
    LET stability  == Get(ctx, "business_stability_score", 50)
        compliance == Get(ctx, "tax_compliance_score", 60)
        centrality == Get(ctx, "network_centrality_score", 50)
        reputation == Get(ctx, "reputation_score", 80)
        depth      == Get(ctx, "guarantee_chain_depth", 0)
        score == CreditScore(stability, compliance, centrality, reputation, depth)
        critical == "critical" \in Get(ctx, "alerts", {})
        penalised == IF critical THEN Max({20, score - 30}) ELSE score
        final == Min({100, Max({0, penalised})})
    IN  IF NULL \in {stability, compliance, centrality, reputation, depth}
        THEN Raises
        ELSE Returns([credit_score |-> final, credit_grade |-> Grade[final]])

GradeMultiplier(grade) ==
    CASE grade = 90 -> 200 [] grade = 85 -> 180 [] grade = 80 -> 150
      [] grade = 70 -> 120 [] grade = 60 -> 100 [] grade = 50 -> 80
      [] OTHER -> 50

CalculateCreditLimit(p, ctx) ==
    LET grade   == Get(ctx, "credit_grade", 50)
        capital == Get(ctx, "registered_capital", 0)
        depth   == Get(ctx, "guarantee_chain_depth", 0)
        kept    == IF depth > 0 THEN 100 - 10 * depth ELSE 100
    IN  IF NULL \in {capital, depth} THEN Raises
        ELSE Returns([credit_limit |->
                          (capital * GradeMultiplier(grade) * kept) \div 20000,
                      credit_grade |-> grade])

\* In hundredths of a percent: five percent and a premium of up to five more.
DetermineInterestRate(p, ctx) ==
    LET score == Get(ctx, "credit_score", 50)
    IN  IF score = NULL THEN Raises
        ELSE Returns([interest_rate |-> 500 + 5 * (100 - score)])

\* A cell is the wildcard, a value, or a list of values: a list is compared
\* with the value itself after the test for membership, so it never matches.
CellMatches(value, cell) ==
    \/ cell.kind = "any"
    \/ cell.kind = "value" /\ value = cell.value

DecisionTable(p, ctx) ==
    LET actual == [i \in DOMAIN p.columns |-> Get(ctx, p.columns[i], NULL)]
        Matches(row) == /\ Len(row.cells) = Len(actual)
                        /\ \A i \in DOMAIN actual :
                               CellMatches(actual[i], row.cells[i])
        matching == {i \in DOMAIN p.rows : Matches(p.rows[i])}
    IN  IF matching = {}
        THEN Returns(Entry("_matched_rule", FALSE) ++ p.default)
        ELSE Returns(Entry("_matched_rule", TRUE) ++ p.rows[Min(matching)].output)

Total(part) == MapThenSumSet(LAMBDA i : part[i], DOMAIN part)

\* A value that is not set, or not a number, adds nothing to the sum.
WeightedSum(p, ctx) ==
    LET part == [i \in DOMAIN p.weights |->
                    LET value == Get(ctx, p.weights[i].input, NULL)
                    IN  IF value = NULL THEN 0 ELSE p.weights[i].weight * value]
        total == Total(part)
        grade == Get(ctx, p.grade_input, NULL)
        multiplied == IF grade \in DOMAIN p.grade_multipliers
                      THEN (total * p.grade_multipliers[grade]) \div 100
                      ELSE total
    IN  Returns(Entry(p.output, multiplied) ++ Entry(p.output \o "_raw", multiplied))

\* A case is a threshold: its condition is ">= min".
Switch(p, ctx) ==
    LET value == Get(ctx, p.value, NULL)
        matching == {i \in DOMAIN p.cases :
                         value # NULL /\ value >= p.cases[i].min}
    IN  Returns([switch_result |-> IF matching = {} THEN p.default
                                   ELSE p.cases[Min(matching)].result])

Binning(p, ctx) ==
    LET value == Get(ctx, p.value, NULL)
        Holds(bin) == /\ bin.min <= value
                      /\ \/ value < bin.max
                         \/ bin.inclusive_max /\ value = bin.max
        matching == {i \in DOMAIN p.bins : Holds(p.bins[i])}
    IN  IF value = NULL
        THEN Returns([bin |-> p.default, bin_error |-> TRUE])
        ELSE Returns([bin_value |-> value,
                      bin |-> IF matching = {} THEN p.default
                              ELSE p.bins[Min(matching)].label])

\* The mode "simple".  The sum is divided by the weights of the named factors
\* and multiplied by the weights of all of them.
Scorecard(p, ctx) ==
    LET named == {i \in DOMAIN p.factors : p.factors[i].name # NULL}
        weight == [i \in DOMAIN p.factors |-> p.factors[i].weight]
        part == [i \in named |-> LET value == Get(ctx, p.factors[i].name, 0)
                                 IN  IF value = NULL THEN 0 ELSE value * weight[i]]
        divisor == Total([i \in named |-> weight[i]])
        normalized == IF divisor > 0
                      THEN (Total(part) * Total(weight)) \div divisor
                      ELSE 0
        score == Max({p.range_min, Min({p.range_max, normalized})})
        reached == {g \in p.grade_mapping : score >= g}
    IN  Returns(Entry(p.output_key, score)
                ++ (IF reached = {} THEN Nothing
                    ELSE Entry(p.output_key \o "_grade", Max(reached))))

\* The answer of the model is the result itself; the fallback is put under
\* the output key.
LLMJudge(p, answered) ==
    IF answered
    THEN Returns([judgment |-> 1, llm_status |-> "success",
                  output_key |-> p.output_key])
    ELSE Returns(Entry(p.output_key, p.fallback_output) ++ [llm_status |-> "error"])

-----------------------------------------------------------------------------
\* The names that are registered; any other makes the registry raise KeyError.
Registered ==
    {"set_flag", "approve_eligibility", "reject_eligibility", "trigger_alert",
     "graph_traversal", "compute_formula", "calculate_credit_score",
     "calculate_credit_limit", "determine_interest_rate", "decision_table",
     "weighted_sum", "switch", "binning", "scorecard", "llm_judge"}

Execute(op, p, ctx, answered) ==
    CASE op = "set_flag"                -> SetFlag(p, ctx)
      [] op = "approve_eligibility"     -> ApproveEligibility(p, ctx)
      [] op = "reject_eligibility"      -> RejectEligibility(p, ctx)
      [] op = "trigger_alert"           -> TriggerAlert(p, ctx)
      [] op = "graph_traversal"         -> GraphTraversal(p, ctx)
      [] op = "compute_formula"         -> ComputeFormula(p, ctx)
      [] op = "calculate_credit_score"  -> CalculateCreditScore(p, ctx)
      [] op = "calculate_credit_limit"  -> CalculateCreditLimit(p, ctx)
      [] op = "determine_interest_rate" -> DetermineInterestRate(p, ctx)
      [] op = "decision_table"          -> DecisionTable(p, ctx)
      [] op = "weighted_sum"            -> WeightedSum(p, ctx)
      [] op = "switch"                  -> Switch(p, ctx)
      [] op = "binning"                 -> Binning(p, ctx)
      [] op = "scorecard"               -> Scorecard(p, ctx)
      [] op = "llm_judge"               -> LLMJudge(p, answered)

\* The names of the context whose values can change what an operator returns.
OperatorReads(op, p) ==
    CASE op = "compute_formula"        -> {p.source}
      [] op = "calculate_credit_score" ->
             {"business_stability_score", "tax_compliance_score",
              "network_centrality_score", "reputation_score",
              "guarantee_chain_depth", "alerts"}
      [] op = "calculate_credit_limit" ->
             {"credit_grade", "registered_capital", "guarantee_chain_depth"}
      [] op = "determine_interest_rate" -> {"credit_score"}
      [] op = "generate_decision" -> {"credit_score", "guarantee_chain_depth"}
      [] op = "decision_table" -> {p.columns[i] : i \in DOMAIN p.columns}
      [] op = "weighted_sum" ->
             {p.grade_input} \cup {p.weights[i].input : i \in DOMAIN p.weights}
      [] op \in {"switch", "binning"} -> {p.value}
      [] op = "scorecard" -> {p.factors[i].name : i \in DOMAIN p.factors}
      [] OTHER -> {}
=============================================================================
