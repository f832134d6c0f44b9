---------------------------- MODULE RuleExecution ----------------------------
(***************************************************************************)
(* The rules of a dimension executed on an entity, four ways: the analysis *)
(* (RuleExecutor), the simulator's baseline and its what-if run with some  *)
(* attributes overridden (RuleChainSimulator), and the simulation of the   *)
(* same rules as the steps of a rule group (SimulationService).            *)
(*                                                                         *)
(* Each is a coroutine with a context of its own that stores nothing, so   *)
(* they are executed one after the other.  Only an analysis has the L3     *)
(* metrics; they are added to the attributes, not to the computed metrics. *)
(* A call of the language model is awaited: it answers, fails or times     *)
(* out, and is retried.                                                    *)
(***************************************************************************)
EXTENDS RuleOperators

CONSTANTS
    RuleIds,
    Rule,          \* [RuleIds -> rule definitions]
    Chains,        \* sequences of distinct rules, in the order of the schema
    EntityData,    \* attributes an entity can have
    L3Metrics,     \* what the metric engine can return
    Overrides,     \* what a what-if can override; Nothing: a dry run
    MaxRetries     \* of the language model

\* Entities are dictionaries; a rule's formula is stored under its id followed
\* by "_result", which is not the name eligibility is stored under.
ASSUME ExecutionAssumption ==
    /\ Chains \subseteq Seq(RuleIds)
    /\ \A r \in RuleIds :
          /\ Rule[r].priority \in Int
          /\ Rule[r].id_result # "eligible"
          /\ DOMAIN Rule[r].when.atoms = 1..Len(Rule[r].when.atoms)
          /\ Len(Rule[r].when.atoms) \in Nat
    /\ \A e \in EntityData : e = [k \in DOMAIN e |-> e[k]]
    /\ MaxRetries \in Nat
    /\ NULL \notin BOOLEAN
    /\ NULL \notin {"APPROVE", "APPROVE_WITH_CONDITIONS", "APPROVE_RESTRICTED"}

\* The conditions of a rule are a list.
ASSUME ConditionAssumption ==
    \A r \in RuleIds :
        LET atoms == Rule[r].when.atoms IN atoms = [i \in DOMAIN atoms |-> atoms[i]]

VARIABLES
    chain,      \* the rules of the dimension
    entity,     \* the attributes in the store
    l3,
    overrides,
    pass,       \* what is being executed, or "idle"
    rules,      \* the sequence of rules it goes through
    position,   \* of the next rule of the pass
    attempt,    \* the call of the language model that is awaited, or 0
    data,       \* ExecutionContext.entity_data
    metrics,    \* ExecutionContext.computed_metrics
    alerts,     \* ExecutionContext.alerts: the levels
    results,    \* ExecutionContext.rule_results
    outcome     \* [passes that are over -> what they returned]

inputs == <<chain, entity, l3, overrides>>
context == <<data, metrics, alerts, results>>
executionVars ==
    <<chain, entity, l3, overrides, pass, rules, position, attempt, data,
      metrics, alerts, results, outcome>>

-----------------------------------------------------------------------------
\* Higher priorities first; the sort keeps the order of equal ones.
Precedes(rs, i, k) ==
    \/ Rule[rs[i]].priority > Rule[rs[k]].priority
    \/ Rule[rs[i]].priority = Rule[rs[k]].priority /\ i < k

Place(rs, i) == 1 + Cardinality({j \in DOMAIN rs : Precedes(rs, j, i)})

Source(rs, k) == CHOOSE i \in DOMAIN rs : Place(rs, i) = k

ByPriority(rs) == [k \in DOMAIN rs |-> rs[Source(rs, k)]]

\* A group's steps are in the order of the schema's rules, and have no scope.
Sequence(p) == IF p = "steps" THEN chain ELSE ByPriority(chain)

\* A mutant of Applies: the simulator forgets that rules can be disabled.
AppliesDisabled(p, r) ==
    /\ Rule[r].enabled \/ p \in {"baseline", "simulated"}
    /\ p = "steps" \/ Rule[r].in_scope

Applies(p, r) == Rule[r].enabled /\ (p = "steps" \/ Rule[r].in_scope)

\* Computed metrics hide attributes of the same name.
EvalContext(d, m) == m ++ d

-----------------------------------------------------------------------------
Effect(r, m, as, passed, error, out) ==
    [metrics |-> m, alerts |-> as,
     result |-> [rule |-> r, passed |-> passed, error |-> error, out |-> out]]

\* What generate_decision derives, from computed metrics alone.
GeneratedDecision(m) ==
    LET score == Get(m, "credit_score", 0)
        depth == Get(m, "guarantee_chain_depth", 0)
    IN  CASE score >= 80 /\ depth < 2 -> "APPROVE"
          [] score >= 60 /\ depth < 3 -> "APPROVE_WITH_CONDITIONS"
          [] score >= 40              -> "APPROVE_RESTRICTED"
          [] OTHER                    -> "REJECT"

\* None cannot be compared with a number.
DecisionRaises(m) ==
    LET score == Get(m, "credit_score", 0)
    IN  \/ score = NULL
        \/ score >= 60 /\ Get(m, "guarantee_chain_depth", 0) = NULL

\* The only legacy action whose name no operator is registered under.  An
\* unknown action changes nothing and returns its own output clause.
LegacyAction(act, m) ==
    IF act.op # "generate_decision" THEN Returns(act.params)
    ELSE IF DecisionRaises(m) THEN Raises
    ELSE Returns([final_decision |-> GeneratedDecision(m)])

ActionResult(act, d, m, as, answered) ==
    LET ctx == Entry("alerts", {as[i] : i \in DOMAIN as}) ++ EvalContext(d, m)
    IN  IF act.op \in Registered THEN Execute(act.op, act.params, ctx, answered)
        ELSE LegacyAction(act, m)

\* An action writes every key of its result but two into the metrics, the
\* keys of an alert included.  An error leaves metrics and alerts alone.
ActionEffect(r, act, m, as, passed, res) ==
    LET known == act.op \in Registered
        kept == [k \in DOMAIN res.out \ {"error", "alert_triggered"} |-> res.out[k]]
        raised == "alert_triggered" \in DOMAIN res.out
    IN  IF act.op = "none" THEN Effect(r, m, as, passed, FALSE, Nothing)
        ELSE IF res.raised THEN Effect(r, m, as, FALSE, TRUE, Nothing)
        ELSE Effect(r, IF known \/ act.op = "generate_decision"
                       THEN kept ++ m ELSE m,
                    IF known /\ raised THEN Append(as, res.out.level) ELSE as,
                    passed, FALSE, res.out)

ExecuteAction(r, act, d, m, as, passed, answered) ==
    ActionEffect(r, act, m, as, passed, ActionResult(act, d, m, as, answered))

\* The formula of a rule is evaluated and stored before its action.
FormulaValue(r, d, m) == Get(EvalContext(d, m), Rule[r].formula, NULL)

WithFormula(r, d, m) ==
    IF Rule[r].formula = NULL THEN m
    ELSE Entry(Rule[r].id_result, FormulaValue(r, d, m)) ++ m

ExecuteThen(r, d, m, as, answered) ==
    IF Rule[r].formula # NULL /\ FormulaValue(r, d, m) = NULL
    THEN Effect(r, m, as, FALSE, TRUE, Nothing)
    ELSE ExecuteAction(r, Rule[r].then, d, WithFormula(r, d, m), as, TRUE, answered)

\* Every exception of a rule ends as a result that did not pass.
ExecuteRule(r, d, m, as, answered) ==
    LET met == Evaluate(Rule[r].when, EvalContext(d, m))
    IN  CASE met = "raised" -> Effect(r, m, as, FALSE, TRUE, Nothing)
          [] met = "true"   -> ExecuteThen(r, d, m, as, answered)
          [] met = "false" /\ Rule[r].else_.op # "none" ->
                 ExecuteAction(r, Rule[r].else_, d, m, as, FALSE, answered)
          [] met = "false" /\ Rule[r].else_.op = "none" ->
                 Effect(r, m, as, FALSE, FALSE, [skipped |-> TRUE])

\* Every sub-condition of a step is evaluated, and any of them can raise.
EvaluateClause(when, ctx) ==
    LET outcomes == {EvaluateExpression(when.atoms[i], ctx) : i \in DOMAIN when.atoms}
    IN  CASE outcomes = {}           -> "true"
          [] "raised" \in outcomes   -> "raised"
          [] OTHER -> IF when.all THEN IF "false" \in outcomes THEN "false" ELSE "true"
                      ELSE IF "true" \in outcomes THEN "true" ELSE "false"

\* An unknown operator returns its parameters, one that raises an error.
StepAction(act, ctx, answered) ==
    LET res == IF act.op \in Registered
               THEN Execute(act.op, act.params, ctx, answered)
               ELSE Returns(act.params)
    IN  IF res.raised THEN [error |-> TRUE] ELSE res.out

\* A mutant of SimulateStep: a step sees the attributes only.
SimulateStepAlone(r, d, m, answered) ==
    LET out == StepAction(Rule[r].then, d, answered)
    IN  Effect(r, out ++ m, << >>, TRUE, FALSE, out)

\* A step of a group: no formula and no else, and whatever is returned becomes
\* part of what was computed.
SimulateStep(r, d, m, answered) ==
    LET met == EvaluateClause(Rule[r].when, EvalContext(d, m))
        out == StepAction(Rule[r].then, EvalContext(d, m), answered)
    IN  CASE met = "raised" -> Effect(r, m, << >>, FALSE, TRUE, Nothing)
          [] met = "false"  -> Effect(r, [skipped |-> TRUE] ++ m, << >>, FALSE,
                                      FALSE, [skipped |-> TRUE])
          [] met = "true"   -> Effect(r, out ++ m, << >>, TRUE, FALSE, out)

\* The alerts a group's simulation collects: those marked by the key _alert,
\* which no operator returns.
StepAlerts(out) ==
    IF Get(out, "_alert", FALSE) THEN <<Get(out, "_alert_level", "info")>>
    ELSE << >>

-----------------------------------------------------------------------------
Critical(as) == \E i \in DOMAIN as : as[i] = "critical"

Eligible(m) == Get(m, "eligible", NULL)

Level(m) ==
    LET score == Get(m, "credit_score", 0)
        depth == Get(m, "guarantee_chain_depth", 0)
    IN  CASE score >= 80 /\ depth < 2 -> "APPROVE"
          [] score >= 60 /\ ~(score >= 80 /\ depth < 2) -> "APPROVE_WITH_CONDITIONS"
          [] score < 60               -> "APPROVE_RESTRICTED"

\* None cannot be compared with a number: whoever asks for the level raises.
LevelRaises(m) ==
    LET score == Get(m, "credit_score", 0)
    IN  \/ score = NULL
        \/ score >= 80 /\ Get(m, "guarantee_chain_depth", 0) = NULL

\* A mutant of NeedsLevel: alerts are not looked at once eligibility is granted.
NeedsLevelDespiteAlerts(m, as) == Eligible(m) = TRUE

NeedsLevel(m, as) == Eligible(m) = TRUE /\ ~Critical(as)

\* The end of execute_dimension.
Decision(m, as) ==
    CASE NeedsLevel(m, as)   -> Level(m)
      [] Eligible(m) = FALSE -> "REJECT"
      [] Critical(as) /\ Eligible(m) # FALSE -> "REVIEW"
      [] OTHER               -> NULL

\* The simulator's own copy falls back to what generate_decision derived.
DetermineDecision(m, as) ==
    CASE Eligible(m) = FALSE -> "REJECT"
      [] Eligible(m) # FALSE /\ Critical(as) -> "REVIEW"
      [] NeedsLevel(m, as)   -> Level(m)
      [] OTHER               -> Get(m, "final_decision", NULL)

Decide(p, m, as) ==
    CASE p = "analysis"                   -> Decision(m, as)
      [] p \in {"baseline", "simulated"} -> DetermineDecision(m, as)
      [] p = "steps"                      -> NULL

-----------------------------------------------------------------------------
ExecutionInit ==
    /\ chain \in Chains
    /\ entity \in EntityData
    /\ l3 \in L3Metrics
    /\ overrides \in Overrides
    /\ pass = "idle" /\ rules = << >> /\ position = 1 /\ attempt = 0
    /\ data = Nothing /\ metrics = Nothing
    /\ alerts = << >> /\ results = << >> /\ outcome = Nothing

\* A mutant of BeginPass: the what-if goes on with the baseline's alerts.
BeginSharing(p, d) ==
    /\ pass = "idle" /\ p \notin DOMAIN outcome
    /\ pass' = p /\ rules' = Sequence(p) /\ position' = 1
    /\ data' = d /\ metrics' = Nothing /\ results' = << >>
    /\ alerts' = IF p = "simulated" THEN alerts ELSE << >>
    /\ UNCHANGED <<inputs, attempt, outcome>>

\* A new context for every execution.
BeginPass(p, d) ==
    /\ pass = "idle" /\ p \notin DOMAIN outcome
    /\ pass' = p /\ rules' = Sequence(p) /\ position' = 1
    /\ data' = d /\ metrics' = Nothing /\ alerts' = << >> /\ results' = << >>
    /\ UNCHANGED <<inputs, attempt, outcome>>

StartAnalysis == BeginPass("analysis", l3 ++ entity)

ApplyOverrides(d) == overrides ++ d

StartBaseline ==
    /\ "analysis" \in DOMAIN outcome
    /\ overrides # Nothing
    /\ BeginPass("baseline", entity)

\* A baseline that raised ends the request.
StartSimulation ==
    /\ "analysis" \in DOMAIN outcome
    /\ IF overrides = Nothing THEN TRUE
       ELSE "baseline" \in DOMAIN outcome /\ ~outcome["baseline"].raised
    /\ BeginPass("simulated", ApplyOverrides(entity))

StartSteps ==
    /\ \/ "simulated" \in DOMAIN outcome
       \/ "baseline" \in DOMAIN outcome /\ outcome["baseline"].raised
    /\ BeginPass("steps", entity)

\* The rule that the pass is at, and whether it must ask the language model.
Here == rules[position]

Running == pass # "idle" /\ position <= Len(rules)

Asks(r) ==
    LET ctx == EvalContext(data, metrics)
        met == IF pass = "steps" THEN EvaluateClause(Rule[r].when, ctx)
               ELSE Evaluate(Rule[r].when, ctx)
        formulaOk == \/ Rule[r].formula = NULL \/ pass = "steps"
                     \/ Get(ctx, Rule[r].formula, NULL) # NULL
    IN  \/ met = "true" /\ formulaOk /\ Rule[r].then.op = "llm_judge"
        \/ met = "false" /\ pass # "steps" /\ Rule[r].else_.op = "llm_judge"

\* Disabled and out of scope rules leave no result.
SkipRule ==
    /\ Running /\ ~Applies(pass, Here)
    /\ position' = position + 1
    /\ UNCHANGED <<inputs, pass, rules, attempt, context, outcome>>

\* A mutant of Finish: a rule that failed is not reported.
FinishUnlessFailed(effect, newAlerts) ==
    /\ metrics' = effect.metrics
    /\ alerts' = newAlerts
    /\ results' = IF effect.result.error THEN results
                  ELSE Append(results, effect.result)
    /\ position' = position + 1
    /\ attempt' = 0
    /\ UNCHANGED <<inputs, pass, rules, data, outcome>>

Finish(effect, newAlerts) ==
    /\ metrics' = effect.metrics
    /\ alerts' = newAlerts
    /\ results' = Append(results, effect.result)
    /\ position' = position + 1
    /\ attempt' = 0
    /\ UNCHANGED <<inputs, pass, rules, data, outcome>>

Apply(answered) ==
    IF pass = "steps"
    THEN \E effect \in {SimulateStep(Here, data, metrics, answered)} :
             Finish(effect, alerts \o StepAlerts(effect.result.out))
    ELSE \E effect \in {ExecuteRule(Here, data, metrics, alerts, answered)} :
             Finish(effect, effect.alerts)

RunRule ==
    /\ Running /\ Applies(pass, Here) /\ ~Asks(Here)
    /\ Apply(FALSE)

\* The first of at most MaxRetries + 1 calls.
AskModel ==
    /\ Running /\ Applies(pass, Here) /\ Asks(Here)
    /\ attempt = 0
    /\ attempt' = 1
    /\ UNCHANGED <<inputs, pass, rules, position, context, outcome>>

ModelAnswers ==
    /\ attempt > 0
    /\ Apply(TRUE)

\* A mutant of ModelRetried: the attempts start again after the last one.
ModelRetriedForever ==
    /\ attempt > 0
    /\ attempt' = IF attempt > MaxRetries THEN 1 ELSE attempt + 1
    /\ UNCHANGED <<inputs, pass, rules, position, context, outcome>>

\* A timeout or an error, and another call after the backoff.
ModelRetried ==
    /\ attempt \in 1..MaxRetries
    /\ attempt' = attempt + 1
    /\ UNCHANGED <<inputs, pass, rules, position, context, outcome>>

ModelFails ==
    /\ attempt > MaxRetries
    /\ Apply(FALSE)

\* An analysis or a simulation that cannot compare None raises as a whole.
Outcome(p, m, as, rs) ==
    LET raised == p # "steps" /\ NeedsLevel(m, as) /\ LevelRaises(m)
    IN  [raised |-> raised,
         decision |-> IF raised THEN NULL ELSE Decide(p, m, as),
         metrics |-> m, alerts |-> as, results |-> rs]

End ==
    /\ pass # "idle" /\ position > Len(rules)
    /\ outcome' = Entry(pass, Outcome(pass, metrics, alerts, results)) ++ outcome
    /\ pass' = "idle" /\ rules' = << >> /\ position' = 1
    /\ UNCHANGED <<inputs, attempt, context>>

ExecutionNext ==
    \/ StartAnalysis \/ StartBaseline \/ StartSimulation \/ StartSteps
    \/ SkipRule \/ RunRule \/ AskModel \/ ModelAnswers \/ ModelRetried
    \/ ModelFails \/ End

\* wait_for bounds every call, so that one that is awaited comes to an end.
ExecutionSpec ==
    /\ ExecutionInit /\ [][ExecutionNext]_executionVars
    /\ WF_executionVars(ModelAnswers \/ ModelRetried \/ ModelFails)

\* The names a comparison of two runs shows; None is as good as missing.
Diffs(x, y) == {k \in DOMAIN x \cup DOMAIN y : Get(x, k, NULL) # Get(y, k, NULL)}

Comparison == Diffs(outcome["baseline"].metrics, outcome["simulated"].metrics)

-----------------------------------------------------------------------------
Over(p) == p \in DOMAIN outcome

Ended(p) == Over(p) /\ ~outcome[p].raised

Approvals == {"APPROVE", "APPROVE_WITH_CONDITIONS", "APPROVE_RESTRICTED"}

NoModel == \A i \in DOMAIN chain :
               "llm_judge" \notin {Rule[chain[i]].then.op, Rule[chain[i]].else_.op}

\* A result whose output was written into the metrics, the name included, ...
Wrote(res, name) ==
    /\ name \in DOMAIN res.out \ {"error", "alert_triggered"}
    /\ (IF res.passed THEN Rule[res.rule].then ELSE Rule[res.rule].else_).op
           \in Registered \cup {"generate_decision"}

\* ... and one whose rule may have stored its formula before its action ran,
\* or failed.
StoredFormula(res, name) ==
    /\ Rule[res.rule].formula # NULL
    /\ name = Rule[res.rule].id_result
    /\ res.passed \/ res.error

LastWriter(p, name) ==
    LET rs == outcome[p].results
        writers == {i \in DOMAIN rs : Wrote(rs[i], name)}
    IN  IF writers = {} THEN 0 ELSE Max(writers)

\* No chain of rules approves past a rejection or a critical alert: after a
\* critical alert an execution ends in a rejection or a review, an analysis
\* approves only when the last rule that touched eligibility granted it, and
\* when that rule refused it the decision is a rejection.
RejectionStands ==
    \A p \in {"analysis", "baseline", "simulated"} :
        Ended(p) =>
            LET last == LastWriter(p, "eligible")
                granted == IF last = 0 THEN NULL
                           ELSE outcome[p].results[last].out["eligible"]
            IN  /\ Critical(outcome[p].alerts) =>
                       outcome[p].decision \in {"REJECT", "REVIEW"}
                /\ p = "analysis" /\ outcome[p].decision \in Approvals => granted = TRUE
                /\ granted = FALSE => outcome[p].decision = "REJECT"

\* How many of the first k rules of a sequence apply.
AppliedAmong(p, seq, k) == Cardinality({i \in 1..k : Applies(p, seq[i])})

\* Every applicable rule is reported once, in the order of execution, however
\* many of them fail, and the reports explain the response: each computed
\* metric is what the last report that wrote it says, or is the value of the
\* formula of a rule that is reported later.
ResultsExplainMetrics ==
    \A p \in {"analysis", "baseline", "simulated"} :
        Over(p) =>
            LET rs == outcome[p].results
                m == outcome[p].metrics
                seq == Sequence(p)
            IN  /\ Len(rs) = AppliedAmong(p, seq, Len(seq))
                /\ \A k \in DOMAIN seq :
                       Applies(p, seq[k]) => rs[AppliedAmong(p, seq, k)].rule = seq[k]
                /\ \A name \in DOMAIN m :
                       LET last == LastWriter(p, name)
                       IN  \/ /\ last # 0
                              /\ ~rs[last].error
                              /\ rs[last].out[name] = m[name]
                           \/ \E i \in DOMAIN rs :
                                 i > last /\ StoredFormula(rs[i], name)

\* Without metrics of the engine and without the language model, the run that
\* overrides nothing computes and decides what the analysis does, or raises
\* as it does; only where no rule set eligibility may it say more.
SimulationAgrees ==
    LET p == IF overrides = Nothing THEN "simulated" ELSE "baseline"
        Agrees(x, y) == /\ x.raised = y.raised
                        /\ x.metrics = y.metrics
                        /\ x.alerts = y.alerts
                        /\ x.results = y.results
                        /\ x.decision # NULL => x.decision = y.decision
    IN  Over("analysis") /\ Over(p) /\ l3 = Nothing /\ NoModel =>
            Agrees(outcome["analysis"], outcome[p])

\* What the overrides can reach: from a changed attribute to every name that a
\* rule which reads it wrote in either run.
Reads(r) ==
    {Rule[r].when.atoms[i].field : i \in DOMAIN Rule[r].when.atoms}
    \cup ({Rule[r].formula} \ {NULL})
    \cup OperatorReads(Rule[r].then.op, Rule[r].then.params)
    \cup OperatorReads(Rule[r].else_.op, Rule[r].else_.params)

Touched(r) ==
    LET outs == {outcome[p].results[i] : i \in DOMAIN outcome["baseline"].results,
                                         p \in {"baseline", "simulated"}}
        names == UNION {DOMAIN res.out : res \in {x \in outs : x.rule = r}}
    IN  names \cup {Rule[r].id_result}
        \cup (IF "alert_triggered" \in names THEN {"alerts"} ELSE {})

\* The attributes that the overrides change, and with them what the rules at
\* these places wrote before place k.
ReachedFrom(seq, places, k) ==
    {n \in DOMAIN overrides : n \in DOMAIN entity => entity[n] # overrides[n]}
    \cup UNION {Touched(seq[i]) : i \in {j \in places : j < k}}

\* Places that hold every applicable rule which reads what they reach.
ClosedUnderReading(seq, places) ==
    \A k \in DOMAIN seq \ places :
        Applies("simulated", seq[k]) =>
            Reads(seq[k]) \cap ReachedFrom(seq, places, k) = {}

\* The least of them: what the overrides reach.
Reached ==
    LET seq == Sequence("simulated")
        closed == {places \in SUBSET (DOMAIN seq) : ClosedUnderReading(seq, places)}
        least == {k \in DOMAIN seq : \A places \in closed : k \in places}
    IN  ReachedFrom(seq, least, Len(seq) + 1)

\* What a what-if reports as changed was changed by the overrides: the two
\* runs share no context, so a metric or the alerts differ only if a changed
\* attribute reaches them through the rules.
OverridesExplainDiffs ==
    Over("baseline") /\ Over("simulated") /\ NoModel =>
        /\ Comparison \subseteq Reached
        /\ outcome["baseline"].alerts # outcome["simulated"].alerts =>
               "alerts" \in Reached

\* What an execution or a simulation keeps under a name of its own.
Private == {"alerts", "skipped", "error", "alert_triggered"}

\* A group whose steps keep the rules' order, all enabled and in scope with
\* no else, formula or unregistered action, computes what the analysis does
\* when nothing raises and no alert was there to lower a score, unless a rule
\* or an attribute uses one of those names.
StepsAgree ==
    LET plain == \A i \in DOMAIN chain :
                     LET r == Rule[chain[i]]
                     IN  /\ r.enabled /\ r.in_scope /\ r.formula = NULL
                         /\ r.else_.op = "none"
                         /\ r.then.op \in Registered \ {"llm_judge"}
                         /\ \A k \in DOMAIN r.when.atoms : r.when.atoms[k].field \notin Private
                         /\ \/ r.then.op = "calculate_credit_score"
                            \/ OperatorReads(r.then.op, r.then.params) \cap Private = {}
        calm == \A p \in {"analysis", "steps"} : \A i \in DOMAIN outcome[p].results :
                     /\ ~outcome[p].results[i].error
                     /\ "alerts" \notin DOMAIN outcome[p].results[i].out
        Kept(m) == [k \in DOMAIN m \ Private |-> m[k]]
    IN  (/\ Over("analysis") /\ Over("steps")
         /\ l3 = Nothing /\ "alerts" \notin DOMAIN entity
         /\ plain /\ ByPriority(chain) = chain
         /\ calm /\ outcome["analysis"].alerts = << >>) =>
            Kept(outcome["steps"].metrics) = Kept(outcome["analysis"].metrics)

\* A rule that asks the language model gets a result, however often the model
\* fails: the retries of one that never answers are used up.
RetriesEnd == attempt > 0 ~> attempt = 0

=============================================================================
