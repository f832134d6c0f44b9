-------------------------- MODULE MCRuleExecution --------------------------
(* Twenty-three rules that use every operator: each alone, each pair of     *)
(* nine, and longer chains that decide; attributes that are missing, L3     *)
(* metrics that are there or not, overrides of read and unread attributes.  *)
EXTENDS RuleExecution, TLC

None_ == [op |-> "none", params |-> Nothing]

Always == [all |-> TRUE, atoms |-> << >>]

AllOf(atoms) == [all |-> TRUE, atoms |-> atoms]
AnyOf(atoms) == [all |-> FALSE, atoms |-> atoms]

Atom(f, min) == [field |-> f, min |-> min]

Act(op, p) == [op |-> op, params |-> p]

Base == [priority |-> 2, enabled |-> TRUE, in_scope |-> TRUE, when |-> Always,
         formula |-> NULL, id_result |-> "none_result",
         then |-> None_, else_ |-> None_]

Does(op, p) == [Base EXCEPT !.then = Act(op, p)]

Score(f, w) == [name |-> f, weight |-> w]

MCRule ==
    [gate |-> [Base EXCEPT !.priority = 3,
                           !.when = AllOf(<<Atom("registered_capital", 10)>>),
                           !.then = Act("approve_eligibility", Nothing),
                           !.else_ = Act("reject_eligibility", Nothing)],
     either |-> [Does("set_flag", [flag_name |-> "eligible", flag_value |-> TRUE])
                   EXCEPT !.when = AnyOf(<<Atom("registered_capital", 10),
                                           Atom("bonus", 1)>>)],
     deny |-> Does("set_flag", [flag_name |-> "eligible", flag_value |-> FALSE]),
     score |-> Does("calculate_credit_score", Nothing),
     adjust |-> Does("compute_formula", [source |-> "bonus", times |-> 1,
                                         output_key |-> "credit_score"]),
     regrant |-> Does("compute_formula", [source |-> "granted", times |-> 1,
                                          output_key |-> "eligible"]),
     alarm |-> [Does("trigger_alert", [alert_level |-> "critical", alert_type |-> "chain"])
                  EXCEPT !.when = AllOf(<<Atom("guarantee_chain_depth", 2)>>)],
     warn |-> Does("trigger_alert", [alert_level |-> "warning", alert_type |-> "chain"]),
     decide |-> [Does("generate_decision", Nothing) EXCEPT !.priority = 1],
     judge |-> [Does("llm_judge", [output_key |-> "risk", fallback_output |-> 0])
                  EXCEPT !.priority = 1,
                         !.when = AllOf(<<Atom("registered_capital", 10)>>)],
     bin |-> Does("binning", [value |-> "registered_capital", default |-> "OTHER",
                 bins |-> <<[min |-> 0, max |-> 10, inclusive_max |-> FALSE, label |-> "LOW"],
                            [min |-> 10, max |-> 20, inclusive_max |-> TRUE, label |-> "HIGH"]>>]),
     table |-> [Does("decision_table",
                 [columns |-> <<"bin">>, default |-> "rate" :> 3,
                  rows |-> <<[cells |-> <<[kind |-> "list", value |-> "HIGH"]>>, output |-> "rate" :> 1],
                             [cells |-> <<[kind |-> "value", value |-> "LOW"]>>, output |-> "rate" :> 2]>>])
                  EXCEPT !.priority = 1],
     switch |-> Does("switch", [value |-> "credit_score", default |-> 0,
                 cases |-> <<[min |-> 80, result |-> 2], [min |-> 60, result |-> 1]>>]),
     weights |-> Does("weighted_sum", [output |-> "credit_score", grade_input |-> "credit_grade",
                 grade_multipliers |-> 80 :> 120,
                 weights |-> <<[input |-> "registered_capital", weight |-> 2],
                               [input |-> "bonus", weight |-> 1]>>]),
     card |-> Does("scorecard", [output_key |-> "credit_score", range_min |-> 0, range_max |-> 100,
                 grade_mapping |-> {50, 80},
                 factors |-> <<Score("bonus", 1), Score(NULL, 1)>>]),
     limit |-> Does("calculate_credit_limit", Nothing),
     rate |-> Does("determine_interest_rate", Nothing),
     graph |-> [Does("graph_traversal", [relation_type |-> "guarantees"])
                  EXCEPT !.formula = "bonus", !.id_result = "graph_result"],
     blank |-> Does("compute_formula", [source |-> "none", times |-> 1,
                                        output_key |-> "credit_score"]),
     rated |-> [Does("determine_interest_rate", Nothing)
                  EXCEPT !.formula = "bonus", !.id_result = "rated_result"],
     other |-> [Does("SET_FLAG", [flag |-> 1]) EXCEPT
                   !.priority = 3, !.else_ = Act("reject_eligibility", Nothing)],
     off |-> [Does("approve_eligibility", Nothing) EXCEPT !.enabled = FALSE],
     elsewhere |-> [Does("approve_eligibility", Nothing) EXCEPT !.in_scope = FALSE]]

MCRuleIds == DOMAIN MCRule

Writers == {"gate", "deny", "score", "adjust", "regrant", "alarm", "decide",
            "card", "graph"}

MCChains ==
    {<<r>> : r \in MCRuleIds}
    \cup {<<r, s>> \in Writers \X Writers : r # s}
    \cup {<<"gate", "judge">>, <<"blank", "rated">>, <<"judge", "decide">>, <<"gate", "score", "decide">>, <<"score", "gate", "alarm", "decide">>,
          <<"alarm", "score", "either", "judge">>, <<"gate", "adjust", "switch">>,
          <<"deny", "regrant", "decide">>, <<"either", "card", "limit", "rate">>,
          <<"bin", "weights", "table", "gate">>, <<"warn", "score", "deny", "either">>}

MCEntityData ==
    {[registered_capital |-> 20, tax_compliance_score |-> 100,
      business_stability_score |-> 100],
     [registered_capital |-> 5, bonus |-> 90, guarantee_chain_depth |-> 3]}

MCL3Metrics == {Nothing, [guarantee_chain_depth |-> 3]}

MCOverrides == {Nothing, [registered_capital |-> 8, unread |-> 1], [bonus |-> 70]}
=============================================================================
