--------------------------- MODULE MCRuleTransfer ---------------------------
(***************************************************************************)
(* Groups "A" and "B", and files of each format that give A, or both,      *)
(* steps x and y: some with a step that cannot be stored, an id used       *)
(* twice, a clause in each form, a definition that is named twice.         *)
(***************************************************************************)
EXTENDS RuleTransfer

GroupHead(enabled, applies, inputs) == [enabled |-> enabled, applies |-> applies, inputs |-> inputs]

Applies(facts, text, categories) == [facts |-> facts, text |-> text, categories |-> categories]

PlainHead == GroupHead(TRUE, Applies({"Supplier"}, FALSE, "dict"), <<[id |-> "i", name |-> Absent]>>)

BareHead ==
    GroupHead(Absent, Applies(Absent, FALSE, "list"),
         <<[id |-> Absent, name |-> "n"], [id |-> Absent, name |-> Absent]>>)

MCHeads == {PlainHead}

Flag(v) == Params("flag", {<<"ok", v>>})

Step(id, order, when, then, else, enabled) ==
    [id |-> id, order |-> order, when |-> when, then |-> then, else |-> else,
     enabled |-> enabled]

SetFlag(v) == Action("SET_FLAG", Flag(v), {"ok"})

OfClient == [NoWhen EXCEPT !.type = "all_of", !.sub = {"a", "b"}]

ClientAction == [NoAction EXCEPT !.operator = "COMPUTE", !.camel = {"c"}]

MCSent ==
    {Step("x", 2, OfClient, ClientAction, SetFlag("false"), FALSE),
     Step("y", 1, NoWhen, SetFlag("true"), None, TRUE),
     Step("y", 1, When(Absent, "a", Absent), NoAction, None, TRUE),
     Step("z", 1, When("any_of", Absent, {"a"}), SetFlag("true"), None, TRUE)}

Phase2(name, head, q) == [format |-> "phase2", name |-> name, head |-> head, steps |-> q]

Logic(definition, q) == [definition |-> definition, steps |-> q]

Legacy(definitions, logics) ==
    [format |-> "legacy", definitions |-> definitions, logics |-> logics]

L4Logic(id, definition, when, then, else) ==
    [id |-> id, definition |-> definition, when |-> when, then |-> then, else |-> else]

NoL4When == [expression |-> Absent, allOf |-> Absent, anyOf |-> Absent, other |-> Absent]

L4Definition(id, name, logicIds) ==
    [id |-> id, name |-> name, logicIds |-> logicIds, head |-> PlainHead]

Output(type, output) == [type |-> type, output |-> output]

Eligible == Output("set_flag", <<<<"why", "text">>, <<"ok", "true">>, <<"also", "false">>>>)

L4Logics ==
    <<L4Logic("x", "D1", [NoL4When EXCEPT !.expression = "a"], Eligible,
              Output("Set_Flag", <<<<"ok", "false">>>>)),
      L4Logic("y", "D2", [NoL4When EXCEPT !.allOf = {}, !.anyOf = {"a", "b"}],
              Output("compute", <<<<"c", "text">>>>), Output("alert", <<<<"l", "text">>>>)),
      L4Logic("z", Absent, [NoL4When EXCEPT !.other = "raw"], Output("notify", << >>), None),
      L4Logic(Absent, "D2", NoL4When, None, None)>>

MCFiles ==
    {Phase2("A", PlainHead,
            <<Step("y", 0, When("any_of", Absent, {"a", "b"}), SetFlag("true"), SetFlag("false"),
                   Absent),
              Step("x", Absent, When("script", "s", {"a"}), NoAction, None, FALSE)>>),
     Phase2("A", BareHead,
            <<Step("x", NotANumber, When("expression", "a", Absent), SetFlag("true"), None, TRUE),
              Step("y", 3, When("expression", Absent, {"a"}), SetFlag("true"), None, TRUE),
              Step("y", 4, NoWhen, NoAction, None, TRUE)>>),
     Phase2("A", BareHead,
            <<Step(Absent, 1, When("expression", "a", Absent), SetFlag("true"), None, TRUE),
              Step("z", 2, When("expression", "b", Absent), SetFlag("true"), None, TRUE)>>),
     Phase2(Absent, PlainHead, << >>),
     Legacy(<<[name |-> "A", head |-> PlainHead], [name |-> "B", head |-> BareHead]>>,
            <<Logic("A", <<Step("x", Absent, NoWhen, SetFlag("true"), SetFlag("false"), Absent),
                           Step("y", Absent, When(Absent, "a", Absent), NoAction, None, Absent)>>),
              Logic("B", <<Step("x", Absent, NoWhen, NoAction, None, Absent)>>),
              Logic("A", <<Step("y", Absent, NoWhen, NoAction, None, Absent)>>)>>),
     Legacy(<< >>, << >>),
     [format |-> "l4", logics |-> L4Logics,
      definitions |-> <<L4Definition("D1", "A", <<"z", "x">>), L4Definition("D2", "B", << >>)>>],
     [format |-> "l4", logics |-> L4Logics,
      definitions |-> <<L4Definition("D2", "B", <<"x", "none">>), L4Definition("D1", "A", << >>),
                        L4Definition("D1", "B", << >>)>>]}
=============================================================================
