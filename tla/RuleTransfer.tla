---------------------------- MODULE RuleTransfer ----------------------------
(***************************************************************************)
(* How rule groups travel between semantic spaces: exported to a file, and *)
(* imported from an exported one or from one that users wrote, in one of   *)
(* three formats.  Requests come one at a time; how those of RuleStore     *)
(* interleave, and which of their storage operations fail, is said there.  *)
(*                                                                         *)
(* Steps belong to the NAME of a group, so two spaces share those of the   *)
(* groups they name alike.  What a client sends is stored as it is, and    *)
(* only an import brings clauses to one form.  Absent is a key that a      *)
(* dict lacks.                                                             *)
(***************************************************************************)
EXTENDS Integers, Sequences, FiniteSets, SequencesExt

CONSTANTS
    Spaces,
    Heads,          \* what groups are created with
    Names,          \* names of groups
    Sent,           \* the steps sent to create_rule_step
    Files,          \* the files users wrote
    Absent, None,
    NotANumber,     \* an order that does not fit its column
    MaxServed       \* bound: the requests that are served

IsList(q) == q \in Seq(ToSet(q))

\* The markers are not data, and the files have lists where they should.
ASSUME TransferAssumption ==
    /\ {Absent, NotANumber} \cap Nat = {}
    /\ Absent # "" /\ Absent # "expression" /\ Absent # TRUE
    /\ Absent # [kind |-> "given", values |-> {}]
    /\ \A f \in Files :
          /\ f.format = "phase2" => IsList(f.steps)
          /\ f.format \in {"legacy", "l4"} => IsList(f.definitions) /\ IsList(f.logics)
          /\ f.format = "legacy" => \A l \in ToSet(f.logics) : IsList(l.steps)
          /\ f.format = "l4" => \A d \in ToSet(f.definitions) : IsList(d.logicIds)

VARIABLES
    groups,         \* rows [space, name, head]
    steps,          \* rows [group, id, order, when, then, else, enabled]
    exported,       \* the last exported file, and the rows it was made of
    served

transferVars == <<groups, steps, exported, served>>

TransferInit ==
    /\ groups = {} /\ steps = {}
    /\ exported = None
    /\ served = 0

Serve == served < MaxServed /\ served' = served + 1

Given(value, default) == IF value = Absent THEN default ELSE value

-----------------------------------------------------------------------------
\* Clauses.  [type, expression, conditions, sub]: conditions are those under
\* "sub_conditions", sub those under the "subConditions" of the web client.
NoWhen == [type |-> Absent, expression |-> Absent, conditions |-> Absent, sub |-> Absent]

When(type, expression, conditions) ==
    [type |-> type, expression |-> expression, conditions |-> conditions, sub |-> Absent]

NormalWhen(w) ==
    LET type == Given(w.type, "expression")
    IN  IF w = NoWhen THEN When("expression", None, {})
        ELSE When(type,
                  IF type \in {"all_of", "any_of"} THEN "" ELSE Given(w.expression, ""),
                  IF type = "expression" THEN {} ELSE Given(w.conditions, {}))

Action(operator, params, mapping) ==
    [operator |-> operator, params |-> params, mapping |-> mapping, camel |-> Absent]

\* camel is the mapping under "outputMapping".
NoAction == Action(Absent, Absent, Absent)

Params(kind, values) == [kind |-> kind, values |-> values]

NormalAction(a) ==
    Action(Given(a.operator, ""), Given(a.params, Params("given", {})), Given(a.mapping, {}))

NormalApplies(a) ==
    [facts |-> Given(a.facts, {}), text |-> FALSE,
     categories |-> IF a.categories = "dict" THEN "dict" ELSE "empty"]

\* Inputs and outputs: any key but a few is dropped, and so is an id.
NormalElements(q) == [i \in DOMAIN q |-> [id |-> Absent, name |-> Given(q[i].name, "")]]

NormalHead(h) ==
    [enabled |-> Given(h.enabled, TRUE), applies |-> NormalApplies(h.applies),
     inputs |-> NormalElements(h.inputs)]

-----------------------------------------------------------------------------
\* Storing.
Row(n, st) ==
    [group |-> n, id |-> st.id, order |-> Given(st.order, 0), when |-> st.when,
     then |-> st.then, else |-> st.else, enabled |-> Given(st.enabled, TRUE)]

\* The INSERT of any other step raises, when the row it replaces is deleted.
Storable(st) == st.id # Absent /\ st.order # NotANumber

Save(rows, n, st) ==
    {r \in rows : r.group # n \/ r.id # st.id}
    \cup (IF Storable(st) THEN {Row(n, st)} ELSE {})

\* The rows after the first k saves of q.
SaveFirst(rows, n, q, k) ==
    LET saved[i \in Nat] == IF i = 0 THEN rows ELSE Save(saved[i - 1], n, q[i])
    IN  saved[k]

\* Mutant of SaveAll: nothing is saved after the first save that raises.
SaveUntilError(rows, n, q) ==
    LET bad == SelectInSeq(q, LAMBDA st : ~Storable(st))
    IN  SaveFirst(rows, n, q, IF bad = 0 THEN Len(q) ELSE bad)

\* gather: the saves wait for the lock in their order, and one that raises
\* stops none.
SaveAll(rows, n, q) == SaveFirst(rows, n, q, Len(q))

Taken(gs, s, n) == \E g \in gs : g.space = s /\ g.name = n

Group(s, n, h) == [space |-> s, name |-> n, head |-> h]

CreateGroup(s, n, h) ==
    /\ Serve
    /\ ~Taken(groups, s, n)
    /\ groups' = groups \cup {Group(s, n, h)}
    /\ UNCHANGED <<steps, exported>>

CreateStep(s, n, st) ==
    /\ Serve
    /\ Taken(groups, s, n)
    /\ steps' = Save(steps, n, st)
    /\ UNCHANGED <<groups, exported>>

DeleteGroup(s, n) ==
    /\ Serve
    /\ Taken(groups, s, n)
    /\ groups' = {g \in groups : g.space # s \/ g.name # n}
    /\ steps' = {r \in steps : r.group # n}
    /\ UNCHANGED exported

\* ORDER BY step_order leaves open which of two steps with one order is first.
Listed(n) ==
    {q \in SetToSeqs({r \in steps : r.group = n}) :
        \A i, j \in DOMAIN q : i < j => q[i].order <= q[j].order}

\* A file has the steps of its group as they are stored, and their orders.
Export(s, n) ==
    /\ Serve
    /\ \E g \in groups, q \in Listed(n) :
          /\ g.space = s /\ g.name = n
          /\ exported' = [file |-> [format |-> "phase2", name |-> n, head |-> g.head,
                                    steps |-> q],
                          rows |-> {r \in steps : r.group = n}]
    /\ UNCHANGED <<groups, steps>>

-----------------------------------------------------------------------------
\* Importing.

\* Mutant of Imported: looks for the order under the name of its column.
ImportedUnordered(st) ==
    [id |-> st.id, order |-> 0, when |-> NormalWhen(st.when),
     then |-> NormalAction(st.then), else |-> None, enabled |-> st.enabled]

\* "else" is not read.
Imported(st) ==
    [id |-> st.id, order |-> st.order, when |-> NormalWhen(st.when),
     then |-> NormalAction(st.then), else |-> None, enabled |-> st.enabled]

ImportPhase2(f, s) ==
    /\ f.format = "phase2" /\ f.name # Absent
    /\ ~Taken(groups, s, f.name)
    /\ groups' = groups \cup {Group(s, f.name, NormalHead(f.head))}
    /\ steps' = SaveAll(steps, f.name, [i \in DOMAIN f.steps |-> Imported(f.steps[i])])

\* The steps of one logic, whose places are their orders.
Placed(q) ==
    [i \in DOMAIN q |->
        [id |-> q[i].id, order |-> i - 1, when |-> q[i].when, then |-> q[i].then,
         else |-> q[i].else, enabled |-> TRUE]]

SaveLogics(rows, n, logics) ==
    LET saved[i \in 0..Len(logics)] ==
            IF i = 0 THEN rows
            ELSE IF logics[i].definition = n
                 THEN SaveAll(saved[i - 1], n, Placed(logics[i].steps))
                 ELSE saved[i - 1]
    IN  saved[Len(logics)]

\* Only the first definition of the file is imported.
ImportLegacy(f, s) ==
    /\ f.format = "legacy" /\ f.definitions # << >>
    /\ LET d == f.definitions[1]
       IN  /\ d.name # Absent /\ ~Taken(groups, s, d.name)
           /\ groups' = groups \cup {Group(s, d.name, [d.head EXCEPT !.enabled = TRUE])}
           /\ steps' = SaveLogics(steps, d.name, f.logics)

ImportFile(f, s) ==
    /\ Serve
    /\ ImportPhase2(f, s) \/ ImportLegacy(f, s)
    /\ UNCHANGED exported

-----------------------------------------------------------------------------
\* A schema file of level L4.

\* The when of a logic: [expression, allOf, anyOf, other].
L4When(w) ==
    CASE w.expression # Absent -> When("expression", w.expression, {})
      [] w.expression = Absent /\ {w.allOf, w.anyOf} # {Absent} ->
            When(IF w.allOf # Absent THEN "all_of" ELSE "any_of", None,
                 IF w.allOf \notin {Absent, {}} THEN w.allOf ELSE Given(w.anyOf, {}))
      [] OTHER -> When("expression", Given(w.other, None), {})

\* ACTION_TYPE_MAP after lower(), or upper().
Operator(type) ==
    CASE type \in {"set_flag", "Set_Flag"} -> "SET_FLAG"
      [] type = "compute" -> "COMPUTE"
      [] type = "alert" -> "ALERT"
      [] OTHER -> "NOTIFY"

\* output is a sequence of <<key, value>>.  The first Boolean is the flag; of
\* the others only the keys remain.
L4Params(type, output) ==
    LET flag == SelectInSeq(output, LAMBDA o : o[2] \in {"true", "false"})
    IN  CASE type = "set_flag" -> Params("flag", IF flag = 0 THEN {} ELSE {output[flag]})
          [] type = "compute" -> Params("computations", ToSet(output))
          [] type = "alert" -> Params("alert_data", ToSet(output))
          [] OTHER -> Params("raw_output", ToSet(output))

L4Mapping(type, output) ==
    IF type # "set_flag" THEN {}
    ELSE {o[1] : o \in ToSet(output) \ L4Params(type, output).values}

L4Action(a) ==
    IF a = None THEN NormalAction(NoAction)
    ELSE Action(Operator(a.type), L4Params(a.type, a.output), L4Mapping(a.type, a.output))

Converted(logic, i) ==
    [id |-> Given(logic.id, ""), order |-> i - 1, when |-> L4When(logic.when),
     then |-> L4Action(logic.then),
     else |-> IF logic.else = None THEN None ELSE L4Action(logic.else), enabled |-> TRUE]

IsNamed(f, d, i) == f.logics[i].definition # Absent /\ f.logics[i].definition = d.id

\* The places of the logics that name the definition.
Naming(f, d) ==
    LET named[i \in 0..Len(f.logics)] ==
            IF i = 0 THEN << >>
            ELSE IF IsNamed(f, d, i) THEN Append(named[i - 1], i) ELSE named[i - 1]
    IN  named[Len(f.logics)]

\* Of the logics with one id, logic_by_id has the last.
WithId(f, q, id) ==
    LET indexed == SelectLastInSeq(f.logics, LAMBDA l : l.id = id)
    IN  IF indexed = 0 \/ \E k \in ToSet(q) : f.logics[k].id = id THEN q
        ELSE Append(q, indexed)

\* The logics that name the definition, then those its ids name.
Matching(f, d) ==
    LET matched[i \in 0..Len(d.logicIds)] ==
            IF i = 0 THEN Naming(f, d)
            ELSE WithId(f, matched[i - 1], d.logicIds[i])
    IN  matched[Len(d.logicIds)]

L4Steps(f, d) ==
    LET q == Matching(f, d)
    IN  [i \in DOMAIN q |-> Converted(f.logics[q[i]], i)]

SaveDefinitions(rows, f, q) ==
    LET saved[i \in 0..Len(q)] ==
            IF i = 0 THEN rows ELSE SaveAll(saved[i - 1], q[i].name, L4Steps(f, q[i]))
    IN  saved[Len(q)]

L4Head(d) ==
    [enabled |-> Given(d.head.enabled, TRUE),
     applies |-> [facts |-> Given(d.head.applies.facts, {}), text |-> FALSE,
                  categories |-> "empty"],
     inputs |-> [i \in DOMAIN d.head.inputs |->
                    [id |-> Absent,
                     name |-> Given(d.head.inputs[i].id, Given(d.head.inputs[i].name, ""))]]]

\* The definitions before the first that has no name or a taken one, which may
\* be that of an earlier definition, are imported; then the import raises.
Accepted(f, s) ==
    LET q == f.definitions
        refused == {i \in DOMAIN q : \/ q[i].name = Absent
                                     \/ Taken(groups, s, q[i].name)
                                     \/ \E j \in 1..(i - 1) : q[j].name = q[i].name}
    IN  IF refused = {} THEN q ELSE SubSeq(q, 1, Min(refused) - 1)

ImportL4(f, s) ==
    /\ Serve
    /\ f.format = "l4"
    /\ LET q == Accepted(f, s)
       IN  /\ groups' = groups \cup {Group(s, d.name, L4Head(d)) : d \in ToSet(q)}
           /\ steps' = SaveDefinitions(steps, f, q)
    /\ UNCHANGED exported

-----------------------------------------------------------------------------
\* validate_yaml, which knows no L4 file.
Valid(f) ==
    \/ /\ f.format = "phase2" /\ f.name # Absent
       /\ \A st \in ToSet(f.steps) : st.id # Absent /\ st.when # NoWhen
    \/ /\ f.format = "legacy" /\ f.definitions # << >>
       /\ f.definitions[1].name # Absent
       /\ \A l \in ToSet(f.logics) :
             l.definition # Absent /\ \A st \in ToSet(l.steps) : st.id # Absent

Reimport(s) ==
    /\ Serve
    /\ exported # None /\ ImportPhase2(exported.file, s)
    /\ UNCHANGED exported

TransferNext ==
    \E s \in Spaces :
        \/ \E n \in Names :
              \/ \E h \in Heads : CreateGroup(s, n, h)
              \/ \E st \in Sent : CreateStep(s, n, st)
              \/ DeleteGroup(s, n) \/ Export(s, n)
        \/ \E f \in Files : ImportFile(f, s) \/ ImportL4(f, s)
        \/ Reimport(s)

TransferSpec == TransferInit /\ [][TransferNext]_transferVars

-----------------------------------------------------------------------------
\* How the engine reads a clause: either spelling of the lists, and a clause
\* with nothing to test holds always.
ReadList(list, camel) == IF list \notin {Absent, {}} THEN list ELSE Given(camel, {})

Tests(w) ==
    LET type == Given(w.type, "expression")
        list == ReadList(w.conditions, w.sub)
    IN  CASE type = "expression" /\ w.expression \notin {Absent, None, ""} ->
                <<type, {w.expression}>>
          [] type \in {"all_of", "any_of"} /\ list # {} -> <<type, list>>
          [] OTHER -> <<"always", {}>>

Does(a) ==
    [operator |-> Given(a.operator, ""), params |-> Given(a.params, Params("given", {})),
     mapping |-> ReadList(a.mapping, a.camel)]

\* An exported file that is imported brings back every step of its group as
\* it was at the export: its place, whether it is enabled, what it tests and
\* what it does, whoever stored it, an import or a client, and whatever
\* happened to the group since.  Only its else and lists under the web
\* client's spelling are lost.  (RFC-017: import, export, import.)
RoundTrip ==
    [][\A s \in Spaces : Reimport(s) => \A r \in exported.rows :
          \E x \in steps' :
              /\ x.group = r.group /\ x.id = r.id
              /\ x.order = r.order /\ x.enabled = r.enabled
              /\ r.when.sub = Absent => Tests(x.when) = Tests(r.when)
              /\ r.then.camel = Absent => Does(x.then) = Does(r.then)]_transferVars

Stored(n, id, orders) ==
    \E r \in steps' : r.group = n /\ r.id = id /\ r.order \in orders

\* q[i] is what an import of q leaves of its id.
Wins(q, i) == Storable(q[i]) /\ \A j \in (i + 1)..Len(q) : q[j].id # q[i].id

WholePhase2(f, n) ==
    \A i \in DOMAIN f.steps :
        Wins(f.steps, i) => Stored(n, f.steps[i].id, {Given(f.steps[i].order, 0)})

\* Logics of one definition that use an id twice: either may win.
WholeLegacy(f, n) ==
    \A l \in ToSet(f.logics) : l.definition = n =>
        \A i \in DOMAIN l.steps : l.steps[i].id # Absent =>
            Stored(n, l.steps[i].id,
                   UNION {{j - 1 : j \in {k \in DOMAIN m.steps : m.steps[k].id = l.steps[i].id}} :
                             m \in {m \in ToSet(f.logics) : m.definition = n}})

\* Of definitions with one name the first is imported.
WholeL4(f, n) ==
    \A i \in DOMAIN f.definitions, l \in ToSet(f.logics) :
        LET d == f.definitions[i]
        IN  /\ d.name = n /\ \A j \in 1..(i - 1) : f.definitions[j].name # n
            /\ \/ l.definition # Absent /\ l.definition = d.id
               \/ l.id # Absent /\ l.id \in ToSet(d.logicIds)
            => Stored(n, Given(l.id, ""), 0..(Len(f.logics) - 1))

\* Every group that an import adds has all the steps its file gives it that
\* the table takes, whatever other groups of the file were refused and
\* whatever steps the name had; an import of a file that validate_yaml
\* accepts adds its group, and no step of another name changes.
ImportsWhole ==
    [][\A f \in Files, s \in Spaces : ImportFile(f, s) \/ ImportL4(f, s) =>
          LET new == {g.name : g \in groups' \ groups}
          IN  /\ Valid(f) => new # {}
              /\ \A n \in new :
                    CASE f.format = "phase2" -> WholePhase2(f, n)
                      [] f.format = "legacy" -> WholeLegacy(f, n)
                      [] f.format = "l4" -> WholeL4(f, n)
              /\ \A r \in steps : r.group \notin new => r \in steps']_transferVars
=============================================================================
