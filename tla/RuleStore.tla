------------------------------ MODULE RuleStore ------------------------------
(***************************************************************************)
(* Rule groups and their steps: RuleService over the DuckDB tables.        *)
(*                                                                         *)
(* Every storage operation holds the store's lock, so it is one step; the  *)
(* operations of concurrent requests interleave.  A service method reads   *)
(* the group first, and what it writes later it decides from that read.    *)
(* A write is a DELETE and an INSERT, each committed by itself: when the   *)
(* INSERT violates a constraint (NOT NULL), only the DELETE remains.       *)
(*                                                                         *)
(* Steps are keyed by the NAME of their group, without its space.  Methods *)
(* that only read are left out; so is update_rule_step, whose writing part *)
(* is never reached (it reads attributes of a dict).                       *)
(***************************************************************************)
EXTENDS Integers, Sequences

CONSTANTS
    Workers,      \* requests that can be under way at the same time
    GroupIds,     \* the uuids that rule groups get
    UuidLike,     \* identifiers of 36 characters with a hyphen
    Names,        \* names of rule groups
    Spaces,       \* schema_id: the semantic spaces
    StepIds,
    Fields,       \* what a rule group holds beside its keys
    Values,
    Imports,      \* the steps of import files
    Orderings,    \* the lists sent to reorder
    MaxOrder,     \* bound: the largest step_order
    MaxRequests   \* bound: the requests that are served

NewStep == [id : StepIds, order : 0..MaxOrder]

ASSUME ConstantsAssumption ==
    /\ GroupIds \subseteq UuidLike
    /\ MaxOrder \in Nat
    /\ MaxRequests \in Nat
    /\ Imports \subseteq SUBSET NewStep
    /\ Orderings \subseteq Seq(StepIds)
    /\ \A q \in Orderings : Len(q) <= MaxOrder + 1

Content == [Fields -> Values]

GroupRow == [id : GroupIds, name : Names, space : Spaces, content : Content]

StepRow == [group : Names, id : StepIds, order : 0..MaxOrder]

VARIABLES
    groups,   \* the rows of rule_groups
    steps,    \* the rows of rule_steps
    used,     \* the uuids given out
    served,   \* how many requests began
    job,      \* [Workers -> what the request has still to do]
    missed,   \* history: another request wrote about its name since its read
    excused   \* history: names whose steps may have lost their group

vars == <<groups, steps, used, served, job, missed, excused>>

\* name and space are those of the group found; saves holds the group row to
\* be saved, todo the steps to be saved.
Job(op, ident, g) ==
    [op |-> op, ident |-> ident, name |-> g.name, space |-> g.space,
     saves |-> {}, changes |-> {}, todo |-> {}, ids |-> <<>>]

Idle == [op |-> "idle"]

Init ==
    /\ groups = {}
    /\ steps = {}
    /\ used = {}
    /\ served = 0
    /\ job = [w \in Workers |-> Idle]
    /\ missed = [w \in Workers |-> FALSE]
    /\ excused = {}

-----------------------------------------------------------------------------
\* The service methods, up to the end of their first read.

\* get_rule_group: by uuid, or by name within a space.  What the identifier is
\* meant to be the code decides by its shape, so a group whose name looks like
\* a uuid is found by its id only.  Either way a request finds one row g; how
\* it was named matters only to the deletion.
Find(ident, space) ==
    {g \in groups : IF ident \in UuidLike THEN g.id = ident
                    ELSE g.name = ident /\ g.space = space}

Begin(w, j) ==
    /\ job[w] = Idle
    /\ served < MaxRequests
    /\ served' = served + 1
    /\ job' = [job EXCEPT ![w] = j]
    /\ missed' = [missed EXCEPT ![w] = FALSE]
    /\ UNCHANGED <<groups, steps, excused>>

\* Mutant of Import: does not look whether the name is taken.
ImportUnchecked(w, n, s, c, new) ==
    /\ \E i \in GroupIds \ used :
          /\ used' = used \cup {i}
          /\ LET row == [id |-> i, name |-> n, space |-> s, content |-> c]
             IN  Begin(w, [Job("create", n, row) EXCEPT !.saves = {row}, !.todo = new])

\* The three imports: "already exists" is refused.  That of an L4 schema does
\* this for one group after another.
Import(w, n, s, c, new) ==
    /\ Find(n, s) = {}
    /\ \E i \in GroupIds \ used :
          /\ used' = used \cup {i}
          /\ LET row == [id |-> i, name |-> n, space |-> s, content |-> c]
             IN  Begin(w, [Job("create", n, row) EXCEPT !.saves = {row}, !.todo = new])

CreateGroup(w, n, s, c) == Import(w, n, s, c, {})

\* Mutant of Merged: takes what was not sent from the defaults.
MergedWithDefaults(g, sent, c) ==
    [g EXCEPT !.content = CHOOSE d \in Content : \A f \in sent : d[f] = c[f]]

\* merged = dict(existing); merged.update(data).
Merged(g, sent, c) ==
    [g EXCEPT !.content = [f \in Fields |-> IF f \in sent THEN c[f] ELSE @[f]]]

UpdateGroup(w, g, sent, c) ==
    /\ Begin(w, [Job("update", g.name, g) EXCEPT
                    !.saves = {Merged(g, sent, c)}, !.changes = sent])
    /\ UNCHANGED used

DeleteGroup(w, ident, g) ==
    /\ Find(ident, g.space) = {g}
    /\ Begin(w, Job("delete", ident, g))
    /\ UNCHANGED used

\* create_rule_step: an id that the group has already is replaced.
CreateStep(w, g, st) ==
    /\ Begin(w, [Job("steps", g.name, g) EXCEPT !.todo = {st}])
    /\ UNCHANGED used

DeleteStep(w, g, id) ==
    /\ Begin(w, [Job("getstep", g.name, g) EXCEPT !.ids = <<id>>])
    /\ UNCHANGED used

Reorder(w, g, q) ==
    /\ Begin(w, [Job("reorder", g.name, g) EXCEPT !.ids = q])
    /\ UNCHANGED used

Request(w) ==
    \/ \E n \in Names, s \in Spaces, c \in Content :
          \/ CreateGroup(w, n, s, c)
          \/ \E new \in Imports : Import(w, n, s, c, new)
    \/ \E g \in groups :
          \/ \E sent \in SUBSET Fields : \E c \in [sent -> Values] :
                UpdateGroup(w, g, sent, c)
          \/ \E ident \in {g.id, g.name} : DeleteGroup(w, ident, g)
          \/ \E st \in NewStep : CreateStep(w, g, st)
          \/ \E id \in StepIds : DeleteStep(w, g, id)
          \/ \E q \in Orderings : Reorder(w, g, q)

-----------------------------------------------------------------------------
\* The storage operations that follow.

\* What the request does next, after a write about its name or none.
Continue(w, j, wrote) ==
    /\ job' = [job EXCEPT ![w] = j]
    /\ missed' = [v \in Workers |->
                    IF v = w THEN j # Idle /\ missed[w]
                    ELSE \/ missed[v]
                         \/ wrote /\ job[v] # Idle
                                  /\ job[v].name = job[w].name]
    /\ UNCHANGED <<used, served>>

\* DELETE ... WHERE id = ? OR (name = ? AND schema_id = ?).
Others(row) ==
    {g \in groups :
        g.id # row.id /\ ~(g.name = row.name /\ g.space = row.space)}

Saving(w) == job[w].op \in {"create", "update"}

SaveGroup(w) ==
    /\ Saving(w)
    /\ \E row \in job[w].saves : groups' = Others(row) \cup {row}
    /\ Continue(w, IF job[w].todo = {} THEN Idle
                   ELSE [job[w] EXCEPT !.op = "steps", !.saves = {}], TRUE)
    /\ UNCHANGED <<steps, excused>>

\* ... and its INSERT fails.
LoseGroup(w) ==
    /\ Saving(w)
    /\ \E row \in job[w].saves : groups' = Others(row)
    /\ excused' = excused \cup {job[w].name}
    /\ Continue(w, Idle, TRUE)
    /\ UNCHANGED steps

\* Mutant of RemoveGroup: leaves the steps.
RemoveGroupOnly(w) ==
    /\ job[w].op = "delete"
    /\ groups' = groups \ Find(job[w].ident, job[w].space)
    /\ Continue(w, Idle, TRUE)
    /\ UNCHANGED <<steps, excused>>

\* delete_rule_group: the steps by name, then the group.
RemoveGroup(w) ==
    /\ job[w].op = "delete"
    /\ LET gone == Find(job[w].ident, job[w].space)
           names == IF job[w].ident \in UuidLike THEN {g.name : g \in gone}
                    ELSE {job[w].ident}
       IN  /\ steps' = {st \in steps : st.group \notin names}
           /\ groups' = groups \ gone
    /\ Continue(w, Idle, TRUE)
    /\ UNCHANGED excused

OtherSteps(n, id) == {st \in steps : ~(st.group = n /\ st.id = id)}

\* gather runs the saves in any order, and to the end when one raises.
StepDone(w, st) ==
    IF job[w].todo = {st} THEN Idle
    ELSE [job[w] EXCEPT !.todo = @ \ {st}]

SaveStep(w, st) ==
    /\ job[w].op = "steps"
    /\ st \in job[w].todo
    /\ LET n == job[w].name
       IN  /\ steps' = OtherSteps(n, st.id)
                        \cup {[group |-> n, id |-> st.id, order |-> st.order]}
           /\ excused' = IF missed[w] THEN excused \cup {n} ELSE excused
    /\ Continue(w, StepDone(w, st), TRUE)
    /\ UNCHANGED groups

\* ... and its INSERT fails, or already its parameters.
LoseStep(w, st) ==
    /\ job[w].op = "steps"
    /\ st \in job[w].todo
    /\ steps' \in {steps, OtherSteps(job[w].name, st.id)}
    /\ Continue(w, StepDone(w, st), steps' # steps)
    /\ UNCHANGED <<groups, excused>>

GetStep(w) ==
    /\ job[w].op = "getstep"
    /\ Continue(w,
           IF \E st \in steps : st.group = job[w].name
                                /\ st.id = job[w].ids[1]
           THEN [job[w] EXCEPT !.op = "dropstep"] ELSE Idle, FALSE)
    /\ UNCHANGED <<groups, steps, excused>>

DropStep(w) ==
    /\ job[w].op = "dropstep"
    /\ steps' = OtherSteps(job[w].name, job[w].ids[1])
    /\ Continue(w, Idle, TRUE)
    /\ UNCHANGED <<groups, excused>>

\* The last place of a step in the list, if it is listed.
LastAt(q, id) ==
    {i \in 1..Len(q) : q[i] = id /\ \A k \in (i + 1)..Len(q) : q[k] # id}

\* enumerate(step_ids)
NewOrder(i) == i - 1

\* One UPDATE per listed id, under one lock.
ReorderSteps(w) ==
    /\ job[w].op = "reorder"
    /\ LET Places(st) == IF st.group = job[w].name
                         THEN LastAt(job[w].ids, st.id) ELSE {}
       IN  steps' = {st \in steps : Places(st) = {}} \cup
                    UNION {{[st EXCEPT !.order = NewOrder(i)] : i \in Places(st)} :
                              st \in steps}
    /\ Continue(w, Idle, TRUE)
    /\ UNCHANGED <<groups, excused>>

\* The operation raises before it changes anything: the request ends.
Fail(w) ==
    /\ job[w].op \notin {"idle", "steps"}
    /\ Continue(w, Idle, FALSE)
    /\ UNCHANGED <<groups, steps, excused>>

Operation(w) ==
    \/ SaveGroup(w) \/ LoseGroup(w) \/ RemoveGroup(w) \/ GetStep(w)
    \/ DropStep(w) \/ ReorderSteps(w) \/ Fail(w)
    \/ \E st \in NewStep : SaveStep(w, st) \/ LoseStep(w, st)

Next == \E w \in Workers : Request(w) \/ Operation(w)

Spec == Init /\ [][Next]_vars

-----------------------------------------------------------------------------
Busy ==
    [op : {"create", "update", "delete", "steps", "getstep", "dropstep",
           "reorder"},
     ident : GroupIds \cup Names, name : Names, space : Spaces,
     saves : SUBSET GroupRow, changes : SUBSET Fields,
     todo : SUBSET NewStep,
     ids : {q \in Seq(StepIds) : Len(q) <= MaxOrder + 1}]

TypeOK ==
    /\ groups \subseteq GroupRow
    /\ steps \subseteq StepRow
    /\ used \subseteq GroupIds
    /\ served \in 0..MaxRequests
    /\ job \in [Workers -> Busy \cup {Idle}]
    /\ missed \in [Workers -> BOOLEAN]
    /\ excused \subseteq Names

\* PRIMARY KEY (id) and UNIQUE (name, schema_id) of rule_groups, PRIMARY KEY
\* (rule_group, id) of rule_steps: no save runs into them.
KeysUnique ==
    /\ \A g, h \in groups :
          g.id = h.id \/ (g.name = h.name /\ g.space = h.space) => g = h
    /\ \A x, y \in steps : x.group = y.group /\ x.id = y.id => x = y

\* The table has no foreign key.  A step without a group is left only by a
\* step save that raced another request for the name, or by a group save whose
\* INSERT failed.
OrphansExcused ==
    \A st \in steps :
        (\E g \in groups : g.name = st.group) \/ st.group \in excused

IdsOf(G) == {g.id : g \in G}

\* The groups of row's key that the look-up by its name cannot find.
Unfindable(row) ==
    {g \in groups : row.name \in UuidLike /\ g.name = row.name
                                          /\ g.space = row.space}

\* A save of a group that raced no other request brings no deleted group back
\* and takes none away: create adds a group of a new id, update adds none.
\* The exception is a name that looks like a uuid: the check that it is free
\* looks for an id, so a second create takes the place of the first group, and
\* of no other.
UnracedSavesKeepGroups ==
    [][\A w \in Workers : SaveGroup(w) /\ ~missed[w] =>
          IF job[w].op = "create"
          THEN \A row \in job[w].saves :
                  /\ row.id \notin IdsOf(groups)
                  /\ IdsOf(groups') = IdsOf(groups \ Unfindable(row)) \cup {row.id}
          ELSE IdsOf(groups') = IdsOf(groups)]_vars

\* update_rule_group saves the whole row.  One that raced no other request
\* leaves the fields it was not sent as they are in the table.
UnracedUpdatesMerge ==
    [][\A w \in Workers : SaveGroup(w) /\ ~missed[w] /\ job[w].op = "update" =>
          \A g \in groups, row \in job[w].saves :
              g.id = row.id => \A f \in Fields \ job[w].changes :
                                  row.content[f] = g.content[f]]_vars

=============================================================================
