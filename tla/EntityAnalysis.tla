--------------------------- MODULE EntityAnalysis ---------------------------
(***************************************************************************)
(* The analysis of an entity: AnalysisService with the categorization and  *)
(* metric engines over the DuckDB tables.                                  *)
(*                                                                         *)
(* Analyses are coroutines of one event loop that share the metric cache.  *)
(* Every storage operation holds the store's lock until its coroutine goes *)
(* on, so an operation and what follows it up to the next one is one step. *)
(* Nothing ever clears the cache, and the database lives as long as it.    *)
(*                                                                         *)
(* A value is abstracted to what it was read from: a set of readings.  The *)
(* rules run in memory after the last metric and store nothing.  Values    *)
(* are not null, so that a metric is computed after its dependencies are;  *)
(* what reads one entity after another (the guarantee chain, the graph     *)
(* operators) is left out.                                                 *)
(***************************************************************************)
EXTENDS Integers, Sequences, FiniteSets

CONSTANTS
    Requests,     \* bound: the analyses that are asked for
    DryRuns,      \* those that are asked for as dry runs
    Entities,
    Versions,     \* what an entity's attributes can be
    Metrics,      \* of the schema
    Order,        \* the metrics, dependencies first: MetricDAG
    Formulas,     \* the derived and composite metrics
    Aggregates,   \* the atomic metrics that are computed from neighbours
    Deps,         \* [Metrics -> SUBSET Metrics]
    Given,        \* [Metrics -> SUBSET Versions]: see Determined
    Neighbours,   \* [Entities -> SUBSET Entities]: the relations table
    Tagged,       \* [Versions -> Nat]: how many dimensions get a value
    Contexts,     \* the metrics that requests override
    None

Length == Len(Order)

Before(m) == {Order[k] : k \in {i \in 1..Length :
                                    \E n \in i + 1..Length : Order[n] = m}}

\* A value came from attributes of entities and from what a request overrode.
Reading == (Entities \X Versions) \cup ({"context"} \X Metrics)

Value == SUBSET Reading

ASSUME ConstantsAssumption ==
    /\ DryRuns \subseteq Requests
    /\ Order \in Seq(Metrics)
    /\ \A i, k \in 1..Length : Order[i] = Order[k] => i = k
    /\ Metrics = {Order[k] : k \in 1..Length}
    /\ Formulas \cup Aggregates \subseteq Metrics
    /\ Formulas \cap Aggregates = {}
    /\ Deps \in [Metrics -> SUBSET Metrics]
    /\ \A m \in Metrics : Deps[m] \subseteq Before(m)
    /\ Given \in [Metrics -> SUBSET Versions]
    /\ Neighbours \in [Entities -> SUBSET Entities]
    /\ Tagged \in [Versions -> Nat]
    /\ Contexts \subseteq SUBSET Metrics
    /\ None \notin Versions
    /\ \A v \in Value : v # None

Cell == Entities \X Metrics

VARIABLES
    entities,   \* the attributes saved, or None
    stored,     \* the rows of computed_metrics
    tags,       \* the rows of category_tags: of which version, and how many
    cache,      \* MetricCache
    job,        \* [Requests -> where the coroutine is, and its locals]
    raced,      \* history: the cells that two requests computed together
    broken      \* history: entities whose categorization broke off

vars == <<entities, stored, tags, cache, job, raced, broken>>

Idle == [pc |-> "idle"]

Init ==
    /\ entities = [e \in Entities |-> None]
    /\ stored = [c \in Cell |-> None]
    /\ tags = [e \in Entities |-> None]
    /\ cache = [c \in Cell |-> None]
    /\ job = [r \in Requests |-> Idle]
    /\ raced = {}
    /\ broken = {}

-----------------------------------------------------------------------------
\* A request that looked for a metric's value and has not stored one yet.
Computing(j) == j.pc \in {"read", "fetch", "save"}

CellOf(j) == <<j.entity, Order[j.at]>>

Goes(r, j) ==
    /\ job' = [job EXCEPT ![r] = j]
    /\ raced' = IF Computing(j) /\ \E q \in Requests \ {r} :
                        Computing(job[q]) /\ CellOf(job[q]) = CellOf(j)
                THEN raced \cup {CellOf(j)} ELSE raced

\* Mutant of NextMiss: what is in the cache is looked up in the table again.
NextMissUncached(e, from, c, k) == k = from

\* Position k is the first one from which on a metric is not in the cache.
NextMiss(e, from, c, k) ==
    /\ \A i \in from..k - 1 : c[<<e, Order[i]>>] # None
    /\ k <= Length => c[<<e, Order[k]>>] = None

\* The results are those had so far and those taken from the cache.
Collected(j, from, c, k) ==
    [m \in Metrics |-> IF \E i \in from..k - 1 : Order[i] = m
                       THEN c[<<j.entity, m>>] ELSE j.results[m]]

\* compute_batch from a position on, up to the first metric it must wait for.
\* After the last metric the rules run and the request is answered.
ComputeBatch(r, j, from, c) ==
    \E k \in from..Length + 1 :
        /\ NextMiss(j.entity, from, c, k)
        /\ Goes(r, [j EXCEPT !.pc = IF k > Length THEN "done" ELSE "read",
                             !.at = k, !.results = Collected(j, from, c, k)])

-----------------------------------------------------------------------------
\* save_entity, by a creation or an ingestion: the row is replaced.
SaveEntity(e, v) ==
    /\ entities' = [entities EXCEPT ![e] = v]
    /\ UNCHANGED <<stored, tags, cache, job, raced, broken>>

Analyse(r, e, o) ==
    /\ job[r] = Idle
    /\ Goes(r, [pc |-> "find", entity |-> e, version |-> None, context |-> o,
                at |-> 1, results |-> [m \in Metrics |-> None]])
    /\ UNCHANGED <<entities, stored, tags, cache, broken>>

ExecuteAnalysis(r, e, o) == r \notin DryRuns /\ Analyse(r, e, o)

\* execute_dry_run: "For dry run, we just execute normally".
ExecuteDryRun(r, e, o) == r \in DryRuns /\ Analyse(r, e, o)

\* _find_entity.  An unknown entity ends the request.
FindEntity(r) ==
    LET j == [job[r] EXCEPT !.version = entities[job[r].entity]]
    IN  /\ job[r].pc = "find"
        /\ \/ j.version = None /\ Goes(r, [job[r] EXCEPT !.pc = "failed"])
           \/ /\ j.version # None
              /\ Tagged[j.version] > 0
              /\ Goes(r, [j EXCEPT !.pc = "tag"])
           \/ /\ j.version # None
              /\ Tagged[j.version] = 0
              /\ ComputeBatch(r, j, 1, cache)
        /\ UNCHANGED <<entities, stored, tags, cache, broken>>

\* Mutants of LastTag: one dimension too few, one turn too many.
LastTagEarly(j) == j.at + 1 >= Tagged[j.version]

LastTag(j) == j.at = Tagged[j.version]

\* One turn of the loop of categorize: the tags collected so far are saved.
SaveTags(r) ==
    LET j == job[r]
    IN  /\ j.pc = "tag"
        /\ tags' = [tags EXCEPT ![j.entity] = <<j.version, j.at>>]
        /\ IF LastTag(j)
           THEN /\ ComputeBatch(r, j, 1, cache)
                /\ broken' = broken \ {j.entity}
           ELSE /\ Goes(r, [j EXCEPT !.at = @ + 1])
                /\ UNCHANGED broken
        /\ UNCHANGED <<entities, stored, cache>>

\* What the entity as it was found, and the dependencies, determine.  For an
\* atomic metric that is an attribute of its name, for a formula its value.
Determined(j) == j.version \in Given[Order[j.at]]

\* _build_eval_context: the request's context hides dependencies.
DepReadings(j, d) ==
    IF d \in j.context THEN {<<"context", d>>} ELSE cache[<<j.entity, d>>]

\* Mutant of ValueOf: takes the attributes only.
ValueOfAttributes(j) == {<<j.entity, j.version>>}

ValueOf(j) ==
    {<<j.entity, j.version>>}
        \cup IF Order[j.at] \in Formulas
             THEN UNION {DepReadings(j, d) : d \in Deps[Order[j.at]]} ELSE {}

\* Mutants of Compute: a cache without entities in its keys, and no caching.
ComputeForAll(r, j, value) ==
    /\ cache' = [c \in Cell |-> IF c[2] = Order[j.at] THEN value ELSE cache[c]]
    /\ Goes(r, [j EXCEPT !.pc = "save", !.results[Order[j.at]] = value])

ComputeUncached(r, j, value) ==
    /\ cache' = cache
    /\ Goes(r, [j EXCEPT !.pc = "save", !.results[Order[j.at]] = value])

\* The value is in the cache before it is in the table.
Compute(r, j, value) ==
    /\ cache' = [cache EXCEPT ![CellOf(j)] = value]
    /\ Goes(r, [j EXCEPT !.pc = "save", !.results[Order[j.at]] = value])

\* get_metric, and what compute does with its answer: a row is taken over into
\* the cache; otherwise the metric is computed, now or from the neighbours,
\* or cannot be, which ends the request.
ReadStored(r) ==
    LET j == job[r]
        row == stored[CellOf(j)]
    IN  /\ j.pc = "read"
        /\ \/ /\ row # None
              /\ cache' = [cache EXCEPT ![CellOf(j)] = row]
              /\ ComputeBatch(r, j, j.at, cache')
           \/ /\ row = None
              /\ Determined(j)
              /\ Compute(r, j, ValueOf(j))
           \/ /\ row = None
              /\ ~Determined(j)
              /\ Goes(r, [j EXCEPT !.pc = IF Order[j.at] \in Aggregates
                                          THEN "fetch" ELSE "failed"])
              /\ UNCHANGED cache
        /\ UNCHANGED <<entities, stored, tags, broken>>

\* get_neighbors, as the neighbours are by now.
FetchNeighbours(r) ==
    LET j == job[r]
    IN  /\ j.pc = "fetch"
        /\ Compute(r, j, {<<n, entities[n]>> :
                    n \in {x \in Neighbours[j.entity] : entities[x] # None}})
        /\ UNCHANGED <<entities, stored, tags, broken>>

\* save_metric.
SaveMetric(r) ==
    LET j == job[r]
    IN  /\ j.pc = "save"
        /\ stored' = [stored EXCEPT ![CellOf(j)] = j.results[Order[j.at]]]
        /\ ComputeBatch(r, j, j.at + 1, cache)
        /\ UNCHANGED <<entities, tags, cache, broken>>

\* A storage operation raises: the route answers INTERNAL_ERROR.
Fail(r) ==
    LET j == job[r]
    IN  /\ j.pc \in {"find", "tag", "read", "fetch", "save"}
        /\ Goes(r, [j EXCEPT !.pc = IF @ = "save" THEN "unsaved" ELSE "failed"])
        /\ broken' = IF j.pc = "tag" THEN broken \cup {j.entity} ELSE broken
        /\ UNCHANGED <<entities, stored, tags, cache>>

Operation(r) ==
    \/ FindEntity(r)
    \/ SaveTags(r)
    \/ ReadStored(r)
    \/ FetchNeighbours(r)
    \/ SaveMetric(r)

Next ==
    \/ \E e \in Entities, v \in Versions : SaveEntity(e, v)
    \/ \E r \in Requests :
          \/ \E e \in Entities, o \in Contexts :
                ExecuteAnalysis(r, e, o) \/ ExecuteDryRun(r, e, o)
          \/ Operation(r)
          \/ Fail(r)

Spec == Init /\ [][Next]_vars

\* An analysis that began is carried on: storage operations return or raise.
FairSpec == Spec /\ \A r \in Requests : WF_vars(Operation(r))

-----------------------------------------------------------------------------
Running(j) == j.pc \in {"find", "tag", "read", "fetch", "save"}

JobRecord ==
    [pc : {"find", "tag", "read", "fetch", "save", "done", "failed", "unsaved"},
     entity : Entities, version : Versions \cup {None}, context : Contexts,
     at : Nat \ {0}, results : [Metrics -> {None} \cup Value]]

\* A request that is past its search has found its entity, and points to a
\* dimension or a metric that there is.
JobOK(j) ==
    /\ j \in JobRecord
    /\ j.pc \in {"tag", "done", "unsaved"} \/ Computing(j) => j.version # None
    /\ j.pc = "find" => j.at = 1
    /\ j.pc = "tag" => j.at <= Tagged[j.version]
    /\ j.pc = "unsaved" \/ Computing(j) => j.at <= Length
    /\ j.pc \in {"save", "unsaved"} => j.results[Order[j.at]] # None

\* The tables, the cache and the requests keep their types.
TypeOK ==
    /\ entities \in [Entities -> Versions \cup {None}]
    /\ stored \in [Cell -> {None} \cup Value]
    /\ tags \in [Entities -> (Versions \X Nat) \cup {None}]
    /\ cache \in [Cell -> {None} \cup Value]
    /\ DOMAIN job = Requests
    /\ \A r \in Requests : job[r] = Idle \/ JobOK(job[r])
    /\ raced \subseteq Cell
    /\ broken \subseteq Entities

\* Value c is on its way to the table, or was lost by a save that raised.
Unwritten(c) ==
    \E r \in Requests : job[r].pc \in {"save", "unsaved"} /\ CellOf(job[r]) = c

\* The cache is filled before the table and by several requests: what is in the
\* table is in the cache, and they agree, unless two requests computed the
\* metric together or its save is still to come (or failed: then the cache
\* hides that the row is missing, for good).
CacheBacked ==
    \A c \in Cell :
        /\ stored[c] # None => cache[c] # None
        /\ cache[c] # None /\ c \notin raced =>
              stored[c] = cache[c] \/ (stored[c] = None /\ Unwritten(c))

\* Requests that interleave with each other and with changes of the entity get
\* one value of each metric, the one in the cache, unless they computed it
\* together.
ResponsesAgree ==
    \A r \in Requests : job[r] # Idle =>
        \A m \in Metrics :
            job[r].results[m] # None /\ <<job[r].entity, m>> \notin raced =>
                job[r].results[m] = cache[<<job[r].entity, m>>]

\* A formula that was stored was computed from the values of its dependencies
\* that are stored: those of an earlier analysis too, and not values that were
\* replaced since.  Exempt are dependencies that the request's context hid and
\* those that two requests computed together.
DerivedAgrees ==
    \A e \in Entities, m \in Formulas : stored[<<e, m>>] # None =>
        \A d \in Deps[m] :
            \/ <<"context", d>> \in stored[<<e, m>>]
            \/ <<e, d>> \in raced
            \/ cache[<<e, d>>] # None /\ cache[<<e, d>>] \subseteq stored[<<e, m>>]

\* The tags are saved once per dimension, by concurrent requests: when nobody
\* is at it, they are all the tags of one version, unless an operation raised
\* since they were last complete.
TagsWhole ==
    \A e \in Entities :
        \/ tags[e] = None
        \/ tags[e][2] = Tagged[tags[e][1]]
        \/ e \in broken
        \/ \E r \in Requests : job[r].pc = "tag" /\ job[r].entity = e

\* Every analysis that is asked for is answered, by a result or an error:
\* execute_analysis waits for storage operations only, and loops over finitely
\* many dimensions and metrics.
Answered ==
    \A r \in Requests : job[r].pc = "find" ~> ~Running(job[r])

=============================================================================
