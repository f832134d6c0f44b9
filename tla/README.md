# A TLA+ verification project for OntologyEngine

OntologyEngine keeps *semantic spaces* (a schema in layers L1 to L4 with its
instances), publishes them as *consumption views*, orders and runs the rules of
a view on an entity, and stores entities, datasets, rule groups and imports in
DuckDB, with a graph and a vector store beside it. This directory holds TLA+
models of the parts of it that change state, decide an order or search, TLC
configurations that check them on small instances, and proofs, checked by TLAPS,
that hold for every value of the constants.

Paths below are relative to `src/ontology_engine/`.

    tlc -workers 2 -config MCSpaceViews.cfg MCSpaceViews     check a run
    tlapm Rules_proofs.tla                                   check proofs

`PROJECT.json` lists components, runs, mutants, the lines that each definition
translates, hazards and theorems.

## 1. Inventory

| Component | State | Operations | Hard behaviour | Model |
|---|---|---|---|---|
| Space files and versions (`core/semantic_space/storage.py`, `models.py`) | a JSON file per space, one per snapshot | save, load, delete, create_snapshot, rollback_to_version | the process stops between or inside writes; numbers are used again after a rollback; a glob that catches too much; copies of spaces | `SpaceVersions` |
| Management routes (`api/routes/management.py`) | none of their own; they write a space and its view, one after the other | create, import, update, edit, activate, deactivate, archive, delete, snapshot, rollback | stops between the writes to the pair; torn files; old `view_id`s that come back | `SpaceViews` |
| Server start (`api/server.py`) | none | load the example cases, sync views | starts on whatever a stop left; an exception in the middle of a loop | `SpaceViews` |
| Consumption routes (`api/routes/consumption.py`) | none kept between requests | dependency graph, sort, levels, run of the rules, fallback, impact | cycles, double edges, several writers of an element, conditions that fail | `RuleAnalysis`, `Traversals` |
| Rule groups and steps (`services/rule_service.py`, tables `rule_groups`, `rule_steps`) | two tables without a foreign key | create, update, delete groups; create, delete, reorder steps; import of three formats, export, validation | concurrent requests between a read and the write decided from it; DELETE committed without its INSERT; conversions there and back; imports that stop half way | `RuleStore`, `RuleTransfer` |
| Rule executor and operators (`engine/rule/`, `visualization/simulator.py`, `services/simulation_service.py`) | a context handed from rule to rule | execute, simulate with overrides, simulate the steps of a group; call the language model | a later rule undoes an earlier decision; three copies of one loop; operators that fail; retries | `RuleOperators`, `RuleExecution` |
| Entity analysis (`services/analysis_service.py`, `engine/metric/`, `engine/categorization/`) | `MetricCache`, tables `computed_metrics`, `category_tags` | execute, dry run; categorize, compute_batch | a cache shared by interleaved requests and filled before the table; tags saved one dimension at a time; operations that raise | `EntityAnalysis` |
| Entity imports (`services/incremental_update.py`, tables `change_batches`, `entity_changes`, `entity_versions`) | three tables | import_with_diff, rollback actions | a number counted in one operation and used in the next; operations that raise; a batch left pending | `EntityImports` |
| Datasets (`services/dataset_service.py`) | tables of datasets, members, snapshots | create, update, delete, add entities, snapshot, compare | statements of several requests against a dataset that is deleted meanwhile; a count that a later statement inserts | `Datasets` |
| Dual write, ingestion, entities (`storage/dual_write.py`, `storage/graph/networkx_store.py`, `services/ingestion_service.py`, `entity_service.py`) | rows in DuckDB, nodes and edges in memory | save, full sync, neighbours by either store, remove, close | one of two writes fails; writers that pass the graph by; a sync that reads for long and writes at the end | `GraphStores`, `GraphMirror` |
| Searches (`services/query_service.py`, `dag_service.py`, `engine/metric/graph_operators.py`, `visualization/explainer.py`, the graph store) | none | ten searches over graphs of entities, metrics and rules | cyclic data, shared visited sets, limits of depth, relations added between two awaited reads | `Traversals` |
| Retrieval (`storage/vector/`, `storage/retrieval.py`) | vectors in memory | add, remove, search; semantic, hybrid and pattern queries | legs cut before they are merged; a second lookup with another vector; batches refused half way; greedy matching | `Retrieval` |
| Expression engine, value domains, loaders, pictures, MCP, web UI | texts, dictionaries, pictures | evaluate, validate, parse, draw | none that interleaves with the rest | not modelled; where another part uses them, their result is a free choice or a member of a small set |

How they interact. The routes are coroutines of one event loop. The management
and consumption routes call `SemanticSpaceStorage`, which blocks: between its
first load and its last save such a route never suspends, so *one request runs
at a time* and it decides everything from what it found at its start. What can
come between two of its file operations is a stop of the process. The services
over DuckDB are different: every storage operation is awaited and takes the
store's lock, so each operation is atomic and the operations of *several
requests interleave*. The graph in memory and the vector store are `async` but
never wait: what a request does to them after a storage operation happens before
any other request goes on. These three kinds of step decide the grain of the
models: file operations and stops in `SpaceVersions` and `SpaceViews`, storage
operations and interleaving in `RuleStore`, `EntityImports`, `EntityAnalysis`,
`Datasets`, `GraphStores`, and loop steps in `RuleAnalysis`, `RuleExecution` and
`Traversals`.

What makes each part correct:

- *Space files*: versions are numbered 1, 2, ...; a listed version can be rolled
  back to, and its snapshot does not change while it is listed.
- *Spaces and views*: a lifecycle request that runs to its end leaves the space
  and its view in agreement whatever earlier stops left; none leaves a view that
  no space names; a torn space is never taken for a missing one; views are
  synced when the server starts to serve.
- *Rule order*: producers are sorted first, the fallback is taken exactly for
  cycles, every rule is shown and reported once.
- *Rule execution*: a refusal or a critical alert stands whatever rules follow;
  reports explain the metrics; analysis, simulation and simulated steps agree;
  only an override explains a difference; the language model is asked finitely
  often.
- *Rule store*: keys stay unique; a step without a group has an excuse; requests
  that raced no other keep other groups and merge what they were sent. An
  imported group is whole, and a group that was exported comes back.
- *Imports*: versions are gapless; an applied batch is complete; each version has
  its change; the rollback actions lead back to the entities sent.
- *Analyses*: cache, table and answers hold one value of a metric, formulas fit
  the dependencies they are kept with, the tags of an entity are of one version;
  each with the exceptions that races and failures force, and no others. Every
  analysis is answered.
- *Datasets*: rows of a dataset outlive it only by a race; a snapshot never
  counts more members than there are.
- *Two stores*: the graph differs from the rows only for known reasons and says
  nothing that the rows never said; both ways to ask for neighbours agree.
- *Searches and retrieval*: exactly what there is is found, each path once unless
  a node lists the next more than once, the best first, and every search ends.

What a run can say of a hazard depends on what the code does there. Where the
code guards against it, the property forbids the bad outcome. Where the code
lets it happen (two creations of one name, an update of a row read earlier, a
save that loses its INSERT, a sync that overwrites, a glob that catches too
much), the property names the race or failure as its exception and says that
nothing else leads there; the `note` of such a hazard says so.

## 2. Modules

A `MC` module instantiates a component's module for TLC, a `_proofs` module
extends it with the theorems; `Rules_proofs` does so for the three modules that
keep, sort and run rules. No module uses RECURSIVE operators.

**SpaceVersions.** `space` and `snap` are the files, `job` is what the running
request still has to do with the object `rec` in memory. A route is a request
action (`CreateSpace`, `ImportCopy`, `Edit`, `CreateSnapshot`,
`RollbackToVersion`, `DeleteSpace`: load and decide) followed by its file
operations (`WriteSnapshot`, `Save`, `Unlink`, `UnlinkSnapshots`), with
`CrashBetween` and `CrashInside` (a torn file, a part of the deletions) wherever
the process may stop. `Globbed[s]` are the spaces whose snapshot files match
`glob(f"{s}_v*.json")`. The content of a space is one opaque value. `copied` is
history: ids that an import copied from or to.

**SpaceViews.** The same files at the next level up, where a request writes a
space *and* its view. A request becomes the list of its `writes`, decided at its
start; `Write` does the next one; `Crash` and `CrashInside` end it anywhere.
After a stop, `Start`, `LoadExample`, `StartSync`, `Sync` and `Serve` are the
steps of `lifespan()`. A torn view raises when the space is already saved
(`"fail"`). Version lists are cut to version 1: `versions` is the set of spaces
whose snapshot of version 1 the list has the path of, at most one, because an
imported copy keeps the list of its source. `Rollback` saves under the id inside
that snapshot: that of a copy writes over its source, and the copy stays as it
is. The numbers are the subject of `SpaceVersions`.

**RuleAnalysis.** Both routes that sort rules: `Sort` is one turn of the loop of
Kahn's algorithm (the in-degree counts one edge per shared element, as the code
does), `ShowOrder` ends the graph route, `RunByLevels` or `FallBack` ends the
sort of an analysis, then `OutOfTarget`, `Pass` and `Miss` run one rule each and
`Finish` ends the request. A rule's id is its position in `rule_definitions`.
Conditions and formulas belong to the expression engine, so a condition may
hold, not hold or fail; the value of an element is the rule that wrote it.

**RuleStore.** `groups` and `steps` are table rows; `job[w]` is what request `w`
has read and still has to write. `Request` is a service method up to the end of
its first read, the actions of `Operation` are single storage operations.
`Find` looks a group up as the code does, by the shape of the identifier:
`UuidLike` are those of 36 characters with a hyphen, which are taken for ids, so
that a group whose name has that shape is found by its id only.
`LoseGroup` and `LoseStep` are saves whose INSERT fails after the committed
DELETE, `Fail` an operation that raises before it changes anything. `missed[w]`
(history) is true when another request wrote about the same name since `w`
read; it is how the properties speak of requests "that raced no other". An
import is the save of its group and of its steps here; what it saves is the
subject of `RuleTransfer`. `update_rule_step` reads attributes of a dict and
never reaches its write, so no action stands for it.

**EntityImports.** `Import` compares the entities sent with the old ones sent
(`DetectChanges`, `Diff`); `CreateBatch`, `SaveChange`, `CountVersions`,
`SaveVersion` and `Apply` are the storage operations of `import_with_diff`, and
`Fail` ends an import at any of them. The diff and the rows follow Python: a
missing key equals the value `None`, an empty dict is stored as NULL. The
rollback actions, carried out by a client, are the operator `ActionOf`. `missed`
is as in `RuleStore`. Data is a flat dict: nested values count as one value. Dry
runs and `compute_impact` store nothing and are left out.

**EntityAnalysis.** `job[r]` is the coroutine of one `execute_analysis` with its
locals, `cache`, `stored` and `tags` are `MetricCache` and the two tables. Each
action begins with the return of a storage operation and runs to the next one:
`FindEntity`, `SaveTags` (a turn of the loop over dimensions), `ReadStored`,
`FetchNeighbours`, `SaveMetric`; `ComputeBatch` is the part of the metric loop
between two of them, which takes over what is cached. `Fail` is an operation
that raises, `SaveEntity` any change of an entity meanwhile. A value is the *set
of readings* it was computed from (this entity in that version, this override),
so that mixing an old value into a new one shows, whatever the formulas are.
`raced` (history) has the metrics that two requests computed together, `broken`
the entities whose categorization broke off. Left out: metrics without a value,
and the guarantee chain, whose search is in `Traversals`. Relations are constant.

**RuleTransfer.** What travels between spaces. `Export` makes a file of a group,
`Reimport` imports the exported file, `ImportFile` and `ImportL4` take the files
of users in the three formats, with the conversion of every clause
(`NormalWhen`, `NormalAction`, `Converted`). The same requests as in `RuleStore`,
one at a time: there the interleavings, here the contents. A clause is a record
of the keys it may lack; texts are members of small sets. `SaveAll` is
`asyncio.gather`: a step that cannot be stored makes the import raise, the others
are stored. `RoundTrip` says what survives, `ImportsWhole` that a group that was
added has all its steps.

**RuleOperators, RuleExecution.** Operators as functions of parameters and
context, returning an output or raising; then four executions of a chain of
rules: the analysis, the simulator's baseline and its what-if, and the
simulation of the same rules as steps. `pass` says which one runs; `data`,
`metrics`, `alerts` and `results` are its `ExecutionContext`; `RunRule` is one
turn of its loop, `AskModel`, `ModelAnswers`, `ModelRetried`, `ModelFails` the
calls of the language model, whose answer is free. `outcome` keeps what an
execution returned, so that properties compare executions. A rule is data
(condition atoms, operator, parameters), scores are integers.

**Datasets.** Rows of three tables; `job[c]` is what is left of a request:
`AddEntities` finds the dataset and `AddEntity` inserts one member after the other;
`CreateSnapshot` finds it, `CountMembers` counts, `InsertSnapshot` inserts;
`Compare` and `CompareSecond` read one membership each. `DeleteDataset` holds the
lock for its three statements, each of which commits: it may stop after any of
them. `RequestFails` ends any request. An id is unique within a concept only, and
the key of a membership has no concept, as in the code. `deleted` and `raced` are
history.

**GraphMirror, GraphStores.** `GraphMirror` is what a graph kept beside a primary
store promises: all it says was in the primary store at some time, and its edges
have their nodes. `GraphStores` is the code: `SaveEntity` and `SaveRelation` write
the row and then, in a dual write, the graph, which may be closed or refuse an
edge; entity service and ingestion write rows only; `SyncEntities`,
`SyncRelations` and `SyncWrite` are a full sync that reads one query at a time
and writes at the end; `Ask` and `Fetch` are a hybrid query. `Close`,
`Initialize`, `Restart`, `RemoveNode` and `RemoveEdge` lose parts of the graph.
`lagging`, `missed` and `held` are history: what the graph may be behind on and
why, and all values the rows ever had. The property `MirrorsRows` is the
refinement `INSTANCE GraphMirror WITH` the nodes and edges as its mirror.

**Traversals.** Ten searches, each as the loop or recursion it is in the code:
a queue of paths, a stack of calls, or levels. The order in which a store gives
edges is free, and so is how often a node lists a neighbour (`Rows`): lists of
guarantors and dependencies may name one twice, and the join of DuckDB gives a
neighbour once for each relation and each row of its id, of whatever concept.
Searches that await DuckDB for each node (`Stored`) meet relations that other
requests add in between (`AddEdge`). The chains of an override return the
reached outputs that the simulation changed (`Changed`), and a metric graph of
depth 0 is empty.

**Retrieval.** One query vector is asked about, so a stored vector *is* its
similarity to it. `SemanticSearch` and `HybridSearch` happen at once; a pattern
is matched hop by hop (`MatchHop`), with relations added between two hops where
there is no graph (`AddRelation`). The graph lists `NeighborLimit` relations of
an entity (100 in the code), the outgoing ones first; which ones of a hub are
cut depends on the order in which they were added, so the cut is free
(`Listings`, `Cuts`). Weights may be any integers: where they add up to 0 or
less, all scores are 0 (`Fused`). The answer keeps what was there when it was asked
for, so that properties compare the two. Scores are in sixtieths.

`SpaceVersions` and `SpaceViews` share the storage layer and are kept apart on
purpose: together their histories (versions times pairs) are out of TLC's reach,
and neither's properties need the other's detail. `RuleStore` and `RuleTransfer`
share the two tables for the same reason.

## 3. Runs

Every run passes; each checks a question of its own.

| Run | Instance | Distinct states | Shows |
|---|---|---|---|
| `space_versions` | 2 spaces, one named so that the other's deletion catches it; 2 contents; `MaxVersion` = 2 | 1 734 992 | version histories stay well formed, uncopied versions restorable, listed snapshots stable |
| `space_views` | an example space and a user's one, 2 views, 2 layer values, 1 entity, copies with the version lists of their sources; 3 requests, 2 stops inside requests | 838 120 | lifecycle requests repair what stops left; no new orphans; torn spaces stay; views synced at start |
| `rule_analysis` | 3 rules, 2 elements, 23 definitions for each rule (every wiring with one input and one output, fan-in and fan-out over both, two priorities, disabled, out of target, undeclared write) | 943 477 | the sort is right and gives up exactly on a cycle; each rule is reported once; termination |
| `rule_execution` | 23 rules that use every operator: each alone, each pair of nine, longer chains; 2 entities, metrics or none, 3 sets of overrides; `MaxRetries` = 2 | 21 402 | refusals stand, reports explain metrics, four executions agree, overrides explain differences, retries end |
| `rule_store` | 2 concurrent requests of 4, a usual name and one of the shape of a uuid in 2 spaces, 2 uuids, a step that a file has twice, 2 fields | 351 389 | orphans excused, unraced saves keep other groups, unraced updates merge |
| `rule_transfer` | 2 names in 2 spaces, 4 steps sent by clients, 8 files of three formats; 5 requests | 99 956 | an exported group comes back, an imported group is whole |
| `entity_imports` | 3 imports, 2 at a time, of 2 entities with one field | 886 658 | versions gapless, lost only when overtaken, rollback leads back |
| `entity_analysis` | 2 requests, one a dry run, for 2 entities, one the neighbour of the other; 2 versions with different dimensions; a metric that is an attribute or an aggregate, and a formula over it; 2 contexts | 146 633 | cache, table and answers agree, formulas fit their dependencies, tags whole, every analysis answered |
| `datasets` | 2 clients, 2 datasets, 2 snapshots, 2 entity ids of 2 concepts; 3 requests of several steps | 376 215 | orphans come from races only, snapshots never count too many |
| `graph_stores` | 2 ids, one with rows of two concepts; 2 relations; 5 kinds of save from 2 clients, 3 requests, 1 loss, a limit of 1 neighbour | 216 348 | the graph differs for known reasons only, refines `GraphMirror`, and both ways to ask agree |
| `traversals` | every graph of 3 nodes without loops, 6 of up to 5 nodes, each of ten searches, three edges listed twice, 1 added relation | 110 014 | what is found is exactly what is there; every search ends |
| `retrieval` | 4 entities of 3 concepts, 5 graphs, `NeighborLimit` = 2 with entities of up to 3 and more relations, 3 batches of vectors of 2 dimensions, 3 sets of weights, one with the sum 0, 3 changes | 183 170 | answers are ranked and complete where the legs see all; matched paths are real |

**Why the bounds are enough.** Every hazard needs few actors. Reuse of a number
needs two versions and one rollback, a catching glob two spaces. A repair needs
a request that is stopped, a restart and a second request; `space_views` has
room for one more of each. Cycles, chains and diamonds of rules, and double
edges, fit in three rules over two elements; chains longer than that are what
the theorems are for. In `rule_execution` a later rule undoes an earlier one in
a pair, and the decision is reached in chains of three and four. Races in the
stores are between one reader and one writer, with a third request to set the
scene. A round trip needs a creation, a step, an export, a deletion and the
import: five requests. In `entity_imports` the dicts sent are samples in which a
`None` or an empty dict becomes a value, a value goes, an entity comes and goes.
In `entity_analysis` two requests for one entity race at every operation, and a
formula with one dependency is enough for a value that does not fit the one it
is kept with. A sync that overwrites what was saved meanwhile needs one save
before and one during it. Searches meet cycles, diamonds, shared nodes and loops
in graphs of three to five nodes, and every limit of depth is below the longest
path there, but that of the metric graph, which goes no further than direct
dependencies (a depth of 0 is left to the proof). Three edges are listed twice
(`Rows`), and some outputs are reached and unchanged (`Changed`). `NeighborLimit` is 2, so that an entity with three
relations is a hub, and graphs without one are searched too. Counters are capped by `MaxVersion`, `MaxRequests`, `MaxServed`, `MaxStops`,
`MaxOrder`, `MaxDatasets`, `MaxSnapshots`, `MaxLosses`, `MaxAdded`, `MaxChanges`
and the finite sets of uuids, always in the guard of the action that begins
something, so a request that has begun can end.

**Symmetry.** Contents in `SpaceVersions`, uuids, spaces, values and workers in
`RuleStore`, workers and batches in `EntityImports`, clients in `Datasets` are
interchangeable in every definition and property; runs that use symmetry check
no liveness.

**Deadlock** is checked in `space_views`, where the server can always be stopped
and started, and in `entity_analysis`, `datasets` and `retrieval`, where
something can always be saved, changed or closed. In the other runs the system
comes to rest when uuids, numbers or requests run out, or when the one analysis,
execution or search is done.

**Fairness.** `RuleAnalysis` has `WF_vars(Next)` and `Traversals` `WF_traversalVars(Step)`:
an analysis or a search is one coroutine that awaits nothing that may not come,
so it takes its next step; `Terminates` and `Ends` rest on it. In `Traversals`
nothing asks a relation to be added. `EntityAnalysis` has `WF_vars(Operation(r))`
for each request `r`: the event loop resumes a coroutine whose storage operation
is over, and DuckDB operations return or raise; a request is not asked to begin,
and nothing asks an operation to fail. `Answered` rests on it. `RuleExecution`
has weak fairness of the three ways a call of the language model ends together,
because `asyncio.wait_for` bounds it: the model is never asked to answer.
`RetriesEnd` rests on it. The other modules state no fairness: there a process
may stop for good, and a request that is cut off is not resumed.

Every property has a mutant (`mutants`): a definition changed as a plausible bug
would change it, for which TLC finds the property violated.

### Where the code and its documents part

The models follow the code. Where a document, docstring or name says something
else, no run claims it; these are the places met while modelling, and where the
model shows them.

- *Snapshots are immutable* (`docs/architecture/decisions/010-semantic-space-lifecycle.md:26`):
  after a rollback the next snapshot takes a used number and overwrites its file
  (`core/semantic_space/storage.py:149`). `ListedSnapshotsStable` therefore
  speaks of listed versions only.
- *"Delete associated snapshots"* (`core/semantic_space/storage.py:105`): the glob
  also matches snapshots of a space named `{id}_v...`. `UncopiedVersionsRestorable`
  excepts spaces that a deletion catches.
- *"Rollback a space to a previous version"* (`core/semantic_space/storage.py:185`):
  a rollback of an imported copy saves under the id inside the snapshot, which is
  its source's, and writes over what the source holds by now, a torn file
  included. `UncopiedVersionsRestorable` excepts copies, `TornSpacesStay` this
  rollback.
- *"A always executes before B, regardless of priority settings"*
  (`api/routes/consumption.py:945`): a level counts a rule's producers, not its
  depth; in a chain of three, two rules share a level and go by priority.
  `SortCorrect` is about the sort, not the levels.
- *`schema_id` isolates spaces* (`services/rule_service.py:74`): steps are keyed by
  the name of their group, so an import or a deletion in one space changes the
  steps of the group of the same name in another. `ImportsWhole` says that no
  step of *another name* changes.
- *"The combination (name, schema_id) must be unique"*
  (`services/rule_service.py:62`): a name of 36 characters with a hyphen is looked
  up as an id (`storage/duckdb/store.py:1424`, `1543`) and never found, so that a
  second group of that name replaces the first. `UnracedSavesKeepGroups` excepts
  groups of such names (`Unfindable`).
- *"Import, export, import keeps the steps"*
  (`docs/03-rfc/RFC-017-rule-orchestration-yaml-format.md:411`): an import drops
  `else`, and conditions under the web client's `subConditions`, so that a step
  of the client with `all_of` holds always after it. `RoundTrip` excepts both.
- *A legacy file with several definitions*: only the first is imported. *An L4
  import* stops at the first taken name and leaves the groups before it.
- *"Execute a dry run analysis without persisting results"*
  (`services/analysis_service.py:158`): tags and metrics are stored and cached as
  by any analysis.
- *Metrics*: a cached value is returned for as long as the process lives, whatever
  its entity became (`engine/metric/engine.py:73`), and a value computed with a
  request's context is cached for all (`engine/metric/engine.py:415`). So
  `DerivedAgrees` compares a formula with the dependencies kept, not with the
  entity.
- *Longest guarantee chain* (`engine/metric/graph_operators.py:89`): the depth grows
  by one for every guarantor met again, one that is named twice in a list
  included; it is the longest path only where no two chains meet and nobody is
  named twice.
- *Paths between entities* (`services/query_service.py:188`): the loop goes over
  rows, so an id with rows of two concepts, or two relations, gives the same path
  twice.
- *Neighbours with a limit* (`storage/retrieval.py:137`, `234`): the graph and path
  legs of a hybrid search see the first 100 relations of an entity
  (`storage/graph/networkx_store.py:197`). At a hub, `SearchesRanked` promises
  candidates, not the best.
- *Graph of a metric with its depth* (`services/dag_service.py`): a dependency is
  marked before the call that would go on with it, so only direct ones appear.
- *Hybrid search* (`storage/retrieval.py:187`): metadata is looked up with the first
  coordinate of the query, which raises in a store whose dimension is not 1; the
  test of a query with two numbers
  (`tests/unit/storage/test_retrieval_backend.py:93`) expects answers and
  gets them from a mocked store. A match over a graph gives neighbours the
  concept of the pattern without a look at their own: "already verified"
  (`storage/retrieval.py:499`) is not so with NetworkX. Also,
  `filter_then_fuse` without a matched path does not filter; a semantic search
  filters concepts after it took `top_k`; a pattern takes the first neighbour
  that fits and does not come back. `SearchesRanked` and `PatternsMatch` say what
  holds nonetheless.
- *`update_rule_step`* (`services/rule_service.py:279`) reads attributes of a dict
  and raises before its write.
- The server builds neither the dual write coordinator nor a graph, vector or
  retrieval store; they are used by library callers and tests.

## 4. Proofs

TLAPS proves these for all values of the constants: any number of spaces,
rules, requests, entities, datasets, and no bounds but the ones named. They rest
on the assumptions named in the modules (`ConstantsAssumption`,
`RulesAssumption`, `StoresAssumption`, ...), which say that the markers (`Absent`,
`Torn`, `None`, ...) differ from data, that rules, elements and entities are finite,
and what requests are made of.

| Module | Theorems | The invariant and why it is needed |
|---|---|---|
| `SpaceVersions_proofs` | `TypeCorrect`, `HistoryIsWellFormed`, `VersionsAreRestorable`, `ListedSnapshotsAreStable` | `IInv`: files alone are not inductive, a request writes what it holds in memory. `JobInv` says that this object is as good as a file, and that between its two writes a snapshot request still holds what is on disk |
| `Rules_proofs`, of `RuleStore` | `TypeCorrect`, `Invariance`, `KeysAreUnique`, `OrphansAreExcused`, `UnracedSavesDoKeepGroups`, `UnracedUpdatesDoMerge` | `StoreInv`: a uuid keeps its name in the table and in what is about to be saved (`IdsInv`), so a deletion by uuid hits the name it was counted under; a request that missed nothing still has its group (`StepsInv`), and the row it is about to save still replaces the row it read, or none that a look-up by name finds (`SavesInv`) |
| `Rules_proofs`, of `RuleAnalysis` | `AnalysisTypesCorrect`, `AnalysisInvariance`, `ProducersAreSortedFirst`, `FallbackMeansCycle`, `SortIsCorrect`, `ShownOrderIsComplete`, `ReportInvariance`, `EveryRuleIsReported` | `KahnInv`, the loop invariant of Kahn's algorithm: a counter is the number of edges from rules not yet sorted, and a rule is queued or sorted exactly when its counter is 0. A set of rules that wait for each other stays unsorted; at the end the unsorted rules are such a set. `ReportInv` adds that steps never report a rule twice |
| `Rules_proofs`, of `RuleExecution` | `ExecutionInvariance`, `SortIsStable`, `ResultsExplained`, `RejectionsStand`, `SimulationsAgree`, `OverridesExplain`, `StepsDoAgree` | `HistoryInv`: the state of a pass is the end of a *history*, the contexts after the first 0, 1, 2, ... rules of its sequence, each of which follows from the one before by what the code does for that rule; every outcome is the end of a complete one. The properties are then facts about histories, or about two of them |
| `EntityAnalysis_proofs` | `TypeCorrect`, `CacheIsBacked`, `ResponsesDoAgree`, `FormulasAgree`, `TagsAreWhole` | a request at a metric has found all before it (`PassedInv`), and the cell of a metric that one request alone is computing is empty until it does (`ReadInv`): so only a race can change what is cached. `SaveInv` says that what waits to be saved is cached, and holds its dependencies |
| `EntityImports_proofs` | `TypeCorrect`, `VersionsAreGapless`, `VersionsAreCovered`, `AppliedBatchesAreComplete`, `RollbacksRestore`, `UnracedVersionsAreKept` | an import owns its batch, whose rows are what it has done of its changes (`OwnersInv`), and a counted number is at most the next one, and is the next one if no other import stored a version since (`NumbersInv`): a stale count replaces a version and never leaves a gap |
| `Tables_proofs`, of `Datasets` | `OrphansRacedHolds`, `SnapshotsCoveredHolds`, `ComparisonsBoundedHolds` | a request that is adding to a dataset has it, or raced its deletion (`AddingKnown`); a number counted and not yet inserted is at most the members there are (`CountsCovered`), and what a comparison has read stays true (`ReadsStand`), because only a deletion takes members away |
| `Tables_proofs`, of `RuleTransfer` | `TransferInvariance`, `RoundTrips`, `ImportsAreWhole` | `TransferInv`: a group and an id have one row, which is one that the table takes, and the last file lists its rows, each once (`ExportSound`), so that no step of the file replaces another when it comes back; that its clauses say the same is `RowReturns`. An import is whole because the last save of an id stands (`SavedRows`), or one of the saves of it (`SavedId`), whatever the group had before |
| `GraphStores_proofs` | `Invariance`, `AnswersAreBacked`, `FreshUnlessLaggingHolds`, `PathsDoAgree`, and the refinement `GraphMirrorsRows` | what is in the graph was in the rows (`NodesHeld`, `EdgesHeld`), and so was what a sync has read and not yet written (`SyncHeld`), because it may be written long after; an edge's relation is still in the rows, which is why an answer needs no check of it. Every step then maps to `Hold`, if a row is written, or to `Copy`. `FreshInv` adds that what a sync has read of an item not written since is its row, and of a relation read twice (two rows with one id) the last reading is; that the paths agree follows |
| `SpaceViews_proofs` | `Invariance`, `LifecycleDoesReachView`, `NoOrphansAreMade`, `TornSpacesDoStay`, `StartsInSync` | a request decides all its writes from the files it finds: `Result` is what they lead to, and the part of `JobInv` about it, shown once where each request begins, stands after every write, because nothing else writes (`ResultTail`). A view names no view (`PlainRec`), or a view could be overwritten by its own activation. `SyncedSoFar` is the loop invariant of the sync: a view that is behind a space is still to come or being written, and a write never takes instances away, which matters where two spaces name one view. A rollback has read a whole snapshot before it writes |
| `Searches_proofs`, of `Retrieval` | `RetrievalInvariance`, `PatternsDoMatch`, `SearchesAreRanked` | `MatchInv`: the paths found are those of the starts the match is over with, each over relations that are still there, and a start without a path had none among the relations there at the beginning (these only grow), unless an entity has two neighbours to choose from. For the searches `SearchInv`: an answer that waits to be received is right for the stores, which nothing changes meanwhile. That it is right is shown of any ranking (`IsRanking`): whatever order equal scores come in, the front of a ranking is the best, and what is kept of a ranking is a ranking of what is kept; `LevelsAreDistances` shows that the levels of the search from the seed are the distances from it. What a hub lists is some of its neighbours (`ListingsSome`), so every candidate is a true one; where there is no hub, no list is cut (`Uncut`) |
| `Searches_proofs`, of `Traversals` | `TraversalInvariance`, `SearchesAreExact`, `PathsAreExact` | one part of `TraversalInv` for each kind of search. Loops (`Effects`, `Shortest`, `Traverses`, `Counts`): a node that was found has had its successors found, unless a path to it is queued; the lengths in the queue differ by one at most and never fall (`InLevels`), and a node of a nearer level was visited, which makes the paths shortest. Levels (`Depths`): in a graph without a second way to a node, a level is exactly what walks of its length lead to. Recursions (`Pursues`): a path that is sought was found, or leaves the calls on the stack for a node one of them has yet to look at (`Pending`); a call that returns takes its mark with it, so the next path may use the node. A path found twice was reached through a list with a repeated entry |

Each proof module states the invariant as a conjunction of named parts, proves
one lemma for each action, combines them in the step lemma, and derives the
properties; action properties are derived from the invariant in the state before
the step. In `EntityAnalysis_proofs` the steps are first sorted by what they do
to the values (`StepMoves`), because the loop of `compute_batch` is a part of
four actions; the invariants are then proved by kind of step. Facts about
sequences, sets and cardinalities come first, as lemmas of their own.

The four executions of `RuleExecution` are loops over any number of rules, and
what one of them returns depends on all of it. A history turns that into an
invariant: `Moves` (which context follows which) is the same for all four up to
what the code does differently, so `SimulationsAgree` and `StepsDoAgree` go along
two histories side by side and show that they hold the same values after k rules
if they did after k - 1; `OverridesExplain` does so with the set of elements
tainted so far; `RejectionsStand` and `ResultsExplained` need one. This is
induction over the *position* in a chain, by the least position at which the
claim fails (`WFMin` on the natural numbers), not over data. `SortIsStable` shows
what the order by priority is for every list: each place once, higher priorities
first, equal ones in the order of the list.

What is assumed of the constants, beside the markers: `ExecutionAssumption` and
`ConditionAssumption`, that conditions are lists, that priorities are numbers,
and that the key under which a rule stores its result (`{rule.id}_result`,
`engine/rule/executor.py:351`) is not the key `eligible`, which cannot be since
it ends otherwise; of `RuleStore`, that uuids have the shape of one, and nothing
about names; `RetrievalAssumption`, that an entity has one row, relations
and vectors are of entities, weights are integers, and a search asks for at least
one answer. The last one matters: `_fuse_then_filter` appends before it looks at `top_k`, so with 0 it
still returns one (`storage/retrieval.py:369`). `TraversalAssumption` says that
the nodes are finite, the limits numbers, that a node lists a neighbour it has at
least once, and that a path may have one node at least: with a `max_depth` of 0, `find_path` still finds the path of an entity
to itself, because it compares before it looks at the depth
(`services/query_service.py:174`).

What the searches of `Traversals` find is compared with walks (`Exactly`,
`Within`) and with the simple paths of a graph. `WalksExist` and `ExactlyIs` give
the recursive function its equation, `SizeIsEnough` shows that as many steps as
there are nodes reach all that can be reached, by the growth of the set of those
reached, and `OneParent` that a graph with one edge fewer than nodes has no
second way to a node. These are inductions over the length of a walk or the
position on a path (`Induction`, from `WFMin` on the natural numbers).

`KeysAreUnique`, `VersionsAreCovered`, `AppliedBatchesAreComplete`,
`ShownOrderIsComplete`, `ProducersAreSortedFirst`, `FallbackMeansCycle`,
`SortIsStable`, `ComparisonsBoundedHolds` and the theorems of types and of
invariance are proved and no run checks them separately.

The imports of `RuleTransfer` are loops that are written as recursive functions.
A loop whose steps stay in a set has a result there (`LoopsExist`, by induction
on its length), which gives each of them its equation (`SaveFirstIs`,
`SaveLogicsIs`, `NamingIs`, `MatchingIs`, `SaveDefinitionsIs`); what they save is
then an induction over the places of the list (`PlacesInduction`).
`TransferAssumption` says that neither an order nor the default of a key is a
marker, and that files have lists where the code iterates over lists. The logics
that a definition of an L4 file gets are as many at most as the file has
(`MatchingPlaces`, `PlacesFit`), which bounds the orders of its steps.

Only model-checked: the liveness properties `Terminates`, `Answered`,
`RetriesEnd` and `Ends`, which are out of the prover's reach. Every other
property that a run checks is the statement of a theorem.

## 5. What is not modelled

Contents: the texts of expressions, formulas and conditions are free choices or
members of small sets; formatting and logging are left out. Routes that only read
are left out unless an order or a search is their result.

- *Value domain validation, schema and instance loaders, the schema and
  visualization services and the builders of pictures*: pure functions from text
  to models or from models to pictures, without an order that matters or state
  that is kept.
- *Semantic space routes and state machine* (`api/routes/semantic_spaces.py`,
  `core/semantic_space/state_machine.py`): the application does not include the
  router, and no included route uses the state machine.
- *Kuzu*: its store is Cypher for an external library; what a query answers is
  the library's.
- *Web user interface*: a client; which requests it sends is free in every model.
- *Null metrics*: `EntityAnalysis` has a value for each metric; a metric that is
  `None` is computed again by every request, as if the cache did not exist.
- *Which item of a layer an edit changes*: layers and instances are single values
  in `SpaceViews`.
- Similarity scores are integers in `Retrieval`: rounding is not modelled.
- *Removal of a member from a dataset* (`remove_entity_from_dataset`,
  `storage/duckdb/store.py:864`): no service or route calls it, so members of
  `Datasets` only grow until their dataset is deleted.
- *Relation data with a key `_type`*: it would take the place of the type of the
  edge in the graph (`storage/graph/networkx_store.py:110`). `GraphStores` has
  data without such keys.
- *The guarantee chain over two sources*: `longest_path` reads the first guarantors
  from relations when the entity has no list, and later ones from lists.
  `Traversals` is given one graph for both.

An exception that the file system raises without a stop of the process is covered
by `CrashInside` as far as files go: the request ends there.

## 6. What is left

1. Abstract specifications: a versioned register that `SpaceVersions` implements
   for uncopied spaces; an append-only log that `EntityImports` implements for
   imports that do not race.
2. `EntityAnalysis`: metrics without a value.
3. `SpaceViews`: the items of a layer, told apart by their ids.
