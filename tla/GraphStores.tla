----------------------------- MODULE GraphStores -----------------------------
(***************************************************************************)
(* Entities and relations in two stores: DuckDB has the rows, and a        *)
(* NetworkX graph in memory has the topology.  DualWriteCoordinator writes *)
(* both, the entity and ingestion services write the rows only, and a full *)
(* sync reads the rows one query at a time and writes the graph at once.   *)
(*                                                                         *)
(* DuckDB's operations are awaited under one lock.  The graph's operations *)
(* are coroutines that never wait: what a request does to the graph after  *)
(* an operation of DuckDB happens before any other request goes on.        *)
(***************************************************************************)
EXTENDS Integers, Sequences, FiniteSets, SequencesExt

CONSTANTS
    Keys,          \* <<concept, id>>: the key of an entity row
    Place,         \* [keys -> their places in the query of all entities]
    Relations,     \* [type, from, to]: the key of a relation row
    Data,          \* of entities and relations
    Sent,          \* the requests: [kind, entities, relations, space]
    Clashing,      \* relation data with a key that add_edge takes itself
    Workers,
    MaxRequests,   \* bound on the requests
    MaxLosses,     \* bound on what the graph loses: closes, removals, restarts
    NeighborLimit, \* of the graph's get_neighbors
    NoEntity       \* the labels and properties of a node that only edges made

Ids == {k[2] : k \in Keys}

Spaces == {sent.space : sent \in Sent} \cup {NoEntity}

ASSUME StoresAssumption ==
    /\ IsFiniteSet(Keys) /\ IsFiniteSet(Relations)
    /\ \A r \in Relations : {r.from, r.to} \subseteq Ids
    /\ Place \in [Keys -> Nat]

ASSUME SentAssumption ==
    \A sent \in Sent :
        /\ sent.entities \in Seq([key : Keys, data : Data])
        /\ sent.relations \in Seq([rel : Relations, data : Data])
        /\ sent = [kind |-> sent.kind, entities |-> sent.entities,
                    relations |-> sent.relations, space |-> sent.space]

\* Ids, relations and what is kept of them can be told apart.
ASSUME KindsAssumption ==
    /\ Ids \cap Relations = {}
    /\ NoEntity \notin [concept : {k[1] : k \in Keys}, data : Data, space : Spaces]

Idle == [kind |-> "idle", entities |-> << >>, relations |-> << >>, space |-> NoEntity]

NoSync == [on |-> FALSE, entities |-> << >>, ids |-> << >>, read |-> 0,
           edges |-> << >>]

NoQuery == [todo |-> {}, answer |-> {}]

VARIABLES
    entities,   \* [keys of rows -> data]
    relations,  \* [keys of rows -> data]
    open,       \* the graph is initialized
    nodes,      \* [ids -> [concept, data, space] or NoEntity]
    edges,      \* [relations -> data]; the edge id is made of the key
    job,        \* [Workers -> what is left of a request]
    sync,       \* a full sync under way: what it has read
    query,      \* a hybrid query under way or answered
    requests,
    losses,
    lagging,    \* history: ids and relations the graph may be behind on, and why:
    missed,     \*   the ones written since the sync under way has read them
    held        \* history: all values rows ever had

rows == <<entities, relations>>
graph == <<open, nodes, edges>>
vars == <<entities, relations, open, nodes, edges, job, sync, query,
          requests, losses, lagging, missed, held>>

Items == Ids \cup Relations

\* f, and g where f has no value.
Over(f, g) ==
    [x \in DOMAIN f \cup DOMAIN g |-> IF x \in DOMAIN f THEN f[x] ELSE g[x]]

Only(x, value) == [y \in {x} |-> value]

Row(k, d) == [concept |-> k[1], data |-> d]

Edge(r, d) == [type |-> r.type, data |-> d]

-----------------------------------------------------------------------------
\* NetworkXGraphStore.  A new edge brings nodes for the ends that are missing.
UpsertNode(ns, id, value) == Over(Only(id, value), ns)

WithEnds(ns, rel) ==
    Over(ns, [id \in {rel.from, rel.to} |-> NoEntity])

\* The edge of the same key is removed before the new one is added.
UpsertEdge(es, rel, d) ==
    IF d \in Clashing THEN [r \in DOMAIN es \ {rel} |-> es[r]]
    ELSE Over(Only(rel, d), es)

\* A mutant of WithoutNode: networkx is left to drop the edges it knows of.
WithoutNodeOnly(es, id) == es

WithoutNode(es, id) ==
    [r \in {x \in DOMAIN es : id \notin {x.from, x.to}} |-> es[r]]

\* A mutant of Neighbors: an incoming edge gives its target.
NeighborsOfTarget(id, type, direction) ==
    {[neighbor |-> r.to, rel |-> r] :
        r \in {x \in DOMAIN edges : x.type = type /\ id \in {x.from, x.to}}}

Neighbors(id, type, direction) ==
    {[neighbor |-> r.to, rel |-> r] :
        r \in {x \in DOMAIN edges : x.type = type /\ x.from = id
                                    /\ direction \in {"outgoing", "both"}}}
    \cup
    {[neighbor |-> r.from, rel |-> r] :
        r \in {x \in DOMAIN edges : x.type = type /\ x.to = id
                                    /\ direction \in {"incoming", "both"}}}

\* DuckDBStorage.get_neighbors: every direction but "outgoing" is incoming.
JoinedNeighbors(id, type, direction) ==
    LET rowIds == {k[2] : k \in DOMAIN entities}
        typed == {r \in DOMAIN relations : r.type = type}
    IN  IF direction = "outgoing"
        THEN {[neighbor |-> r.to, rel |-> r] :
                 r \in {x \in typed : x.from = id /\ x.to \in rowIds}}
        ELSE {[neighbor |-> r.from, rel |-> r] :
                 r \in {x \in typed : x.to = id /\ x.from \in rowIds}}

-----------------------------------------------------------------------------
Init ==
    /\ entities = << >> /\ relations = << >>
    /\ open = TRUE /\ nodes = << >> /\ edges = << >>
    /\ job = [w \in Workers |-> Idle]
    /\ sync = NoSync /\ query = NoQuery
    /\ requests = 0 /\ losses = 0
    /\ lagging = {} /\ missed = {} /\ held = {}

Start(w, sent) ==
    /\ job[w] = Idle
    /\ requests < MaxRequests
    /\ requests' = requests + 1
    /\ job' = [job EXCEPT ![w] = sent]
    /\ UNCHANGED <<rows, graph, sync, query, losses, lagging, missed, held>>

\* A row is written; the graph follows (up = TRUE), fails, or is not told.
Wrote(item, value, up) ==
    /\ held' = held \cup {<<item, value>>}
    /\ lagging' = IF up THEN lagging \ {item} ELSE lagging \cup {item}
    /\ missed' = IF sync.on THEN missed \cup {item} ELSE missed

\* The items of a request that are left.
Left(w, es, rs) ==
    [job EXCEPT ![w] = [kind |-> job[w].kind, entities |-> es, relations |-> rs,
                        space |-> job[w].space]]

\* save_entity of DuckDB, and upsert_node if the request writes both; that
\* fails on a graph that is not initialized, which is logged and no more.
SaveEntity(w) ==
    /\ job[w].entities # << >>
    /\ LET e == Head(job[w].entities)
           id == e.key[2]
           up == job[w].kind = "dual" /\ open
       IN  /\ entities' = Over(Only(e.key, e.data), entities)
           /\ nodes' = IF up THEN UpsertNode(nodes, id,
                                  [concept |-> e.key[1], data |-> e.data,
                                   space |-> job[w].space])
                       ELSE nodes
           /\ Wrote(id, Row(e.key, e.data), up)
    /\ job' = Left(w, Tail(job[w].entities), job[w].relations)
    /\ UNCHANGED <<relations, open, edges, sync, query, requests, losses>>

\* save_relation, and upsert_edge.  A failed one may have lost the edge.
SaveRelation(w) ==
    /\ job[w].entities = << >> /\ job[w].relations # << >>
    /\ LET r == Head(job[w].relations)
           told == job[w].kind = "dual" /\ open
       IN  /\ relations' = Over(Only(r.rel, r.data), relations)
           /\ edges' = IF told THEN UpsertEdge(edges, r.rel, r.data) ELSE edges
           /\ nodes' = IF told THEN WithEnds(nodes, r.rel) ELSE nodes
           /\ Wrote(r.rel, Edge(r.rel, r.data), told /\ r.data \notin Clashing)
    /\ job' = Left(w, job[w].entities, Tail(job[w].relations))
    /\ UNCHANGED <<entities, open, sync, query, requests, losses>>

\* An operation of DuckDB raises: the request of the coordinator ends, the
\* services note the error and go on with the next item.
SaveFails(w) ==
    /\ job[w] # Idle
    /\ job[w].entities \o job[w].relations # << >>
    /\ job' = IF job[w].kind = "dual" THEN [job EXCEPT ![w] = Idle]
              ELSE IF job[w].entities # << >>
              THEN Left(w, Tail(job[w].entities), job[w].relations)
              ELSE Left(w, job[w].entities, Tail(job[w].relations))
    /\ UNCHANGED <<rows, graph, sync, query, requests, losses, lagging, missed, held>>

EndJob(w) ==
    /\ job[w] # Idle
    /\ job[w].entities \o job[w].relations = << >>
    /\ job' = [job EXCEPT ![w] = Idle]
    /\ UNCHANGED <<rows, graph, sync, query, requests, losses, lagging, missed, held>>

-----------------------------------------------------------------------------
\* batch_sync_from_storage reads all entities, then the relations from each.
SyncEntities ==
    /\ ~sync.on
    /\ requests < MaxRequests
    /\ requests' = requests + 1
    /\ \E keys \in SetToSeqs(DOMAIN entities) :
           /\ \A i, j \in DOMAIN keys : i < j => Place[keys[i]] < Place[keys[j]]
           /\ sync' = [on |-> TRUE,
                       entities |-> [i \in DOMAIN keys |-> Row(keys[i], entities[keys[i]])],
                       ids |-> [i \in DOMAIN keys |-> keys[i][2]],
                       read |-> 0, edges |-> << >>]
    /\ missed' = {}
    /\ UNCHANGED <<rows, graph, job, query, losses, lagging, held>>

\* A relation that is written before it is read is not missed.
SyncRelations ==
    /\ sync.on /\ sync.read < Len(sync.ids)
    /\ LET from == {r \in DOMAIN relations : r.from = sync.ids[sync.read + 1]}
       IN  /\ \E order \in SetToSeqs(from) :
                  sync' = [on |-> TRUE, entities |-> sync.entities, ids |-> sync.ids,
                           read |-> sync.read + 1,
                           edges |-> sync.edges \o [i \in DOMAIN order |->
                                        [rel |-> order[i], data |-> relations[order[i]]]]]
           /\ missed' = missed \ from
    /\ UNCHANGED <<rows, graph, job, query, requests, losses, lagging, held>>

\* Of the rows of an id the last in the order of the query.  A node keeps nothing
\* of what it was, the space it was saved under included.
Read ==
    [id \in ToSet(sync.ids) |->
        LET row == sync.entities[Max({i \in DOMAIN sync.ids : sync.ids[i] = id})]
        IN  [concept |-> row.concept, data |-> row.data, space |-> NoEntity]]

\* A mutant of SyncedNodes: a node that is there is left alone.
SyncedNodesNew == Over(nodes, Read)

SyncedNodes == Over(Read, nodes)

\* Of the edges done, the last one of a key counts.
SyncedEdges(done) ==
    LET of(rel) == {i \in DOMAIN done : done[i].rel = rel}
        kept == {rel \in Relations : \/ of(rel) = {} /\ rel \in DOMAIN edges
                                     \/ of(rel) # {} /\ done[Max(of(rel))].data \notin Clashing}
    IN  [rel \in kept |-> IF of(rel) = {} THEN edges[rel] ELSE done[Max(of(rel))].data]

\* batch_upsert: all nodes, then the edges up to the first that raises.
SyncWrite ==
    /\ sync.on /\ sync.read = Len(sync.ids)
    /\ open
    /\ LET bad == {i \in DOMAIN sync.edges : sync.edges[i].data \in Clashing}
           done == IF bad = {} THEN sync.edges ELSE SubSeq(sync.edges, 1, Min(bad))
           ends == UNION {{e.rel.from, e.rel.to} : e \in ToSet(done)}
       IN  /\ nodes' = Over(SyncedNodes, [id \in ends |-> NoEntity])
           /\ edges' = SyncedEdges(done)
           /\ lagging' = IF bad # {} THEN Items
                         ELSE missed \cup {r \in lagging \cap Relations :
                                               r.from \notin ToSet(sync.ids)}
    /\ sync' = NoSync
    /\ UNCHANGED <<rows, open, job, query, requests, losses, missed, held>>

\* DuckDB raises, or the graph is not initialized.
SyncFails ==
    /\ sync.on
    /\ sync.read = Len(sync.ids) => ~open
    /\ sync' = NoSync
    /\ UNCHANGED <<rows, graph, job, query, requests, losses, lagging, missed, held>>

-----------------------------------------------------------------------------
\* get_neighbor_details: topology from the graph, then each entity from DuckDB.
Ask(id, type, direction) ==
    /\ query.todo = {}
    /\ requests < MaxRequests
    /\ open
    /\ requests' = requests + 1
    /\ LET all == Neighbors(id, type, direction)
       IN  \E found \in SUBSET all :
               /\ Cardinality(found) = Min({NeighborLimit, Cardinality(all)})
               /\ query' = [todo |-> found, answer |-> {}]
    /\ UNCHANGED <<rows, graph, job, sync, losses, lagging, missed, held>>

\* A mutant of Fetch: a neighbour without a row is answered as well.
FetchUnchecked ==
    /\ \E n \in query.todo :
           query' = [todo |-> query.todo \ {n}, answer |-> query.answer \cup {n}]
    /\ UNCHANGED <<rows, graph, job, sync, requests, losses, lagging, missed, held>>

Fetch ==
    /\ \E n \in query.todo :
           query' = [todo |-> query.todo \ {n},
                     answer |-> IF \E k \in DOMAIN entities : k[2] = n.neighbor
                                THEN query.answer \cup {n} ELSE query.answer]
    /\ UNCHANGED <<rows, graph, job, sync, requests, losses, lagging, missed, held>>

-----------------------------------------------------------------------------
Emptied ==
    /\ losses < MaxLosses
    /\ losses' = losses + 1
    /\ nodes' = << >> /\ edges' = << >>
    /\ lagging' = Items
    /\ UNCHANGED <<rows, requests, missed, held>>

Close == Emptied /\ open' = FALSE /\ UNCHANGED <<job, sync, query>>

Initialize == Emptied /\ open' = TRUE /\ UNCHANGED <<job, sync, query>>

\* The process stops: the graph is in memory, the rows are on disk.
Restart ==
    /\ Emptied
    /\ open' = TRUE
    /\ job' = [w \in Workers |-> Idle] /\ sync' = NoSync /\ query' = NoQuery

\* delete_node raises when there is no such node.
RemoveNode(id) ==
    /\ losses < MaxLosses
    /\ open /\ id \in DOMAIN nodes
    /\ losses' = losses + 1
    /\ nodes' = [x \in DOMAIN nodes \ {id} |-> nodes[x]]
    /\ edges' = WithoutNode(edges, id)
    /\ lagging' = lagging \cup {id} \cup (DOMAIN edges \ DOMAIN edges')
    /\ UNCHANGED <<rows, open, job, sync, query, requests, missed, held>>

RemoveEdge(rel) ==
    /\ losses < MaxLosses
    /\ open /\ rel \in DOMAIN edges
    /\ losses' = losses + 1
    /\ edges' = [r \in DOMAIN edges \ {rel} |-> edges[r]]
    /\ lagging' = lagging \cup {rel}
    /\ UNCHANGED <<rows, open, nodes, job, sync, query, requests, missed, held>>

Directions == {"outgoing", "incoming", "both"}

Types == {r.type : r \in Relations}

Next ==
    \/ \E w \in Workers :
           \/ \E sent \in Sent : Start(w, sent)
           \/ SaveEntity(w) \/ SaveRelation(w) \/ SaveFails(w) \/ EndJob(w)
    \/ SyncEntities \/ SyncRelations \/ SyncWrite \/ SyncFails
    \/ \E id \in Ids, type \in Types, direction \in Directions : Ask(id, type, direction)
    \/ Fetch
    \/ Close \/ Initialize \/ Restart
    \/ \E id \in Ids : RemoveNode(id)
    \/ \E rel \in Relations : RemoveEdge(rel)

Spec == Init /\ [][Next]_vars

-----------------------------------------------------------------------------
\* Ids are unique within a concept only: of two rows with one id, the node has
\* the one that was written last.
OneRow(id) == Cardinality({k \in DOMAIN entities : k[2] = id}) = 1

\* However dual writes, writes past the graph, syncs and losses interleave, a
\* node or an edge differs from its row only for one of the known reasons: it
\* was lost, its write failed, the graph was not told, or it was saved while a
\* sync had already read it.
FreshUnlessLagging ==
    /\ \A k \in DOMAIN entities :
           k[2] \notin lagging /\ OneRow(k[2]) =>
               /\ k[2] \in DOMAIN nodes
               /\ nodes[k[2]] # NoEntity
               /\ nodes[k[2]].concept = k[1] /\ nodes[k[2]].data = entities[k]
    /\ \A r \in DOMAIN relations \ lagging :
           r \in DOMAIN edges /\ edges[r] = relations[r]

\* Both ways to answer a query of neighbours, from the graph and by a join of
\* the rows, give the same neighbours of an entity whose edges are up to date,
\* apart from those past the limit; the join knows no direction "both".
PathsAgree ==
    \A id \in Ids, type \in Types, direction \in {"outgoing", "incoming"} :
        LET touching == {r \in Relations : id \in {r.from, r.to}}
        IN  touching \cap lagging = {} /\ open =>
                {n \in Neighbors(id, type, direction) :
                    \E k \in DOMAIN entities : k[2] = n.neighbor}
                = JoinedNeighbors(id, type, direction)

\* An answer from the graph names relations and entities that have rows,
\* whatever fails or is removed between the two reads.
AnswersBacked ==
    \A n \in query.answer :
        /\ n.rel \in DOMAIN relations
        /\ \E k \in DOMAIN entities : k[2] = n.neighbor

\* The space of a node is not in the rows.
Shown ==
    [x \in DOMAIN nodes \cup DOMAIN edges |->
        IF x \in DOMAIN edges THEN Edge(x, edges[x])
        ELSE IF nodes[x] = NoEntity THEN NoEntity
        ELSE [concept |-> nodes[x].concept, data |-> nodes[x].data]]

\* What the graph says was in the rows at some time (GraphMirror): it invents
\* neither entities nor relations, and every edge has its two nodes.
Mirror == INSTANCE GraphMirror WITH
    Nodes <- Ids,
    Edges <- Relations,
    Ends <- [r \in Relations |-> {r.from, r.to}],
    Unlabelled <- NoEntity,
    mirror <- Shown

MirrorsRows == Mirror!Spec
=============================================================================
