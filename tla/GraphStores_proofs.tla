------------------------- MODULE GraphStores_proofs -------------------------
(***************************************************************************)
(* The graph says nothing the rows never said, and answers are backed by   *)
(* rows, for any entities, relations, requests and clients.  The invariant *)
(* says of everything that is on its way from the rows to the graph, and   *)
(* of the graph itself, that the rows held it at some time.  A second one  *)
(* says that it is the latest of the rows, where the graph does not lag.   *)
(***************************************************************************)
EXTENDS GraphStores, FiniteSetTheorems, WellFoundedInduction, TLAPS

EntityItem == [key : Keys, data : Data]
RelationItem == [rel : Relations, data : Data]
Concepts == {k[1] : k \in Keys}
RowRec == [concept : Concepts, data : Data]
NodeRec == [concept : Concepts, data : Data, space : Spaces]

Jobs ==
    [kind : {"idle"} \cup {sent.kind : sent \in Sent}, entities : Seq(EntityItem),
     relations : Seq(RelationItem), space : Spaces]

JobsTyped == job \in [Workers -> Jobs]

RowsHeld ==
    /\ \A k \in DOMAIN entities :
           /\ k \in Keys /\ entities[k] \in Data
           /\ <<k[2], Row(k, entities[k])>> \in held
    /\ \A r \in DOMAIN relations :
           /\ r \in Relations /\ relations[r] \in Data
           /\ <<r, Edge(r, relations[r])>> \in held

\* A node without a label is the end of a relation that was there.
NodeHeld(h, id, node) ==
    \/ /\ node = NoEntity
       /\ \E x \in h : x[1] \in Relations /\ id \in {x[1].from, x[1].to}
    \/ /\ node \in NodeRec
       /\ <<id, [concept |-> node.concept, data |-> node.data]>> \in h

NodesHeld == \A id \in DOMAIN nodes : id \in Ids /\ NodeHeld(held, id, nodes[id])

EdgeHeld(h, rels, r, d) ==
    /\ r \in rels
    /\ d \in Data
    /\ <<r, Edge(r, d)>> \in h

EdgesHeld ==
    \A r \in DOMAIN edges :
        /\ EdgeHeld(held, DOMAIN relations, r, edges[r])
        /\ {r.from, r.to} \subseteq DOMAIN nodes

\* What a sync has read.
SyncHeld ==
    /\ sync.ids \in Seq(Ids) /\ sync.entities \in Seq(RowRec)
    /\ Len(sync.entities) = Len(sync.ids)
    /\ sync.edges \in Seq(RelationItem)
    /\ sync.read \in Nat
    /\ sync = [on |-> sync.on, entities |-> sync.entities, ids |-> sync.ids,
               read |-> sync.read, edges |-> sync.edges]
    /\ \A i \in 1..Len(sync.ids) : <<sync.ids[i], sync.entities[i]>> \in held
    /\ \A i \in 1..Len(sync.edges) :
           EdgeHeld(held, DOMAIN relations, sync.edges[i].rel, sync.edges[i].data)

AnswersInv ==
    /\ \A n \in query.todo : n.rel \in DOMAIN relations
    /\ AnswersBacked

IInv ==
    /\ JobsTyped
    /\ RowsHeld
    /\ NodesHeld
    /\ EdgesHeld
    /\ SyncHeld
    /\ AnswersInv

-----------------------------------------------------------------------------
\* A set of positions that is not empty has a last one.
LEMMA MaxFacts ==
    ASSUME NEW n \in Nat, NEW S \in SUBSET (1..n), S # {}
    PROVE  Max(S) \in S /\ \A y \in S : y <= Max(S)
<1> DEFINE T == {k \in Nat : n - k \in S}
<1> DEFINE R == {ss \in Nat \X Nat : ss[1] < ss[2]}
<1>1. T \subseteq Nat /\ T # {}
  <2>1. PICK x \in S : TRUE
    OBVIOUS
  <2>2. n - x \in Nat /\ n - (n - x) = x
    BY <2>1
  <2> QED
    BY <2>1, <2>2
<1>2. IsWellFoundedOn(R, Nat)
  BY NatLessThanWellFounded DEF OpToRel
<1>3. \E m \in T : \A k \in T : <<k, m>> \notin R
  <2> HIDE DEF R, T
  <2> QED
    BY <1>1, <1>2, WFMin
<1>4. PICK m \in T : \A k \in T : <<k, m>> \notin R
  BY <1>3
<1>5. ASSUME NEW y \in S PROVE n - m >= y
  <2>1. n - y \in T
    OBVIOUS
  <2>2. ~(n - y < m)
    BY <1>4, <2>1
  <2> QED
    BY <2>2
<1> QED
  BY <1>5 DEF Max

\* And a first one.
LEMMA MinFacts ==
    ASSUME NEW n \in Nat, NEW S \in SUBSET (1..n), S # {}
    PROVE  Min(S) \in S
<1> DEFINE R == {ss \in Nat \X Nat : ss[1] < ss[2]}
<1>1. S \subseteq Nat
  OBVIOUS
<1>2. IsWellFoundedOn(R, Nat)
  BY NatLessThanWellFounded DEF OpToRel
<1>3. \E m \in S : \A k \in S : <<k, m>> \notin R
  <2> HIDE DEF R
  <2> QED
    BY <1>1, <1>2, WFMin
<1>4. PICK m \in S : \A k \in S : <<k, m>> \notin R
  BY <1>3
<1>5. ASSUME NEW k \in S PROVE m <= k
  <2>1. k \in Nat /\ m \in Nat
    BY <1>1
  <2>2. ~(k < m)
    BY <1>4, <2>1
  <2> QED
    BY <2>1, <2>2
<1> QED
  BY <1>4, <1>5 DEF Min

\* What is held stays held, so that all held before a step is held after it.
LEMMA HeldGrows ==
    ASSUME held \subseteq held', DOMAIN relations \subseteq DOMAIN relations'
    PROVE  /\ \A id, node : NodeHeld(held, id, node) => NodeHeld(held', id, node)
           /\ \A r, d : EdgeHeld(held, DOMAIN relations, r, d)
                         => EdgeHeld(held', DOMAIN relations', r, d)
  BY DEF NodeHeld, EdgeHeld, Edge

LEMMA InitInv == Init => IInv
<1> SUFFICES ASSUME Init PROVE IInv
  OBVIOUS
<1>1. JobsTyped
  BY DEF Init, JobsTyped, Jobs, Idle, Spaces
<1>2. RowsHeld /\ NodesHeld /\ EdgesHeld
  BY DEF Init, RowsHeld, NodesHeld, EdgesHeld
<1>3. SyncHeld
  BY DEF Init, SyncHeld, NoSync
<1>4. AnswersInv
  BY DEF Init, AnswersInv, AnswersBacked, NoQuery
<1> QED
  BY <1>1, <1>2, <1>3, <1>4 DEF IInv

-----------------------------------------------------------------------------
\* Saves.

LEMMA StartInv ==
    ASSUME IInv, NEW w \in Workers, NEW sent \in Sent, Start(w, sent)
    PROVE  IInv'
<1>1. JobsTyped'
  <2>1. sent \in Jobs
    <3>1. /\ sent.entities \in Seq(EntityItem) /\ sent.relations \in Seq(RelationItem)
          /\ sent.kind \in {s.kind : s \in Sent} /\ sent.space \in Spaces
      BY SentAssumption DEF EntityItem, RelationItem, Spaces
    <3>2. sent = [kind |-> sent.kind, entities |-> sent.entities,
                  relations |-> sent.relations, space |-> sent.space]
      BY SentAssumption
    <3> QED
      BY <3>1, <3>2 DEF Jobs
  <2>2. job' = [job EXCEPT ![w] = sent]
    BY DEF Start
  <2> QED
    BY <2>1, <2>2 DEF IInv, JobsTyped
<1>2. RowsHeld' /\ NodesHeld' /\ EdgesHeld' /\ SyncHeld' /\ AnswersInv'
  BY DEF IInv, Start, rows, graph, RowsHeld, NodesHeld, NodeHeld, EdgesHeld, EdgeHeld,
         SyncHeld, AnswersInv, AnswersBacked
<1> QED
  BY <1>1, <1>2 DEF IInv

\* What is left of a request is a request.
LEMMA LeftTyped ==
    ASSUME JobsTyped, NEW w \in Workers, NEW es \in Seq(EntityItem),
           NEW rs \in Seq(RelationItem), job' = Left(w, es, rs)
    PROVE  JobsTyped'
<1> DEFINE j == [kind |-> job[w].kind, entities |-> es, relations |-> rs,
                 space |-> job[w].space]
<1>1. j \in Jobs
  BY DEF JobsTyped, Jobs
<1>2. job' = [job EXCEPT ![w] = j]
  BY DEF Left
<1> HIDE DEF j
<1> QED
  BY <1>1, <1>2 DEF JobsTyped

LEMMA SaveEntityInv ==
    ASSUME IInv, NEW w \in Workers, SaveEntity(w)
    PROVE  IInv'
<1>1. /\ job[w] \in Jobs
      /\ Head(job[w].entities) \in EntityItem
      /\ Tail(job[w].entities) \in Seq(EntityItem)
  BY DEF IInv, JobsTyped, Jobs, SaveEntity
<1>2. PICK e \in EntityItem, node \in NodeRec :
          /\ node.concept = e.key[1] /\ node.data = e.data
          /\ entities' = Over(Only(e.key, e.data), entities)
          /\ nodes' = nodes \/ nodes' = UpsertNode(nodes, e.key[2], node)
          /\ held' = held \cup {<<e.key[2], Row(e.key, e.data)>>}
  <2> DEFINE e == Head(job[w].entities)
  <2> DEFINE node == [concept |-> e.key[1], data |-> e.data, space |-> job[w].space]
  <2>1. node \in NodeRec
    BY <1>1 DEF EntityItem, NodeRec, Concepts, Jobs
  <2>2. /\ entities' = Over(Only(e.key, e.data), entities)
        /\ nodes' = nodes \/ nodes' = UpsertNode(nodes, e.key[2], node)
        /\ held' = held \cup {<<e.key[2], Row(e.key, e.data)>>}
    BY DEF SaveEntity, Wrote
  <2> HIDE DEF e
  <2>3. e \in EntityItem /\ node.concept = e.key[1] /\ node.data = e.data
    BY <1>1 DEF e
  <2> QED
    BY <2>1, <2>2, <2>3
<1>3. UNCHANGED <<relations, open, edges, sync, query>>
  BY DEF SaveEntity
<1>4. JobsTyped'
  <2>1. job' = Left(w, Tail(job[w].entities), job[w].relations)
    BY DEF SaveEntity
  <2> QED
    BY <1>1, <2>1, LeftTyped DEF IInv, Jobs
<1>5. /\ \A id, n : NodeHeld(held, id, n) => NodeHeld(held', id, n)
      /\ \A r, d : EdgeHeld(held, DOMAIN relations, r, d)
                    => EdgeHeld(held', DOMAIN relations', r, d)
  BY <1>2, <1>3, HeldGrows
<1>6. /\ DOMAIN entities' = DOMAIN entities \cup {e.key}
      /\ \A k \in DOMAIN entities' :
             entities'[k] = IF k = e.key THEN e.data ELSE entities[k]
  BY <1>2 DEF Over, Only
<1>7. RowsHeld'
  <2>1. \A k \in DOMAIN entities' :
            /\ k \in Keys /\ entities'[k] \in Data
            /\ <<k[2], Row(k, entities'[k])>> \in held'
    BY <1>2, <1>6 DEF IInv, RowsHeld, EntityItem
  <2> QED
    BY <1>2, <1>3, <2>1 DEF RowsHeld, IInv, Row, Edge
<1>8. DOMAIN nodes \subseteq DOMAIN nodes' /\ NodesHeld'
  <2>1. e.key[2] \in Ids /\ NodeHeld(held', e.key[2], node)
    BY <1>2 DEF NodeHeld, Row, EntityItem, Ids
  <2>2. CASE nodes' = nodes
    BY <1>5, <2>2 DEF IInv, NodesHeld
  <2>3. CASE nodes' = UpsertNode(nodes, e.key[2], node)
    <3>1. /\ DOMAIN nodes' = DOMAIN nodes \cup {e.key[2]}
          /\ \A id \in DOMAIN nodes' :
                 nodes'[id] = IF id = e.key[2] THEN node ELSE nodes[id]
      BY <2>3 DEF UpsertNode, Over, Only
    <3>2. \A id \in DOMAIN nodes' : id \in Ids /\ NodeHeld(held', id, nodes'[id])
      BY <1>5, <2>1, <3>1 DEF IInv, NodesHeld
    <3> QED
      BY <3>1, <3>2 DEF NodesHeld
  <2> QED
    BY <1>2, <2>2, <2>3
<1>9. EdgesHeld'
  BY <1>3, <1>5, <1>8 DEF IInv, EdgesHeld
<1>10. SyncHeld'
  BY <1>2, <1>3, <1>5 DEF IInv, SyncHeld
<1>11. AnswersInv'
  BY <1>3, <1>6 DEF IInv, AnswersInv, AnswersBacked
<1> QED
  BY <1>4, <1>7, <1>8, <1>9, <1>10, <1>11 DEF IInv

LEMMA SaveRelationInv ==
    ASSUME IInv, NEW w \in Workers, SaveRelation(w)
    PROVE  IInv'
<1>1. /\ Head(job[w].relations) \in RelationItem
      /\ job[w].entities \in Seq(EntityItem)
      /\ Tail(job[w].relations) \in Seq(RelationItem)
  BY DEF IInv, JobsTyped, Jobs, SaveRelation
<1>2. PICK i \in RelationItem :
          /\ relations' = Over(Only(i.rel, i.data), relations)
          /\ \/ edges' = edges /\ nodes' = nodes
             \/ edges' = UpsertEdge(edges, i.rel, i.data) /\ nodes' = WithEnds(nodes, i.rel)
          /\ held' = held \cup {<<i.rel, Edge(i.rel, i.data)>>}
  BY <1>1 DEF SaveRelation, Wrote
<1>3. UNCHANGED <<entities, open, sync, query>>
  BY DEF SaveRelation
<1>4. JobsTyped'
  <2>1. job' = Left(w, job[w].entities, Tail(job[w].relations))
    BY DEF SaveRelation
  <2> QED
    BY <1>1, <2>1, LeftTyped DEF IInv
<1>5. i.rel \in Relations /\ i.data \in Data /\ {i.rel.from, i.rel.to} \subseteq Ids
  BY StoresAssumption DEF RelationItem
<1>6. /\ DOMAIN relations' = DOMAIN relations \cup {i.rel}
      /\ \A r \in DOMAIN relations' :
             relations'[r] = IF r = i.rel THEN i.data ELSE relations[r]
  BY <1>2 DEF Over, Only
<1>7. /\ \A id, n : NodeHeld(held, id, n) => NodeHeld(held', id, n)
      /\ \A r, d : EdgeHeld(held, DOMAIN relations, r, d)
                    => EdgeHeld(held', DOMAIN relations', r, d)
  BY <1>2, <1>6, HeldGrows
<1>8. RowsHeld'
  <2>1. \A r \in DOMAIN relations' :
            /\ r \in Relations /\ relations'[r] \in Data
            /\ <<r, Edge(r, relations'[r])>> \in held'
    BY <1>2, <1>5, <1>6 DEF IInv, RowsHeld
  <2> QED
    BY <1>2, <1>3, <2>1 DEF RowsHeld, IInv, Row, Edge
<1>9. NodesHeld' /\ EdgesHeld'
  <2>1. CASE edges' = edges /\ nodes' = nodes
    BY <1>7, <2>1 DEF IInv, NodesHeld, EdgesHeld
  <2>2. CASE edges' = UpsertEdge(edges, i.rel, i.data) /\ nodes' = WithEnds(nodes, i.rel)
    <3>1. /\ DOMAIN nodes' = DOMAIN nodes \cup {i.rel.from, i.rel.to}
          /\ \A id \in DOMAIN nodes' :
                 nodes'[id] = IF id \in DOMAIN nodes THEN nodes[id] ELSE NoEntity
      BY <2>2 DEF WithEnds, Over
    <3>2. \A id \in {i.rel.from, i.rel.to} : NodeHeld(held', id, NoEntity)
      <4>1. <<i.rel, Edge(i.rel, i.data)>>[1] = i.rel
        OBVIOUS
      <4> QED
        BY <1>2, <1>5, <4>1 DEF NodeHeld
    <3>3. \A id \in DOMAIN nodes' : id \in Ids /\ NodeHeld(held', id, nodes'[id])
      BY <1>5, <1>7, <3>1, <3>2 DEF IInv, NodesHeld
    <3>4. /\ DOMAIN edges' \subseteq DOMAIN edges \cup {i.rel}
          /\ \A r \in DOMAIN edges' :
                 edges'[r] = IF r = i.rel THEN i.data ELSE edges[r]
      BY <2>2 DEF UpsertEdge, Over, Only
    <3>5. EdgeHeld(held', DOMAIN relations', i.rel, i.data)
      BY <1>2, <1>5, <1>6 DEF EdgeHeld
    <3>6. \A r \in DOMAIN edges' :
              /\ EdgeHeld(held', DOMAIN relations', r, edges'[r])
              /\ {r.from, r.to} \subseteq DOMAIN nodes'
      BY <1>7, <3>1, <3>4, <3>5 DEF IInv, EdgesHeld
    <3> QED
      BY <3>3, <3>6 DEF NodesHeld, EdgesHeld
  <2> QED
    BY <1>2, <2>1, <2>2
<1>10. SyncHeld'
  BY <1>2, <1>3, <1>7 DEF IInv, SyncHeld
<1>11. AnswersInv'
  BY <1>3, <1>6 DEF IInv, AnswersInv, AnswersBacked
<1> QED
  BY <1>4, <1>8, <1>9, <1>10, <1>11 DEF IInv

LEMMA EndInv ==
    ASSUME IInv, NEW w \in Workers, SaveFails(w) \/ EndJob(w)
    PROVE  IInv'
<1>1. JobsTyped'
  <2>1. CASE job' = [job EXCEPT ![w] = Idle]
    BY <2>1 DEF IInv, JobsTyped, Jobs, Idle, Spaces
  <2>2. CASE job[w].entities # << >>
             /\ job' = Left(w, Tail(job[w].entities), job[w].relations)
    <3>1. Tail(job[w].entities) \in Seq(EntityItem) /\ job[w].relations \in Seq(RelationItem)
      BY <2>2 DEF IInv, JobsTyped, Jobs
    <3> QED
      BY <2>2, <3>1, LeftTyped DEF IInv
  <2>3. CASE job[w].entities = << >> /\ job[w].relations # << >>
             /\ job' = Left(w, job[w].entities, Tail(job[w].relations))
    <3>1. job[w].entities \in Seq(EntityItem) /\ Tail(job[w].relations) \in Seq(RelationItem)
      BY <2>3 DEF IInv, JobsTyped, Jobs
    <3> QED
      BY <2>3, <3>1, LeftTyped DEF IInv
  <2>4. job[w].entities = << >> /\ job[w].relations = << >>
            => job[w].entities \o job[w].relations = << >>
    OBVIOUS
  <2> QED
    BY <2>1, <2>2, <2>3, <2>4 DEF SaveFails, EndJob
<1>2. RowsHeld' /\ NodesHeld' /\ EdgesHeld' /\ SyncHeld' /\ AnswersInv'
  BY DEF IInv, SaveFails, EndJob, rows, graph, RowsHeld, NodesHeld, EdgesHeld,
         SyncHeld, AnswersInv, AnswersBacked
<1> QED
  BY <1>1, <1>2 DEF IInv

-----------------------------------------------------------------------------
\* The full sync.

LEMMA SetToSeqsFacts ==
    ASSUME NEW S, IsFiniteSet(S), NEW q \in SetToSeqs(S)
    PROVE  /\ q \in Seq(S) /\ Len(q) = Cardinality(S) /\ DOMAIN q = 1..Len(q)
           /\ \A x \in S : \E i \in DOMAIN q : q[i] = x
           /\ \A i, j \in DOMAIN q : i # j => q[i] # q[j]
<1>1. Cardinality(S) \in Nat
  BY FS_CardinalityType
<1> DEFINE D == 1..Cardinality(S)
<1>2. q \in [D -> S] /\ \A i, j \in D : i # j => q[i] # q[j]
  BY DEF SetToSeqs
<1>3. q \in Seq(S) /\ Len(q) = Cardinality(S) /\ DOMAIN q = 1..Len(q)
  BY <1>1, <1>2
<1>4. q \in Injection(D, S)
  BY <1>2 DEF Injection, IsInjective
<1>5. Cardinality(D) = Cardinality(S)
  BY <1>1, FS_Interval
<1>6. q \in Surjection(D, S)
  <2> HIDE DEF D
  <2> QED
    BY <1>4, <1>5, FS_Injection
<1> QED
  BY <1>2, <1>3, <1>6 DEF Surjection

LEMMA SyncEntitiesInv ==
    ASSUME IInv, SyncEntities
    PROVE  IInv'
<1>1. PICK keys \in SetToSeqs(DOMAIN entities) :
          sync' = [on |-> TRUE,
                   entities |-> [i \in DOMAIN keys |-> Row(keys[i], entities[keys[i]])],
                   ids |-> [i \in DOMAIN keys |-> keys[i][2]],
                   read |-> 0, edges |-> << >>]
  BY DEF SyncEntities
<1>2. IsFiniteSet(DOMAIN entities)
  <2>1. DOMAIN entities \subseteq Keys
    BY DEF IInv, RowsHeld
  <2> QED
    BY <2>1, StoresAssumption, FS_Subset
<1>3. /\ DOMAIN keys = 1..Len(keys) /\ Len(keys) \in Nat
      /\ \A i \in DOMAIN keys : keys[i] \in DOMAIN entities
  <2> DEFINE S == DOMAIN entities
  <2>1. keys \in SetToSeqs(S) /\ IsFiniteSet(S)
    BY <1>1, <1>2
  <2> HIDE DEF S
  <2>2. keys \in Seq(S) /\ DOMAIN keys = 1..Len(keys)
    BY <2>1, SetToSeqsFacts
  <2>3. Len(keys) \in Nat /\ \A i \in DOMAIN keys : keys[i] \in S
    BY <2>2
  <2> QED
    BY <2>2, <2>3 DEF S
<1>4. \A i \in DOMAIN keys :
          /\ keys[i][2] \in Ids
          /\ Row(keys[i], entities[keys[i]]) \in RowRec
          /\ <<keys[i][2], Row(keys[i], entities[keys[i]])>> \in held
  BY <1>3 DEF IInv, RowsHeld, Ids, Row, RowRec, Concepts
<1>5. UNCHANGED <<rows, graph, job, query, held>>
  BY DEF SyncEntities
<1>6. SyncHeld'
  <2> DEFINE ids == [i \in DOMAIN keys |-> keys[i][2]]
  <2> DEFINE vals == [i \in DOMAIN keys |-> Row(keys[i], entities[keys[i]])]
  <2>1. /\ ids \in Seq(Ids) /\ vals \in Seq(RowRec)
        /\ Len(ids) = Len(keys) /\ Len(vals) = Len(keys)
    <3>1. ids \in [1..Len(keys) -> Ids]
      BY <1>3, <1>4
    <3>2. vals \in [1..Len(keys) -> RowRec]
      BY <1>3, <1>4
    <3> HIDE DEF ids, vals
    <3> QED
      BY <1>3, <3>1, <3>2
  <2>2. \A i \in 1..Len(ids) : <<ids[i], vals[i]>> \in held
    BY <1>3, <1>4, <2>1
  <2> HIDE DEF ids, vals
  <2>3. sync' = [on |-> TRUE, entities |-> vals, ids |-> ids, read |-> 0, edges |-> << >>]
    BY <1>1 DEF ids, vals
  <2>4. /\ sync'.entities = vals /\ sync'.ids = ids
        /\ sync'.read = 0 /\ sync'.edges = << >>
        /\ sync' = [on |-> sync'.on, entities |-> sync'.entities, ids |-> sync'.ids,
                    read |-> sync'.read, edges |-> sync'.edges]
    BY <2>3
  <2> QED
    BY <1>5, <2>1, <2>2, <2>4 DEF SyncHeld
<1>7. JobsTyped' /\ RowsHeld' /\ NodesHeld' /\ EdgesHeld' /\ AnswersInv'
  BY <1>5 DEF IInv, rows, graph, JobsTyped, RowsHeld, NodesHeld, EdgesHeld, AnswersInv,
              AnswersBacked
<1> QED
  BY <1>6, <1>7 DEF IInv

LEMMA SyncRelationsInv ==
    ASSUME IInv, SyncRelations
    PROVE  IInv'
<1> DEFINE from == {r \in DOMAIN relations : r.from = sync.ids[sync.read + 1]}
<1>1. PICK order \in SetToSeqs(from) :
          sync' = [on |-> TRUE, entities |-> sync.entities, ids |-> sync.ids,
                   read |-> sync.read + 1,
                   edges |-> sync.edges \o [i \in DOMAIN order |->
                                [rel |-> order[i], data |-> relations[order[i]]]]]
  BY DEF SyncRelations
<1>2. IsFiniteSet(from)
  <2>1. from \subseteq Relations
    BY DEF IInv, RowsHeld
  <2> QED
    BY <2>1, StoresAssumption, FS_Subset
<1> DEFINE new == [i \in DOMAIN order |-> [rel |-> order[i], data |-> relations[order[i]]]]
<1>3. /\ DOMAIN order = 1..Len(order) /\ Len(order) \in Nat
      /\ \A i \in DOMAIN order : order[i] \in from
  <2> HIDE DEF from
  <2>1. order \in Seq(from) /\ DOMAIN order = 1..Len(order)
    BY <1>1, <1>2, SetToSeqsFacts
  <2> QED
    BY <2>1
<1>4. \A i \in DOMAIN order :
          /\ order[i] \in Relations /\ relations[order[i]] \in Data
          /\ EdgeHeld(held, DOMAIN relations, order[i], relations[order[i]])
  BY <1>3 DEF IInv, RowsHeld, EdgeHeld
<1>5. /\ new \in Seq(RelationItem) /\ Len(new) = Len(order)
      /\ \A i \in 1..Len(new) : EdgeHeld(held, DOMAIN relations, new[i].rel, new[i].data)
  <2>1. \A i \in DOMAIN order : [rel |-> order[i], data |-> relations[order[i]]] \in RelationItem
    BY <1>4 DEF RelationItem
  <2>2. new \in Seq(RelationItem) /\ Len(new) = Len(order)
    BY <1>3, <2>1
  <2> QED
    BY <1>3, <1>4, <2>2
<1> HIDE DEF new
<1>6. UNCHANGED <<rows, graph, job, query, held>>
  BY DEF SyncRelations
<1>7. SyncHeld'
  <2> DEFINE all == sync.edges \o new
  <2>1. sync.edges \in Seq(RelationItem)
    BY DEF IInv, SyncHeld
  <2>2. /\ all \in Seq(RelationItem)
        /\ \A i \in 1..Len(all) : EdgeHeld(held, DOMAIN relations, all[i].rel, all[i].data)
    <3>1. \A i \in 1..Len(all) :
              \/ i \in 1..Len(sync.edges) /\ all[i] = sync.edges[i]
              \/ i - Len(sync.edges) \in 1..Len(new) /\ all[i] = new[i - Len(sync.edges)]
      BY <1>5, <2>1
    <3> QED
      BY <1>5, <2>1, <3>1 DEF IInv, SyncHeld
  <2> HIDE DEF all
  <2>3. sync' = [on |-> TRUE, entities |-> sync.entities, ids |-> sync.ids,
                 read |-> sync.read + 1, edges |-> all]
    BY <1>1 DEF all, new
  <2>4. /\ sync'.entities = sync.entities /\ sync'.ids = sync.ids
        /\ sync'.read = sync.read + 1 /\ sync'.edges = all
        /\ sync' = [on |-> sync'.on, entities |-> sync'.entities, ids |-> sync'.ids,
                    read |-> sync'.read, edges |-> sync'.edges]
    BY <2>3
  <2> QED
    BY <1>6, <2>2, <2>4 DEF IInv, SyncHeld, rows
<1>8. JobsTyped' /\ RowsHeld' /\ NodesHeld' /\ EdgesHeld' /\ AnswersInv'
  BY <1>6 DEF IInv, rows, graph, JobsTyped, RowsHeld, NodesHeld, EdgesHeld, AnswersInv,
              AnswersBacked
<1> QED
  BY <1>7, <1>8 DEF IInv

LEMMA SyncWriteInv ==
    ASSUME IInv, SyncWrite
    PROVE  IInv'
<1>1. UNCHANGED <<rows, open, job, query, held>> /\ sync' = NoSync
  BY DEF SyncWrite
<1>2. PICK done \in Seq(RelationItem) :
          /\ \A i \in 1..Len(done) :
                 EdgeHeld(held, DOMAIN relations, done[i].rel, done[i].data)
          /\ nodes' = Over(SyncedNodes, [id \in UNION {{e.rel.from, e.rel.to} : e \in ToSet(done)}
                                             |-> NoEntity])
          /\ edges' = SyncedEdges(done)
  <2> DEFINE bad == {i \in DOMAIN sync.edges : sync.edges[i].data \in Clashing}
  <2> DEFINE upto == IF bad = {} THEN sync.edges ELSE SubSeq(sync.edges, 1, Min(bad))
  <2>1. /\ sync.edges \in Seq(RelationItem)
        /\ \A i \in 1..Len(sync.edges) :
               EdgeHeld(held, DOMAIN relations, sync.edges[i].rel, sync.edges[i].data)
    BY DEF IInv, SyncHeld
  <2>2. CASE bad = {}
    BY <2>1, <2>2 DEF SyncWrite
  <2>3. CASE bad # {}
    <3>1. Min(bad) \in 1..Len(sync.edges)
      <4>1. bad \in SUBSET (1..Len(sync.edges)) /\ Len(sync.edges) \in Nat
        BY <2>1
      <4> HIDE DEF bad
      <4> QED
        BY <2>3, <4>1, MinFacts
    <3>2. /\ upto = SubSeq(sync.edges, 1, Min(bad))
          /\ nodes' = Over(SyncedNodes, [id \in UNION {{e.rel.from, e.rel.to} : e \in ToSet(upto)}
                                              |-> NoEntity])
          /\ edges' = SyncedEdges(upto)
      BY <2>3 DEF SyncWrite
    <3> HIDE DEF bad, upto
    <3>3. /\ upto \in Seq(RelationItem) /\ Len(upto) = Min(bad)
          /\ \A i \in 1..Len(upto) : upto[i] = sync.edges[i]
      BY <2>1, <3>1, <3>2
    <3>4. \A i \in 1..Len(upto) :
              EdgeHeld(held, DOMAIN relations, upto[i].rel, upto[i].data)
      BY <2>1, <3>1, <3>3
    <3> QED
      BY <3>2, <3>3, <3>4
  <2> QED
    BY <2>2, <2>3
<1>3. \A i \in 1..Len(done) :
          /\ done[i].rel \in Relations
          /\ {done[i].rel.from, done[i].rel.to} \subseteq Ids
          /\ \A id \in {done[i].rel.from, done[i].rel.to} : NodeHeld(held, id, NoEntity)
  <2> SUFFICES ASSUME NEW i \in 1..Len(done)
               PROVE  /\ done[i].rel \in Relations
                      /\ {done[i].rel.from, done[i].rel.to} \subseteq Ids
                      /\ \A id \in {done[i].rel.from, done[i].rel.to} :
                             NodeHeld(held, id, NoEntity)
    OBVIOUS
  <2>1. done[i] \in RelationItem
    OBVIOUS
  <2>2. <<done[i].rel, Edge(done[i].rel, done[i].data)>> \in held
    BY <1>2 DEF EdgeHeld
  <2>3. <<done[i].rel, Edge(done[i].rel, done[i].data)>>[1] = done[i].rel
    OBVIOUS
  <2> QED
    BY <2>1, <2>2, <2>3, StoresAssumption DEF RelationItem, NodeHeld
<1> DEFINE ends == UNION {{e.rel.from, e.rel.to} : e \in ToSet(done)}
<1>4. \A id \in ends : id \in Ids /\ NodeHeld(held, id, NoEntity)
  BY <1>3 DEF ToSet
<1>5. \A i \in 1..Len(done) : {done[i].rel.from, done[i].rel.to} \subseteq ends
  BY DEF ToSet
<1>6. \A id \in DOMAIN Read : id \in Ids /\ NodeHeld(held, id, Read[id])
  <2> SUFFICES ASSUME NEW id \in ToSet(sync.ids)
               PROVE  id \in Ids /\ NodeHeld(held, id, Read[id])
    BY DEF Read
  <2> DEFINE at == {i \in DOMAIN sync.ids : sync.ids[i] = id}
  <2> DEFINE row == sync.entities[Max(at)]
  <2>1. /\ sync.ids \in Seq(Ids) /\ sync.entities \in Seq(RowRec)
        /\ Len(sync.entities) = Len(sync.ids)
        /\ \A i \in 1..Len(sync.ids) : <<sync.ids[i], sync.entities[i]>> \in held
    BY DEF IInv, SyncHeld
  <2>2. at \in SUBSET (1..Len(sync.ids)) /\ at # {} /\ Len(sync.ids) \in Nat
    BY <2>1 DEF ToSet
  <2>3. Max(at) \in at
    <3> HIDE DEF at
    <3> QED
      BY <2>2, MaxFacts
  <2>4. /\ Max(at) \in 1..Len(sync.ids) /\ sync.ids[Max(at)] = id
    BY <2>1, <2>3
  <2>5. row \in RowRec /\ <<id, row>> \in held /\ id \in Ids
    <3> HIDE DEF at
    <3> QED
      BY <2>1, <2>4
  <2>6. Read[id] = [concept |-> row.concept, data |-> row.data, space |-> NoEntity]
    BY DEF Read
  <2> HIDE DEF row
  <2>7. /\ row = [concept |-> row.concept, data |-> row.data]
        /\ Read[id] \in NodeRec
    BY <2>5, <2>6 DEF RowRec, NodeRec, Spaces
  <2> QED
    BY <2>5, <2>6, <2>7 DEF NodeHeld
<1>7. /\ DOMAIN nodes' = DOMAIN nodes \cup DOMAIN Read \cup ends
      /\ \A id \in DOMAIN nodes' :
             nodes'[id] = IF id \in DOMAIN Read THEN Read[id]
                          ELSE IF id \in DOMAIN nodes THEN nodes[id] ELSE NoEntity
  BY <1>2 DEF SyncedNodes, Over
<1>8. NodesHeld'
  <2>1. \A id \in DOMAIN nodes' : id \in Ids /\ NodeHeld(held, id, nodes'[id])
    <3> HIDE DEF ends
    <3> QED
      BY <1>4, <1>6, <1>7 DEF IInv, NodesHeld
  <2> QED
    BY <1>1, <2>1 DEF NodesHeld
<1>9. EdgesHeld'
  <2> SUFFICES ASSUME NEW r \in DOMAIN edges'
               PROVE  /\ EdgeHeld(held, DOMAIN relations, r, edges'[r])
                      /\ {r.from, r.to} \subseteq DOMAIN nodes'
    BY <1>1 DEF EdgesHeld, rows
  <2> DEFINE of == {i \in DOMAIN done : done[i].rel = r}
  <2>1. CASE of = {}
    <3>1. r \in DOMAIN edges /\ edges'[r] = edges[r]
      BY <1>2, <2>1 DEF SyncedEdges
    <3> QED
      BY <1>7, <3>1 DEF IInv, EdgesHeld
  <2>2. CASE of # {}
    <3>1. edges'[r] = done[Max(of)].data
      BY <1>2, <2>2 DEF SyncedEdges
    <3>2. of \in SUBSET (1..Len(done)) /\ Len(done) \in Nat
      OBVIOUS
    <3>3. Max(of) \in of
      <4> HIDE DEF of
      <4> QED
        BY <2>2, <3>2, MaxFacts
    <3>4. Max(of) \in 1..Len(done) /\ done[Max(of)].rel = r
      BY <3>3
    <3> HIDE DEF of, ends
    <3> QED
      BY <1>2, <1>5, <1>7, <3>1, <3>4
  <2> QED
    BY <2>1, <2>2
<1>10. SyncHeld'
  BY <1>1 DEF SyncHeld, NoSync
<1>11. JobsTyped' /\ RowsHeld' /\ AnswersInv'
  BY <1>1 DEF IInv, rows, JobsTyped, RowsHeld, AnswersInv, AnswersBacked
<1> QED
  BY <1>8, <1>9, <1>10, <1>11 DEF IInv

LEMMA SyncFailsInv ==
    ASSUME IInv, SyncFails
    PROVE  IInv'
<1>1. SyncHeld'
  BY DEF SyncFails, SyncHeld, NoSync
<1>2. JobsTyped' /\ RowsHeld' /\ NodesHeld' /\ EdgesHeld' /\ AnswersInv'
  BY DEF IInv, SyncFails, rows, graph, JobsTyped, RowsHeld, NodesHeld, EdgesHeld,
         AnswersInv, AnswersBacked
<1> QED
  BY <1>1, <1>2 DEF IInv

-----------------------------------------------------------------------------
\* Queries, losses and the removals.

LEMMA AskInv ==
    ASSUME IInv, NEW id \in Ids, NEW type \in Types, NEW direction \in Directions,
           Ask(id, type, direction)
    PROVE  IInv'
<1>1. \A n \in Neighbors(id, type, direction) : n.rel \in DOMAIN relations
  <2>1. DOMAIN edges \subseteq DOMAIN relations
    BY DEF IInv, EdgesHeld, EdgeHeld
  <2> QED
    BY <2>1 DEF Neighbors
<1>2. PICK found \in SUBSET Neighbors(id, type, direction) :
          query' = [todo |-> found, answer |-> {}]
  BY DEF Ask
<1>3. UNCHANGED <<rows, graph, job, sync, held>>
  BY DEF Ask
<1>4. AnswersInv'
  BY <1>1, <1>2, <1>3 DEF AnswersInv, AnswersBacked, rows
<1>5. JobsTyped' /\ RowsHeld' /\ NodesHeld' /\ EdgesHeld' /\ SyncHeld'
  BY <1>3 DEF IInv, rows, graph, JobsTyped, RowsHeld, NodesHeld, EdgesHeld, SyncHeld
<1> QED
  BY <1>4, <1>5 DEF IInv

LEMMA FetchInv ==
    ASSUME IInv, Fetch
    PROVE  IInv'
<1>1. PICK n \in query.todo :
          query' = [todo |-> query.todo \ {n},
                    answer |-> IF \E k \in DOMAIN entities : k[2] = n.neighbor
                               THEN query.answer \cup {n} ELSE query.answer]
  BY DEF Fetch
<1>2. UNCHANGED <<rows, graph, job, sync, held>>
  BY DEF Fetch
<1>3. AnswersInv'
  <2>1. /\ query'.todo = query.todo \ {n}
        /\ query'.answer = IF \E k \in DOMAIN entities : k[2] = n.neighbor
                           THEN query.answer \cup {n} ELSE query.answer
    BY <1>1
  <2> QED
    BY <1>1, <1>2, <2>1 DEF IInv, AnswersInv, AnswersBacked, rows
<1>4. JobsTyped' /\ RowsHeld' /\ NodesHeld' /\ EdgesHeld' /\ SyncHeld'
  BY <1>2 DEF IInv, rows, graph, JobsTyped, RowsHeld, NodesHeld, EdgesHeld, SyncHeld
<1> QED
  BY <1>3, <1>4 DEF IInv

LEMMA LossInv ==
    ASSUME IInv, Close \/ Initialize \/ Restart
    PROVE  IInv'
<1>1. /\ nodes' = << >> /\ edges' = << >> /\ UNCHANGED <<rows, held>>
  BY DEF Close, Initialize, Restart, Emptied
<1>2. RowsHeld' /\ NodesHeld' /\ EdgesHeld'
  BY <1>1 DEF IInv, rows, RowsHeld, NodesHeld, EdgesHeld
<1>3. CASE UNCHANGED <<job, sync, query>>
  BY <1>1, <1>2, <1>3 DEF IInv, rows, JobsTyped, SyncHeld, AnswersInv, AnswersBacked
<1>4. CASE Restart
  <2>1. Idle \in Jobs
    BY DEF Idle, Jobs, Spaces
  <2>2. JobsTyped'
    BY <1>4, <2>1 DEF Restart, JobsTyped
  <2>3. SyncHeld' /\ AnswersInv'
    BY <1>4 DEF Restart, SyncHeld, NoSync, NoQuery, AnswersInv, AnswersBacked
  <2> QED
    BY <1>2, <2>2, <2>3 DEF IInv
<1> QED
  BY <1>3, <1>4 DEF Close, Initialize

LEMMA RemoveInv ==
    ASSUME IInv,
           \/ \E id \in Ids : RemoveNode(id)
           \/ \E rel \in Relations : RemoveEdge(rel)
    PROVE  IInv'
<1>1. UNCHANGED <<rows, job, sync, query, held>>
  BY DEF RemoveNode, RemoveEdge
<1>2. NodesHeld' /\ EdgesHeld'
  <2>1. CASE \E id \in Ids : RemoveNode(id)
    <3>1. PICK id \in Ids :
              /\ nodes' = [x \in DOMAIN nodes \ {id} |-> nodes[x]]
              /\ edges' = [r \in {x \in DOMAIN edges : id \notin {x.from, x.to}} |-> edges[r]]
      BY <2>1 DEF RemoveNode, WithoutNode
    <3> QED
      BY <1>1, <3>1 DEF IInv, NodesHeld, EdgesHeld, rows
  <2>2. CASE \E rel \in Relations : RemoveEdge(rel)
    <3>1. PICK rel \in Relations :
              nodes' = nodes /\ edges' = [r \in DOMAIN edges \ {rel} |-> edges[r]]
      BY <2>2 DEF RemoveEdge
    <3> QED
      BY <1>1, <3>1 DEF IInv, NodesHeld, EdgesHeld, rows
  <2> QED
    BY <2>1, <2>2
<1>3. JobsTyped' /\ RowsHeld' /\ SyncHeld' /\ AnswersInv'
  BY <1>1 DEF IInv, rows, JobsTyped, RowsHeld, SyncHeld, AnswersInv, AnswersBacked
<1> QED
  BY <1>2, <1>3 DEF IInv

-----------------------------------------------------------------------------
LEMMA NextInv == IInv /\ [Next]_vars => IInv'
<1> SUFFICES ASSUME IInv, [Next]_vars PROVE IInv'
  OBVIOUS
<1>1. CASE \E w \in Workers :
              \/ \E sent \in Sent : Start(w, sent)
              \/ SaveEntity(w) \/ SaveRelation(w) \/ SaveFails(w) \/ EndJob(w)
  BY <1>1, StartInv, SaveEntityInv, SaveRelationInv, EndInv
<1>2. CASE SyncEntities \/ SyncRelations \/ SyncWrite \/ SyncFails
  BY <1>2, SyncEntitiesInv, SyncRelationsInv, SyncWriteInv, SyncFailsInv
<1>3. CASE Fetch \/ \E id \in Ids, type \in Types, direction \in Directions :
                        Ask(id, type, direction)
  BY <1>3, FetchInv, AskInv
<1>4. CASE Close \/ Initialize \/ Restart
  BY <1>4, LossInv
<1>5. CASE \/ \E id \in Ids : RemoveNode(id)
           \/ \E rel \in Relations : RemoveEdge(rel)
  BY <1>5, RemoveInv
<1>6. CASE UNCHANGED vars
  BY <1>6 DEF vars, IInv, JobsTyped, RowsHeld, NodesHeld, EdgesHeld, SyncHeld,
              AnswersInv, AnswersBacked
<1> QED
  BY <1>1, <1>2, <1>3, <1>4, <1>5, <1>6 DEF Next

\* All that is in the graph, or on its way to it in a sync, was in the rows at
\* some time, and what a query still has to look up has its relation in the rows.
THEOREM Invariance == Spec => []IInv
  BY InitInv, NextInv, PTL DEF Spec

\* An answer composed of the graph's topology and DuckDB's rows names relations
\* and entities that are in the rows, for every limit, every failure of a write
\* and every removal between the two reads (get_neighbor_details).
THEOREM AnswersAreBacked == Spec => []AnswersBacked
<1>1. IInv => AnswersBacked
  BY DEF IInv, AnswersInv
<1> QED
  BY <1>1, Invariance, PTL

-----------------------------------------------------------------------------
\* What the graph shows after a step was in the rows by then.
LEMMA GraphFollows ==
    ASSUME IInv'
    PROVE  Mirror!Follows
<1> DEFINE Ends == [r \in Relations |-> {r.from, r.to}]
<1>1. /\ DOMAIN Shown' = DOMAIN nodes' \cup DOMAIN edges'
      /\ DOMAIN nodes' \subseteq Ids /\ DOMAIN edges' \subseteq Relations
  <2>1. \A r \in DOMAIN edges' : r \in Relations
    BY DEF IInv, RowsHeld, EdgesHeld, EdgeHeld
  <2> QED
    BY <2>1 DEF Shown, IInv, NodesHeld
<1>2. Mirror!IsGraph(Shown')
  <2>1. \A e \in DOMAIN Shown' \cap Relations : e \in DOMAIN edges' /\ Ends[e] = {e.from, e.to}
    BY <1>1, KindsAssumption
  <2>2. \A e \in DOMAIN edges' : {e.from, e.to} \subseteq DOMAIN nodes'
    BY DEF IInv, EdgesHeld
  <2> QED
    BY <1>1, <2>1, <2>2 DEF Mirror!IsGraph
<1>3. ASSUME NEW x \in DOMAIN Shown'
      PROVE  \/ <<x, Shown'[x]>> \in held'
             \/ /\ Shown'[x] = NoEntity
                /\ \E r \in held' : r[1] \in Relations /\ x \in Ends[r[1]]
  <2>1. CASE x \in DOMAIN edges'
    BY <2>1 DEF Shown, IInv, EdgesHeld, EdgeHeld
  <2>2. CASE x \notin DOMAIN edges' /\ nodes'[x] = NoEntity
    <3>1. x \in DOMAIN nodes' /\ Shown'[x] = NoEntity
      BY <1>1, <2>2 DEF Shown
    <3>2. NoEntity \notin NodeRec
      BY KindsAssumption DEF NodeRec, Concepts
    <3> QED
      BY <2>2, <3>1, <3>2 DEF IInv, NodesHeld, NodeHeld
  <2>3. CASE x \notin DOMAIN edges' /\ nodes'[x] # NoEntity
    <3>1. x \in DOMAIN nodes'
          /\ Shown'[x] = [concept |-> nodes'[x].concept, data |-> nodes'[x].data]
      BY <1>1, <2>3 DEF Shown
    <3> QED
      BY <2>3, <3>1 DEF IInv, NodesHeld, NodeHeld
  <2> QED
    BY <2>1, <2>2, <2>3
<1> QED
  BY <1>2, <1>3 DEF Mirror!Follows

\* Whatever the graph says of an entity or a relation was in DuckDB's rows at
\* some time, and each edge has its nodes, however dual writes, writes past the
\* graph, failures, syncs, removals and restarts interleave: both stores
\* together implement GraphMirror.
THEOREM GraphMirrorsRows == Spec => MirrorsRows
<1>1. Init => Mirror!Init
  BY DEF Init, Mirror!Init, Shown
<1>2. IInv /\ IInv' /\ [Next]_vars => [Mirror!Next]_<<held, Shown>>
  <2> SUFFICES ASSUME IInv', Next PROVE Mirror!Next
    BY DEF vars, Shown
  <2>1. Mirror!Follows
    BY GraphFollows
  <2>2. CASE \E w \in Workers : SaveEntity(w) \/ SaveRelation(w)
    <3>1. \E r : held' = held \cup {r}
      BY <2>2 DEF SaveEntity, SaveRelation, Wrote
    <3> QED
      BY <2>1, <3>1 DEF Mirror!Next, Mirror!Hold
  <2>3. CASE ~\E w \in Workers : SaveEntity(w) \/ SaveRelation(w)
    <3>1. held' = held
      BY <2>3 DEF Next, Start, SaveFails, EndJob, SyncEntities, SyncRelations,
                  SyncWrite, SyncFails, Ask, Fetch, Close, Initialize, Restart, Emptied,
                  RemoveNode, RemoveEdge
    <3> QED
      BY <2>1, <3>1 DEF Mirror!Next, Mirror!Copy
  <2> QED
    BY <2>2, <2>3
<1> QED
  BY <1>1, <1>2, Invariance, PTL DEF Spec, MirrorsRows, Mirror!Spec

-----------------------------------------------------------------------------
(***************************************************************************)
(* Freshness.  What a sync has read of an item that was not written since  *)
(* is its row; of the edges read more than once, the last one is.          *)
(***************************************************************************)
EntityFresh(k) ==
    /\ k[2] \in DOMAIN nodes
    /\ nodes[k[2]] # NoEntity
    /\ nodes[k[2]].concept = k[1] /\ nodes[k[2]].data = entities[k]

EntitiesFresh ==
    \A k \in DOMAIN entities : k[2] \notin lagging /\ OneRow(k[2]) => EntityFresh(k)

RelationsFresh ==
    \A r \in DOMAIN relations \ lagging : r \in DOMAIN edges /\ edges[r] = relations[r]

EntitiesRead ==
    sync.on => \A k \in DOMAIN entities : k[2] \notin missed =>
        /\ \E i \in 1..Len(sync.ids) : sync.ids[i] = k[2]
        /\ \A i \in 1..Len(sync.ids) : sync.ids[i] = k[2] =>
               \E same \in DOMAIN entities :
                   same[2] = k[2] /\ sync.entities[i] = Row(same, entities[same])

LastRead(es, r, d) ==
    \E j \in 1..Len(es) :
        /\ es[j].rel = r /\ es[j].data = d
        /\ \A later \in 1..Len(es) : later > j => es[later].rel # r

RelationsRead ==
    sync.on =>
        /\ \A j \in 1..Len(sync.edges) :
               \E i \in 1..Len(sync.ids) : sync.ids[i] = sync.edges[j].rel.from
        /\ \A r \in DOMAIN relations \ missed, i \in 1..Len(sync.ids) :
               i <= sync.read /\ sync.ids[i] = r.from
                   => LastRead(sync.edges, r, relations[r])

FreshInv ==
    /\ EntitiesFresh
    /\ RelationsFresh
    /\ EntitiesRead
    /\ RelationsRead

\* Of an id that one row has after a step, there is just that row.
LEMMA OneRowPrimed ==
    ASSUME IInv', NEW id, OneRow(id)'
    PROVE  \A x, y \in DOMAIN entities' : x[2] = id /\ y[2] = id => x = y
<1> DEFINE S == {x \in DOMAIN entities' : x[2] = id}
<1>1. IsFiniteSet(S)
  <2>1. S \subseteq Keys
    BY DEF IInv, RowsHeld
  <2> QED
    BY <2>1, StoresAssumption, FS_Subset
<1>2. \E x : S = {x}
  BY <1>1, FS_Singleton DEF OneRow
<1> QED
  BY <1>2

LEMMA FreshInit == Init => FreshInv
  BY DEF Init, FreshInv, EntitiesFresh, RelationsFresh, EntitiesRead, RelationsRead, NoSync

\* Steps that leave the rows, the graph and the sync alone.
LEMMA FreshKept ==
    ASSUME FreshInv, UNCHANGED <<entities, relations, nodes, edges, sync, lagging, missed>>
    PROVE  FreshInv'
<1>1. EntitiesFresh' /\ RelationsFresh'
  BY DEF FreshInv, EntitiesFresh, EntityFresh, OneRow, RelationsFresh
<1>2. EntitiesRead'
  BY DEF FreshInv, EntitiesRead
<1>3. RelationsRead'
  BY DEF FreshInv, RelationsRead
<1> QED
  BY <1>1, <1>2, <1>3 DEF FreshInv

LEMMA SaveEntityFresh ==
    ASSUME IInv, IInv', FreshInv, NEW w \in Workers, SaveEntity(w)
    PROVE  FreshInv'
<1> DEFINE e == Head(job[w].entities)
<1> DEFINE id == e.key[2]
<1> DEFINE up == job[w].kind = "dual" /\ open
<1> DEFINE node == [concept |-> e.key[1], data |-> e.data, space |-> job[w].space]
<1>1. /\ entities' = Over(Only(e.key, e.data), entities)
      /\ nodes' = IF up THEN UpsertNode(nodes, id, node) ELSE nodes
      /\ lagging' = IF up THEN lagging \ {id} ELSE lagging \cup {id}
      /\ missed' = IF sync.on THEN missed \cup {id} ELSE missed
      /\ UNCHANGED <<relations, edges, sync>>
  BY DEF SaveEntity, Wrote
<1>2. job[w] \in Jobs /\ e \in EntityItem
  BY DEF IInv, JobsTyped, Jobs, SaveEntity
<1>3. id \in Ids /\ id \notin Relations /\ node \in NodeRec /\ node # NoEntity
  <2>1. id \in Ids /\ node \in NodeRec
    BY <1>2 DEF Ids, EntityItem, NodeRec, Concepts, Jobs
  <2>2. NoEntity \notin NodeRec
    BY KindsAssumption DEF NodeRec, Concepts
  <2> QED
    BY <2>1, <2>2, KindsAssumption
<1> HIDE DEF e
<1>4. /\ DOMAIN entities' = DOMAIN entities \cup {e.key}
      /\ \A k \in DOMAIN entities' : entities'[k] = IF k = e.key THEN e.data ELSE entities[k]
  BY <1>1 DEF Over, Only
<1>5. \A k \in DOMAIN entities : k[2] # id =>
          /\ k \in DOMAIN entities' /\ entities'[k] = entities[k]
          /\ OneRow(k[2])' <=> OneRow(k[2])
  <2> SUFFICES ASSUME NEW k \in DOMAIN entities, k[2] # id
               PROVE  /\ k \in DOMAIN entities' /\ entities'[k] = entities[k]
                      /\ OneRow(k[2])' <=> OneRow(k[2])
    OBVIOUS
  <2>1. {x \in DOMAIN entities' : x[2] = k[2]} = {x \in DOMAIN entities : x[2] = k[2]}
    BY <1>4
  <2> QED
    BY <1>4, <2>1 DEF OneRow
<1>6. EntitiesFresh'
  <2> SUFFICES ASSUME NEW k \in DOMAIN entities', k[2] \notin lagging', OneRow(k[2])'
               PROVE  EntityFresh(k)'
    BY DEF EntitiesFresh
  <2>1. CASE k[2] # id
    <3>1. k \in DOMAIN entities /\ k[2] \notin lagging /\ OneRow(k[2])
      BY <1>1, <1>4, <1>5, <2>1
    <3>2. EntityFresh(k) /\ entities'[k] = entities[k]
      BY <1>5, <2>1, <3>1 DEF FreshInv, EntitiesFresh
    <3>3. k[2] \in DOMAIN nodes' /\ nodes'[k[2]] = nodes[k[2]]
      BY <1>1, <2>1, <3>2 DEF EntityFresh, UpsertNode, Over, Only
    <3> QED
      BY <3>2, <3>3 DEF EntityFresh
  <2>2. CASE k[2] = id
    <3>1. up
      BY <1>1, <2>2
    <3>2. k[2] \in DOMAIN nodes' /\ nodes'[k[2]] = node
      BY <1>1, <2>2, <3>1 DEF UpsertNode, Over, Only
    <3>3. e.key = k
      <4>1. \A x, y \in DOMAIN entities' : x[2] = id /\ y[2] = id => x = y
        BY <2>2, OneRowPrimed
      <4> QED
        BY <1>4, <2>2, <4>1
    <3> QED
      BY <1>3, <1>4, <3>2, <3>3 DEF EntityFresh
  <2> QED
    BY <2>1, <2>2
<1>7. RelationsFresh'
  <2>1. \A r \in DOMAIN relations : r \notin lagging' => r \notin lagging
    BY <1>1, <1>3 DEF IInv, RowsHeld
  <2> QED
    BY <1>1, <2>1 DEF FreshInv, RelationsFresh
<1>8. EntitiesRead'
  <2> SUFFICES ASSUME sync.on, NEW k \in DOMAIN entities', k[2] \notin missed'
               PROVE  /\ \E i \in 1..Len(sync.ids) : sync.ids[i] = k[2]
                      /\ \A i \in 1..Len(sync.ids) : sync.ids[i] = k[2] =>
                             \E same \in DOMAIN entities' :
                                 same[2] = k[2] /\ sync.entities[i] = Row(same, entities'[same])
    BY <1>1 DEF EntitiesRead, Row
  <2>1. k[2] # id /\ k \in DOMAIN entities /\ k[2] \notin missed
    BY <1>1, <1>4
  <2> QED
    BY <1>5, <2>1 DEF FreshInv, EntitiesRead
<1>9. RelationsRead'
  <2>1. sync.on => \A r : r \notin missed' => r \notin missed
    BY <1>1
  <2> QED
    BY <1>1, <2>1 DEF FreshInv, RelationsRead, LastRead
<1> QED
  BY <1>6, <1>7, <1>8, <1>9 DEF FreshInv

LEMMA SaveRelationFresh ==
    ASSUME IInv, FreshInv, NEW w \in Workers, SaveRelation(w)
    PROVE  FreshInv'
<1> DEFINE i == Head(job[w].relations)
<1> DEFINE told == job[w].kind = "dual" /\ open
<1>1. /\ relations' = Over(Only(i.rel, i.data), relations)
      /\ edges' = IF told THEN UpsertEdge(edges, i.rel, i.data) ELSE edges
      /\ nodes' = IF told THEN WithEnds(nodes, i.rel) ELSE nodes
      /\ lagging' = IF told /\ i.data \notin Clashing
                    THEN lagging \ {i.rel} ELSE lagging \cup {i.rel}
      /\ missed' = IF sync.on THEN missed \cup {i.rel} ELSE missed
      /\ UNCHANGED <<entities, sync>>
  BY DEF SaveRelation, Wrote
<1>2. i.rel \in Relations
  <2>1. job[w] \in Jobs /\ job[w].relations # << >>
    BY DEF IInv, JobsTyped, SaveRelation
  <2>2. i \in RelationItem
    BY <2>1 DEF Jobs
  <2> QED
    BY <2>2 DEF RelationItem
<1> HIDE DEF i
<1>3. /\ DOMAIN relations' = DOMAIN relations \cup {i.rel}
      /\ \A r \in DOMAIN relations' : relations'[r] = IF r = i.rel THEN i.data ELSE relations[r]
  BY <1>1 DEF Over, Only
<1>4. \A k \in DOMAIN entities : k[2] \notin Relations
  BY KindsAssumption DEF IInv, RowsHeld, Ids
<1>5. EntitiesFresh'
  <2> SUFFICES ASSUME NEW k \in DOMAIN entities, k[2] \notin lagging', OneRow(k[2])'
               PROVE  EntityFresh(k)'
    BY <1>1 DEF EntitiesFresh
  <2>1. k[2] \notin lagging /\ OneRow(k[2])
    BY <1>1, <1>2, <1>4 DEF OneRow
  <2>2. EntityFresh(k)
    BY <2>1 DEF FreshInv, EntitiesFresh
  <2>3. k[2] \in DOMAIN nodes' /\ nodes'[k[2]] = nodes[k[2]]
    BY <1>1, <2>2 DEF EntityFresh, WithEnds, Over
  <2> QED
    BY <1>1, <2>2, <2>3 DEF EntityFresh
<1>6. RelationsFresh'
  <2> SUFFICES ASSUME NEW r \in DOMAIN relations', r \notin lagging'
               PROVE  r \in DOMAIN edges' /\ edges'[r] = relations'[r]
    BY DEF RelationsFresh
  <2>1. CASE r = i.rel
    <3>1. told /\ i.data \notin Clashing
      BY <1>1, <2>1
    <3> QED
      BY <1>1, <1>3, <2>1, <3>1 DEF UpsertEdge, Over, Only
  <2>2. CASE r # i.rel
    <3>1. r \in DOMAIN edges /\ edges[r] = relations[r]
      BY <1>1, <1>3, <2>2 DEF FreshInv, RelationsFresh
    <3> QED
      BY <1>1, <1>3, <2>2, <3>1 DEF UpsertEdge, Over, Only
  <2> QED
    BY <2>1, <2>2
<1>7. EntitiesRead'
  <2>1. sync.on => \A x : x \notin missed' => x \notin missed
    BY <1>1
  <2> QED
    BY <1>1, <2>1 DEF FreshInv, EntitiesRead
<1>8. RelationsRead'
  <2> SUFFICES ASSUME sync.on
               PROVE  /\ \A j \in 1..Len(sync.edges) :
                             \E n \in 1..Len(sync.ids) : sync.ids[n] = sync.edges[j].rel.from
                      /\ \A r \in DOMAIN relations' \ missed', n \in 1..Len(sync.ids) :
                             n <= sync.read /\ sync.ids[n] = r.from
                                 => LastRead(sync.edges, r, relations'[r])
    BY <1>1 DEF RelationsRead
  <2>1. \A r \in DOMAIN relations' \ missed' :
            r \in DOMAIN relations \ missed /\ relations'[r] = relations[r]
    BY <1>1, <1>3
  <2> QED
    BY <2>1 DEF FreshInv, RelationsRead
<1> QED
  BY <1>5, <1>6, <1>7, <1>8 DEF FreshInv

LEMMA SyncEntitiesFresh ==
    ASSUME IInv, FreshInv, SyncEntities
    PROVE  FreshInv'
<1>1. PICK keys \in SetToSeqs(DOMAIN entities) :
          sync' = [on |-> TRUE,
                   entities |-> [i \in DOMAIN keys |-> Row(keys[i], entities[keys[i]])],
                   ids |-> [i \in DOMAIN keys |-> keys[i][2]],
                   read |-> 0, edges |-> << >>]
  BY DEF SyncEntities
<1>2. UNCHANGED <<entities, relations, nodes, edges, lagging>>
  BY DEF SyncEntities, rows, graph
<1>3. IsFiniteSet(DOMAIN entities)
  <2>1. DOMAIN entities \subseteq Keys
    BY DEF IInv, RowsHeld
  <2> QED
    BY <2>1, StoresAssumption, FS_Subset
<1>4. /\ DOMAIN keys = 1..Len(keys) /\ Len(keys) \in Nat
      /\ \A i \in DOMAIN keys : keys[i] \in DOMAIN entities
      /\ \A k \in DOMAIN entities : \E i \in DOMAIN keys : keys[i] = k
  <2> DEFINE S == DOMAIN entities
  <2> HIDE DEF S
  <2>1. keys \in SetToSeqs(S) /\ IsFiniteSet(S)
    BY <1>1, <1>3 DEF S
  <2>2. /\ keys \in Seq(S) /\ DOMAIN keys = 1..Len(keys)
        /\ \A k \in S : \E i \in DOMAIN keys : keys[i] = k
    BY <2>1, SetToSeqsFacts
  <2>3. Len(keys) \in Nat /\ \A i \in DOMAIN keys : keys[i] \in S
    BY <2>2
  <2> QED
    BY <2>2, <2>3 DEF S
<1>5. EntitiesRead'
  <2> DEFINE ids == [i \in DOMAIN keys |-> keys[i][2]]
  <2> DEFINE vals == [i \in DOMAIN keys |-> Row(keys[i], entities[keys[i]])]
  <2>1. Len(ids) = Len(keys)
    BY <1>4
  <2>2. sync'.ids = ids /\ sync'.entities = vals
    BY <1>1
  <2>3. ASSUME NEW k \in DOMAIN entities
        PROVE  /\ \E i \in 1..Len(ids) : ids[i] = k[2]
               /\ \A i \in 1..Len(ids) : ids[i] = k[2] =>
                      \E same \in DOMAIN entities :
                          same[2] = k[2] /\ vals[i] = Row(same, entities[same])
    BY <1>4, <2>1
  <2> HIDE DEF ids, vals
  <2> QED
    BY <1>2, <2>2, <2>3 DEF EntitiesRead, Row
<1>6. RelationsRead'
  BY <1>1 DEF RelationsRead
<1>7. EntitiesFresh' /\ RelationsFresh'
  BY <1>2 DEF FreshInv, EntitiesFresh, EntityFresh, OneRow, RelationsFresh
<1> QED
  BY <1>5, <1>6, <1>7 DEF FreshInv

LEMMA SyncRelationsFresh ==
    ASSUME IInv, FreshInv, SyncRelations
    PROVE  FreshInv'
<1> DEFINE at == sync.read + 1
<1> DEFINE from == {r \in DOMAIN relations : r.from = sync.ids[at]}
<1>1. PICK order \in SetToSeqs(from) :
          sync' = [on |-> TRUE, entities |-> sync.entities, ids |-> sync.ids,
                   read |-> at,
                   edges |-> sync.edges \o [i \in DOMAIN order |->
                                [rel |-> order[i], data |-> relations[order[i]]]]]
  BY DEF SyncRelations
<1>2. /\ UNCHANGED <<entities, relations, nodes, edges, lagging>>
      /\ missed' = missed \ from
      /\ sync.on /\ at \in 1..Len(sync.ids) /\ sync.read \in Nat
  BY DEF SyncRelations, rows, graph, IInv, SyncHeld
<1>3. from \subseteq Relations /\ IsFiniteSet(from)
  <2>1. from \subseteq Relations
    BY DEF IInv, RowsHeld
  <2> QED
    BY <2>1, StoresAssumption, FS_Subset
<1>4. /\ DOMAIN order = 1..Len(order) /\ Len(order) \in Nat
      /\ \A i \in DOMAIN order : order[i] \in from
      /\ \A r \in from : \E i \in DOMAIN order : order[i] = r
      /\ \A i, j \in DOMAIN order : i # j => order[i] # order[j]
  <2> HIDE DEF from
  <2>1. /\ order \in Seq(from) /\ DOMAIN order = 1..Len(order)
        /\ \A r \in from : \E i \in DOMAIN order : order[i] = r
        /\ \A i, j \in DOMAIN order : i # j => order[i] # order[j]
    BY <1>1, <1>3, SetToSeqsFacts
  <2> QED
    BY <2>1
<1> DEFINE new == [i \in DOMAIN order |-> [rel |-> order[i], data |-> relations[order[i]]]]
<1> DEFINE all == sync.edges \o new
<1> DEFINE n == Len(sync.edges)
<1>5. /\ Len(all) = n + Len(order) /\ n \in Nat
      /\ \A i \in 1..n : all[i] = sync.edges[i]
      /\ \A i \in 1..Len(order) : /\ all[n + i].rel = order[i]
                                  /\ all[n + i].data = relations[order[i]]
  <2>1. sync.edges \in Seq(RelationItem)
    BY DEF IInv, SyncHeld
  <2>2. new \in [1..Len(order) -> RelationItem]
    <3>1. \A i \in DOMAIN order : order[i] \in Relations /\ relations[order[i]] \in Data
      BY <1>4 DEF IInv, RowsHeld
    <3> QED
      BY <1>4, <3>1 DEF RelationItem
  <2>3. new \in Seq(RelationItem) /\ Len(new) = Len(order)
    <3> HIDE DEF new
    <3> QED
      BY <1>4, <2>2
  <2>4. \A i \in 1..Len(order) : new[i].rel = order[i] /\ new[i].data = relations[order[i]]
    BY <1>4
  <2>5. /\ Len(all) = n + Len(order) /\ n \in Nat
        /\ \A i \in 1..n : all[i] = sync.edges[i]
        /\ \A i \in 1..Len(order) : all[n + i] = new[i]
    <3> HIDE DEF new
    <3>1. Len(all) = n + Len(new) /\ n \in Nat /\ Len(new) \in Nat
      BY <2>1, <2>3
    <3>2. \A i \in 1..n : all[i] = sync.edges[i]
      BY <2>1, <2>3
    <3>3. \A i \in 1..Len(new) : all[n + i] = new[i]
      BY <2>1, <2>3, <3>1
    <3> QED
      BY <2>3, <3>1, <3>2, <3>3
  <2> QED
    BY <2>4, <2>5
<1>6. \A j \in 1..Len(all) :
          \/ j \in 1..n /\ all[j] = sync.edges[j]
          \/ all[j].rel \in from
  <2> SUFFICES ASSUME NEW j \in 1..Len(all), j \notin 1..n PROVE all[j].rel \in from
    BY <1>5
  <2>1. j - n \in 1..Len(order) /\ n + (j - n) = j
    BY <1>4, <1>5
  <2> HIDE DEF all, n, from
  <2>2. all[j].rel = order[j - n]
    BY <1>5, <2>1
  <2> QED
    BY <1>4, <2>1, <2>2
<1>7. sync'.on /\ sync'.ids = sync.ids /\ sync'.entities = sync.entities
      /\ sync'.read = at /\ sync'.edges = all
  BY <1>1
<1> HIDE DEF all, new, n
<1>8. EntitiesRead'
  <2>1. \A k \in DOMAIN entities : k[2] \notin missed' => k[2] \notin missed
    BY <1>2, <1>3, KindsAssumption DEF IInv, RowsHeld, Ids
  <2> QED
    BY <1>2, <1>7, <2>1 DEF FreshInv, EntitiesRead
<1>9. \A j \in 1..Len(all) : \E i \in 1..Len(sync.ids) : sync.ids[i] = all[j].rel.from
  BY <1>2, <1>6 DEF FreshInv, RelationsRead, n
<1>10. ASSUME NEW r \in DOMAIN relations, r \notin missed',
              NEW i \in 1..Len(sync.ids), i <= at, sync.ids[i] = r.from
       PROVE  LastRead(all, r, relations[r])
  <2>1. CASE r \in from
    <3>1. PICK m \in 1..Len(order) : order[m] = r
      BY <1>4, <2>1
    <3>2. n + m \in 1..Len(all) /\ all[n + m].rel = r /\ all[n + m].data = relations[r]
      BY <1>4, <1>5, <3>1
    <3>3. ASSUME NEW later \in 1..Len(all), later > n + m PROVE all[later].rel # r
      <4>1. later - n \in 1..Len(order) /\ later - n # m /\ n + (later - n) = later
        BY <1>4, <1>5, <3>3
      <4>2. all[later].rel = order[later - n]
        BY <1>5, <4>1
      <4> QED
        BY <1>4, <3>1, <4>1, <4>2
    <3> QED
      BY <3>2, <3>3 DEF LastRead
  <2>2. CASE r \notin from
    <3>1. r \notin missed /\ i <= sync.read
      BY <1>2, <1>10, <2>2
    <3>2. LastRead(sync.edges, r, relations[r])
      BY <1>2, <1>10, <3>1 DEF FreshInv, RelationsRead
    <3>3. PICK j \in 1..n :
              /\ sync.edges[j].rel = r /\ sync.edges[j].data = relations[r]
              /\ \A later \in 1..n : later > j => sync.edges[later].rel # r
      BY <3>2 DEF LastRead, n
    <3>4. j \in 1..Len(all) /\ all[j] = sync.edges[j]
      BY <1>4, <1>5
    <3>5. \A later \in 1..Len(all) : later > j => all[later].rel # r
      BY <1>6, <2>2, <3>3
    <3> QED
      BY <3>3, <3>4, <3>5 DEF LastRead
  <2> QED
    BY <2>1, <2>2
<1>11. RelationsRead'
  BY <1>2, <1>7, <1>9, <1>10 DEF RelationsRead
<1>12. EntitiesFresh' /\ RelationsFresh'
  BY <1>2 DEF FreshInv, EntitiesFresh, EntityFresh, OneRow, RelationsFresh
<1> QED
  BY <1>8, <1>11, <1>12 DEF FreshInv

LEMMA SyncWriteFresh ==
    ASSUME IInv, IInv', FreshInv, SyncWrite
    PROVE  FreshInv'
<1>1. /\ UNCHANGED <<entities, relations>> /\ sync' = NoSync
      /\ sync.on /\ sync.read = Len(sync.ids)
  BY DEF SyncWrite, rows
<1>2. \/ lagging' = Items
      \/ \E ends : /\ \A j \in DOMAIN sync.edges : sync.edges[j].data \notin Clashing
                   /\ nodes' = Over(SyncedNodes, [id \in ends |-> NoEntity])
                   /\ edges' = SyncedEdges(sync.edges)
                   /\ lagging' = missed \cup {r \in lagging \cap Relations :
                                                 r.from \notin ToSet(sync.ids)}
  <2> DEFINE bad == {i \in DOMAIN sync.edges : sync.edges[i].data \in Clashing}
  <2>1. CASE bad # {}
    BY <2>1 DEF SyncWrite
  <2>2. CASE bad = {}
    BY <2>2 DEF SyncWrite
  <2> QED
    BY <2>1, <2>2
<1>3. CASE lagging' = Items
  <2>1. DOMAIN relations \subseteq Items /\ \A k \in DOMAIN entities : k[2] \in Items
    BY DEF IInv, RowsHeld, Items, Ids
  <2> QED
    BY <1>1, <1>3, <2>1 DEF FreshInv, EntitiesFresh, RelationsFresh, EntitiesRead,
                            RelationsRead, NoSync
<1>4. CASE lagging' # Items
  <2>1. PICK ends :
            /\ \A j \in DOMAIN sync.edges : sync.edges[j].data \notin Clashing
            /\ nodes' = Over(SyncedNodes, [id \in ends |-> NoEntity])
            /\ edges' = SyncedEdges(sync.edges)
            /\ lagging' = missed \cup {r \in lagging \cap Relations :
                                          r.from \notin ToSet(sync.ids)}
    BY <1>2, <1>4
  <2>2. /\ sync.ids \in Seq(Ids) /\ sync.edges \in Seq(RelationItem)
    BY DEF IInv, SyncHeld
  <2>3. EntitiesFresh'
    <3> SUFFICES ASSUME NEW k \in DOMAIN entities, k[2] \notin lagging', OneRow(k[2])'
                 PROVE  EntityFresh(k)'
      BY <1>1 DEF EntitiesFresh
    <3> DEFINE at == {i \in DOMAIN sync.ids : sync.ids[i] = k[2]}
    <3>1. k[2] \notin missed
      BY <2>1
    <3>2. /\ at \in SUBSET (1..Len(sync.ids)) /\ at # {} /\ Len(sync.ids) \in Nat
          /\ k[2] \in ToSet(sync.ids)
      BY <1>1, <2>2, <3>1 DEF FreshInv, EntitiesRead, ToSet
    <3>3. Max(at) \in at
      <4> HIDE DEF at
      <4> QED
        BY <3>2, MaxFacts
    <3>4. Max(at) \in 1..Len(sync.ids) /\ sync.ids[Max(at)] = k[2]
      BY <2>2, <3>3
    <3>5. Read[k[2]] = [concept |-> sync.entities[Max(at)].concept,
                        data |-> sync.entities[Max(at)].data, space |-> NoEntity]
      BY <3>2 DEF Read
    <3> HIDE DEF at
    <3>6. PICK same \in DOMAIN entities :
              same[2] = k[2] /\ sync.entities[Max(at)] = Row(same, entities[same])
      BY <1>1, <3>1, <3>4 DEF FreshInv, EntitiesRead
    <3>7. same = k
      <4>1. \A x, y \in DOMAIN entities' : x[2] = k[2] /\ y[2] = k[2] => x = y
        BY OneRowPrimed
      <4> QED
        BY <1>1, <3>6, <4>1
    <3>8. Read[k[2]] = [concept |-> k[1], data |-> entities[k], space |-> NoEntity]
      BY <3>5, <3>6, <3>7 DEF Row
    <3>9. Read[k[2]] # NoEntity
      <4>1. k \in Keys /\ entities[k] \in Data
        BY DEF IInv, RowsHeld
      <4>2. Read[k[2]] \in NodeRec
        BY <3>8, <4>1 DEF NodeRec, Concepts, Spaces
      <4> QED
        BY <4>2, KindsAssumption DEF NodeRec, Concepts
    <3>10. k[2] \in DOMAIN nodes' /\ nodes'[k[2]] = Read[k[2]]
      <4>1. k[2] \in DOMAIN Read
        BY <3>2 DEF Read
      <4> QED
        BY <2>1, <4>1 DEF SyncedNodes, Over
    <3> QED
      BY <1>1, <3>8, <3>9, <3>10 DEF EntityFresh
  <2>4. RelationsFresh'
    <3> SUFFICES ASSUME NEW r \in DOMAIN relations, r \notin lagging'
                 PROVE  r \in DOMAIN edges' /\ edges'[r] = relations[r]
      BY <1>1 DEF RelationsFresh
    <3> DEFINE of == {i \in DOMAIN sync.edges : sync.edges[i].rel = r}
    <3>1. r \in Relations /\ r \notin missed
      BY <2>1 DEF IInv, RowsHeld
    <3>2. CASE r.from \in ToSet(sync.ids)
      <4>1. LastRead(sync.edges, r, relations[r])
        BY <1>1, <2>2, <3>1, <3>2 DEF FreshInv, RelationsRead, ToSet
      <4>2. PICK j \in 1..Len(sync.edges) :
                /\ sync.edges[j].rel = r /\ sync.edges[j].data = relations[r]
                /\ \A later \in 1..Len(sync.edges) : later > j => sync.edges[later].rel # r
        BY <4>1 DEF LastRead
      <4>3. of \in SUBSET (1..Len(sync.edges)) /\ j \in of /\ Len(sync.edges) \in Nat
        BY <2>2, <4>2
      <4>4. Max(of) \in of /\ j <= Max(of)
        <5> HIDE DEF of
        <5> QED
          BY <4>3, MaxFacts
      <4>5. Max(of) = j
        <5>1. /\ Max(of) \in 1..Len(sync.edges) /\ j \in 1..Len(sync.edges)
              /\ sync.edges[Max(of)].rel = r /\ j <= Max(of)
          BY <4>3, <4>4
        <5> HIDE DEF of
        <5>2. ~(Max(of) > j)
          BY <4>2, <5>1
        <5> QED
          BY <4>3, <5>1, <5>2
      <4> HIDE DEF of
      <4> QED
        BY <2>1, <3>1, <4>2, <4>3, <4>5 DEF SyncedEdges, of
    <3>3. CASE r.from \notin ToSet(sync.ids)
      <4>1. r \in DOMAIN edges /\ edges[r] = relations[r]
        BY <2>1, <3>1, <3>3 DEF FreshInv, RelationsFresh
      <4>2. of = {}
        BY <1>1, <2>2, <3>3 DEF FreshInv, RelationsRead, ToSet
      <4> QED
        BY <2>1, <3>1, <4>1, <4>2 DEF SyncedEdges
    <3> QED
      BY <3>2, <3>3
  <2> QED
    BY <1>1, <2>3, <2>4 DEF FreshInv, EntitiesRead, RelationsRead, NoSync
<1> QED
  BY <1>3, <1>4

\* What is lost is lagging, and what is kept of the graph is as it was.
LEMMA LossFresh ==
    ASSUME IInv, FreshInv,
           \/ Close \/ Initialize \/ Restart
           \/ \E id \in Ids : RemoveNode(id)
           \/ \E rel \in Relations : RemoveEdge(rel)
    PROVE  FreshInv'
<1>1. UNCHANGED <<entities, relations, missed>> /\ (sync' = sync \/ sync' = NoSync)
  BY DEF Close, Initialize, Restart, Emptied, RemoveNode, RemoveEdge, rows
<1>2. EntitiesRead' /\ RelationsRead'
  <2>1. CASE sync' = sync
    BY <1>1, <2>1 DEF FreshInv, EntitiesRead, RelationsRead
  <2>2. CASE sync' = NoSync
    BY <2>2 DEF NoSync, EntitiesRead, RelationsRead
  <2> QED
    BY <1>1, <2>1, <2>2
<1>3. /\ \A k \in DOMAIN entities : k[2] \in Ids
      /\ DOMAIN relations \subseteq Relations
  BY DEF IInv, RowsHeld, Ids
<1>4. CASE Close \/ Initialize \/ Restart
  <2>1. lagging' = Items
    BY <1>4 DEF Close, Initialize, Restart, Emptied
  <2> QED
    BY <1>1, <1>2, <1>3, <2>1 DEF FreshInv, EntitiesFresh, RelationsFresh, Items
<1>5. CASE \/ \E id \in Ids : RemoveNode(id)
           \/ \E rel \in Relations : RemoveEdge(rel)
  <2>1. /\ lagging \subseteq lagging'
        /\ \A x \in DOMAIN nodes \ lagging' : x \in DOMAIN nodes' /\ nodes'[x] = nodes[x]
        /\ \A r \in DOMAIN edges \ lagging' : r \in DOMAIN edges' /\ edges'[r] = edges[r]
    BY <1>5 DEF RemoveNode, RemoveEdge, WithoutNode
  <2>2. EntitiesFresh'
    <3> SUFFICES ASSUME NEW k \in DOMAIN entities, k[2] \notin lagging', OneRow(k[2])'
                 PROVE  EntityFresh(k)'
      BY <1>1 DEF EntitiesFresh
    <3>1. EntityFresh(k)
      BY <1>1, <2>1 DEF FreshInv, EntitiesFresh, OneRow
    <3> QED
      BY <1>1, <2>1, <3>1 DEF EntityFresh
  <2>3. RelationsFresh'
    BY <1>1, <2>1 DEF FreshInv, RelationsFresh
  <2> QED
    BY <1>2, <2>2, <2>3 DEF FreshInv
<1> QED
  BY <1>4, <1>5

LEMMA FreshNext == IInv /\ IInv' /\ FreshInv /\ [Next]_vars => FreshInv'
<1> SUFFICES ASSUME IInv, IInv', FreshInv, [Next]_vars PROVE FreshInv'
  OBVIOUS
<1>1. CASE \E w \in Workers : SaveEntity(w) \/ SaveRelation(w)
  BY <1>1, SaveEntityFresh, SaveRelationFresh
<1>2. CASE \/ \E w \in Workers : \/ \E sent \in Sent : Start(w, sent)
                                 \/ SaveFails(w) \/ EndJob(w)
           \/ Fetch
           \/ \E id \in Ids, type \in Types, direction \in Directions :
                  Ask(id, type, direction)
           \/ UNCHANGED vars
  <2>1. UNCHANGED <<entities, relations, nodes, edges, sync, lagging, missed>>
    BY <1>2 DEF Start, SaveFails, EndJob, Fetch, Ask, vars, rows, graph
  <2> QED
    BY <2>1, FreshKept
<1>3. CASE SyncEntities \/ SyncRelations \/ SyncWrite
  BY <1>3, SyncEntitiesFresh, SyncRelationsFresh, SyncWriteFresh
<1>4. CASE SyncFails
  <2>1. UNCHANGED <<entities, relations, nodes, edges, lagging>> /\ sync' = NoSync
    BY <1>4 DEF SyncFails, rows, graph
  <2>2. EntitiesRead' /\ RelationsRead'
    BY <2>1 DEF EntitiesRead, RelationsRead, NoSync
  <2>3. EntitiesFresh' /\ RelationsFresh'
    BY <2>1 DEF FreshInv, EntitiesFresh, EntityFresh, OneRow, RelationsFresh
  <2> QED
    BY <2>2, <2>3 DEF FreshInv
<1>5. CASE \/ Close \/ Initialize \/ Restart
           \/ \E id \in Ids : RemoveNode(id)
           \/ \E rel \in Relations : RemoveEdge(rel)
  BY <1>5, LossFresh
<1> QED
  BY <1>1, <1>2, <1>3, <1>4, <1>5 DEF Next

\* However dual writes, writes past the graph, failures, syncs and losses
\* interleave, a node or an edge that is not known to lag is as its row
\* (save_entity_with_graph, batch_sync_from_storage).
THEOREM FreshUnlessLaggingHolds == Spec => []FreshUnlessLagging
<1>1. FreshInv => FreshUnlessLagging
  BY DEF FreshInv, EntitiesFresh, EntityFresh, RelationsFresh, FreshUnlessLagging
<1> QED
  BY <1>1, FreshInit, FreshNext, Invariance, PTL DEF Spec

\* Both ways to answer a query of neighbours, the graph's and the join of
\* DuckDB, agree on an entity whose edges are not known to lag
\* (NetworkXGraphStore.get_neighbors, DuckDBStorage.get_neighbors).
THEOREM PathsDoAgree == Spec => []PathsAgree
<1>1. IInv /\ FreshUnlessLagging => PathsAgree
  <2> SUFFICES ASSUME IInv, FreshUnlessLagging,
                      NEW id \in Ids, NEW type \in Types,
                      NEW direction \in {"outgoing", "incoming"},
                      {r \in Relations : id \in {r.from, r.to}} \cap lagging = {}
               PROVE  {n \in Neighbors(id, type, direction) :
                          \E k \in DOMAIN entities : k[2] = n.neighbor}
                      = JoinedNeighbors(id, type, direction)
    BY DEF PathsAgree
  <2>1. \A r : id \in {r.from, r.to} => (r \in DOMAIN edges <=> r \in DOMAIN relations)
    BY DEF IInv, RowsHeld, EdgesHeld, EdgeHeld, FreshUnlessLagging
  <2>2. CASE direction = "outgoing"
    BY <2>1, <2>2 DEF Neighbors, JoinedNeighbors
  <2>3. CASE direction = "incoming"
    BY <2>1, <2>3 DEF Neighbors, JoinedNeighbors
  <2> QED
    BY <2>2, <2>3
<1> QED
  BY <1>1, FreshUnlessLaggingHolds, Invariance, PTL
=============================================================================
