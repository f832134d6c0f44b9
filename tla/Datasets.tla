------------------------------ MODULE Datasets ------------------------------
(***************************************************************************)
(* DatasetService: datasets, the entities that are members of them, and    *)
(* their snapshots, which keep the number of members.  Every statement of  *)
(* DuckDB is awaited under one lock and commits by itself; the requests    *)
(* that issue several of them interleave in between.  The reads that only  *)
(* make up a response are left out.                                        *)
(***************************************************************************)
EXTENDS Integers, Sequences, FiniteSets

CONSTANTS
    Entities,      \* ids of entities
    Concepts,      \* an id is unique within a concept only
    Batches,       \* sequences of [id, concept]: what a client adds at once
    Contents,      \* name, description and scope of a dataset
    Clients,
    MaxDatasets,   \* bound on the datasets created
    MaxSnapshots,  \* bound on the snapshots taken
    MaxRequests    \* bound on the requests that take more than one step

ASSUME BatchesAssumption ==
    Batches \subseteq Seq([id : Entities, concept : Concepts]) \ {<< >>}

ASSUME BoundsAssumption ==
    MaxDatasets \in Nat /\ MaxSnapshots \in Nat /\ MaxRequests \in Nat

ASSUME EntitiesAssumption == IsFiniteSet(Entities)

VARIABLES
    made,       \* the number of datasets created; their ids never come back
    datasets,   \* [ids of rows -> contents]
    members,    \* [<<entity, dataset>> of rows -> concept]
    taken,      \* the number of snapshots taken
    snapshots,  \* [ids of rows -> [dataset, count]]
    job,        \* [Clients -> what is left of a request]
    answer,     \* [Clients -> the last comparison]
    requests,
    deleted,    \* history: datasets that a deletion has touched
    raced       \* history: datasets deleted while a request was adding to them

tables == <<made, datasets, members, taken, snapshots>>
vars == <<tables, job, answer, requests, deleted, raced>>

Idle == [kind |-> "idle"]

NoAnswer == [kind |-> "none"]

Made == 1..made

Members(ds) == {e \in Entities : <<e, ds>> \in DOMAIN members}

Adding(c, ds) == job[c].kind \in {"add", "count", "insert"} /\ job[c].ds = ds

-----------------------------------------------------------------------------
Init ==
    /\ made = 0 /\ datasets = << >> /\ members = << >>
    /\ taken = 0 /\ snapshots = << >>
    /\ job = [c \in Clients |-> Idle]
    /\ answer = [c \in Clients |-> NoAnswer]
    /\ requests = 0 /\ deleted = {} /\ raced = {}

CreateDataset ==
    /\ made < MaxDatasets
    /\ made' = made + 1
    /\ \E content \in Contents :
           datasets' = [ds \in DOMAIN datasets \cup {made + 1} |->
                           IF ds = made + 1 THEN content ELSE datasets[ds]]
    /\ UNCHANGED <<members, taken, snapshots, job, answer, requests, deleted, raced>>

\* The UPDATE is not told whether there is such a row.
UpdateDataset(ds) ==
    /\ \E content \in Contents :
           datasets' = [x \in DOMAIN datasets |->
                           IF x = ds THEN content ELSE datasets[x]]
    /\ UNCHANGED <<made, members, taken, snapshots, job, answer, requests,
                   deleted, raced>>

\* A mutant of Deleted: the dataset first, then what belongs to it.
DeletedFirst(ds, done) ==
    /\ datasets' = [x \in IF done >= 1 THEN DOMAIN datasets \ {ds} ELSE DOMAIN datasets
                        |-> datasets[x]]
    /\ members' = [k \in {x \in DOMAIN members : done >= 2 => x[2] # ds} |-> members[k]]
    /\ snapshots' = [s \in {x \in DOMAIN snapshots : done >= 3 => snapshots[x].dataset # ds}
                         |-> snapshots[s]]

\* The first "done" of three statements: memberships, snapshots, the dataset.
Deleted(ds, done) ==
    /\ members' = [k \in {x \in DOMAIN members : done >= 1 => x[2] # ds} |-> members[k]]
    /\ snapshots' = [s \in {x \in DOMAIN snapshots : done >= 2 => snapshots[x].dataset # ds}
                         |-> snapshots[s]]
    /\ datasets' = [x \in IF done >= 3 THEN DOMAIN datasets \ {ds} ELSE DOMAIN datasets
                        |-> datasets[x]]

\* All three under the lock.  Each commits: when one raises, or the process
\* stops, the ones before it stay done, and a second deletion can finish.
DeleteDataset(ds) ==
    /\ \E done \in 1..3 :
           /\ Deleted(ds, done)
           /\ raced' = IF done = 3 /\ \E c \in Clients : Adding(c, ds)
                       THEN raced \cup {ds} ELSE raced
    /\ deleted' = deleted \cup {ds}
    /\ UNCHANGED <<made, taken, job, answer, requests>>

-----------------------------------------------------------------------------
Begin(c, next) ==
    /\ job[c] = Idle
    /\ requests < MaxRequests
    /\ requests' = requests + 1
    /\ job' = [job EXCEPT ![c] = next]
    /\ UNCHANGED <<tables, answer, deleted, raced>>

\* The dataset is looked up once, before the first entity.
AddEntities(c, ds, batch) ==
    /\ ds \in DOMAIN datasets
    /\ Begin(c, [kind |-> "add", ds |-> ds, todo |-> batch])

\* An entity of another concept with the same id takes its place.
AddEntity(c) ==
    /\ job[c].kind = "add"
    /\ LET key == <<Head(job[c].todo).id, job[c].ds>>
       IN  members' = [k \in DOMAIN members \cup {key} |->
                          IF k = key THEN Head(job[c].todo).concept ELSE members[k]]
    /\ LET left == Tail(job[c].todo)
       IN  job' = [job EXCEPT ![c] = IF left = << >> THEN Idle
                                     ELSE [kind |-> "add", ds |-> job[c].ds, todo |-> left]]
    /\ UNCHANGED <<made, datasets, taken, snapshots, answer, requests, deleted, raced>>

CreateSnapshot(c, ds) ==
    /\ ds \in DOMAIN datasets
    /\ Begin(c, [kind |-> "count", ds |-> ds])

\* A mutant of Count: the members of every dataset.
CountAll(ds) == Cardinality(DOMAIN members)

Count(ds) == Cardinality(Members(ds))

CountMembers(c) ==
    /\ job[c].kind = "count"
    /\ job' = [job EXCEPT ![c] = [kind |-> "insert", ds |-> @.ds, count |-> Count(@.ds)]]
    /\ UNCHANGED <<tables, answer, requests, deleted, raced>>

InsertSnapshot(c) ==
    /\ job[c].kind = "insert"
    /\ taken < MaxSnapshots
    /\ taken' = taken + 1
    /\ snapshots' = [s \in DOMAIN snapshots \cup {taken + 1} |->
                        IF s = taken + 1
                        THEN [dataset |-> job[c].ds, count |-> job[c].count]
                        ELSE snapshots[s]]
    /\ job' = [job EXCEPT ![c] = Idle]
    /\ UNCHANGED <<made, datasets, members, answer, requests, deleted, raced>>

\* A comparison reads the members of one dataset, then those of the other.
\* "before" is history: the second one's members at the time of the first read.
Compare(c, a, b) ==
    Begin(c, [kind |-> "compare", a |-> a, b |-> b,
              first |-> Members(a), before |-> Members(b)])

\* A mutant of Differences: what only one of them has is the other's.
DifferencesSwapped(inA, inB) ==
    [onlyA |-> inB \ inA, onlyB |-> inA \ inB, common |-> inA \cap inB]

Differences(inA, inB) ==
    [onlyA |-> inA \ inB, onlyB |-> inB \ inA, common |-> inA \cap inB]

CompareSecond(c) ==
    /\ job[c].kind = "compare"
    /\ answer' = [answer EXCEPT ![c] =
                     [kind |-> "compared", a |-> job[c].a, b |-> job[c].b,
                      before |-> job[c].before,
                      result |-> Differences(job[c].first, Members(job[c].b))]]
    /\ job' = [job EXCEPT ![c] = Idle]
    /\ UNCHANGED <<tables, requests, deleted, raced>>

\* A statement raises and the request ends with an error, or the process stops.
RequestFails(c) ==
    /\ job[c] # Idle
    /\ job' = [job EXCEPT ![c] = Idle]
    /\ UNCHANGED <<tables, answer, requests, deleted, raced>>

Next ==
    \/ CreateDataset
    \/ \E ds \in Made : UpdateDataset(ds) \/ DeleteDataset(ds)
    \/ \E c \in Clients :
           \/ \E ds \in Made, batch \in Batches : AddEntities(c, ds, batch)
           \/ \E ds \in Made : CreateSnapshot(c, ds)
           \/ \E a \in Made, b \in Made : Compare(c, a, b)
           \/ AddEntity(c) \/ CountMembers(c) \/ InsertSnapshot(c)
           \/ CompareSecond(c) \/ RequestFails(c)

Spec == Init /\ [][Next]_vars

-----------------------------------------------------------------------------
\* A membership or a snapshot whose dataset is gone is left only by a request
\* that had found the dataset before the deletion; a deletion that fails half
\* way leaves none.
OrphansRaced ==
    /\ \A k \in DOMAIN members : k[2] \in DOMAIN datasets \cup raced
    /\ \A s \in DOMAIN snapshots : snapshots[s].dataset \in DOMAIN datasets \cup raced

\* A snapshot may be behind the members it was counted from, never ahead of
\* them, in whatever order the requests count and insert; only a deletion that
\* did not finish makes it exceed them.
SnapshotsCovered ==
    \A s \in DOMAIN snapshots :
        snapshots[s].dataset \notin deleted =>
            snapshots[s].count <= Cardinality(Members(snapshots[s].dataset))

\* A comparison of datasets that no one deletes names true members of each;
\* what it finds in the first one only was indeed in no more than that when it
\* began.  (What it finds in the second one only may have been added to both in
\* between.)
ComparisonsBounded ==
    \A c \in Clients :
        answer[c].kind = "compared" /\ {answer[c].a, answer[c].b} \cap deleted = {} =>
            LET found == answer[c].result
            IN  /\ found.common \subseteq Members(answer[c].a) \cap Members(answer[c].b)
                /\ found.onlyA \subseteq Members(answer[c].a) \ answer[c].before
                /\ found.onlyB \subseteq Members(answer[c].b)
=============================================================================
