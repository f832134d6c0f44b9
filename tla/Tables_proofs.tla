---------------------------- MODULE Tables_proofs ----------------------------
(***************************************************************************)
(* Proofs about two components that write several rows of the DuckDB       *)
(* tables in a request: Datasets and RuleTransfer.                         *)
(*                                                                         *)
(* Datasets, for any number of entities, batches, clients, datasets and    *)
(* requests.  Members only go away by a deletion; what a request has read  *)
(* stays true unless its dataset is deleted (IInv).                        *)
(*                                                                         *)
(* RuleTransfer, for any groups, steps and files that have lists where     *)
(* they should.  Each loop of an import is unfolded once (SaveFirstIs,     *)
(* SaveLogicsIs, NamingIs, MatchingIs, SaveDefinitionsIs), and what it     *)
(* saves follows by induction on its length (SavedRows, SavedId,           *)
(* SaveLogicsSaves, MatchingPlaces, SaveDefinitionsSaves).  A group and an *)
(* id have one row, which is one that the table takes, and the last file   *)
(* lists the rows it was made of, each once (TransferInv).                 *)
(***************************************************************************)
EXTENDS Datasets, RuleTransfer, FunctionTheorems, SequenceTheorems, FiniteSetTheorems, TLAPS

Item == [id : Entities, concept : Concepts]

Jobs ==
    {Idle}
    \cup [kind : {"add"}, ds : Nat, todo : Seq(Item) \ {<< >>}]
    \cup [kind : {"count"}, ds : Nat]
    \cup [kind : {"insert"}, ds : Nat, count : Nat]
    \cup [kind : {"compare"}, a : Nat, b : Nat, first : SUBSET Entities,
          before : SUBSET Entities]

Results == [onlyA : SUBSET Entities, onlyB : SUBSET Entities, common : SUBSET Entities]

Answers ==
    {NoAnswer}
    \cup [kind : {"compared"}, a : Nat, b : Nat, before : SUBSET Entities,
          result : Results]

Typed ==
    /\ made \in Nat /\ taken \in Nat
    /\ \A k \in DOMAIN members : k \in Entities \X Nat
    /\ \A s \in DOMAIN snapshots : snapshots[s] \in [dataset : Nat, count : Nat]
    /\ job \in [Clients -> Jobs]
    /\ answer \in [Clients -> Answers]

\* A request that adds to a dataset has it, or the deletion has noticed.
AddingKnown ==
    \A c \in Clients :
        job[c].kind \in {"add", "count", "insert"} => job[c].ds \in DOMAIN datasets \cup raced

CountsCovered ==
    \A c \in Clients :
        job[c].kind = "insert" /\ job[c].ds \notin deleted =>
            job[c].count <= Cardinality(Members(job[c].ds))

ReadsStand ==
    \A c \in Clients :
        job[c].kind = "compare" /\ {job[c].a, job[c].b} \cap deleted = {} =>
            /\ job[c].first \subseteq Members(job[c].a)
            /\ job[c].before \subseteq Members(job[c].b)

IInv ==
    /\ Typed
    /\ AddingKnown
    /\ CountsCovered
    /\ ReadsStand
    /\ OrphansRaced
    /\ SnapshotsCovered
    /\ ComparisonsBounded

-----------------------------------------------------------------------------
\* Members are counted by a natural number, and more members by no smaller one.
LEMMA CountGrows ==
    ASSUME NEW S, NEW T, S \subseteq T, T \subseteq Entities
    PROVE  /\ Cardinality(S) \in Nat /\ Cardinality(T) \in Nat
           /\ Cardinality(S) <= Cardinality(T)
<1>1. IsFiniteSet(T)
  BY EntitiesAssumption, FS_Subset
<1>2. IsFiniteSet(S) /\ Cardinality(S) <= Cardinality(T)
  BY <1>1, FS_Subset
<1> QED BY <1>1, <1>2, FS_CardinalityType

\* What a count or a read said of datasets that are not deleted stays true in
\* a step that takes no member of them away.
LEMMA CountStands ==
    ASSUME NEW S, NEW T, S \subseteq T, T \subseteq Entities,
           NEW n \in Nat, n <= Cardinality(S)
    PROVE  n <= Cardinality(T)
BY CountGrows

\* Nothing is there at the beginning.
LEMMA InitIInv == Init => IInv
<1> SUFFICES ASSUME Init PROVE IInv OBVIOUS
<1> USE DEF Init
<1>1. Typed
  BY DEF Typed, Jobs, Answers, NoAnswer
<1>2. AddingKnown /\ CountsCovered /\ ReadsStand
  BY DEF AddingKnown, CountsCovered, ReadsStand, Idle
<1>3. OrphansRaced /\ SnapshotsCovered
  BY DEF OrphansRaced, SnapshotsCovered
<1>4. ComparisonsBounded
  BY DEF ComparisonsBounded, NoAnswer
<1> QED BY <1>1, <1>2, <1>3, <1>4 DEF IInv

\* A step that leaves requests, answers, snapshots and members alone, and
\* forgets no dataset.
LEMMA DatasetsStep ==
    ASSUME IInv,
           DOMAIN datasets \subseteq DOMAIN datasets', made' \in Nat,
           UNCHANGED <<members, taken, snapshots, job, answer, deleted, raced>>
    PROVE  IInv'
<1>1. Typed'
  BY DEF IInv, Typed
<1>2. AddingKnown'
  BY DEF IInv, AddingKnown
<1>3. CountsCovered' /\ ReadsStand'
  BY DEF IInv, CountsCovered, ReadsStand, Members
<1>4. OrphansRaced' /\ SnapshotsCovered'
  BY DEF IInv, OrphansRaced, SnapshotsCovered, Members
<1>5. ComparisonsBounded'
  BY DEF IInv, ComparisonsBounded, Members
<1> QED BY <1>1, <1>2, <1>3, <1>4, <1>5 DEF IInv

LEMMA DeleteStep ==
    ASSUME IInv, NEW ds \in Nat, DeleteDataset(ds)
    PROVE  IInv'
<1> PICK done \in 1..3 :
        /\ Deleted(ds, done)
        /\ raced' = IF done = 3 /\ \E c \in Clients : Adding(c, ds)
                    THEN raced \cup {ds} ELSE raced
  BY DEF DeleteDataset
<1>0. /\ deleted' = deleted \cup {ds}
      /\ UNCHANGED <<made, taken, job, answer, requests>>
  BY DEF DeleteDataset
<1>m. /\ DOMAIN members' = {x \in DOMAIN members : x[2] # ds}
      /\ \A x \in Nat : x # ds => Members(x)' = Members(x)
  <2>1. DOMAIN members' = {x \in DOMAIN members : x[2] # ds}
    BY DEF Deleted
  <2> QED BY <2>1 DEF Members
<1>s. /\ DOMAIN snapshots' \subseteq DOMAIN snapshots
      /\ \A s \in DOMAIN snapshots' : snapshots'[s] = snapshots[s]
  BY DEF Deleted
<1>d. /\ DOMAIN datasets \ {ds} \subseteq DOMAIN datasets'
      /\ done < 3 => DOMAIN datasets' = DOMAIN datasets
      /\ done = 3 => \A s \in DOMAIN snapshots' : snapshots'[s].dataset # ds
  BY DEF Deleted
<1>1. Typed'
  <2>1. \A s \in DOMAIN snapshots' : snapshots'[s] \in [dataset : Nat, count : Nat]
    BY <1>s DEF IInv, Typed
  <2>2. \A k \in DOMAIN members' : k \in Entities \X Nat
    BY <1>m DEF IInv, Typed
  <2> QED BY <1>0, <2>1, <2>2 DEF IInv, Typed
<1>2. AddingKnown'
  BY <1>0, <1>d DEF IInv, AddingKnown, Adding
<1>3. CountsCovered'
  <2> SUFFICES ASSUME NEW c \in Clients, job[c].kind = "insert", job[c].ds \notin deleted'
               PROVE  job[c].count <= Cardinality(Members(job[c].ds)')
    BY <1>0 DEF CountsCovered, Members
  <2>1. job[c].ds \in Nat
    BY DEF IInv, Typed, Jobs, Idle
  <2> QED BY <2>1, <1>0, <1>m DEF IInv, CountsCovered
<1>4. ReadsStand'
  <2> SUFFICES ASSUME NEW c \in Clients, job[c].kind = "compare",
                      {job[c].a, job[c].b} \cap deleted' = {}
               PROVE  /\ job[c].first \subseteq Members(job[c].a)'
                      /\ job[c].before \subseteq Members(job[c].b)'
    BY <1>0 DEF ReadsStand, Members
  <2>1. job[c].a \in Nat /\ job[c].b \in Nat
    BY DEF IInv, Typed, Jobs, Idle
  <2> QED BY <2>1, <1>0, <1>m DEF IInv, ReadsStand
<1>5. OrphansRaced'
  BY <1>m, <1>s, <1>d DEF IInv, OrphansRaced
<1>6. SnapshotsCovered'
  <2> SUFFICES ASSUME NEW s \in DOMAIN snapshots', snapshots'[s].dataset \notin deleted'
               PROVE  snapshots'[s].count <= Cardinality(Members(snapshots[s].dataset)')
    BY <1>s DEF SnapshotsCovered, Members
  <2>1. snapshots[s].dataset \in Nat
    BY <1>s DEF IInv, Typed
  <2> QED BY <2>1, <1>0, <1>m, <1>s DEF IInv, SnapshotsCovered
<1>7. ComparisonsBounded'
  <2> SUFFICES ASSUME NEW c \in Clients, answer[c].kind = "compared",
                      {answer[c].a, answer[c].b} \cap deleted' = {}
               PROVE  LET found == answer[c].result
                      IN  /\ found.common \subseteq Members(answer[c].a)' \cap Members(answer[c].b)'
                          /\ found.onlyA \subseteq Members(answer[c].a)' \ answer[c].before
                          /\ found.onlyB \subseteq Members(answer[c].b)'
    BY <1>0 DEF ComparisonsBounded, Members
  <2>1. answer[c].a \in Nat /\ answer[c].b \in Nat
    BY DEF IInv, Typed, Answers, NoAnswer
  <2> QED BY <2>1, <1>0, <1>m DEF IInv, ComparisonsBounded
<1> QED BY <1>1, <1>2, <1>3, <1>4, <1>5, <1>6, <1>7 DEF IInv

\* A step that only sets the request of one client, to one that is covered.
LEMMA JobStep ==
    ASSUME IInv, NEW c \in Clients, NEW next \in Jobs,
           job' = [job EXCEPT ![c] = next],
           UNCHANGED <<tables, answer, deleted, raced>>,
           next.kind \in {"add", "count", "insert"} => next.ds \in DOMAIN datasets \cup raced,
           next.kind = "insert" /\ next.ds \notin deleted =>
               next.count <= Cardinality(Members(next.ds)),
           next.kind = "compare" =>
               next.first \subseteq Members(next.a) /\ next.before \subseteq Members(next.b)
    PROVE  IInv'
<1>1. Typed'
  BY DEF IInv, Typed, tables
<1>2. \A d : Members(d)' = Members(d)
  BY DEF Members, tables
<1>3. \A x \in Clients : job'[x] = IF x = c THEN next ELSE job[x]
  BY DEF IInv, Typed
<1>4. AddingKnown'
  BY <1>3 DEF IInv, AddingKnown, tables
<1>5. CountsCovered'
  BY <1>2, <1>3 DEF IInv, CountsCovered
<1>6. ReadsStand'
  BY <1>2, <1>3 DEF IInv, ReadsStand
<1>7. OrphansRaced' /\ SnapshotsCovered'
  BY <1>2 DEF IInv, OrphansRaced, SnapshotsCovered, tables
<1>8. ComparisonsBounded'
  BY <1>2 DEF IInv, ComparisonsBounded
<1> QED BY <1>1, <1>4, <1>5, <1>6, <1>7, <1>8 DEF IInv

LEMMA AddEntityStep ==
    ASSUME IInv, NEW c \in Clients, AddEntity(c)
    PROVE  IInv'
<1> DEFINE key == <<Head(job[c].todo).id, job[c].ds>>
           next == IF Tail(job[c].todo) = << >> THEN Idle
                   ELSE [kind |-> "add", ds |-> job[c].ds, todo |-> Tail(job[c].todo)]
<1>0. /\ job[c] \in [kind : {"add"}, ds : Nat, todo : Seq(Item) \ {<< >>}]
      /\ job[c].kind = "add"
      /\ UNCHANGED <<made, datasets, taken, snapshots, answer, requests, deleted, raced>>
  BY DEF AddEntity, IInv, Typed, Jobs, Idle
<1>1. Head(job[c].todo) \in Item /\ Tail(job[c].todo) \in Seq(Item)
  BY <1>0
<1>2. key \in Entities \X Nat
  BY <1>0, <1>1 DEF Item
<1>3. DOMAIN members' = DOMAIN members \cup {key}
  <2> DEFINE put == [k \in DOMAIN members \cup {key} |->
                        IF k = key THEN Head(job[c].todo).concept ELSE members[k]]
  <2>1. members' = put
    BY DEF AddEntity
  <2>2. DOMAIN put = DOMAIN members \cup {key}
    OBVIOUS
  <2> QED BY <2>1, <2>2
<1>4. \A d : Members(d) \subseteq Members(d)' /\ Members(d)' \subseteq Entities
  BY <1>3 DEF Members
<1>5. /\ next \in Jobs
      /\ next.kind \in {"idle", "add"}
      /\ next.kind = "add" => next.ds = job[c].ds
  <2>1. CASE Tail(job[c].todo) = << >>
    BY <2>1 DEF Jobs, Idle
  <2>2. CASE Tail(job[c].todo) # << >>
    BY <1>0, <1>1, <2>2 DEF Jobs
  <2> QED BY <2>1, <2>2
<1>6. job' = [job EXCEPT ![c] = next]
  BY DEF AddEntity
<1>7. \A x \in Clients : job'[x] = IF x = c THEN next ELSE job[x]
  BY <1>6 DEF IInv, Typed
<1> HIDE DEF next
<1>8. Typed'
  BY <1>0, <1>2, <1>3, <1>5, <1>6 DEF IInv, Typed
<1>9. AddingKnown'
  BY <1>0, <1>5, <1>7 DEF IInv, AddingKnown
<1>10. CountsCovered'
  <2> SUFFICES ASSUME NEW x \in Clients, x # c, job[x].kind = "insert",
                      job[x].ds \notin deleted
               PROVE  job[x].count <= Cardinality(Members(job[x].ds)')
    BY <1>0, <1>5, <1>7 DEF CountsCovered, Members
  <2>1. job[x].count \in Nat
    BY DEF IInv, Typed, Jobs, Idle
  <2>2. job'[x] = job[x]
    BY <1>7
  <2>3. Members(job[x].ds) \subseteq Members(job[x].ds)' /\ Members(job[x].ds)' \subseteq Entities
    BY <1>4, <2>2
  <2>4. job[x].count <= Cardinality(Members(job[x].ds))
    BY DEF IInv, CountsCovered
  <2> QED BY ONLY <2>1, <2>3, <2>4, CountStands
<1>11. ReadsStand'
  <2> SUFFICES ASSUME NEW x \in Clients, x # c, job[x].kind = "compare",
                      {job[x].a, job[x].b} \cap deleted = {}
               PROVE  /\ job[x].first \subseteq Members(job[x].a)'
                      /\ job[x].before \subseteq Members(job[x].b)'
    BY <1>0, <1>5, <1>7 DEF ReadsStand, Members
  <2>2. job'[x] = job[x]
    BY <1>7
  <2> QED BY <1>4, <2>2 DEF IInv, ReadsStand
<1>12. OrphansRaced'
  BY <1>0, <1>3 DEF IInv, OrphansRaced, AddingKnown
<1>13. SnapshotsCovered'
  <2> SUFFICES ASSUME NEW s \in DOMAIN snapshots, snapshots[s].dataset \notin deleted
               PROVE  snapshots[s].count <= Cardinality(Members(snapshots[s].dataset)')
    BY <1>0 DEF SnapshotsCovered, Members
  <2>1. snapshots[s].count \in Nat
    BY DEF IInv, Typed
  <2>2. /\ Members(snapshots[s].dataset) \subseteq Members(snapshots[s].dataset)'
        /\ Members(snapshots[s].dataset)' \subseteq Entities
    BY <1>0, <1>4
  <2>3. snapshots[s].count <= Cardinality(Members(snapshots[s].dataset))
    BY DEF IInv, SnapshotsCovered
  <2> QED BY ONLY <2>1, <2>2, <2>3, CountStands
<1>14. ComparisonsBounded'
  <2> SUFFICES ASSUME NEW x \in Clients, answer[x].kind = "compared",
                      {answer[x].a, answer[x].b} \cap deleted = {}
               PROVE  LET found == answer[x].result
                      IN  /\ found.common \subseteq Members(answer[x].a)' \cap Members(answer[x].b)'
                          /\ found.onlyA \subseteq Members(answer[x].a)' \ answer[x].before
                          /\ found.onlyB \subseteq Members(answer[x].b)'
    BY <1>0 DEF ComparisonsBounded, Members
  <2> QED BY <1>0, <1>4 DEF IInv, ComparisonsBounded
<1> QED BY <1>8, <1>9, <1>10, <1>11, <1>12, <1>13, <1>14 DEF IInv

LEMMA InsertSnapshotStep ==
    ASSUME IInv, NEW c \in Clients, InsertSnapshot(c)
    PROVE  IInv'
<1>0. /\ job[c] \in [kind : {"insert"}, ds : Nat, count : Nat]
      /\ job' = [job EXCEPT ![c] = Idle]
      /\ taken' \in Nat
      /\ UNCHANGED <<made, datasets, members, answer, requests, deleted, raced>>
  BY DEF InsertSnapshot, IInv, Typed, Jobs, Idle
<1>1. \A x \in Clients : job'[x] = IF x = c THEN Idle ELSE job[x]
  BY <1>0 DEF IInv, Typed
<1>2. \A s \in DOMAIN snapshots' :
          \/ snapshots'[s] = [dataset |-> job[c].ds, count |-> job[c].count]
          \/ s \in DOMAIN snapshots /\ snapshots'[s] = snapshots[s]
  BY DEF InsertSnapshot
<1>3. \A d : Members(d)' = Members(d)
  BY <1>0 DEF Members
<1>4. Typed'
  <2>1. \A s \in DOMAIN snapshots' : snapshots'[s] \in [dataset : Nat, count : Nat]
    BY <1>0, <1>2 DEF IInv, Typed
  <2> QED BY <1>0, <2>1 DEF IInv, Typed, Jobs
<1>5. AddingKnown' /\ CountsCovered' /\ ReadsStand'
  BY <1>0, <1>1, <1>3 DEF IInv, AddingKnown, CountsCovered, ReadsStand, Idle
<1>6. OrphansRaced'
  <2>1. job[c].ds \in DOMAIN datasets \cup raced
    BY <1>0 DEF IInv, AddingKnown
  <2> QED BY <1>0, <1>2, <2>1 DEF IInv, OrphansRaced
<1>7. SnapshotsCovered'
  <2>1. job[c].ds \notin deleted => job[c].count <= Cardinality(Members(job[c].ds))
    BY <1>0 DEF IInv, CountsCovered
  <2> SUFFICES ASSUME NEW s \in DOMAIN snapshots', snapshots'[s].dataset \notin deleted
               PROVE  snapshots'[s].count <= Cardinality(Members(snapshots'[s].dataset))
    BY <1>0, <1>3 DEF SnapshotsCovered
  <2> QED BY <1>2, <2>1 DEF IInv, SnapshotsCovered
<1>8. ComparisonsBounded'
  BY <1>0, <1>3 DEF IInv, ComparisonsBounded
<1> QED BY <1>4, <1>5, <1>6, <1>7, <1>8 DEF IInv

LEMMA CompareSecondStep ==
    ASSUME IInv, NEW c \in Clients, CompareSecond(c)
    PROVE  IInv'
<1> DEFINE given == [kind |-> "compared", a |-> job[c].a, b |-> job[c].b,
                     before |-> job[c].before,
                     result |-> Differences(job[c].first, Members(job[c].b))]
<1>0. /\ job[c] \in [kind : {"compare"}, a : Nat, b : Nat, first : SUBSET Entities,
                     before : SUBSET Entities]
      /\ job' = [job EXCEPT ![c] = Idle]
      /\ answer' = [answer EXCEPT ![c] = given]
      /\ UNCHANGED <<tables, requests, deleted, raced>>
  BY DEF CompareSecond, IInv, Typed, Jobs, Idle
<1>1. given \in Answers
  <2>1. Differences(job[c].first, Members(job[c].b)) \in Results
    BY <1>0 DEF Differences, Results, Members
  <2> QED BY <1>0, <2>1 DEF Answers
<1>2. \A d : Members(d)' = Members(d)
  BY <1>0 DEF Members, tables
<1>3. \A x \in Clients : /\ job'[x] = IF x = c THEN Idle ELSE job[x]
                         /\ answer'[x] = IF x = c THEN given ELSE answer[x]
  BY <1>0 DEF IInv, Typed
<1>4. Typed'
  BY <1>0, <1>1 DEF IInv, Typed, Jobs, tables
<1>5. AddingKnown' /\ CountsCovered' /\ ReadsStand'
  BY <1>0, <1>2, <1>3 DEF IInv, AddingKnown, CountsCovered, ReadsStand, Idle, tables
<1>6. OrphansRaced' /\ SnapshotsCovered'
  BY <1>0, <1>2 DEF IInv, OrphansRaced, SnapshotsCovered, tables
<1>7. ComparisonsBounded'
  <2>1. {job[c].a, job[c].b} \cap deleted = {} =>
            LET found == given.result
            IN  /\ found.common \subseteq Members(job[c].a) \cap Members(job[c].b)
                /\ found.onlyA \subseteq Members(job[c].a) \ given.before
                /\ found.onlyB \subseteq Members(job[c].b)
    BY <1>0 DEF IInv, ReadsStand, Differences
  <2> QED BY <1>0, <1>2, <1>3, <2>1 DEF IInv, ComparisonsBounded
<1> QED BY <1>4, <1>5, <1>6, <1>7 DEF IInv

LEMMA NextIInv == IInv /\ [Next]_vars => IInv'
<1> SUFFICES ASSUME IInv, [Next]_vars PROVE IInv' OBVIOUS
<1>m. Made \subseteq Nat
  BY DEF IInv, Typed, Made
<1>1. CASE CreateDataset
  BY <1>1, DatasetsStep DEF CreateDataset, IInv, Typed
<1>2. ASSUME NEW ds \in Made, UpdateDataset(ds) PROVE IInv'
  BY <1>2, DatasetsStep DEF UpdateDataset, IInv, Typed
<1>3. ASSUME NEW ds \in Made, DeleteDataset(ds) PROVE IInv'
  BY <1>3, <1>m, DeleteStep
<1>4. ASSUME NEW c \in Clients, NEW ds \in Made, NEW batch \in Batches,
             AddEntities(c, ds, batch)
      PROVE  IInv'
  <2> DEFINE next == [kind |-> "add", ds |-> ds, todo |-> batch]
  <2>1. next \in Jobs
    BY <1>m, BatchesAssumption DEF Jobs, Item
  <2> QED BY <1>4, <2>1, JobStep DEF AddEntities, Begin
<1>5. ASSUME NEW c \in Clients, NEW ds \in Made, CreateSnapshot(c, ds) PROVE IInv'
  <2> DEFINE next == [kind |-> "count", ds |-> ds]
  <2>1. next \in Jobs
    BY <1>m DEF Jobs
  <2> QED BY <1>5, <2>1, JobStep DEF CreateSnapshot, Begin
<1>6. ASSUME NEW c \in Clients, NEW a \in Made, NEW b \in Made, Compare(c, a, b)
      PROVE  IInv'
  <2> DEFINE next == [kind |-> "compare", a |-> a, b |-> b,
                      first |-> Members(a), before |-> Members(b)]
  <2>1. next \in Jobs
    BY <1>m DEF Jobs, Members
  <2> QED BY <1>6, <2>1, JobStep DEF Compare, Begin
<1>7. ASSUME NEW c \in Clients, AddEntity(c) PROVE IInv'
  BY <1>7, AddEntityStep
<1>8. ASSUME NEW c \in Clients, CountMembers(c) PROVE IInv'
  <2> DEFINE next == [kind |-> "insert", ds |-> job[c].ds, count |-> Count(job[c].ds)]
  <2>0. job[c] \in [kind : {"count"}, ds : Nat]
    BY <1>8 DEF CountMembers, IInv, Typed, Jobs, Idle
  <2>1. next.count \in Nat /\ next.count <= Cardinality(Members(next.ds))
    <3>1. Members(job[c].ds) \subseteq Entities
      BY DEF Members
    <3> QED BY <3>1, CountGrows DEF Count
  <2>2. next \in Jobs
    BY <2>0, <2>1 DEF Jobs
  <2>3. next.ds \in DOMAIN datasets \cup raced
    BY <2>0 DEF IInv, AddingKnown
  <2>4. job' = [job EXCEPT ![c] = next] /\ UNCHANGED <<tables, answer, deleted, raced>>
    BY <1>8 DEF CountMembers
  <2> QED BY <2>1, <2>2, <2>3, <2>4, JobStep
<1>9. ASSUME NEW c \in Clients, InsertSnapshot(c) PROVE IInv'
  BY <1>9, InsertSnapshotStep
<1>10. ASSUME NEW c \in Clients, CompareSecond(c) PROVE IInv'
  BY <1>10, CompareSecondStep
<1>11. ASSUME NEW c \in Clients, RequestFails(c) PROVE IInv'
  <2>1. Idle \in Jobs /\ Idle.kind = "idle"
    BY DEF Jobs, Idle
  <2> QED BY <1>11, <2>1, JobStep DEF RequestFails
<1>12. CASE UNCHANGED vars
  BY <1>12, DatasetsStep DEF vars, tables, IInv, Typed
<1> QED BY <1>1, <1>2, <1>3, <1>4, <1>5, <1>6, <1>7, <1>8, <1>9, <1>10, <1>11, <1>12
        DEF Next

LEMMA IInvHolds == Spec => []IInv
BY InitIInv, NextIInv, PTL DEF Spec

\* Only a request that had found a dataset before its deletion leaves rows of
\* it behind; a deletion of three statements that fails leaves none.
THEOREM OrphansRacedHolds == Spec => []OrphansRaced
<1>1. IInv => OrphansRaced
  BY DEF IInv
<1> QED BY IInvHolds, <1>1, PTL

\* A snapshot of a dataset that no deletion touched never counts more members
\* than there are.
THEOREM SnapshotsCoveredHolds == Spec => []SnapshotsCovered
<1>1. IInv => SnapshotsCovered
  BY DEF IInv
<1> QED BY IInvHolds, <1>1, PTL

\* The two reads of a comparison give true members of both datasets.
THEOREM ComparisonsBoundedHolds == Spec => []ComparisonsBounded
<1>1. IInv => ComparisonsBounded
  BY DEF IInv
<1> QED BY IInvHolds, <1>1, PTL

-----------------------------------------------------------------------------
\* A set with 0 and the successors of its members holds every natural number.
LEMMA Induction ==
    ASSUME NEW T, 0 \in T, \A n \in Nat : n \in T => n + 1 \in T
    PROVE  \A n \in Nat : n \in T
<1> DEFINE R == {ss \in Nat \X Nat : ss[1] < ss[2]}
           Missing == {n \in Nat : n \notin T}
<1>1. SUFFICES ASSUME Missing # {} PROVE FALSE
  OBVIOUS
<1>2. IsWellFoundedOn(R, Nat)
  BY NatLessThanWellFounded DEF OpToRel
<1>3. \E m \in Missing : \A k \in Missing : <<k, m>> \notin R
  <2>1. Missing \subseteq Nat
    OBVIOUS
  <2> HIDE DEF R, Missing
  <2> QED
    BY <1>1, <1>2, <2>1, WFMin
<1>4. PICK m \in Missing : \A k \in Missing : <<k, m>> \notin R
  BY <1>3
<1>5. m # 0 /\ m - 1 \in Nat /\ <<m - 1, m>> \in R
  OBVIOUS
<1>6. m - 1 \in T
  BY <1>4, <1>5
<1> QED
  BY <1>5, <1>6

\* f is what a loop over 1, 2, ... with G gives up to k.
Loops(x, G, f, k) == f = [i \in 0..k |-> IF i = 0 THEN x ELSE G[<<i, f[i - 1]>>]]

LEMMA LoopsExist ==
    ASSUME NEW X, NEW x \in X, NEW G \in [Nat \X X -> X]
    PROVE  \A k \in Nat : \E f : Loops(x, G, f, k) /\ \A i \in 0..k : f[i] \in X
<1> DEFINE Good(f, k) == Loops(x, G, f, k) /\ \A i \in 0..k : f[i] \in X
           T == {k \in Nat : \E f : Good(f, k)}
<1>1. 0 \in T
  <2>1. Good([i \in 0..0 |-> x], 0)
    BY DEF Loops
  <2> QED
    BY <2>1
<1>2. ASSUME NEW k \in Nat, k \in T PROVE k + 1 \in T
  <2>1. PICK f : Good(f, k)
    BY <1>2
  <2> DEFINE more == [i \in 0..(k + 1) |-> IF i = 0 THEN x ELSE G[<<i, f[i - 1]>>]]
  <2>2. \A i \in 0..k : more[i] = f[i] /\ f[i] \in X
    <3>1. f = [i \in 0..k |-> IF i = 0 THEN x ELSE G[<<i, f[i - 1]>>]]
      BY <2>1 DEF Loops
    <3>2. \A i \in 0..k : f[i] = IF i = 0 THEN x ELSE G[<<i, f[i - 1]>>]
      BY <3>1
    <3>3. \A i \in 0..k : i \in 0..(k + 1)
      OBVIOUS
    <3> QED
      BY <2>1, <3>2, <3>3
  <2>3. \A i \in 1..(k + 1) : i - 1 \in 0..k /\ i \in Nat /\ i # 0
    OBVIOUS
  <2>4. \A i \in 0..(k + 1) : i = 0 \/ i \in 1..(k + 1)
    OBVIOUS
  <2>5. Loops(x, G, more, k + 1)
    <3>1. \A i \in 1..(k + 1) : G[<<i, f[i - 1]>>] = G[<<i, more[i - 1]>>]
      BY <2>2, <2>3
    <3>2. more = [i \in 0..(k + 1) |-> IF i = 0 THEN x ELSE G[<<i, more[i - 1]>>]]
      BY <2>4, <3>1
    <3> QED
      BY <3>2 DEF Loops
  <2>6. \A i \in 0..(k + 1) : more[i] \in X
    <3>1. \A i \in 1..(k + 1) : G[<<i, f[i - 1]>>] \in X
      BY <2>2, <2>3
    <3>2. \A i \in 1..(k + 1) : more[i] = G[<<i, f[i - 1]>>]
      BY <2>3
    <3> QED
      BY <2>4, <3>1, <3>2
  <2> HIDE DEF more
  <2> QED
    BY <2>5, <2>6
<1>3. \A k \in Nat : k \in T
  <2> HIDE DEF T
  <2> QED
    BY <1>1, <1>2, Induction
<1> QED
  BY <1>3

LEMMA LoopsAgree ==
    ASSUME NEW x, NEW G, NEW k \in Nat, NEW f, Loops(x, G, f, k),
           NEW l \in Nat, NEW g, Loops(x, G, g, l)
    PROVE  \A i \in Nat : i <= k /\ i <= l => f[i] = g[i]
<1> DEFINE T == {i \in Nat : i <= k /\ i <= l => f[i] = g[i]}
<1>1. 0 \in T
  BY DEF Loops
<1>2. ASSUME NEW i \in Nat, i \in T PROVE i + 1 \in T
  <2>1. SUFFICES ASSUME i + 1 <= k, i + 1 <= l PROVE f[i + 1] = g[i + 1]
    OBVIOUS
  <2>2. f[i] = g[i]
    BY <1>2, <2>1
  <2>3. i + 1 \in 0..k /\ i + 1 \in 0..l /\ i + 1 # 0 /\ (i + 1) - 1 = i
    BY <2>1
  <2>4. f[i + 1] = G[<<i + 1, f[i]>>] /\ g[i + 1] = G[<<i + 1, g[i]>>]
    BY <2>3 DEF Loops
  <2> QED
    BY <2>2, <2>4
<1>3. \A i \in Nat : i \in T
  <2> HIDE DEF T
  <2> QED
    BY <1>1, <1>2, Induction
<1> QED
  BY <1>3

IsLoop(x, G, X) == x \in X /\ G \in [Nat \X X -> X]

Runs(x, G, X, f) ==
    /\ f \in [Nat -> X] /\ f[0] = x
    /\ \A i \in Nat : i # 0 => f[i] = G[<<i, f[i - 1]>>]

\* A loop whose step stays in a set has all its results there.
LEMMA LoopRuns ==
    ASSUME NEW X, NEW x, NEW G, IsLoop(x, G, X)
    PROVE  \E f : Runs(x, G, X, f)
<1> DEFINE run(k) == CHOOSE f : Loops(x, G, f, k) /\ \A i \in 0..k : f[i] \in X
           all == [k \in Nat |-> run(k)[k]]
<1>1. \A k \in Nat : Loops(x, G, run(k), k) /\ \A i \in 0..k : run(k)[i] \in X
  <2>1. x \in X /\ G \in [Nat \X X -> X]
    BY DEF IsLoop
  <2> QED
    BY <2>1, LoopsExist
<1> HIDE DEF run
<1>2. run(0)[0] = x
  <2>1. Loops(x, G, run(0), 0) /\ 0 \in 0..0
    BY <1>1
  <2> QED
    BY <2>1 DEF Loops
<1>3. ASSUME NEW k \in Nat PROVE run(k + 1)[k + 1] = G[<<k + 1, run(k)[k]>>]
  <2>1. k + 1 \in 0..(k + 1) /\ k + 1 # 0 /\ (k + 1) - 1 = k /\ k + 1 \in Nat
    OBVIOUS
  <2>2. run(k + 1)[k + 1] = G[<<k + 1, run(k + 1)[k]>>]
    BY <1>1, <2>1 DEF Loops
  <2>3. Loops(x, G, run(k + 1), k + 1) /\ Loops(x, G, run(k), k)
    BY <1>1, <2>1
  <2>4. run(k + 1)[k] = run(k)[k]
    BY <2>1, <2>3, LoopsAgree
  <2> QED
    BY <2>2, <2>4
<1>4. \A k \in Nat : k \in 0..k /\ (k # 0 => k - 1 \in Nat /\ (k - 1) + 1 = k)
  OBVIOUS
<1>5. all \in [Nat -> X]
  BY <1>1, <1>4
<1>6. all[0] = x
  BY <1>2
<1>7. ASSUME NEW k \in Nat, k # 0 PROVE all[k] = G[<<k, all[k - 1]>>]
  <2>1. run((k - 1) + 1)[(k - 1) + 1] = G[<<(k - 1) + 1, run(k - 1)[k - 1]>>]
    BY <1>3, <1>4, <1>7
  <2>2. run(k)[k] = G[<<k, run(k - 1)[k - 1]>>]
    BY <1>4, <1>7, <2>1
  <2> QED
    BY <1>4, <1>7, <2>2
<1> HIDE DEF all
<1> QED
  BY <1>5, <1>6, <1>7 DEF Runs

-----------------------------------------------------------------------------
\* The loops of the module are what their definitions say.
LEMMA SaveFirstIs ==
    ASSUME NEW rows, NEW n, NEW q, NEW k \in Nat
    PROVE  /\ SaveFirst(rows, n, q, 0) = rows
           /\ SaveFirst(rows, n, q, k + 1) = Save(SaveFirst(rows, n, q, k), n, q[k + 1])
<1> DEFINE X == SUBSET (rows \cup {Row(n, q[i]) : i \in Nat})
           G == [p \in Nat \X X |-> Save(p[2], n, q[p[1]])]
           Rule(f) == f = [i \in Nat |-> IF i = 0 THEN rows ELSE Save(f[i - 1], n, q[i])]
           c == CHOOSE f : Rule(f)
<1>1. rows \in X
  OBVIOUS
<1>2. G \in [Nat \X X -> X]
  <2> SUFFICES ASSUME NEW i \in Nat, NEW S \in X PROVE Save(S, n, q[i]) \in X
    OBVIOUS
  <2> QED
    BY DEF Save
<1>3. \A i \in Nat, S \in X : G[<<i, S>>] = Save(S, n, q[i])
  OBVIOUS
<1> HIDE DEF X, G, Rule, c
<1>4. PICK f : Runs(rows, G, X, f)
  BY <1>1, <1>2, LoopRuns DEF IsLoop
<1>5. \A i \in Nat : i # 0 => i - 1 \in Nat
  OBVIOUS
<1>6. \A i \in Nat : f[i] = IF i = 0 THEN rows ELSE Save(f[i - 1], n, q[i])
  BY <1>3, <1>4, <1>5 DEF Runs
<1>7. Rule(f)
  <2>1. f = [i \in Nat |-> f[i]]
    BY <1>4 DEF Runs
  <2> QED
    BY <1>6, <2>1 DEF Rule
<1>8. Rule(c)
  BY <1>7 DEF c
<1>9. \A j \in Nat : SaveFirst(rows, n, q, j) = c[j]
  BY DEF SaveFirst, c, Rule
<1>10. c = [i \in Nat |-> IF i = 0 THEN rows ELSE Save(c[i - 1], n, q[i])]
  BY <1>8 DEF Rule
<1>11. c[0] = rows
  BY <1>10
<1>12. c[k + 1] = Save(c[k], n, q[k + 1])
  <2>1. k + 1 \in Nat /\ k + 1 # 0 /\ (k + 1) - 1 = k
    OBVIOUS
  <2> QED
    BY <1>10, <2>1
<1>13. k + 1 \in Nat /\ 0 \in Nat
  OBVIOUS
<1> QED
  BY <1>9, <1>11, <1>12, <1>13

-----------------------------------------------------------------------------
\* What is saved.  A row has a key, an order and a flag; one key has one row.
SoundRow(r) == r.id # Absent /\ r.order \notin {Absent, NotANumber} /\ r.enabled # Absent

Sound(R) ==
    /\ IsFiniteSet(R)
    /\ \A r \in R : SoundRow(r)
    /\ \A r, x \in R : r.group = x.group /\ r.id = x.id => r = x

LEMMA RowKey ==
    ASSUME NEW n, NEW st
    PROVE  Row(n, st).group = n /\ Row(n, st).id = st.id
  BY DEF Row

LEMMA RowOrder ==
    ASSUME NEW n, NEW st
    PROVE  Row(n, st).order = Given(st.order, 0)
  BY DEF Row

LEMMA RowEnabled ==
    ASSUME NEW n, NEW st
    PROVE  Row(n, st).enabled = Given(st.enabled, TRUE)
  BY DEF Row

LEMMA RowClauses ==
    ASSUME NEW n, NEW st
    PROVE  Row(n, st).when = st.when /\ Row(n, st).then = st.then
  BY DEF Row

LEMMA RowSound ==
    ASSUME NEW n, NEW st, Storable(st)
    PROVE  SoundRow(Row(n, st))
<1>1. 0 # Absent /\ 0 # NotANumber /\ TRUE # Absent
  BY TransferAssumption
<1>2. Given(st.order, 0) \notin {Absent, NotANumber}
  BY <1>1 DEF Given, Storable
<1>3. Given(st.enabled, TRUE) # Absent
  BY <1>1 DEF Given
<1>4. st.id # Absent
  BY DEF Storable
<1>5. Row(n, st).id = st.id
  BY RowKey
<1>6. Row(n, st).order = Given(st.order, 0)
  BY RowOrder
<1>7. Row(n, st).enabled = Given(st.enabled, TRUE)
  BY RowEnabled
<1> QED
  BY <1>2, <1>3, <1>4, <1>5, <1>6, <1>7 DEF SoundRow

LEMMA SaveIs ==
    ASSUME NEW R, NEW n, NEW st
    PROVE  /\ \A r \in R : r.group # n \/ r.id # st.id => r \in Save(R, n, st)
           /\ \A r \in Save(R, n, st) : \/ r \in R /\ (r.group # n \/ r.id # st.id)
                                        \/ Storable(st) /\ r = Row(n, st)
           /\ Storable(st) => Row(n, st) \in Save(R, n, st)
           /\ Sound(R) => Sound(Save(R, n, st))
<1>1. /\ \A r \in R : r.group # n \/ r.id # st.id => r \in Save(R, n, st)
      /\ \A r \in Save(R, n, st) : \/ r \in R /\ (r.group # n \/ r.id # st.id)
                                   \/ Storable(st) /\ r = Row(n, st)
      /\ Storable(st) => Row(n, st) \in Save(R, n, st)
  BY DEF Save
<1>2. ASSUME Sound(R) PROVE Sound(Save(R, n, st))
  <2>1. IsFiniteSet(Save(R, n, st))
    <3>1. Save(R, n, st) \subseteq R \cup {Row(n, st)}
      BY <1>1
    <3>2. IsFiniteSet(R \cup {Row(n, st)})
      BY <1>2, FS_AddElement DEF Sound
    <3> QED
      BY <3>1, <3>2, FS_Subset
  <2>2. \A r \in Save(R, n, st) : SoundRow(r)
    BY <1>1, <1>2, RowSound DEF Sound
  <2>3. ASSUME NEW r \in Save(R, n, st), NEW x \in Save(R, n, st), r.group = x.group, r.id = x.id
        PROVE  r = x
    <3>1. Row(n, st).group = n /\ Row(n, st).id = st.id
      BY RowKey
    <3>2. (r \in R /\ x \in R) \/ (r = Row(n, st) /\ x = Row(n, st))
      BY <1>1, <2>3, <3>1
    <3> QED
      BY <1>2, <2>3, <3>2 DEF Sound
  <2> QED
    BY <2>1, <2>2, <2>3 DEF Sound
<1> QED
  BY <1>1, <1>2

\* The rows after the first k saves: those of other names stay, each is an old
\* one or one that was saved, and the last save of an id stands.
Kept(R, n, S) == \A r \in R : r.group # n => r \in S

Wrote(R, n, q, k, S) == \A r \in S : r \in R \/ \E i \in 1..k : Storable(q[i]) /\ r = Row(n, q[i])

Stands(n, q, k, S) ==
    \A i \in 1..k : Storable(q[i]) /\ (\A j \in (i + 1)..k : q[j].id # q[i].id) => Row(n, q[i]) \in S

LEMMA SavedRows ==
    ASSUME NEW R, NEW n, NEW q
    PROVE  \A k \in Nat : /\ Kept(R, n, SaveFirst(R, n, q, k))
                          /\ Wrote(R, n, q, k, SaveFirst(R, n, q, k))
                          /\ Stands(n, q, k, SaveFirst(R, n, q, k))
                          /\ Sound(R) => Sound(SaveFirst(R, n, q, k))
<1> DEFINE saved(k) == SaveFirst(R, n, q, k)
           Good(k) == /\ Kept(R, n, saved(k)) /\ Wrote(R, n, q, k, saved(k))
                      /\ Stands(n, q, k, saved(k)) /\ (Sound(R) => Sound(saved(k)))
           T == {k \in Nat : Good(k)}
<1>1. saved(0) = R /\ \A k \in Nat : saved(k + 1) = Save(saved(k), n, q[k + 1])
  BY SaveFirstIs
<1> HIDE DEF saved
<1>2. 0 \in T
  BY <1>1 DEF Kept, Wrote, Stands
<1>3. ASSUME NEW k \in Nat, k \in T PROVE k + 1 \in T
  <2>1. Good(k)
    BY <1>3
  <2>2. saved(k + 1) = Save(saved(k), n, q[k + 1])
    BY <1>1
  <2>3. Kept(R, n, saved(k + 1))
    BY <2>1, <2>2, SaveIs DEF Kept
  <2>4. /\ \A i \in 1..k : i \in 1..(k + 1)
        /\ \A i \in 1..(k + 1) : i \in 1..k \/ i = k + 1
        /\ \A i \in 1..k : k + 1 \in (i + 1)..(k + 1) /\ \A j \in (i + 1)..k : j \in (i + 1)..(k + 1)
        /\ k + 1 \in 1..(k + 1) /\ k + 1 \in Nat
    OBVIOUS
  <2>5. Wrote(R, n, q, k + 1, saved(k + 1))
    <3> SUFFICES ASSUME NEW r \in saved(k + 1)
                 PROVE  r \in R \/ \E i \in 1..(k + 1) : Storable(q[i]) /\ r = Row(n, q[i])
      BY DEF Wrote
    <3>1. r \in saved(k) \/ (Storable(q[k + 1]) /\ r = Row(n, q[k + 1]))
      BY <2>2, SaveIs
    <3>2. r \in saved(k) => r \in R \/ \E i \in 1..k : Storable(q[i]) /\ r = Row(n, q[i])
      BY <2>1 DEF Wrote
    <3> QED
      BY <2>4, <3>1, <3>2
  <2>6. Stands(n, q, k + 1, saved(k + 1))
    <3> SUFFICES ASSUME NEW i \in 1..(k + 1), Storable(q[i]),
                        \A j \in (i + 1)..(k + 1) : q[j].id # q[i].id
                 PROVE  Row(n, q[i]) \in saved(k + 1)
      BY DEF Stands
    <3>1. CASE i = k + 1
      BY <2>2, <3>1, SaveIs
    <3>2. CASE i \in 1..k
      <4>1. q[k + 1].id # q[i].id /\ \A j \in (i + 1)..k : q[j].id # q[i].id
        BY <2>4, <3>2
      <4>2. Row(n, q[i]) \in saved(k)
        BY <2>1, <3>2, <4>1 DEF Stands
      <4> QED
        BY <2>2, <4>1, <4>2, SaveIs, RowKey
    <3> QED
      BY <2>4, <3>1, <3>2
  <2>7. Sound(R) => Sound(saved(k + 1))
    BY <2>1, <2>2, SaveIs
  <2> QED
    BY <2>3, <2>4, <2>5, <2>6, <2>7
<1>4. \A k \in Nat : k \in T
  <2> HIDE DEF T
  <2> QED
    BY <1>2, <1>3, Induction
<1> QED
  BY <1>4 DEF saved

\* A step whose saves all succeed ends with a row, of one of their orders.
Has(S, n, x, P) == \E r \in S : r.group = n /\ r.id = x /\ r.order \in P

LEMMA SavedId ==
    ASSUME NEW R, NEW n, NEW q, NEW x, NEW P, NEW k \in Nat,
           \A i \in 1..k : q[i].id = x => Storable(q[i]) /\ Given(q[i].order, 0) \in P,
           Has(R, n, x, P) \/ \E i \in 1..k : q[i].id = x
    PROVE  Has(SaveFirst(R, n, q, k), n, x, P)
<1> DEFINE saved(i) == SaveFirst(R, n, q, i)
           T == {l \in Nat : l <= k /\ (Has(R, n, x, P) \/ \E i \in 1..l : q[i].id = x)
                                => Has(saved(l), n, x, P)}
<1>1. saved(0) = R /\ \A l \in Nat : saved(l + 1) = Save(saved(l), n, q[l + 1])
  BY SaveFirstIs
<1> HIDE DEF saved
<1>2. 0 \in T
  <2>1. 1..0 = {}
    OBVIOUS
  <2> QED
    BY <1>1, <2>1
<1>3. ASSUME NEW l \in Nat, l \in T PROVE l + 1 \in T
  <2> SUFFICES ASSUME l + 1 <= k, Has(R, n, x, P) \/ \E i \in 1..(l + 1) : q[i].id = x
               PROVE  Has(saved(l + 1), n, x, P)
    OBVIOUS
  <2>1. saved(l + 1) = Save(saved(l), n, q[l + 1])
    BY <1>1
  <2>2. l + 1 \in 1..k /\ l <= k /\ \A i \in 1..(l + 1) : i \in 1..l \/ i = l + 1
    OBVIOUS
  <2>3. CASE q[l + 1].id = x
    <3>1. Storable(q[l + 1]) /\ Given(q[l + 1].order, 0) \in P
      BY <2>2, <2>3
    <3>2. Row(n, q[l + 1]) \in saved(l + 1)
      BY <2>1, <3>1, SaveIs
    <3> QED
      BY <2>3, <3>1, <3>2, RowKey, RowOrder DEF Has
  <2>4. CASE q[l + 1].id # x
    <3>1. Has(saved(l), n, x, P)
      BY <1>3, <2>2, <2>4
    <3> QED
      BY <2>1, <2>4, <3>1, SaveIs DEF Has
  <2> QED
    BY <2>3, <2>4
<1>4. \A l \in Nat : l \in T
  <2> HIDE DEF T
  <2> QED
    BY <1>2, <1>3, Induction
<1>5. k <= k
  OBVIOUS
<1> QED
  BY <1>4, <1>5 DEF saved
-----------------------------------------------------------------------------
\* Loops over the places of a list.
LEMMA PlacesInduction ==
    ASSUME NEW k \in Nat, NEW T, 0 \in T, \A i \in 1..k : i - 1 \in T => i \in T
    PROVE  \A i \in 0..k : i \in T
<1> DEFINE U == {i \in Nat : i <= k => i \in T}
<1>1. 0 \in U
  OBVIOUS
<1>2. ASSUME NEW i \in Nat, i \in U PROVE i + 1 \in U
  <2> SUFFICES ASSUME i + 1 <= k PROVE i + 1 \in T
    OBVIOUS
  <2>1. i + 1 \in 1..k /\ (i + 1) - 1 = i /\ i <= k
    OBVIOUS
  <2> QED
    BY <1>2, <2>1
<1>3. \A i \in Nat : i \in U
  <2> HIDE DEF U
  <2> QED
    BY <1>1, <1>2, Induction
<1> QED
  BY <1>3

IsLoopTo(x, G, X, k) == x \in X /\ k \in Nat /\ G \in [(1..k) \X X -> X]

RunsTo(x, G, X, k, f) == Loops(x, G, f, k) /\ \A i \in 0..k : f[i] \in X

\* A loop over 1..k whose step stays in a set has its results there.
LEMMA LoopEnds ==
    ASSUME NEW X, NEW x, NEW k, NEW G, IsLoopTo(x, G, X, k)
    PROVE  \E f : RunsTo(x, G, X, k, f)
<1> DEFINE H == [p \in Nat \X X |-> IF p[1] \in 1..k THEN G[p] ELSE p[2]]
<1>0. x \in X /\ k \in Nat /\ G \in [(1..k) \X X -> X]
  BY DEF IsLoopTo
<1>1. H \in [Nat \X X -> X]
  <2> SUFFICES ASSUME NEW i \in Nat, NEW y \in X PROVE (IF i \in 1..k THEN G[<<i, y>>] ELSE y) \in X
    OBVIOUS
  <2> QED
    BY <1>0
<1>2. \A i \in 1..k, y \in X : H[<<i, y>>] = G[<<i, y>>]
  OBVIOUS
<1> HIDE DEF H
<1>3. PICK f : Loops(x, H, f, k) /\ \A i \in 0..k : f[i] \in X
  BY <1>0, <1>1, LoopsExist
<1>4. \A i \in 0..k : i = 0 \/ (i \in 1..k /\ i - 1 \in 0..k)
  BY <1>0
<1>5. \A i \in 1..k : H[<<i, f[i - 1]>>] = G[<<i, f[i - 1]>>]
  BY <1>2, <1>3, <1>4
<1>6. f = [i \in 0..k |-> IF i = 0 THEN x ELSE H[<<i, f[i - 1]>>]]
  BY <1>3 DEF Loops
<1>7. f = [i \in 0..k |-> IF i = 0 THEN x ELSE G[<<i, f[i - 1]>>]]
  <2>1. \A i \in 0..k : (IF i = 0 THEN x ELSE H[<<i, f[i - 1]>>]) = (IF i = 0 THEN x ELSE G[<<i, f[i - 1]>>])
    BY <1>4, <1>5
  <2> QED
    BY <1>6, <2>1
<1> QED
  BY <1>3, <1>7 DEF RunsTo, Loops

\* What a loop over a list does: its first value, its steps, its result.
Loop(c, k, x, result) == c[0] = x /\ result = c[k]

LEMMA SaveAllWithin ==
    ASSUME NEW R, NEW n, NEW q, NEW Y, Len(q) \in Nat, R \subseteq Y,
           \A i \in Nat : Row(n, q[i]) \in Y
    PROVE  SaveAll(R, n, q) \subseteq Y
<1>1. Wrote(R, n, q, Len(q), SaveFirst(R, n, q, Len(q)))
  BY SavedRows
<1>2. \A i \in 1..Len(q) : i \in Nat
  OBVIOUS
<1>3. \A r \in SaveFirst(R, n, q, Len(q)) : r \in Y
  BY <1>1, <1>2 DEF Wrote
<1> QED
  BY <1>3 DEF SaveAll

LogicStep(R, n, l) == IF l.definition = n THEN SaveAll(R, n, Placed(l.steps)) ELSE R

AreCounted(q) == Len(q) \in Nat /\ \A i \in 1..Len(q) : Len(Placed(q[i].steps)) \in Nat

LogicsLoop(c, R, n, q) ==
    /\ Loop(c, Len(q), R, SaveLogics(R, n, q))
    /\ \A i \in 1..Len(q) : c[i] = LogicStep(c[i - 1], n, q[i])

LEMMA SaveLogicsIs ==
    ASSUME NEW R, NEW n, NEW q, AreCounted(q)
    PROVE  \E c : LogicsLoop(c, R, n, q)
<1>0. Len(q) \in Nat /\ \A i \in 1..Len(q) : Len(Placed(q[i].steps)) \in Nat
  BY DEF AreCounted
<1> DEFINE k == Len(q)
           Y == R \cup {Row(n, Placed(q[p[1]].steps)[p[2]]) : p \in (1..k) \X Nat}
           X == SUBSET Y
           G == [p \in (1..k) \X X |-> LogicStep(p[2], n, q[p[1]])]
           Rule(f) == f = [i \in 0..k |->
                              IF i = 0 THEN R
                              ELSE IF q[i].definition = n
                                   THEN SaveAll(f[i - 1], n, Placed(q[i].steps))
                                   ELSE f[i - 1]]
           c == CHOOSE f : Rule(f)
<1>1. R \in X
  OBVIOUS
<1>2. ASSUME NEW i \in 1..k, NEW S \in X PROVE LogicStep(S, n, q[i]) \in X
  <2>1. \A j \in Nat : Row(n, Placed(q[i].steps)[j]) \in Y
    <3> TAKE j \in Nat
    <3>1. <<i, j>> \in (1..k) \X Nat
      OBVIOUS
    <3> QED
      BY <3>1
  <2>2. S \subseteq Y
    OBVIOUS
  <2> HIDE DEF Y
  <2>3. SaveAll(S, n, Placed(q[i].steps)) \subseteq Y
    BY <1>0, <2>1, <2>2, SaveAllWithin
  <2> QED
    BY <2>2, <2>3 DEF LogicStep
<1>3. G \in [(1..k) \X X -> X]
  <2> HIDE DEF X
  <2> QED
    BY <1>2
<1>4. \A i \in 1..k, S \in X : G[<<i, S>>] = LogicStep(S, n, q[i])
  <2> HIDE DEF X
  <2> QED
    OBVIOUS
<1>5. SaveLogics(R, n, q) = c[k]
  BY DEF SaveLogics
<1> HIDE DEF X, G, c
<1>6. k \in Nat
  BY <1>0
<1> HIDE DEF k
<1>7. PICK f : RunsTo(R, G, X, k, f)
  BY <1>1, <1>3, <1>6, LoopEnds DEF IsLoopTo
<1>8. \A i \in 0..k : i = 0 \/ (i \in 1..k /\ i - 1 \in 0..k)
  BY <1>6
<1>9. \A i \in 1..k : G[<<i, f[i - 1]>>] = IF q[i].definition = n
                                         THEN SaveAll(f[i - 1], n, Placed(q[i].steps))
                                         ELSE f[i - 1]
  BY <1>4, <1>7, <1>8 DEF LogicStep, RunsTo
<1>10. Rule(f)
  BY <1>7, <1>8, <1>9 DEF RunsTo, Loops
<1>11. Rule(c)
  <2> HIDE DEF Rule
  <2> QED
    BY <1>10 DEF c
<1>12. c[0] = R
  BY <1>6, <1>11
<1>13. \A i \in 1..k : c[i] = LogicStep(c[i - 1], n, q[i])
  BY <1>6, <1>11 DEF LogicStep
<1> QED
  BY <1>5, <1>12, <1>13 DEF LogicsLoop, Loop, k
-----------------------------------------------------------------------------
\* Places of a list.  A set of them that is not empty has a first and a last.
LEMMA FirstPlace ==
    ASSUME NEW S \in SUBSET Nat, S # {}
    PROVE  Min(S) \in S /\ \A y \in S : Min(S) <= y
<1> DEFINE T == {k \in Nat : \A y \in S : k <= y}
<1>1. 0 \in T
  OBVIOUS
<1>2. \E k \in T : k + 1 \notin T
  <2> SUFFICES ASSUME \A k \in T : k + 1 \in T PROVE FALSE
    OBVIOUS
  <2>1. \A k \in Nat : k \in T
    <3>1. \A k \in Nat : k \in T => k + 1 \in T
      OBVIOUS
    <3> HIDE DEF T
    <3> QED
      BY <1>1, <3>1, Induction
  <2>2. PICK y \in S : TRUE
    OBVIOUS
  <2>3. y + 1 \in T /\ y \in Nat
    BY <2>1
  <2>4. y + 1 <= y
    BY <2>3
  <2> QED
    BY <2>3, <2>4
<1>3. PICK k \in T : k + 1 \notin T
  BY <1>2
<1>4. k \in Nat /\ \A y \in S : k <= y
  OBVIOUS
<1>5. PICK y \in S : ~(k + 1 <= y)
  BY <1>3
<1>6. k = y
  <2>1. y \in Nat /\ k <= y
    BY <1>4
  <2> QED
    BY <1>4, <1>5, <2>1
<1>7. \E x \in S : \A z \in S : x <= z
  BY <1>4, <1>6
<1> QED
  BY <1>7 DEF Min

LEMMA LastPlace ==
    ASSUME NEW m \in Nat, NEW S \in SUBSET (1..m), S # {}
    PROVE  Max(S) \in S
<1> DEFINE T == {m - x : x \in S}
<1>1. T \in SUBSET Nat /\ T # {}
  <2>1. \A x \in S : m - x \in Nat
    OBVIOUS
  <2>2. \A y \in T : y \in Nat
    BY <2>1
  <2>3. T # {}
    OBVIOUS
  <2> QED
    BY <2>2, <2>3
<1>2. Min(T) \in T /\ \A y \in T : Min(T) <= y
  <2> HIDE DEF T
  <2> QED
    BY <1>1, FirstPlace
<1>3. PICK x \in S : Min(T) = m - x
  BY <1>2
<1>4. ASSUME NEW y \in S PROVE x >= y
  <2>1. m - y \in T
    OBVIOUS
  <2>2. m - x <= m - y
    BY <1>2, <1>3, <2>1
  <2>3. x \in 1..m /\ y \in 1..m
    OBVIOUS
  <2> HIDE DEF T
  <2> QED
    BY <2>2, <2>3
<1> QED
  BY <1>4 DEF Max

Places(q, m) == q \in Seq(1..m) /\ \A i, j \in 1..Len(q) : q[i] = q[j] => i = j

LEMMA AddPlace ==
    ASSUME NEW m \in Nat, NEW q, Places(q, m), NEW p \in 1..m, p \notin ToSet(q)
    PROVE  Places(Append(q, p), m) /\ ToSet(Append(q, p)) = ToSet(q) \cup {p}
<1> DEFINE r == Append(q, p)
<1>1. q \in Seq(1..m) /\ \A i, j \in 1..Len(q) : q[i] = q[j] => i = j
  BY DEF Places
<1>2. /\ r \in Seq(1..m) /\ Len(r) = Len(q) + 1 /\ r[Len(q) + 1] = p
      /\ \A i \in 1..Len(q) : r[i] = q[i]
  BY <1>1
<1>3. Len(q) \in Nat /\ DOMAIN q = 1..Len(q) /\ DOMAIN r = 1..Len(r)
  BY <1>1, <1>2
<1>4. \A i \in 1..Len(q) : q[i] # p
  BY <1>3 DEF ToSet
<1> HIDE DEF r
<1>5. \A i \in 1..Len(r) : i \in 1..Len(q) \/ i = Len(q) + 1
  BY <1>2, <1>3
<1>6. \A i, j \in 1..Len(r) : r[i] = r[j] => i = j
  BY <1>1, <1>2, <1>4, <1>5
<1>7. ToSet(r) = ToSet(q) \cup {p}
  <2>1. Len(q) + 1 \in 1..Len(r) /\ \A i \in 1..Len(q) : i \in 1..Len(r)
    BY <1>2, <1>3
  <2>2. \A x \in ToSet(r) : x \in ToSet(q) \cup {p}
    BY <1>2, <1>3, <1>5 DEF ToSet
  <2>3. \A x \in ToSet(q) : x \in ToSet(r)
    BY <1>2, <1>3, <2>1 DEF ToSet
  <2>4. p \in ToSet(r)
    BY <1>2, <1>3, <2>1 DEF ToSet
  <2> QED
    BY <2>2, <2>3, <2>4
<1> QED
  BY <1>2, <1>6, <1>7 DEF Places, r

LEMMA PlacesIn ==
    ASSUME NEW m \in Nat, NEW q, Places(q, m)
    PROVE  ToSet(q) \subseteq 1..m /\ ToSet(q) \subseteq Nat
<1>1. q \in [1..Len(q) -> 1..m]
  BY DEF Places
<1>2. ToSet(q) \subseteq 1..m
  BY <1>1 DEF ToSet
<1> QED
  BY <1>2

LEMMA PlacesFit ==
    ASSUME NEW m \in Nat, NEW q, Places(q, m)
    PROVE  Len(q) \in Nat /\ Len(q) <= m
<1>1. /\ q \in Seq(1..m) /\ Len(q) \in Nat /\ q \in [1..Len(q) -> 1..m]
      /\ \A i, j \in 1..Len(q) : q[i] = q[j] => i = j
  BY DEF Places
<1>2. q \in Injection(1..Len(q), 1..m)
  BY <1>1 DEF Injection, IsInjective
<1>3. ASSUME NEW l \in Nat PROVE IsFiniteSet(1..l) /\ Cardinality(1..l) = l
  <2>1. IsFiniteSet(1..l) /\ Cardinality(1..l) = IF 1 > l THEN 0 ELSE l - 1 + 1
    BY FS_Interval
  <2> QED
    BY <2>1
<1>4. Cardinality(1..Len(q)) <= Cardinality(1..m)
  BY <1>2, <1>3, FS_Injection
<1>5. Cardinality(1..Len(q)) = Len(q) /\ Cardinality(1..m) = m
  BY <1>1, <1>3
<1> QED
  BY <1>1, <1>4, <1>5
-----------------------------------------------------------------------------
\* The logics of a definition of an L4 file.
NameStep(f, d, q, i) == IF IsNamed(f, d, i) THEN Append(q, i) ELSE q

LEMMA NamingIs ==
    ASSUME NEW f, NEW d, Len(f.logics) \in Nat
    PROVE  \E c : /\ Loop(c, Len(f.logics), << >>, Naming(f, d))
                  /\ \A i \in 1..Len(f.logics) : c[i] = NameStep(f, d, c[i - 1], i)
<1> DEFINE k == Len(f.logics)
           X == Seq(1..k)
           G == [p \in (1..k) \X X |-> NameStep(f, d, p[2], p[1])]
           Rule(g) == g = [i \in 0..k |->
                              IF i = 0 THEN << >>
                              ELSE IF IsNamed(f, d, i) THEN Append(g[i - 1], i) ELSE g[i - 1]]
           c == CHOOSE g : Rule(g)
<1>1. << >> \in X
  OBVIOUS
<1>2. ASSUME NEW i \in 1..k, NEW S \in X PROVE NameStep(f, d, S, i) \in X
  <2> DEFINE P == 1..k
  <2>1. i \in P /\ S \in Seq(P)
    OBVIOUS
  <2> HIDE DEF P
  <2>2. Append(S, i) \in Seq(P)
    BY <2>1
  <2> QED
    BY <2>1, <2>2 DEF NameStep, P
<1>3. G \in [(1..k) \X X -> X]
  <2> HIDE DEF X, k
  <2> QED
    BY <1>2
<1>4. \A i \in 1..k, S \in X : G[<<i, S>>] = NameStep(f, d, S, i)
  <2> HIDE DEF X, k
  <2> QED
    OBVIOUS
<1>5. Naming(f, d) = c[k]
  BY DEF Naming
<1>6. k \in Nat
  OBVIOUS
<1> HIDE DEF X, G, c, k
<1>7. PICK g : RunsTo(<< >>, G, X, k, g)
  BY <1>1, <1>3, <1>6, LoopEnds DEF IsLoopTo
<1>8. \A i \in 0..k : i = 0 \/ (i \in 1..k /\ i - 1 \in 0..k)
  BY <1>6
<1>9. \A i \in 1..k : G[<<i, g[i - 1]>>] = IF IsNamed(f, d, i) THEN Append(g[i - 1], i)
                                                               ELSE g[i - 1]
  BY <1>4, <1>7, <1>8 DEF NameStep, RunsTo
<1>10. Rule(g)
  BY <1>7, <1>8, <1>9 DEF RunsTo, Loops
<1>11. Rule(c)
  <2> HIDE DEF Rule
  <2> QED
    BY <1>10 DEF c
<1>12. c[0] = << >>
  BY <1>6, <1>11
<1>13. ASSUME NEW i \in 1..k PROVE c[i] = NameStep(f, d, c[i - 1], i)
  <2>1. i \in 0..k /\ i # 0
    BY <1>6
  <2>2. c[i] = IF IsNamed(f, d, i) THEN Append(c[i - 1], i) ELSE c[i - 1]
    BY <1>11, <2>1
  <2> QED
    BY <2>2 DEF NameStep
<1> QED
  BY <1>5, <1>12, <1>13 DEF Loop, k

LEMMA NamingPlaces ==
    ASSUME NEW f, NEW d, Len(f.logics) \in Nat
    PROVE  /\ Places(Naming(f, d), Len(f.logics))
           /\ \A i \in 1..Len(f.logics) : IsNamed(f, d, i) => i \in ToSet(Naming(f, d))
<1> DEFINE k == Len(f.logics)
<1>1. PICK c : /\ Loop(c, k, << >>, Naming(f, d))
               /\ \A i \in 1..k : c[i] = NameStep(f, d, c[i - 1], i)
  BY NamingIs
<1>2. k \in Nat
  OBVIOUS
<1> HIDE DEF k
<1> DEFINE T == {i \in 0..k : /\ Places(c[i], k)
                              /\ \A j \in ToSet(c[i]) : j <= i
                              /\ \A j \in 1..i : IsNamed(f, d, j) => j \in ToSet(c[i])}
<1>3. 0 \in T
  <2>1. c[0] = << >> /\ 1..0 = {} /\ ToSet(<< >>) = {} /\ Places(<< >>, k)
    BY <1>1 DEF Loop, ToSet, Places
  <2> QED
    BY <1>2, <2>1
<1>4. ASSUME NEW i \in 1..k, i - 1 \in T PROVE i \in T
  <2>1. /\ Places(c[i - 1], k) /\ \A j \in ToSet(c[i - 1]) : j <= i - 1
        /\ \A j \in 1..(i - 1) : IsNamed(f, d, j) => j \in ToSet(c[i - 1])
    BY <1>4
  <2>2. c[i] = NameStep(f, d, c[i - 1], i)
    BY <1>1
  <2>3. i \in 0..k /\ \A j \in 1..i : j \in 1..(i - 1) \/ j = i
    BY <1>2
  <2>4. ToSet(c[i - 1]) \subseteq Nat
    BY <1>2, <2>1, PlacesIn
  <2>5. CASE IsNamed(f, d, i)
    <3>1. c[i] = Append(c[i - 1], i)
      BY <2>2, <2>5 DEF NameStep
    <3>2. i \notin ToSet(c[i - 1])
      BY <2>1, <2>4
    <3>3. Places(c[i], k) /\ ToSet(c[i]) = ToSet(c[i - 1]) \cup {i}
      BY <1>2, <2>1, <3>1, <3>2, AddPlace
    <3>4. \A j \in ToSet(c[i]) : j <= i
      BY <2>1, <2>4, <3>3
    <3>5. \A j \in 1..i : IsNamed(f, d, j) => j \in ToSet(c[i])
      BY <2>1, <2>3, <3>3
    <3> QED
      BY <2>3, <3>3, <3>4, <3>5
  <2>6. CASE ~IsNamed(f, d, i)
    <3>1. c[i] = c[i - 1]
      BY <2>2, <2>6 DEF NameStep
    <3>2. \A j \in ToSet(c[i]) : j <= i
      BY <2>1, <2>4, <3>1
    <3>3. \A j \in 1..i : IsNamed(f, d, j) => j \in ToSet(c[i])
      BY <2>1, <2>3, <2>6, <3>1
    <3> QED
      BY <2>1, <2>3, <3>1, <3>2, <3>3
  <2> QED
    BY <2>5, <2>6
<1>5. \A i \in 0..k : i \in T
  <2> HIDE DEF T
  <2> QED
    BY <1>2, <1>3, <1>4, PlacesInduction
<1>6. k \in T /\ Naming(f, d) = c[k]
  BY <1>1, <1>2, <1>5 DEF Loop
<1> QED
  BY <1>6 DEF k

\* The place of the last logic with an id.
LEMMA WithIdPlaces ==
    ASSUME NEW f, Len(f.logics) \in Nat, NEW q, Places(q, Len(f.logics)), NEW id
    PROVE  /\ Places(WithId(f, q, id), Len(f.logics))
           /\ ToSet(q) \subseteq ToSet(WithId(f, q, id))
           /\ (\E i \in 1..Len(f.logics) : f.logics[i].id = id) =>
                 \E k \in ToSet(WithId(f, q, id)) : f.logics[k].id = id
<1> DEFINE I == {i \in 1..Len(f.logics) : f.logics[i].id = id}
           indexed == IF I # {} THEN Max(I) ELSE 0
<1>1. WithId(f, q, id) = IF indexed = 0 \/ \E k \in ToSet(q) : f.logics[k].id = id THEN q
                                                                               ELSE Append(q, indexed)
  BY DEF WithId, SelectLastInSeq
<1>2. I # {} => Max(I) \in I
  BY LastPlace
<1>3. \A i \in I : i # 0
  OBVIOUS
<1>4. CASE indexed = 0 \/ \E k \in ToSet(q) : f.logics[k].id = id
  <2>1. WithId(f, q, id) = q
    BY <1>1, <1>4
  <2>2. (\E i \in 1..Len(f.logics) : f.logics[i].id = id) =>
           \E k \in ToSet(q) : f.logics[k].id = id
    <3> SUFFICES ASSUME I # {}, indexed = 0 PROVE FALSE
      BY <1>4
    <3> QED
      BY <1>2, <1>3
  <2> QED
    BY <2>1, <2>2
<1>5. CASE ~(indexed = 0 \/ \E k \in ToSet(q) : f.logics[k].id = id)
  <2>1. indexed \in I
    BY <1>2, <1>5
  <2> HIDE DEF indexed
  <2>2. indexed \in 1..Len(f.logics) /\ f.logics[indexed].id = id
    BY <2>1
  <2>3. indexed \notin ToSet(q)
    BY <1>5, <2>2
  <2>4. WithId(f, q, id) = Append(q, indexed)
    BY <1>1, <1>5
  <2>5. /\ Places(Append(q, indexed), Len(f.logics))
        /\ ToSet(Append(q, indexed)) = ToSet(q) \cup {indexed}
    BY <2>2, <2>3, AddPlace
  <2> QED
    BY <2>2, <2>4, <2>5
<1> QED
  BY <1>4, <1>5
LEMMA MatchingIs ==
    ASSUME NEW f, NEW d, Len(f.logics) \in Nat, Len(d.logicIds) \in Nat
    PROVE  \E c : /\ Loop(c, Len(d.logicIds), Naming(f, d), Matching(f, d))
                  /\ \A i \in 1..Len(d.logicIds) : c[i] = WithId(f, c[i - 1], d.logicIds[i])
<1> DEFINE k == Len(d.logicIds)
           X == {q \in Seq(1..Len(f.logics)) : Places(q, Len(f.logics))}
           G == [p \in (1..k) \X X |-> WithId(f, p[2], d.logicIds[p[1]])]
           Rule(g) == g = [i \in 0..k |->
                              IF i = 0 THEN Naming(f, d)
                              ELSE WithId(f, g[i - 1], d.logicIds[i])]
           c == CHOOSE g : Rule(g)
<1>1. Naming(f, d) \in X
  BY NamingPlaces DEF Places
<1>2. ASSUME NEW i \in 1..k, NEW S \in X PROVE WithId(f, S, d.logicIds[i]) \in X
  <2>1. Places(S, Len(f.logics))
    OBVIOUS
  <2>2. Places(WithId(f, S, d.logicIds[i]), Len(f.logics))
    BY <2>1, WithIdPlaces
  <2> QED
    BY <2>2 DEF Places
<1>3. G \in [(1..k) \X X -> X]
  <2> HIDE DEF X, k
  <2> QED
    BY <1>2
<1>4. \A i \in 1..k, S \in X : G[<<i, S>>] = WithId(f, S, d.logicIds[i])
  <2> HIDE DEF X, k
  <2> QED
    OBVIOUS
<1>5. Matching(f, d) = c[k]
  BY DEF Matching
<1>6. k \in Nat
  OBVIOUS
<1> HIDE DEF X, G, c, k
<1>7. PICK g : RunsTo(Naming(f, d), G, X, k, g)
  BY <1>1, <1>3, <1>6, LoopEnds DEF IsLoopTo
<1>8. \A i \in 0..k : i = 0 \/ (i \in 1..k /\ i - 1 \in 0..k)
  BY <1>6
<1>9. \A i \in 1..k : G[<<i, g[i - 1]>>] = WithId(f, g[i - 1], d.logicIds[i])
  BY <1>4, <1>7, <1>8 DEF RunsTo
<1>10. Rule(g)
  BY <1>7, <1>8, <1>9 DEF RunsTo, Loops
<1>11. Rule(c)
  <2> HIDE DEF Rule
  <2> QED
    BY <1>10 DEF c
<1>12. c[0] = Naming(f, d)
  BY <1>6, <1>11
<1>13. ASSUME NEW i \in 1..k PROVE c[i] = WithId(f, c[i - 1], d.logicIds[i])
  <2>1. i \in 0..k /\ i # 0
    BY <1>6
  <2> QED
    BY <1>11, <2>1
<1> QED
  BY <1>5, <1>12, <1>13 DEF Loop, k

\* The logics that a definition gets: those that name it, and one for each of
\* its ids that a logic has.
LEMMA MatchingPlaces ==
    ASSUME NEW f, NEW d, Len(f.logics) \in Nat, Len(d.logicIds) \in Nat
    PROVE  /\ Places(Matching(f, d), Len(f.logics))
           /\ \A i \in 1..Len(f.logics) : IsNamed(f, d, i) => i \in ToSet(Matching(f, d))
           /\ \A j \in 1..Len(d.logicIds) :
                 (\E i \in 1..Len(f.logics) : f.logics[i].id = d.logicIds[j]) =>
                    \E p \in ToSet(Matching(f, d)) : f.logics[p].id = d.logicIds[j]
<1> DEFINE k == Len(d.logicIds)
           m == Len(f.logics)
           HasId(j) == \E i \in 1..m : f.logics[i].id = d.logicIds[j]
           Found(q, j) == \E p \in ToSet(q) : f.logics[p].id = d.logicIds[j]
<1>1. PICK c : /\ Loop(c, k, Naming(f, d), Matching(f, d))
               /\ \A i \in 1..k : c[i] = WithId(f, c[i - 1], d.logicIds[i])
  BY MatchingIs
<1>2. k \in Nat /\ m \in Nat
  OBVIOUS
<1>3. ASSUME NEW q, Places(q, m), NEW j
      PROVE  /\ Places(WithId(f, q, d.logicIds[j]), m)
             /\ ToSet(q) \subseteq ToSet(WithId(f, q, d.logicIds[j]))
             /\ HasId(j) => Found(WithId(f, q, d.logicIds[j]), j)
  BY <1>3, WithIdPlaces
<1>4. /\ Places(Naming(f, d), m)
      /\ \A i \in 1..m : IsNamed(f, d, i) => i \in ToSet(Naming(f, d))
  BY NamingPlaces
<1>5. ASSUME NEW q, NEW r, ToSet(q) \subseteq ToSet(r), NEW j, Found(q, j) PROVE Found(r, j)
  BY <1>5
<1> HIDE DEF k, m, HasId, Found
<1> DEFINE T == {i \in 0..k : /\ Places(c[i], m)
                              /\ ToSet(Naming(f, d)) \subseteq ToSet(c[i])
                              /\ \A j \in 1..i : HasId(j) => Found(c[i], j)}
<1>6. 0 \in T
  <2>1. c[0] = Naming(f, d) /\ 1..0 = {} /\ 0 \in 0..k
    BY <1>1, <1>2 DEF Loop
  <2> QED
    BY <1>4, <2>1
<1>7. ASSUME NEW i \in 1..k, i - 1 \in T PROVE i \in T
  <2>1. /\ Places(c[i - 1], m) /\ ToSet(Naming(f, d)) \subseteq ToSet(c[i - 1])
        /\ \A j \in 1..(i - 1) : HasId(j) => Found(c[i - 1], j)
    BY <1>7
  <2>2. c[i] = WithId(f, c[i - 1], d.logicIds[i])
    BY <1>1
  <2>3. i \in 0..k /\ \A j \in 1..i : j \in 1..(i - 1) \/ j = i
    BY <1>2
  <2>4. /\ Places(c[i], m) /\ ToSet(c[i - 1]) \subseteq ToSet(c[i])
        /\ HasId(i) => Found(c[i], i)
    BY <1>3, <2>1, <2>2
  <2>5. ASSUME NEW j \in 1..i, HasId(j) PROVE Found(c[i], j)
    <3>1. CASE j \in 1..(i - 1)
      BY <1>5, <2>1, <2>4, <2>5, <3>1
    <3>2. CASE j = i
      BY <2>4, <2>5, <3>2
    <3> QED
      BY <2>3, <3>1, <3>2
  <2> QED
    BY <2>1, <2>3, <2>4, <2>5
<1>8. \A i \in 0..k : i \in T
  <2> HIDE DEF T
  <2> QED
    BY <1>2, <1>6, <1>7, PlacesInduction
<1>9. k \in T /\ Matching(f, d) = c[k]
  BY <1>1, <1>2, <1>8 DEF Loop
<1> QED
  BY <1>4, <1>9 DEF k, m, HasId, Found

AreConverted(f, q) == Len(q) \in Nat /\ \A i \in 1..Len(q) : Len(L4Steps(f, q[i])) \in Nat

DefinitionsLoop(c, R, f, q) ==
    /\ Loop(c, Len(q), R, SaveDefinitions(R, f, q))
    /\ \A i \in 1..Len(q) : c[i] = SaveAll(c[i - 1], q[i].name, L4Steps(f, q[i]))

LEMMA SaveDefinitionsIs ==
    ASSUME NEW R, NEW f, NEW q, AreConverted(f, q)
    PROVE  \E c : DefinitionsLoop(c, R, f, q)
<1>0. Len(q) \in Nat /\ \A i \in 1..Len(q) : Len(L4Steps(f, q[i])) \in Nat
  BY DEF AreConverted
<1> DEFINE k == Len(q)
           Y == R \cup {Row(q[p[1]].name, L4Steps(f, q[p[1]])[p[2]]) : p \in (1..k) \X Nat}
           X == SUBSET Y
           G == [p \in (1..k) \X X |-> SaveAll(p[2], q[p[1]].name, L4Steps(f, q[p[1]]))]
           Rule(g) == g = [i \in 0..k |->
                              IF i = 0 THEN R
                              ELSE SaveAll(g[i - 1], q[i].name, L4Steps(f, q[i]))]
           c == CHOOSE g : Rule(g)
<1>1. R \in X
  OBVIOUS
<1>2. ASSUME NEW i \in 1..k, NEW S \in X
      PROVE  SaveAll(S, q[i].name, L4Steps(f, q[i])) \in X
  <2>1. \A j \in Nat : Row(q[i].name, L4Steps(f, q[i])[j]) \in Y
    <3> TAKE j \in Nat
    <3>1. <<i, j>> \in (1..k) \X Nat
      OBVIOUS
    <3> QED
      BY <3>1
  <2>2. S \subseteq Y
    OBVIOUS
  <2> HIDE DEF Y
  <2> QED
    BY <1>0, <2>1, <2>2, SaveAllWithin
<1>3. G \in [(1..k) \X X -> X]
  <2> HIDE DEF X
  <2> QED
    BY <1>2
<1>4. \A i \in 1..k, S \in X : G[<<i, S>>] = SaveAll(S, q[i].name, L4Steps(f, q[i]))
  <2> HIDE DEF X
  <2> QED
    OBVIOUS
<1>5. SaveDefinitions(R, f, q) = c[k]
  BY DEF SaveDefinitions
<1>6. k \in Nat
  BY <1>0
<1> HIDE DEF X, G, c, k
<1>7. PICK g : RunsTo(R, G, X, k, g)
  BY <1>1, <1>3, <1>6, LoopEnds DEF IsLoopTo
<1>8. \A i \in 0..k : i = 0 \/ (i \in 1..k /\ i - 1 \in 0..k)
  BY <1>6
<1>9. \A i \in 1..k : G[<<i, g[i - 1]>>] = SaveAll(g[i - 1], q[i].name, L4Steps(f, q[i]))
  BY <1>4, <1>7, <1>8 DEF RunsTo
<1>10. Rule(g)
  BY <1>7, <1>8, <1>9 DEF RunsTo, Loops
<1>11. Rule(c)
  <2> HIDE DEF Rule
  <2> QED
    BY <1>10 DEF c
<1>12. c[0] = R
  BY <1>6, <1>11
<1>13. ASSUME NEW i \in 1..k
       PROVE  c[i] = SaveAll(c[i - 1], q[i].name, L4Steps(f, q[i]))
  <2>1. i \in 0..k /\ i # 0
    BY <1>6
  <2> QED
    BY <1>11, <2>1
<1> QED
  BY <1>5, <1>12, <1>13 DEF DefinitionsLoop, Loop, k
-----------------------------------------------------------------------------
\* What the loops save.
LEMMA SaveAllKeeps ==
    ASSUME NEW R, NEW n, NEW q, Len(q) \in Nat
    PROVE  Kept(R, n, SaveAll(R, n, q)) /\ (Sound(R) => Sound(SaveAll(R, n, q)))
<1>1. /\ Kept(R, n, SaveFirst(R, n, q, Len(q)))
      /\ Sound(R) => Sound(SaveFirst(R, n, q, Len(q)))
  BY SavedRows
<1> QED
  BY <1>1 DEF SaveAll

\* The places of an id in the logics of a definition.
OrdersOf(q, n, x) ==
    UNION {{j - 1 : j \in {k \in DOMAIN m.steps : m.steps[k].id = x}} :
              m \in {m \in ToSet(q) : m.definition = n}}

LEMMA PlacedSteps ==
    ASSUME NEW q, IsList(q)
    PROVE  /\ Len(Placed(q)) = Len(q) /\ Len(q) \in Nat /\ DOMAIN q = 1..Len(q)
           /\ \A i \in 1..Len(q) : Placed(q)[i].id = q[i].id /\ Placed(q)[i].order = i - 1
<1>1. q \in Seq(ToSet(q))
  BY DEF IsList
<1>2. Len(q) \in Nat /\ DOMAIN q = 1..Len(q)
  BY <1>1
<1>3. DOMAIN Placed(q) = 1..Len(q)
  BY <1>2 DEF Placed
<1>4. Len(Placed(q)) = Len(q)
  <2>1. Placed(q) \in Seq({Placed(q)[i] : i \in 1..Len(q)})
    <3>1. Placed(q) = [i \in 1..Len(q) |-> Placed(q)[i]]
      BY <1>2 DEF Placed
    <3> HIDE DEF Placed
    <3> QED
      BY <1>2, <1>3, <3>1
  <2> QED
    BY <1>2, <1>3, <2>1
<1>5. \A i \in 1..Len(q) : Placed(q)[i].id = q[i].id /\ Placed(q)[i].order = i - 1
  BY <1>2 DEF Placed
<1> QED
  BY <1>2, <1>4, <1>5

LEMMA PlacedStorable ==
    ASSUME NEW q, IsList(q), NEW i \in 1..Len(q), q[i].id # Absent
    PROVE  Storable(Placed(q)[i]) /\ Given(Placed(q)[i].order, 0) = i - 1
<1>1. Placed(q)[i].id = q[i].id
  BY PlacedSteps
<1>2. Placed(q)[i].order = i - 1 /\ i - 1 \in Nat
  <2>1. Len(q) \in Nat
    BY PlacedSteps
  <2> QED
    BY <2>1, PlacedSteps
<1>3. i - 1 # Absent /\ i - 1 # NotANumber
  BY <1>2, TransferAssumption
<1> QED
  BY <1>1, <1>2, <1>3 DEF Storable, Given

AreLogics(q) == IsList(q) /\ \A l \in ToSet(q) : IsList(l.steps)

LEMMA SaveLogicsSaves ==
    ASSUME NEW R, NEW n, NEW q, AreLogics(q)
    PROVE  /\ Kept(R, n, SaveLogics(R, n, q))
           /\ Sound(R) => Sound(SaveLogics(R, n, q))
           /\ \A l \in ToSet(q) : l.definition = n =>
                 \A i \in DOMAIN l.steps : l.steps[i].id # Absent =>
                    Has(SaveLogics(R, n, q), n, l.steps[i].id, OrdersOf(q, n, l.steps[i].id))
<1> DEFINE k == Len(q)
<1>1. IsList(q) /\ \A l \in ToSet(q) : IsList(l.steps)
  BY DEF AreLogics
<1>2. k \in Nat /\ DOMAIN q = 1..k
  <2>1. q \in Seq(ToSet(q))
    BY <1>1 DEF IsList
  <2> QED
    BY <2>1
<1> HIDE DEF k
<1>3. \A i \in 1..k : q[i] \in ToSet(q) /\ IsList(q[i].steps)
  BY <1>1, <1>2 DEF ToSet
<1>4. \A i \in 1..k : /\ Len(Placed(q[i].steps)) \in Nat
                      /\ Len(Placed(q[i].steps)) = Len(q[i].steps)
                      /\ DOMAIN q[i].steps = 1..Len(q[i].steps)
  BY <1>3, PlacedSteps
<1>5. PICK c : /\ Loop(c, k, R, SaveLogics(R, n, q))
               /\ \A i \in 1..k : c[i] = LogicStep(c[i - 1], n, q[i])
  <2>1. Len(q) \in Nat
    BY <1>2 DEF k
  <2>2. \A i \in 1..Len(q) : Len(Placed(q[i].steps)) \in Nat
    BY <1>4 DEF k
  <2>3. \E c : LogicsLoop(c, R, n, q)
    BY <2>1, <2>2, SaveLogicsIs DEF AreCounted
  <2> QED
    BY <2>3 DEF k, LogicsLoop
<1>6. c[0] = R /\ SaveLogics(R, n, q) = c[k]
  BY <1>5 DEF Loop
<1>7. \A i \in 1..k : /\ Kept(c[i - 1], n, c[i])
                      /\ Sound(c[i - 1]) => Sound(c[i])
  <2> TAKE i \in 1..k
  <2>1. CASE q[i].definition = n
    BY <1>4, <1>5, <2>1, SaveAllKeeps DEF LogicStep
  <2>2. CASE q[i].definition # n
    BY <1>5, <2>2 DEF LogicStep, Kept
  <2> QED
    BY <2>1, <2>2
<1>8. Kept(R, n, c[k]) /\ (Sound(R) => Sound(c[k]))
  <2> DEFINE T == {i \in 0..k : Kept(R, n, c[i]) /\ (Sound(R) => Sound(c[i]))}
  <2>1. 0 \in T
    BY <1>2, <1>6 DEF Kept
  <2>2. ASSUME NEW i \in 1..k, i - 1 \in T PROVE i \in T
    <3>1. Kept(R, n, c[i]) /\ (Sound(R) => Sound(c[i]))
      BY <1>7, <2>2 DEF Kept
    <3> QED
      BY <1>2, <3>1
  <2>3. \A i \in 0..k : i \in T
    <3> HIDE DEF T
    <3> QED
      BY <1>2, <2>1, <2>2, PlacesInduction
  <2> QED
    BY <1>2, <2>3
<1>9. ASSUME NEW l \in ToSet(q), l.definition = n, NEW a \in DOMAIN l.steps, l.steps[a].id # Absent
      PROVE  Has(c[k], n, l.steps[a].id, OrdersOf(q, n, l.steps[a].id))
  <2> DEFINE x == l.steps[a].id
             P == OrdersOf(q, n, x)
  <2>1. PICK p \in 1..k : q[p] = l
    BY <1>2 DEF ToSet
  <2>2. ASSUME NEW i \in 1..k, q[i].definition = n, NEW j \in 1..Len(q[i].steps),
               Placed(q[i].steps)[j].id = x
        PROVE  Storable(Placed(q[i].steps)[j]) /\ Given(Placed(q[i].steps)[j].order, 0) \in P
    <3>1. q[i].steps[j].id = x
      BY <1>3, <2>2, PlacedSteps
    <3>2. Storable(Placed(q[i].steps)[j]) /\ Given(Placed(q[i].steps)[j].order, 0) = j - 1
      BY <1>3, <1>9, <3>1, PlacedStorable
    <3>3. j \in {b \in DOMAIN q[i].steps : q[i].steps[b].id = x}
      BY <1>4, <3>1
    <3>4. q[i] \in {m \in ToSet(q) : m.definition = n}
      BY <1>3, <2>2
    <3>5. j - 1 \in P
      BY <3>3, <3>4 DEF OrdersOf
    <3> QED
      BY <3>2, <3>5
  <2> HIDE DEF x, P
  <2>3. ASSUME NEW i \in 1..k, q[i].definition = n,
               Has(c[i - 1], n, x, P) \/ \E j \in 1..Len(q[i].steps) : Placed(q[i].steps)[j].id = x
        PROVE  Has(c[i], n, x, P)
    <3>1. Len(Placed(q[i].steps)) \in Nat /\ Len(Placed(q[i].steps)) = Len(q[i].steps)
      BY <1>4
    <3>2. Has(SaveFirst(c[i - 1], n, Placed(q[i].steps), Len(Placed(q[i].steps))), n, x, P)
      BY <2>2, <2>3, <3>1, SavedId
    <3>3. c[i] = SaveAll(c[i - 1], n, Placed(q[i].steps))
      BY <1>5, <2>3 DEF LogicStep
    <3> QED
      BY <3>2, <3>3 DEF SaveAll
  <2>4. \A i \in 1..k : q[i].definition # n => c[i] = c[i - 1]
    BY <1>5 DEF LogicStep
  <2>5. Has(c[p], n, x, P)
    <3>1. Placed(q[p].steps)[a].id = x /\ a \in 1..Len(q[p].steps)
      BY <1>3, <1>4, <1>9, <2>1, PlacedSteps DEF x
    <3> QED
      BY <1>9, <2>1, <2>3, <3>1
  <2> DEFINE T == {i \in 0..k : i >= p => Has(c[i], n, x, P)}
  <2>6. 0 \in T
    BY <1>2
  <2>7. ASSUME NEW i \in 1..k, i - 1 \in T PROVE i \in T
    <3>1. CASE i = p
      BY <1>2, <2>5, <3>1
    <3>2. CASE i > p
      <4>1. Has(c[i - 1], n, x, P)
        BY <2>7, <3>2
      <4>2. Has(c[i], n, x, P)
        BY <2>3, <2>4, <4>1
      <4> QED
        BY <1>2, <4>2
    <3>3. CASE i < p
      BY <1>2, <3>3
    <3> QED
      BY <3>1, <3>2, <3>3
  <2>8. \A i \in 0..k : i \in T
    <3> HIDE DEF T
    <3> QED
      BY <1>2, <2>6, <2>7, PlacesInduction
  <2>9. Has(c[k], n, x, P)
    BY <1>2, <2>8
  <2> QED
    BY <2>9 DEF x, P
<1> QED
  BY <1>6, <1>8, <1>9
IsL4(f) ==
    /\ IsList(f.definitions) /\ IsList(f.logics)
    /\ \A d \in ToSet(f.definitions) : IsList(d.logicIds)

\* A definition gets the logics that name it and those that it names.
Gets(d, l) ==
    \/ l.definition # Absent /\ l.definition = d.id
    \/ l.id # Absent /\ l.id \in ToSet(d.logicIds)

LEMMA ListIs ==
    ASSUME NEW q, IsList(q)
    PROVE  Len(q) \in Nat /\ DOMAIN q = 1..Len(q) /\ \A i \in 1..Len(q) : q[i] \in ToSet(q)
<1>1. q \in Seq(ToSet(q))
  BY DEF IsList
<1> QED
  BY <1>1

LEMMA ConvertedStorable ==
    ASSUME NEW l, NEW i \in Nat, i # 0
    PROVE  /\ Converted(l, i).id = Given(l.id, "")
           /\ Storable(Converted(l, i)) /\ Given(Converted(l, i).order, 0) = i - 1
<1>1. Converted(l, i).id = Given(l.id, "") /\ Converted(l, i).order = i - 1
  BY DEF Converted
<1>2. i - 1 \in Nat
  OBVIOUS
<1>3. i - 1 # Absent /\ i - 1 # NotANumber /\ Given(l.id, "") # Absent
  BY <1>2, TransferAssumption DEF Given
<1> QED
  BY <1>1, <1>3 DEF Storable, Given

\* One step for each logic that the definition gets, with the logic's place
\* among them.
LEMMA L4StepsAre ==
    ASSUME NEW f, NEW d, IsList(f.logics), IsList(d.logicIds)
    PROVE  /\ Len(L4Steps(f, d)) \in Nat /\ Len(L4Steps(f, d)) <= Len(f.logics)
           /\ \A i \in 1..Len(L4Steps(f, d)) :
                 L4Steps(f, d)[i] = Converted(f.logics[Matching(f, d)[i]], i)
           /\ DOMAIN Matching(f, d) = 1..Len(L4Steps(f, d))
<1> DEFINE q == Matching(f, d)
<1>1. Len(f.logics) \in Nat /\ Len(d.logicIds) \in Nat
  BY ListIs
<1>2. Places(q, Len(f.logics))
  BY <1>1, MatchingPlaces
<1> HIDE DEF q
<1>3. Len(q) \in Nat /\ Len(q) <= Len(f.logics)
  BY <1>1, <1>2, PlacesFit
<1>4. DOMAIN q = 1..Len(q)
  BY <1>2 DEF Places
<1>5. L4Steps(f, d) = [i \in 1..Len(q) |-> Converted(f.logics[q[i]], i)]
  BY <1>4 DEF L4Steps, q
<1>6. Len(L4Steps(f, d)) = Len(q)
  BY <1>3, <1>5
<1> QED
  BY <1>3, <1>4, <1>5, <1>6 DEF q

HasStep(q, x) == \E i \in 1..Len(q) : q[i].id = x

LEMMA L4StepsHave ==
    ASSUME NEW f, NEW d, IsList(f.logics), IsList(d.logicIds), NEW l \in ToSet(f.logics), Gets(d, l)
    PROVE  HasStep(L4Steps(f, d), Given(l.id, ""))
<1>1. /\ Len(f.logics) \in Nat /\ DOMAIN f.logics = 1..Len(f.logics)
      /\ Len(d.logicIds) \in Nat /\ DOMAIN d.logicIds = 1..Len(d.logicIds)
  BY ListIs
<1>2. PICK p \in 1..Len(f.logics) : f.logics[p] = l
  BY <1>1 DEF ToSet
<1>3. \E p1 \in ToSet(Matching(f, d)) : f.logics[p1].id = l.id
  <2>1. CASE l.definition # Absent /\ l.definition = d.id
    <3>1. IsNamed(f, d, p)
      BY <1>2, <2>1 DEF IsNamed
    <3>2. p \in ToSet(Matching(f, d))
      BY <1>1, <3>1, MatchingPlaces
    <3> QED
      BY <1>2, <3>2
  <2>2. CASE l.id # Absent /\ l.id \in ToSet(d.logicIds)
    <3>1. PICK j \in 1..Len(d.logicIds) : d.logicIds[j] = l.id
      BY <1>1, <2>2 DEF ToSet
    <3>2. \E i \in 1..Len(f.logics) : f.logics[i].id = d.logicIds[j]
      BY <1>2, <3>1
    <3>3. \E p1 \in ToSet(Matching(f, d)) : f.logics[p1].id = d.logicIds[j]
      BY <1>1, <3>2, MatchingPlaces
    <3> QED
      BY <3>1, <3>3
  <2> QED
    BY <2>1, <2>2 DEF Gets
<1>4. PICK p1 \in ToSet(Matching(f, d)) : f.logics[p1].id = l.id
  BY <1>3
<1>5. /\ Len(L4Steps(f, d)) \in Nat
      /\ DOMAIN Matching(f, d) = 1..Len(L4Steps(f, d))
      /\ \A i \in 1..Len(L4Steps(f, d)) :
            L4Steps(f, d)[i] = Converted(f.logics[Matching(f, d)[i]], i)
  BY L4StepsAre
<1>6. PICK i \in 1..Len(L4Steps(f, d)) : Matching(f, d)[i] = p1
  BY <1>4, <1>5 DEF ToSet
<1>7. i \in Nat /\ i # 0
  BY <1>5
<1>8. L4Steps(f, d)[i].id = Given(f.logics[p1].id, "")
  BY <1>5, <1>6, <1>7, ConvertedStorable
<1> QED
  BY <1>4, <1>8 DEF HasStep

Unnamed(q, n) == \A i \in 1..Len(q) : q[i].name # n

Once(q, i) == \A j \in 1..Len(q) : j # i => q[j].name # q[i].name

LEMMA SaveDefinitionsSaves ==
    ASSUME NEW R, NEW f, IsL4(f), NEW q, q \in Seq(ToSet(f.definitions))
    PROVE  /\ \A r \in R : Unnamed(q, r.group) => r \in SaveDefinitions(R, f, q)
           /\ Sound(R) => Sound(SaveDefinitions(R, f, q))
           /\ \A i \in 1..Len(q) : Once(q, i) =>
                 \A l \in ToSet(f.logics) : Gets(q[i], l) =>
                    Has(SaveDefinitions(R, f, q), q[i].name, Given(l.id, ""), 0..(Len(f.logics) - 1))
<1> DEFINE k == Len(q)
           m == Len(f.logics)
<1>1. IsList(f.logics) /\ \A d \in ToSet(f.definitions) : IsList(d.logicIds)
  BY DEF IsL4
<1>2. k \in Nat /\ \A i \in 1..k : q[i] \in ToSet(f.definitions)
  OBVIOUS
<1>3. m \in Nat
  BY <1>1, ListIs
<1>4. \A i \in 1..k : IsList(q[i].logicIds)
  BY <1>1, <1>2
<1>5. \A i \in 1..k : Len(L4Steps(f, q[i])) \in Nat
  BY <1>1, <1>4, L4StepsAre
<1>6. PICK c : DefinitionsLoop(c, R, f, q)
  BY <1>2, <1>5, SaveDefinitionsIs DEF AreConverted
<1>7. /\ c[0] = R /\ SaveDefinitions(R, f, q) = c[k]
      /\ \A i \in 1..k : c[i] = SaveAll(c[i - 1], q[i].name, L4Steps(f, q[i]))
  BY <1>6 DEF DefinitionsLoop, Loop
<1> HIDE DEF k, m
<1>8. \A i \in 1..k : Kept(c[i - 1], q[i].name, c[i]) /\ (Sound(c[i - 1]) => Sound(c[i]))
  BY <1>5, <1>7, SaveAllKeeps
<1>9. ASSUME NEW r \in R, Unnamed(q, r.group) PROVE r \in c[k]
  <2> DEFINE T == {i \in 0..k : r \in c[i]}
  <2>1. 0 \in T
    BY <1>2, <1>7
  <2>2. ASSUME NEW i \in 1..k, i - 1 \in T PROVE i \in T
    <3>1. r.group # q[i].name
      BY <1>9 DEF Unnamed, k
    <3>2. r \in c[i]
      BY <1>8, <2>2, <3>1 DEF Kept
    <3> QED
      BY <1>2, <3>2
  <2>3. \A i \in 0..k : i \in T
    <3> HIDE DEF T
    <3> QED
      BY <1>2, <2>1, <2>2, PlacesInduction
  <2> QED
    BY <1>2, <2>3
<1>10. ASSUME Sound(R) PROVE Sound(c[k])
  <2> DEFINE T == {i \in 0..k : Sound(c[i])}
  <2>1. 0 \in T
    BY <1>2, <1>7, <1>10
  <2>2. \A i \in 1..k : i - 1 \in T => i \in T
    BY <1>2, <1>8
  <2>3. \A i \in 0..k : i \in T
    <3> HIDE DEF T
    <3> QED
      BY <1>2, <2>1, <2>2, PlacesInduction
  <2> QED
    BY <1>2, <2>3
<1>11. ASSUME NEW p \in 1..k, Once(q, p), NEW l \in ToSet(f.logics), Gets(q[p], l)
       PROVE  Has(c[k], q[p].name, Given(l.id, ""), 0..(m - 1))
  <2> DEFINE x == Given(l.id, "")
             P == 0..(m - 1)
             n == q[p].name
             s == L4Steps(f, q[p])
  <2>1. ASSUME NEW i \in 1..Len(s) PROVE Storable(s[i]) /\ Given(s[i].order, 0) \in P
    <3>1. /\ Len(s) \in Nat /\ Len(s) <= Len(f.logics)
          /\ s[i] = Converted(f.logics[Matching(f, q[p])[i]], i)
      BY <1>1, <1>4, L4StepsAre
    <3> HIDE DEF s
    <3>2. i \in Nat /\ i # 0
      BY <3>1
    <3>3. Storable(s[i]) /\ Given(s[i].order, 0) = i - 1
      BY <3>1, <3>2, ConvertedStorable
    <3>4. i - 1 \in P
      BY <1>3, <3>1, <3>2 DEF m
    <3> QED
      BY <3>3, <3>4
  <2>2. \E i \in 1..Len(s) : s[i].id = x
    <3>1. IsList(f.logics) /\ IsList(q[p].logicIds)
      BY <1>1, <1>4
    <3>2. HasStep(L4Steps(f, q[p]), Given(l.id, ""))
      BY <1>11, <3>1, L4StepsHave
    <3> QED
      BY <3>2 DEF HasStep
  <2>3. c[p] = SaveAll(c[p - 1], n, s)
    BY <1>7
  <2>4. Len(s) \in Nat
    BY <1>5
  <2>5. \A i \in 1..k : i # p => q[i].name # n
    BY <1>11 DEF Once, k
  <2> HIDE DEF x, P, n, s
  <2>6. Has(c[p], n, x, P)
    <3>1. Has(SaveFirst(c[p - 1], n, s, Len(s)), n, x, P)
      BY <2>1, <2>2, <2>4, SavedId
    <3> QED
      BY <2>3, <3>1 DEF SaveAll
  <2> DEFINE T == {i \in 0..k : i >= p => Has(c[i], n, x, P)}
  <2>7. 0 \in T
    BY <1>2
  <2>8. ASSUME NEW i \in 1..k, i - 1 \in T PROVE i \in T
    <3>1. CASE i = p
      BY <1>2, <2>6, <3>1
    <3>2. CASE i > p
      <4>1. Has(c[i - 1], n, x, P)
        BY <2>8, <3>2
      <4>2. q[i].name # n
        BY <2>5, <3>2
      <4>3. Has(c[i], n, x, P)
        BY <1>8, <4>1, <4>2 DEF Has, Kept
      <4> QED
        BY <1>2, <4>3
    <3>3. CASE i < p
      BY <1>2, <3>3
    <3> QED
      BY <3>1, <3>2, <3>3
  <2>9. \A i \in 0..k : i \in T
    <3> HIDE DEF T
    <3> QED
      BY <1>2, <2>7, <2>8, PlacesInduction
  <2>10. Has(c[k], n, x, P)
    BY <1>2, <2>9
  <2> QED
    BY <2>10 DEF x, P, n
<1> QED
  BY <1>7, <1>9, <1>10, <1>11 DEF k, m
-----------------------------------------------------------------------------
\* Phase 2 files.
AllImported(q) == [i \in DOMAIN q |-> Imported(q[i])]

LEMMA ImportedSteps ==
    ASSUME NEW q, IsList(q)
    PROVE  /\ Len(AllImported(q)) = Len(q) /\ Len(q) \in Nat
           /\ \A i \in 1..Len(q) : AllImported(q)[i] = Imported(q[i])
<1>1. Len(q) \in Nat /\ DOMAIN q = 1..Len(q)
  BY ListIs
<1>2. AllImported(q) = [i \in 1..Len(q) |-> Imported(q[i])]
  BY <1>1 DEF AllImported
<1> QED
  BY <1>1, <1>2

LEMMA ImportedKey ==
    ASSUME NEW st
    PROVE  Imported(st).id = st.id /\ Imported(st).order = st.order
  BY DEF Imported

LEMMA SaveImported ==
    ASSUME NEW R, NEW n, NEW q, IsList(q), NEW i \in 1..Len(q), Wins(q, i)
    PROVE  Row(n, Imported(q[i])) \in SaveAll(R, n, AllImported(q))
<1> DEFINE k == Len(q)
           a == AllImported(q)
<1>1. Len(a) = k /\ k \in Nat
  BY ImportedSteps
<1>2. ASSUME NEW j \in 1..k PROVE a[j] = Imported(q[j]) /\ a[j].id = q[j].id /\ a[j].order = q[j].order
  <2>1. a[j] = Imported(q[j])
    BY ImportedSteps
  <2> HIDE DEF a
  <2> QED
    BY <2>1, ImportedKey
<1>3. Storable(q[i]) /\ \A j \in (i + 1)..k : q[j].id # q[i].id
  BY DEF Wins
<1>4. i \in 1..k
  OBVIOUS
<1> HIDE DEF k, a
<1>5. Storable(a[i])
  BY <1>2, <1>3, <1>4 DEF Storable
<1>6. \A j \in (i + 1)..k : j \in 1..k
  BY <1>1, <1>4
<1>7. \A j \in (i + 1)..k : a[j].id # a[i].id
  BY <1>2, <1>3, <1>4, <1>6
<1>8. Stands(n, a, k, SaveFirst(R, n, a, k))
  BY <1>1, SavedRows
<1>9. Row(n, a[i]) \in SaveFirst(R, n, a, k)
  BY <1>4, <1>5, <1>7, <1>8 DEF Stands
<1>10. a[i] = Imported(q[i])
  BY <1>2, <1>4
<1> QED
  BY <1>1, <1>9, <1>10 DEF SaveAll, a

-----------------------------------------------------------------------------
\* What an import adds.
New(gs, more) == {g.name : g \in more \ gs}

LEMMA NewGroup ==
    ASSUME NEW gs, NEW s, NEW n, NEW h, ~Taken(gs, s, n)
    PROVE  New(gs, gs \cup {Group(s, n, h)}) = {n}
<1>1. Group(s, n, h).space = s /\ Group(s, n, h).name = n
  BY DEF Group
<1>2. Group(s, n, h) \notin gs
  BY <1>1 DEF Taken
<1> QED
  BY <1>1, <1>2 DEF New

LEMMA Phase2Whole ==
    ASSUME NEW f, NEW s, ImportPhase2(f, s), IsList(f.steps)
    PROVE  /\ New(groups, groups') = {f.name}
           /\ WholePhase2(f, f.name)
           /\ \A r \in steps : r.group # f.name => r \in steps'
<1>1. /\ ~Taken(groups, s, f.name)
      /\ groups' = groups \cup {Group(s, f.name, NormalHead(f.head))}
      /\ steps' = SaveAll(steps, f.name, AllImported(f.steps))
  BY DEF ImportPhase2, AllImported
<1>2. New(groups, groups') = {f.name}
  BY <1>1, NewGroup
<1> DEFINE q == f.steps
           n == f.name
<1>3. Len(AllImported(q)) \in Nat /\ Len(q) \in Nat
  BY ImportedSteps
<1>4. \A r \in steps : r.group # n => r \in steps'
  BY <1>1, <1>3, SaveAllKeeps DEF Kept
<1>5. DOMAIN q = 1..Len(q) /\ IsList(q)
  BY ListIs
<1>6. ASSUME NEW i \in DOMAIN q, Wins(q, i)
      PROVE  Stored(n, q[i].id, {Given(q[i].order, 0)})
  <2>1. Row(n, Imported(q[i])) \in steps'
    BY <1>1, <1>5, <1>6, SaveImported
  <2> HIDE DEF q, n
  <2> DEFINE r == Row(n, Imported(q[i]))
  <2>2. r.group = n /\ r.id = Imported(q[i]).id
    BY RowKey
  <2>3. r.order = Given(Imported(q[i]).order, 0)
    BY RowOrder
  <2>4. Imported(q[i]).id = q[i].id /\ Imported(q[i]).order = q[i].order
    BY ImportedKey
  <2> HIDE DEF r
  <2> QED
    BY <2>1, <2>2, <2>3, <2>4 DEF Stored, r
<1>7. WholePhase2(f, n)
  BY <1>6 DEF WholePhase2
<1> QED
  BY <1>2, <1>4, <1>7

LEMMA LegacyWhole ==
    ASSUME NEW f, NEW s, ImportLegacy(f, s), AreLogics(f.logics)
    PROVE  \E n : /\ New(groups, groups') = {n}
                  /\ WholeLegacy(f, n)
                  /\ \A r \in steps : r.group # n => r \in steps'
<1> DEFINE d == f.definitions[1]
           n == d.name
           h == [d.head EXCEPT !.enabled = TRUE]
<1>1. /\ ~Taken(groups, s, n)
      /\ groups' = groups \cup {Group(s, n, h)}
      /\ steps' = SaveLogics(steps, n, f.logics)
  BY DEF ImportLegacy
<1> HIDE DEF h, n
<1>2. New(groups, groups') = {n}
  BY <1>1, NewGroup
<1>3. \A r \in steps : r.group # n => r \in steps'
  BY <1>1, SaveLogicsSaves DEF Kept
<1>4. ASSUME NEW l \in ToSet(f.logics), l.definition = n,
             NEW i \in DOMAIN l.steps, l.steps[i].id # Absent
      PROVE  Stored(n, l.steps[i].id, OrdersOf(f.logics, n, l.steps[i].id))
  <2>1. Has(SaveLogics(steps, n, f.logics), n, l.steps[i].id, OrdersOf(f.logics, n, l.steps[i].id))
    BY <1>4, SaveLogicsSaves
  <2> QED
    BY <1>1, <2>1 DEF Has, Stored
<1>5. WholeLegacy(f, n)
  BY <1>4 DEF WholeLegacy, OrdersOf
<1> QED
  BY <1>2, <1>3, <1>5
\* The definitions that an L4 file's import takes: the first ones, whose names
\* are new in the space and among themselves.
Fresh(f, s, q) ==
    /\ q \in Seq(ToSet(f.definitions))
    /\ \A i \in 1..Len(q) :
          /\ i \in DOMAIN f.definitions /\ q[i] = f.definitions[i]
          /\ ~Taken(groups, s, q[i].name)
          /\ \A j \in 1..(i - 1) : f.definitions[j].name # q[i].name

LEMMA AcceptedIs ==
    ASSUME NEW f, NEW s, IsList(f.definitions)
    PROVE  Fresh(f, s, Accepted(f, s))
<1> DEFINE q == f.definitions
           refused == {i \in DOMAIN q : \/ q[i].name = Absent
                                        \/ Taken(groups, s, q[i].name)
                                        \/ \E j \in 1..(i - 1) : q[j].name = q[i].name}
<1>1. q \in Seq(ToSet(q)) /\ DOMAIN q = 1..Len(q) /\ Len(q) \in Nat
  BY ListIs DEF IsList
<1>2. Accepted(f, s) = IF refused = {} THEN q ELSE SubSeq(q, 1, Min(refused) - 1)
  BY DEF Accepted
<1>3. \A i \in DOMAIN q \ refused : /\ ~Taken(groups, s, q[i].name)
                                    /\ \A j \in 1..(i - 1) : q[j].name # q[i].name
  OBVIOUS
<1>4. refused \subseteq 1..Len(q)
  BY <1>1
<1> HIDE DEF refused
<1>5. CASE refused = {}
  BY <1>1, <1>2, <1>3, <1>5 DEF Fresh
<1>6. CASE refused # {}
  <2> DEFINE m == Min(refused)
             a == SubSeq(q, 1, m - 1)
  <2>1. refused \in SUBSET Nat
    BY <1>1, <1>4
  <2>2. m \in refused /\ \A i \in refused : m <= i
    BY <1>6, <2>1, FirstPlace
  <2> HIDE DEF m
  <2>3. m \in 1..Len(q)
    BY <1>4, <2>2
  <2>4. /\ a \in Seq(ToSet(q)) /\ Len(a) = m - 1
        /\ \A i \in 1..(m - 1) : a[i] = q[i]
    <3> DEFINE D == ToSet(q)
    <3>1. q \in Seq(D)
      BY <1>1
    <3> HIDE DEF D, q
    <3> QED
      BY <1>1, <2>3, <3>1 DEF D
  <2>5. \A i \in 1..(m - 1) : i \in 1..Len(q) /\ i \notin refused
    BY <1>1, <2>1, <2>2, <2>3
  <2>6. Accepted(f, s) = a
    BY <1>2, <1>6 DEF m
  <2> HIDE DEF a, q
  <2> QED
    BY <1>1, <1>3, <2>4, <2>5, <2>6 DEF Fresh, q
<1> QED
  BY <1>5, <1>6

Added(s, D) == {Group(s, d.name, L4Head(d)) : d \in D}

NamesOf(D) == {d.name : d \in D}

Unused(gs, s, D) == \A d \in D : ~Taken(gs, s, d.name)

LEMMA NewGroups ==
    ASSUME NEW gs, NEW s, NEW D, Unused(gs, s, D)
    PROVE  New(gs, gs \cup Added(s, D)) = NamesOf(D)
<1>1. \A d \in D : Group(s, d.name, L4Head(d)).space = s /\ Group(s, d.name, L4Head(d)).name = d.name
  BY DEF Group
<1>2. \A d \in D : Group(s, d.name, L4Head(d)) \notin gs
  BY <1>1 DEF Taken, Unused
<1> QED
  BY <1>1, <1>2 DEF New, Added, NamesOf

LEMMA L4Whole ==
    ASSUME NEW f, NEW s, ImportL4(f, s), IsL4(f)
    PROVE  /\ \A n \in New(groups, groups') : WholeL4(f, n)
           /\ \A r \in steps : r.group \notin New(groups, groups') => r \in steps'
<1> DEFINE q == Accepted(f, s)
           D == ToSet(q)
<1>1. /\ groups' = groups \cup Added(s, D)
      /\ steps' = SaveDefinitions(steps, f, q)
  BY DEF ImportL4, Added
<1>2. IsList(f.definitions) /\ IsList(f.logics)
  BY DEF IsL4
<1>3. Fresh(f, s, q)
  BY <1>2, AcceptedIs
<1> HIDE DEF q
<1>4. /\ q \in Seq(ToSet(f.definitions)) /\ Len(q) \in Nat /\ DOMAIN q = 1..Len(q)
      /\ DOMAIN f.definitions = 1..Len(f.definitions)
      /\ \A i \in 1..Len(q) :
            /\ i \in DOMAIN f.definitions /\ q[i] = f.definitions[i]
            /\ ~Taken(groups, s, q[i].name)
            /\ \A j \in 1..(i - 1) : f.definitions[j].name # q[i].name
  BY <1>2, <1>3, ListIs DEF Fresh
<1>5. \A d \in D : \E i \in 1..Len(q) : d = q[i]
  BY <1>4 DEF ToSet
<1>6. \A i \in 1..Len(q) : q[i] \in D
  BY <1>4 DEF ToSet
<1> HIDE DEF D
<1>7. New(groups, groups') = {d.name : d \in D}
  <2>1. Unused(groups, s, D)
    BY <1>4, <1>5 DEF Unused
  <2>2. New(groups, groups \cup Added(s, D)) = NamesOf(D)
    BY <2>1, NewGroups
  <2> QED
    BY <1>1, <2>2 DEF NamesOf
<1>8. ASSUME NEW r \in steps, r.group \notin New(groups, groups') PROVE r \in steps'
  <2>1. Unnamed(q, r.group)
    BY <1>6, <1>7, <1>8 DEF Unnamed
  <2> QED
    BY <1>1, <1>4, <2>1, SaveDefinitionsSaves
<1>9. ASSUME NEW n \in New(groups, groups') PROVE WholeL4(f, n)
  <2>1. PICK p \in 1..Len(q) : n = q[p].name
    BY <1>5, <1>7
  <2>2. Once(q, p)
    <3> SUFFICES ASSUME NEW j \in 1..Len(q), j # p, q[j].name = q[p].name PROVE FALSE
      BY DEF Once
    <3>1. q[j] = f.definitions[j] /\ q[p] = f.definitions[p]
      BY <1>4
    <3>2. j \in 1..(p - 1) \/ p \in 1..(j - 1)
      BY <1>4
    <3> QED
      BY <1>4, <3>1, <3>2
  <2>3. \A l \in ToSet(f.logics) : Gets(q[p], l) =>
           Has(SaveDefinitions(steps, f, q), q[p].name, Given(l.id, ""), 0..(Len(f.logics) - 1))
    BY <1>4, <2>2, SaveDefinitionsSaves
  <2>4. ASSUME NEW l \in ToSet(f.logics), Gets(q[p], l)
        PROVE  Stored(n, Given(l.id, ""), 0..(Len(f.logics) - 1))
    BY <1>1, <2>1, <2>3, <2>4 DEF Has, Stored
  <2>5. ASSUME NEW i \in DOMAIN f.definitions, f.definitions[i].name = n,
               \A j \in 1..(i - 1) : f.definitions[j].name # n
        PROVE  f.definitions[i] = q[p]
    <3>1. i \in 1..Len(f.definitions) /\ p \in 1..Len(f.definitions) /\ q[p] = f.definitions[p]
      BY <1>4
    <3>2. ~(p \in 1..(i - 1))
      BY <2>1, <2>5, <3>1
    <3>3. ~(i \in 1..(p - 1))
      BY <1>4, <2>1, <2>5
    <3>4. i = p
      BY <3>1, <3>2, <3>3, <1>4
    <3> QED
      BY <3>1, <3>4
  <2>6. ASSUME NEW i \in DOMAIN f.definitions, NEW l \in ToSet(f.logics),
               f.definitions[i].name = n, \A j \in 1..(i - 1) : f.definitions[j].name # n,
               Gets(f.definitions[i], l)
        PROVE  Stored(n, Given(l.id, ""), 0..(Len(f.logics) - 1))
    BY <2>4, <2>5, <2>6
  <2> QED
    BY <2>6 DEF WholeL4, Gets
<1> QED
  BY <1>8, <1>9

WholeImport(f, s) ==
    LET new == {g.name : g \in groups' \ groups}
    IN  /\ Valid(f) => new # {}
        /\ \A n \in new :
              CASE f.format = "phase2" -> WholePhase2(f, n)
                [] f.format = "legacy" -> WholeLegacy(f, n)
                [] f.format = "l4" -> WholeL4(f, n)
        /\ \A r \in steps : r.group \notin new => r \in steps'

LEMMA FileIsWhole ==
    ASSUME NEW f \in Files, NEW s, ImportFile(f, s) \/ ImportL4(f, s)
    PROVE  WholeImport(f, s)
<1> DEFINE new == New(groups, groups')
<1>1. /\ f.format = "phase2" => IsList(f.steps)
      /\ f.format \in {"legacy", "l4"} => IsList(f.definitions) /\ IsList(f.logics)
      /\ f.format = "legacy" => \A l \in ToSet(f.logics) : IsList(l.steps)
      /\ f.format = "l4" => \A d \in ToSet(f.definitions) : IsList(d.logicIds)
  BY TransferAssumption
<1>2. CASE ImportPhase2(f, s)
  <2>1. f.format = "phase2"
    BY <1>2 DEF ImportPhase2
  <2>2. new = {f.name} /\ WholePhase2(f, f.name) /\ \A r \in steps : r.group # f.name => r \in steps'
    BY <1>1, <1>2, <2>1, Phase2Whole
  <2> QED
    BY <2>1, <2>2 DEF WholeImport, New
<1>3. CASE ImportLegacy(f, s)
  <2>1. f.format = "legacy"
    BY <1>3 DEF ImportLegacy
  <2>2. AreLogics(f.logics)
    BY <1>1, <2>1 DEF AreLogics
  <2>3. PICK n : new = {n} /\ WholeLegacy(f, n) /\ \A r \in steps : r.group # n => r \in steps'
    BY <1>3, <2>2, LegacyWhole
  <2> QED
    BY <2>1, <2>3 DEF WholeImport, New
<1>4. CASE ImportL4(f, s)
  <2>1. f.format = "l4"
    BY <1>4 DEF ImportL4
  <2>2. IsL4(f)
    BY <1>1, <2>1 DEF IsL4
  <2>3. /\ \A n \in new : WholeL4(f, n)
        /\ \A r \in steps : r.group \notin new => r \in steps'
    BY <1>4, <2>2, L4Whole
  <2>4. ~Valid(f)
    BY <2>1 DEF Valid
  <2> QED
    BY <2>1, <2>3, <2>4 DEF WholeImport, New
<1> QED
  BY <1>2, <1>3, <1>4 DEF ImportFile

\* An import is whole, whatever the space had and whatever the file is of: a
\* group that it adds has every step that its file gives it.
THEOREM ImportsAreWhole == TransferSpec => ImportsWhole
<1>1. \A f \in Files, s \in Spaces : ImportFile(f, s) \/ ImportL4(f, s) => WholeImport(f, s)
  BY FileIsWhole
<1> QED
  BY <1>1, PTL DEF TransferSpec, ImportsWhole, WholeImport
-----------------------------------------------------------------------------
\* What an import brings back of an exported step.
LEMMA TestsReturn ==
    ASSUME NEW w, w.sub = Absent
    PROVE  Tests(NormalWhen(w)) = Tests(w)
<1> DEFINE t == Given(w.type, "expression")
           e == IF t \in {"all_of", "any_of"} THEN "" ELSE Given(w.expression, "")
           c == IF t = "expression" THEN {} ELSE Given(w.conditions, {})
<1>1. t # Absent
  BY TransferAssumption DEF Given
<1>2. CASE w = NoWhen
  <2>1. w.type = Absent /\ w.expression = Absent /\ t = "expression"
    BY <1>2 DEF NoWhen, Given
  <2>2. Tests(w) = <<"always", {}>>
    BY <2>1 DEF Tests
  <2>3. NormalWhen(w) = When("expression", None, {})
    BY <1>2 DEF NormalWhen
  <2>4. /\ NormalWhen(w).type = "expression" /\ NormalWhen(w).expression = None
        /\ Given(NormalWhen(w).type, "expression") = "expression"
    BY <2>3 DEF When, Given
  <2>5. Tests(NormalWhen(w)) = <<"always", {}>>
    BY <2>4 DEF Tests
  <2> QED
    BY <2>2, <2>5
<1>3. CASE w # NoWhen
  <2> DEFINE x == NormalWhen(w)
  <2>1. x = When(t, e, c)
    BY <1>3 DEF NormalWhen
  <2>2. x.type = t /\ x.expression = e /\ x.conditions = c /\ x.sub = Absent
    <3> HIDE DEF x, t, e, c
    <3> QED
      BY <2>1 DEF When
  <2>3. Given(x.type, "expression") = t
    BY <1>1, <2>2 DEF Given
  <2> DEFINE list(y) == ReadList(y.conditions, y.sub)
  <2>4. t # "expression" => list(x) = list(w)
    BY <2>2 DEF ReadList, Given
  <2> HIDE DEF x
  <2>5. CASE t = "expression"
    <3>1. e = Given(w.expression, "")
      BY <2>5
    <3>2. e \notin {Absent, None, ""} <=> w.expression \notin {Absent, None, ""}
      BY <3>1 DEF Given
    <3>3. e \notin {Absent, None, ""} => e = w.expression
      BY <3>1 DEF Given
    <3> HIDE DEF e, t
    <3>4. Tests(w) = IF w.expression \notin {Absent, None, ""} THEN <<"expression", {w.expression}>>
                                                              ELSE <<"always", {}>>
      BY <2>5 DEF Tests, t
    <3>5. Tests(x) = IF e \notin {Absent, None, ""} THEN <<"expression", {e}>> ELSE <<"always", {}>>
      BY <2>2, <2>3, <2>5 DEF Tests
    <3>6. CASE e \in {Absent, None, ""}
      BY <3>2, <3>4, <3>5, <3>6 DEF x
    <3>7. CASE e \notin {Absent, None, ""}
      <4>1. Tests(w) = <<"expression", {w.expression}>> /\ Tests(x) = <<"expression", {e}>>
        BY <3>2, <3>4, <3>5, <3>7
      <4> QED
        BY <3>3, <3>7, <4>1 DEF x
    <3> QED
      BY <3>6, <3>7
  <2>6. CASE t # "expression"
    <3>1. list(x) = list(w)
      BY <2>4, <2>6
    <3> HIDE DEF list, t
    <3>2. Tests(w) = IF t \in {"all_of", "any_of"} /\ list(w) # {} THEN <<t, list(w)>> ELSE <<"always", {}>>
      BY <2>6 DEF Tests, t, list
    <3>3. Tests(x) = IF t \in {"all_of", "any_of"} /\ list(x) # {} THEN <<t, list(x)>> ELSE <<"always", {}>>
      BY <2>3, <2>6 DEF Tests, list
    <3> QED
      BY <3>1, <3>2, <3>3 DEF x
  <2> QED
    BY <2>5, <2>6
<1> QED
  BY <1>2, <1>3

LEMMA DoesReturn ==
    ASSUME NEW a, a.camel = Absent
    PROVE  Does(NormalAction(a)) = Does(a)
<1> DEFINE x == NormalAction(a)
<1>1. /\ x.operator = Given(a.operator, "") /\ x.params = Given(a.params, Params("given", {}))
      /\ x.mapping = Given(a.mapping, {}) /\ x.camel = Absent
  BY DEF NormalAction, Action
<1>2. "" # Absent /\ Params("given", {}) # Absent
  BY TransferAssumption DEF Params
<1> HIDE DEF x
<1>3. Given(x.operator, "") = Given(a.operator, "")
  BY <1>1, <1>2 DEF Given
<1>4. Given(x.params, Params("given", {})) = Given(a.params, Params("given", {}))
  BY <1>1, <1>2 DEF Given
<1>5. ReadList(x.mapping, x.camel) = ReadList(a.mapping, a.camel)
  BY <1>1 DEF ReadList, Given
<1> QED
  BY <1>3, <1>4, <1>5 DEF Does, x

Returned(r, x) ==
    /\ x.group = r.group /\ x.id = r.id
    /\ x.order = r.order /\ x.enabled = r.enabled
    /\ r.when.sub = Absent => Tests(x.when) = Tests(r.when)
    /\ r.then.camel = Absent => Does(x.then) = Does(r.then)

LEMMA RowReturns ==
    ASSUME NEW r, SoundRow(r)
    PROVE  Returned(r, Row(r.group, Imported(r)))
<1> DEFINE y == Imported(r)
           x == Row(r.group, y)
<1>1. /\ y.id = r.id /\ y.order = r.order /\ y.enabled = r.enabled
      /\ y.when = NormalWhen(r.when) /\ y.then = NormalAction(r.then)
  BY DEF Imported
<1> HIDE DEF y
<1>2. x.group = r.group /\ x.id = y.id
  BY RowKey
<1>3. x.order = Given(y.order, 0)
  BY RowOrder
<1>4. x.enabled = Given(y.enabled, TRUE)
  BY RowEnabled
<1>5. x.when = y.when /\ x.then = y.then
  BY RowClauses
<1> HIDE DEF x
<1>6. x.order = r.order /\ x.enabled = r.enabled
  BY <1>1, <1>3, <1>4 DEF SoundRow, Given
<1>7. r.when.sub = Absent => Tests(x.when) = Tests(r.when)
  BY <1>1, <1>5, TestsReturn
<1>8. r.then.camel = Absent => Does(x.then) = Does(r.then)
  BY <1>1, <1>5, DoesReturn
<1> QED
  BY <1>1, <1>2, <1>6, <1>7, <1>8 DEF Returned, x, y

\* The last exported file lists the rows that it was made of, each once.
ListsOnce(q, R) ==
    /\ IsList(q) /\ ToSet(q) = R
    /\ \A i, j \in 1..Len(q) : q[i] = q[j] => i = j

ExportSound ==
    exported # None =>
        /\ Sound(exported.rows) /\ ListsOnce(exported.file.steps, exported.rows)
        /\ \A r \in exported.rows : r.group = exported.file.name

TransferInv == Sound(steps) /\ ExportSound

LEMMA ReimportReturns ==
    ASSUME TransferInv, NEW s, Reimport(s), NEW r \in exported.rows
    PROVE  \E x \in steps' : Returned(r, x)
<1> DEFINE q == exported.file.steps
           n == exported.file.name
<1>1. /\ Sound(exported.rows) /\ ListsOnce(q, exported.rows) /\ r.group = n
      /\ ImportPhase2(exported.file, s)
  BY DEF TransferInv, ExportSound, Reimport
<1>2. steps' = SaveAll(steps, n, AllImported(q))
  BY <1>1 DEF ImportPhase2, AllImported
<1> HIDE DEF q, n
<1>3. IsList(q) /\ ToSet(q) = exported.rows /\ \A i, j \in 1..Len(q) : q[i] = q[j] => i = j
  BY <1>1 DEF ListsOnce
<1>4. Len(q) \in Nat /\ DOMAIN q = 1..Len(q) /\ \A i \in 1..Len(q) : q[i] \in exported.rows
  BY <1>3, ListIs
<1>5. PICK i \in 1..Len(q) : q[i] = r
  BY <1>3, <1>4 DEF ToSet
<1>6. Wins(q, i)
  <2>1. SoundRow(r)
    BY <1>1 DEF Sound
  <2>2. Storable(r)
    BY <2>1 DEF SoundRow, Storable
  <2>3. ASSUME NEW j \in (i + 1)..Len(q), q[j].id = r.id PROVE FALSE
    <3>1. j \in 1..Len(q) /\ j # i
      BY <1>4
    <3>2. q[j] \in exported.rows /\ q[j].group = r.group
      BY <1>1, <1>4, <3>1 DEF TransferInv, ExportSound, Reimport, n
    <3>3. q[j] = r
      BY <1>1, <2>3, <3>2 DEF Sound
    <3> QED
      BY <1>3, <1>5, <3>1, <3>3
  <2> QED
    BY <1>5, <2>2, <2>3 DEF Wins
<1>7. Row(n, Imported(q[i])) \in steps'
  BY <1>2, <1>3, <1>6, SaveImported
<1>8. SoundRow(r)
  BY <1>1 DEF Sound
<1>9. Returned(r, Row(n, Imported(r)))
  BY <1>1, <1>8, RowReturns
<1> QED
  BY <1>5, <1>7, <1>9
LEMMA SoundPart ==
    ASSUME NEW R, Sound(R), NEW S \in SUBSET R
    PROVE  Sound(S)
<1>1. IsFiniteSet(S)
  BY FS_Subset DEF Sound
<1> QED
  BY <1>1 DEF Sound

LEMMA InitTransferInv == TransferInit => TransferInv
<1> SUFFICES ASSUME TransferInit PROVE TransferInv
  OBVIOUS
<1>1. steps = {} /\ exported = None
  BY DEF TransferInit
<1>2. IsFiniteSet({})
  BY FS_EmptySet
<1> QED
  BY <1>1, <1>2 DEF TransferInv, Sound, ExportSound

LEMMA ListedOnce ==
    ASSUME NEW n, NEW q, q \in Listed(n), IsFiniteSet(steps)
    PROVE  ListsOnce(q, {r \in steps : r.group = n})
<1> DEFINE R == {r \in steps : r.group = n}
           k == Cardinality(R)
<1>1. IsFiniteSet(R)
  BY FS_Subset
<1>2. k \in Nat
  BY <1>1, FS_CardinalityType
<1>3. q \in SetToSeqs(R)
  BY DEF Listed
<1> HIDE DEF R
<1>4. q \in [1..k -> R] /\ \A i, j \in 1..k : i # j => q[i] # q[j]
  BY <1>3 DEF SetToSeqs
<1> HIDE DEF k
<1>5. Len(q) = k /\ DOMAIN q = 1..k /\ IsList(q)
  <2>1. q \in Seq(R)
    BY <1>2, <1>4
  <2>2. DOMAIN q = 1..k /\ Len(q) = k
    BY <1>2, <1>4, <2>1
  <2>3. q \in [1..k -> ToSet(q)]
    BY <1>4, <2>2 DEF ToSet
  <2>4. q \in Seq(ToSet(q))
    BY <1>2, <2>3
  <2> QED
    BY <2>2, <2>4 DEF IsList
<1>6. q \in Injection(1..k, R)
  BY <1>4 DEF Injection, IsInjective
<1>7. IsFiniteSet(1..k) /\ Cardinality(1..k) = k
  <2>1. IsFiniteSet(1..k) /\ Cardinality(1..k) = IF 1 > k THEN 0 ELSE k - 1 + 1
    BY <1>2, FS_Interval
  <2> QED
    BY <1>2, <2>1
<1>8. q \in Surjection(1..k, R)
  BY <1>1, <1>6, <1>7, FS_Injection DEF R, k
<1>9. ToSet(q) = R
  BY <1>4, <1>5, <1>8 DEF Surjection, ToSet
<1> QED
  BY <1>4, <1>5, <1>9 DEF ListsOnce, R

LEMMA NextTransferInv == TransferInv /\ [TransferNext]_transferVars => TransferInv'
<1> SUFFICES ASSUME TransferInv, [TransferNext]_transferVars PROVE TransferInv'
  OBVIOUS
<1>1. Sound(steps) /\ ExportSound
  BY DEF TransferInv
<1>2. ASSUME UNCHANGED exported PROVE ExportSound'
  BY <1>1, <1>2 DEF ExportSound
<1>3. ASSUME NEW f, NEW s, ImportPhase2(f, s), IsList(f.steps) PROVE Sound(steps')
  <2>1. steps' = SaveAll(steps, f.name, AllImported(f.steps))
    BY <1>3 DEF ImportPhase2, AllImported
  <2>2. Len(AllImported(f.steps)) \in Nat
    BY <1>3, ImportedSteps
  <2> QED
    BY <1>1, <2>1, <2>2, SaveAllKeeps
<1>4. ASSUME NEW s, NEW n, NEW h, CreateGroup(s, n, h) PROVE TransferInv'
  BY <1>1, <1>2, <1>4 DEF CreateGroup, TransferInv
<1>5. ASSUME NEW s, NEW n, NEW st, CreateStep(s, n, st) PROVE TransferInv'
  <2>1. steps' = Save(steps, n, st) /\ UNCHANGED exported
    BY <1>5 DEF CreateStep
  <2>2. Sound(steps')
    BY <1>1, <2>1, SaveIs
  <2> QED
    BY <1>2, <2>1, <2>2 DEF TransferInv
<1>6. ASSUME NEW s, NEW n, DeleteGroup(s, n) PROVE TransferInv'
  <2>1. steps' \in SUBSET steps /\ UNCHANGED exported
    BY <1>6 DEF DeleteGroup
  <2>2. Sound(steps')
    BY <1>1, <2>1, SoundPart
  <2> QED
    BY <1>2, <2>1, <2>2 DEF TransferInv
<1>7. ASSUME NEW s, NEW n, Export(s, n) PROVE TransferInv'
  <2>1. PICK g \in groups, q \in Listed(n) :
           exported' = [file |-> [format |-> "phase2", name |-> n, head |-> g.head, steps |-> q],
                        rows |-> {r \in steps : r.group = n}]
    BY <1>7 DEF Export
  <2>2. steps' = steps
    BY <1>7 DEF Export
  <2> DEFINE R == {r \in steps : r.group = n}
  <2>3. Sound(R)
    BY <1>1, SoundPart
  <2>4. ListsOnce(q, R)
    BY <1>1, ListedOnce DEF Sound
  <2>5. \A r \in R : r.group = n
    OBVIOUS
  <2>6. exported'.rows = R /\ exported'.file.steps = q /\ exported'.file.name = n
    BY <2>1
  <2> HIDE DEF R
  <2>7. ExportSound'
    BY <2>3, <2>4, <2>5, <2>6 DEF ExportSound
  <2> QED
    BY <1>1, <2>2, <2>7 DEF TransferInv
<1>8. ASSUME NEW f \in Files, NEW s, ImportFile(f, s) PROVE TransferInv'
  <2>1. UNCHANGED exported
    BY <1>8 DEF ImportFile
  <2>2. CASE ImportPhase2(f, s)
    <3>1. IsList(f.steps)
      BY <2>2, TransferAssumption DEF ImportPhase2
    <3>2. Sound(steps')
      BY <1>3, <2>2, <3>1
    <3> QED
      BY <1>2, <2>1, <3>2 DEF TransferInv
  <2>3. CASE ImportLegacy(f, s)
    <3>1. AreLogics(f.logics)
      BY <2>3, TransferAssumption DEF ImportLegacy, AreLogics
    <3>2. steps' = SaveLogics(steps, f.definitions[1].name, f.logics)
      BY <2>3 DEF ImportLegacy
    <3>3. Sound(steps')
      BY <1>1, <3>1, <3>2, SaveLogicsSaves
    <3> QED
      BY <1>2, <2>1, <3>3 DEF TransferInv
  <2> QED
    BY <1>8, <2>2, <2>3 DEF ImportFile
<1>9. ASSUME NEW f \in Files, NEW s, ImportL4(f, s) PROVE TransferInv'
  <2>1. IsL4(f)
    BY <1>9, TransferAssumption DEF ImportL4, IsL4
  <2>2. steps' = SaveDefinitions(steps, f, Accepted(f, s)) /\ UNCHANGED exported
    BY <1>9 DEF ImportL4
  <2>3. Accepted(f, s) \in Seq(ToSet(f.definitions))
    BY <2>1, AcceptedIs DEF IsL4, Fresh
  <2>4. Sound(steps')
    BY <1>1, <2>1, <2>2, <2>3, SaveDefinitionsSaves
  <2> QED
    BY <1>2, <2>2, <2>4 DEF TransferInv
<1>10. ASSUME NEW s, Reimport(s) PROVE TransferInv'
  <2>1. exported # None /\ ImportPhase2(exported.file, s) /\ UNCHANGED exported
    BY <1>10 DEF Reimport
  <2>2. IsList(exported.file.steps)
    BY <1>1, <2>1 DEF ExportSound, ListsOnce
  <2>3. Sound(steps')
    BY <1>3, <2>1, <2>2
  <2> QED
    BY <1>2, <2>1, <2>3 DEF TransferInv
<1>11. CASE UNCHANGED transferVars
  BY <1>1, <1>2, <1>11 DEF transferVars, TransferInv
<1> QED
  BY <1>4, <1>5, <1>6, <1>7, <1>8, <1>9, <1>10, <1>11 DEF TransferNext

\* A step has one row, with an order and a flag, and an exported file lists the
\* rows of its group, each once.
THEOREM TransferInvariance == TransferSpec => []TransferInv
  BY InitTransferInv, NextTransferInv, PTL DEF TransferSpec

\* Importing an exported file brings back each of its steps as it was stored.
THEOREM RoundTrips == TransferSpec => RoundTrip
<1>1. TransferInv => \A s \in Spaces : Reimport(s) => \A r \in exported.rows :
                        \E x \in steps' :
                            /\ x.group = r.group /\ x.id = r.id
                            /\ x.order = r.order /\ x.enabled = r.enabled
                            /\ r.when.sub = Absent => Tests(x.when) = Tests(r.when)
                            /\ r.then.camel = Absent => Does(x.then) = Does(r.then)
  BY ReimportReturns DEF Returned
<1> QED
  BY <1>1, TransferInvariance, PTL DEF TransferSpec, RoundTrip
=============================================================================
