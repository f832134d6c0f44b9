------------------------ MODULE EntityImports_proofs ------------------------
(***************************************************************************)
(* Proofs about EntityImports: whatever imports overlap or fail, versions  *)
(* are numbered without gaps, a batch that is applied is complete, and its *)
(* rollback actions lead back to what the client had.                      *)
(***************************************************************************)
EXTENDS EntityImports, FiniteSetTheorems, TLAPS

\* The changes of the import that got batch b, and rows of a batch.
Whole(b) == DetectChanges(KnownTo(asked[b]), asked[b].new)

Rows(b, C) == {RowOf(b, c) : c \in C}

Has(w, b) == job[w] # Idle /\ job[w].batch = b

\* An import under way owns its batch: no other writes rows of it, and what it
\* has written so far is what it has done of its changes.
Owned(w, b) ==
    /\ asked[b] # None
    /\ job[w].all = Whole(b)
    /\ job[w].todo \subseteq Whole(b)
    /\ ChangesOf(b) = Rows(b, Whole(b) \ job[w].todo)
    /\ \A r \in batches : r.id = b => r.status = "pending"
    /\ job[w].op = "batch" =>
          job[w].todo = Whole(b) /\ \A r \in batches : r.id # b
    /\ job[w].op \in {"list", "version"} =>
          job[w].at \in Whole(b) \ job[w].todo /\ HasVersion(job[w].at)
    /\ job[w].op = "apply" => job[w].todo = {}

OwnersInv ==
    \A w \in Workers, b \in Batches : Has(w, b) =>
        Owned(w, b) /\ \A v \in Workers : Has(v, b) => v = w

FreshInv ==
    \A b \in Batches : asked[b] = None =>
        ChangesOf(b) = {} /\ \A r \in batches : r.id # b

BatchInv ==
    \A r \in batches, b \in Batches : r.id = b =>
        /\ r.total = Cardinality(Whole(b))
        /\ r.status = "applied" =>
              ChangesOf(b) = Rows(b, Whole(b)) /\ r.counts = Stats(Whole(b))

\* A number that was counted is at most the next one; it is the next one when
\* no other import has stored a version since.
NumbersInv ==
    \A w \in Workers, e \in Entities :
        job[w].op = "version" /\ job[w].at.entity = e =>
            /\ job[w].number \in 1..NextNumber(e)
            /\ ~missed[w] => job[w].number = NextNumber(e)

VersionsInv == IsFiniteSet(versions) /\ VersionsGapless /\ NumbersInv

IInv ==
    /\ TypeOK
    /\ OwnersInv
    /\ FreshInv
    /\ BatchInv
    /\ VersionsInv
    /\ VersionsHaveChanges

-----------------------------------------------------------------------------
\* What detect_changes finds.

\* The four outcomes of a comparison.
LEMMA ChangeFacts ==
    ASSUME NEW e \in Entities, NEW old \in Data \cup {None},
           NEW new \in Data \cup {None}, old # None \/ new # None,
           NEW c, c = ChangeOf(e, old, new)
    PROVE  /\ c \in Change
           /\ c.entity = e
           /\ c.type = "CREATED" <=> old = None
           /\ c.type = "CREATED" => c.new = new
           /\ c.type = "DELETED" <=> new = None
           /\ c.type = "DELETED" => c.old = old
           /\ c.type = "UPDATED" => c.old = old /\ c.new = new
           /\ c.type = "UNCHANGED" =>
                 old # None /\ new # None /\ Diff(old, new) = {}
<1>1. CASE old = None
  BY <1>1 DEF ChangeOf, EntityChange, Change, ChangeTypes
<1>2. CASE new = None
  BY <1>2 DEF ChangeOf, EntityChange, Change, ChangeTypes
<1>3. CASE old # None /\ new # None
  <2> HIDE DEF Diff
  <2> QED
    BY <1>3 DEF ChangeOf, EntityChange, Change, ChangeTypes
<1> QED
  BY <1>1, <1>2, <1>3

\* One change for each entity that is in either dict.
LEMMA DetectFacts ==
    ASSUME NEW old \in Given, NEW new \in Given
    PROVE  /\ DetectChanges(old, new) \subseteq Change
           /\ IsFiniteSet(DetectChanges(old, new))
           /\ \A c, d \in DetectChanges(old, new) : c.entity = d.entity => c = d
           /\ \A c \in DetectChanges(old, new) :
                 /\ old[c.entity] # None \/ new[c.entity] # None
                 /\ c = ChangeOf(c.entity, old[c.entity], new[c.entity])
<1> DEFINE D == {x \in Entities : old[x] # None \/ new[x] # None}
           Op(e) == ChangeOf(e, old[e], new[e])
<1>1. \A e \in D : /\ e \in Entities
                   /\ Op(e) \in Change
                   /\ Op(e).entity = e
  <2> SUFFICES ASSUME NEW e \in D
               PROVE  /\ Op(e) \in Change
                      /\ Op(e).entity = e
    OBVIOUS
  <2>1. old[e] \in Data \cup {None} /\ new[e] \in Data \cup {None}
    BY DEF Given
  <2> QED
    BY <2>1, ChangeFacts
<1>2. DetectChanges(old, new) = {Op(e) : e \in D}
  BY DEF DetectChanges
<1>3. IsFiniteSet(D)
  BY ConstantsAssumption, FS_Subset
<1>4. IsFiniteSet({Op(e) : e \in D})
  <2> DEFINE T == {Op(e) : e \in D}
             f == [e \in D |-> Op(e)]
  <2>1. f \in Surjection(D, T)
    BY DEF Surjection
  <2> HIDE DEF T, f, D
  <2>2. IsFiniteSet(T)
    BY <1>3, <2>1, FS_Surjection
  <2> QED
    BY <2>2 DEF T
<1> HIDE DEF D, Op
<1>5. \A c \in DetectChanges(old, new) : c.entity \in D /\ c = Op(c.entity)
  BY <1>1, <1>2
<1> QED
  BY <1>1, <1>2, <1>4, <1>5 DEF D, Op

LEMMA StoredFacts ==
    ASSUME NEW b \in Batches, NEW c \in Change
    PROVE  /\ RowOf(b, c) \in ChangeRow
           /\ RowOf(b, c).batch = b
           /\ RowOf(b, c).entity = c.entity
           /\ RowOf(b, c).type = c.type
  BY DEF RowOf, ChangeRow, Change, Stored

LEMMA StatsFacts ==
    ASSUME NEW C, IsFiniteSet(C)
    PROVE  Stats(C) \in [ChangeTypes -> Nat] /\ Cardinality(C) \in Nat
<1>1. ASSUME NEW type \in ChangeTypes
      PROVE  Count(C, type) \in Nat
  <2> DEFINE T == {c \in C : c.type = type}
  <2>1. IsFiniteSet(T)
    BY FS_Subset
  <2> QED
    BY <2>1, FS_CardinalityType DEF Count
<1> QED
  BY <1>1, FS_CardinalityType DEF Stats

LEMMA KnownFacts ==
    ASSUME NEW a \in Asked
    PROVE  KnownTo(a) \in Given /\ a.new \in Given /\ a # None
  BY ConstantsAssumption DEF KnownTo, Asked, Given

\* A batch that was given out has typed, finitely many changes.
LEMMA WholeFacts ==
    ASSUME TypeOK, NEW b \in Batches, asked[b] # None
    PROVE  /\ Whole(b) \subseteq Change
           /\ IsFiniteSet(Whole(b))
           /\ \A c, d \in Whole(b) : c.entity = d.entity => c = d
<1>1. asked[b] \in Asked
  BY DEF TypeOK
<1> QED
  BY <1>1, KnownFacts, DetectFacts DEF Whole

\* Rows keep the changes apart, so they are as many, of each type.
LEMMA RowsFacts ==
    ASSUME NEW b \in Batches, NEW C \in SUBSET Change, IsFiniteSet(C),
           \A c, d \in C : c.entity = d.entity => c = d
    PROVE  /\ Cardinality(Rows(b, C)) = Cardinality(C)
           /\ Stats(Rows(b, C)) = Stats(C)
<1>1. ASSUME NEW S \in SUBSET C
      PROVE  Cardinality(Rows(b, S)) = Cardinality(S)
  <2> DEFINE R == Rows(b, S)
             f == [c \in S |-> RowOf(b, c)]
  <2>1. /\ f \in [S -> R]
        /\ \A c, d \in S : f[c] = f[d] => c = d
        /\ \A r \in R : \E c \in S : f[c] = r
    BY StoredFacts DEF Rows
  <2>2. IsFiniteSet(S)
    BY FS_Subset
  <2> HIDE DEF R, f
  <2>3. f \in Bijection(S, R)
    BY <2>1 DEF Bijection, Injection, Surjection, IsInjective
  <2>4. Cardinality(R) = Cardinality(S)
    BY <2>2, <2>3, FS_Bijection DEF ExistsBijection
  <2> QED
    BY <2>4 DEF R
<1>2. ASSUME NEW type \in ChangeTypes
      PROVE  Count(Rows(b, C), type) = Count(C, type)
  <2> DEFINE S == {c \in C : c.type = type}
  <2>1. {r \in Rows(b, C) : r.type = type} = Rows(b, S)
    BY StoredFacts DEF Rows
  <2>2. Cardinality(Rows(b, S)) = Cardinality(S)
    BY <1>1
  <2> QED
    BY <2>1, <2>2 DEF Count
<1> QED
  BY <1>1, <1>2 DEF Stats

-----------------------------------------------------------------------------
LEMMA InitInv == Init => IInv
<1> SUFFICES ASSUME Init
             PROVE  IInv
  OBVIOUS
<1> USE DEF Init
<1>1. TypeOK
  BY DEF TypeOK
<1>2. OwnersInv /\ FreshInv /\ BatchInv /\ VersionsHaveChanges
  BY DEF OwnersInv, Has, FreshInv, ChangesOf, BatchInv, VersionsHaveChanges
<1>3. VersionsInv
  <2>1. \A e \in Entities : VersionsOf(e) = {}
    BY DEF VersionsOf
  <2>2. Cardinality({}) = 0 /\ IsFiniteSet({})
    BY FS_EmptySet
  <2>3. VersionsGapless
    BY <2>1, <2>2 DEF VersionsGapless
  <2>4. NumbersInv
    BY DEF NumbersInv, Idle
  <2> QED
    BY <2>2, <2>3, <2>4 DEF VersionsInv
<1> QED
  BY <1>1, <1>2, <1>3 DEF IInv

\* What an import under way may rely on.
LEMMA BusyFacts ==
    ASSUME IInv, NEW w \in Workers, job[w] # Idle
    PROVE  /\ job[w] \in Busy
           /\ job[w].batch \in Batches
           /\ Has(w, job[w].batch)
           /\ Owned(w, job[w].batch)
           /\ asked[job[w].batch] # None
  BY DEF IInv, TypeOK, OwnersInv, Busy, Has, Owned

\* The import of another batch is not touched by a step that leaves its job
\* and the rows of its batch alone.
LEMMA OwnedFrame ==
    ASSUME NEW w \in Workers, NEW b \in Batches, Owned(w, b),
           job'[w] = job[w], asked'[b] = asked[b],
           ChangesOf(b)' = ChangesOf(b),
           \A r \in batches' : r.id = b => r \in batches
    PROVE  Owned(w, b)'
<1>1. Whole(b)' = Whole(b)
  BY DEF Whole
<1>2. Rows(b, Whole(b) \ job[w].todo)' = Rows(b, Whole(b) \ job[w].todo)
  BY <1>1 DEF Rows
<1> HIDE DEF Whole, Rows, ChangesOf
<1> QED
  BY <1>1, <1>2 DEF Owned

\* A step that keeps the numbers counted, and the versions.
LEMMA VersionsFrame ==
    ASSUME VersionsInv, UNCHANGED versions,
           \A w \in Workers : job'[w].op = "version" =>
              /\ job[w].op = "version"
              /\ job'[w] = job[w]
              /\ missed'[w] = missed[w]
    PROVE  VersionsInv'
<1>1. \A e : VersionsOf(e)' = VersionsOf(e)
  BY DEF VersionsOf
<1>2. \A e : NextNumber(e)' = NextNumber(e)
  BY <1>1 DEF NextNumber
<1>3. NumbersInv'
  BY <1>2 DEF NumbersInv, VersionsInv
<1>4. VersionsGapless'
  BY <1>1 DEF VersionsGapless, VersionsInv
<1> QED
  BY <1>3, <1>4 DEF VersionsInv

\* A version keeps its change while rows are only added.
LEMMA CoveredFrame ==
    ASSUME VersionsHaveChanges, UNCHANGED versions, changes \subseteq changes'
    PROVE  VersionsHaveChanges'
  BY DEF VersionsHaveChanges, Undone

-----------------------------------------------------------------------------
\* The requests and operations, one by one.

LEMMA ImportStep ==
    ASSUME IInv, NEW w \in Workers, NEW b \in Batches, NEW a \in Asked,
           Import(w, b, a)
    PROVE  IInv'
<1> DEFINE found == DetectChanges(KnownTo(a), a.new)
           j == [op |-> "batch", batch |-> b, all |-> found,
                 todo |-> found, at |-> None, number |-> 0]
<1>1. /\ job' = [job EXCEPT ![w] = j]
      /\ asked' = [asked EXCEPT ![b] = a]
      /\ missed' = [missed EXCEPT ![w] = FALSE]
      /\ UNCHANGED <<batches, changes, versions>>
      /\ job[w] = Idle /\ asked[b] = None
  BY DEF Import
<1>2. found \subseteq Change /\ a # None
  BY KnownFacts, DetectFacts
<1>3. j \in Busy /\ j # Idle
  <2> HIDE DEF found
  <2> QED
    BY <1>2 DEF Busy, Idle
<1>4. Whole(b)' = found
  BY <1>1 DEF Whole, IInv, TypeOK
<1> HIDE DEF found
<1>5. TypeOK'
  <2> HIDE DEF j
  <2> QED
    BY <1>1, <1>3 DEF IInv, TypeOK
<1>6. \A c \in Batches : ChangesOf(c)' = ChangesOf(c)
  BY <1>1 DEF ChangesOf
<1>7. \A c \in Batches : c # b => asked'[c] = asked[c] /\ Whole(c)' = Whole(c)
  BY <1>1 DEF IInv, TypeOK, Whole
<1>8. OwnersInv'
  <2>1. Owned(w, b)'
    <3>1. ChangesOf(b) = {} /\ \A r \in batches : r.id # b
      BY <1>1 DEF IInv, FreshInv
    <3>2. job'[w] = j /\ asked'[b] = a
      BY <1>1 DEF IInv, TypeOK
    <3>3. Rows(b, Whole(b) \ job[w].todo)' = {}
      BY <1>4, <3>2 DEF Rows
    <3>4. /\ job'[w].op = "batch"
          /\ job'[w].all = found
          /\ job'[w].todo = found
      BY <3>2
    <3>5. /\ ChangesOf(b)' = {}
          /\ \A r \in batches' : r.id # b
      BY <1>1, <1>6, <3>1
    <3> HIDE DEF Rows, Whole, j, ChangesOf
    <3> QED
      BY <1>2, <1>4, <3>2, <3>3, <3>4, <3>5 DEF Owned
  <2>2. ASSUME NEW v \in Workers, NEW c \in Batches, Has(v, c)'
        PROVE  Owned(v, c)' /\ \A u \in Workers : Has(u, c)' => u = v
    <3>1. \A u \in Workers : Has(u, c)' =>
              \/ u = w /\ c = b
              \/ u # w /\ Has(u, c) /\ c # b
      BY <1>1 DEF Has, IInv, TypeOK, OwnersInv, Owned
    <3>2. CASE c = b
      BY <2>1, <2>2, <3>1, <3>2
    <3>3. CASE c # b
      <4>1. Owned(v, c) /\ v # w /\ \A u \in Workers : Has(u, c)' => u = v
        BY <2>2, <3>1, <3>3 DEF IInv, OwnersInv
      <4>2. job'[v] = job[v]
        BY <1>1, <4>1 DEF IInv, TypeOK
      <4> HIDE DEF Has
      <4> QED
        BY <1>1, <1>6, <1>7, <3>3, <4>1, <4>2, OwnedFrame
    <3> QED
      BY <3>2, <3>3
  <2> QED
    BY <2>2 DEF OwnersInv
<1>9. FreshInv'
  BY <1>1, <1>2, <1>6, <1>7 DEF FreshInv, IInv, TypeOK
<1>10. BatchInv'
  <2> SUFFICES ASSUME NEW r \in batches, NEW c \in Batches, r.id = c
               PROVE  /\ r.total = Cardinality(Whole(c))'
                      /\ r.status = "applied" =>
                            /\ ChangesOf(c)' = Rows(c, Whole(c))'
                            /\ r.counts = Stats(Whole(c))'
    BY <1>1 DEF BatchInv
  <2>1. c # b
    BY <1>1 DEF IInv, FreshInv
  <2>2. Rows(c, Whole(c))' = Rows(c, Whole(c))
    BY <1>7, <2>1 DEF Rows
  <2> HIDE DEF Rows, Whole
  <2> QED
    BY <1>6, <1>7, <2>1, <2>2 DEF IInv, BatchInv
<1>11. VersionsInv'
  <2>1. \A v \in Workers : v # w => job'[v] = job[v] /\ missed'[v] = missed[v]
    BY <1>1 DEF IInv, TypeOK
  <2>2. job'[w].op # "version"
    BY <1>1 DEF IInv, TypeOK
  <2> QED
    BY <1>1, <2>1, <2>2, VersionsFrame DEF IInv
<1>12. VersionsHaveChanges'
  BY <1>1, CoveredFrame DEF IInv
<1> QED
  BY <1>5, <1>8, <1>9, <1>10, <1>11, <1>12 DEF IInv

\* An operation of the import that owns b, which leaves the job j to it, keeps
\* all that is said of other batches.
LEMMA OperationFrame ==
    ASSUME IInv, NEW w \in Workers, NEW b \in Batches, NEW j, Has(w, b),
           UNCHANGED asked,
           job' = [job EXCEPT ![w] = j],
           j # Idle => j.batch = b /\ Owned(w, b)',
           \A c \in Batches : c # b => ChangesOf(c)' = ChangesOf(c),
           \A r \in batches' : r.id # b => r \in batches,
           \A r \in batches' : r.id = b =>
              /\ r.total = Cardinality(Whole(b))
              /\ r.status = "applied" => /\ ChangesOf(b)' = Rows(b, Whole(b))
                                         /\ r.counts = Stats(Whole(b))
    PROVE  OwnersInv' /\ FreshInv' /\ BatchInv'
<1>1. \A c \in Batches : Whole(c)' = Whole(c)
  BY DEF Whole
<1>2. /\ job'[w] = j
      /\ \A v \in Workers : v # w => job'[v] = job[v]
      /\ \A v \in Workers : Has(v, b) => v = w
      /\ asked[b] # None
  BY DEF IInv, TypeOK, OwnersInv, Owned
<1>3. OwnersInv'
  <2> SUFFICES ASSUME NEW v \in Workers, NEW c \in Batches, Has(v, c)'
               PROVE  Owned(v, c)' /\ \A u \in Workers : Has(u, c)' => u = v
    BY DEF OwnersInv
  <2>1. CASE c = b
    <3>1. \A u \in Workers : Has(u, b)' => u = w
      BY <1>2 DEF Has
    <3>2. v = w /\ j # Idle
      BY <1>2, <2>1, <3>1 DEF Has
    <3> QED
      BY <2>1, <3>1, <3>2
  <2>2. CASE c # b
    <3>1. \A u \in Workers : Has(u, c)' => u # w /\ Has(u, c)
      BY <1>2, <2>2 DEF Has
    <3>2. Owned(v, c) /\ \A u \in Workers : Has(u, c)' => u = v
      BY <3>1 DEF IInv, OwnersInv
    <3>3. job'[v] = job[v]
      BY <1>2, <3>1
    <3> HIDE DEF Has
    <3> QED
      BY <2>2, <3>2, <3>3, OwnedFrame
  <2> QED
    BY <2>1, <2>2
<1>4. FreshInv'
  BY <1>2 DEF FreshInv, IInv
<1>5. BatchInv'
  <2> SUFFICES ASSUME NEW r \in batches', NEW c \in Batches, r.id = c
               PROVE  /\ r.total = Cardinality(Whole(c))'
                      /\ r.status = "applied" =>
                            /\ ChangesOf(c)' = Rows(c, Whole(c))'
                            /\ r.counts = Stats(Whole(c))'
    BY DEF BatchInv
  <2>1. CASE c = b
    BY <1>1, <2>1
  <2>2. CASE c # b
    <3>1. Rows(c, Whole(c))' = Rows(c, Whole(c))
      BY <1>1 DEF Rows
    <3> HIDE DEF Rows, Whole, ChangesOf
    <3>2. /\ r.total = Cardinality(Whole(c))
          /\ r.status = "applied" => /\ ChangesOf(c) = Rows(c, Whole(c))
                                     /\ r.counts = Stats(Whole(c))
      BY <2>2 DEF IInv, BatchInv
    <3> QED
      BY <1>1, <2>2, <3>1, <3>2
  <2> QED
    BY <2>1, <2>2
<1> QED
  BY <1>3, <1>4, <1>5

LEMMA CreateBatchStep ==
    ASSUME IInv, NEW w \in Workers, job[w] # Idle, CreateBatch(w),
           NEW b \in Batches, job[w].batch = b
    PROVE  IInv'
<1> DEFINE j == [job[w] EXCEPT !.op = "change"]
           row == [id |-> b, status |-> "pending",
                   total |-> Cardinality(job[w].all),
                   counts |-> [type \in ChangeTypes |-> 0]]
<1>1. /\ job[w].op = "batch"
      /\ batches' = batches \cup {row}
      /\ job' = [job EXCEPT ![w] = j]
      /\ UNCHANGED <<changes, versions, asked, missed>>
  BY DEF CreateBatch
<1>2. /\ job[w] \in Busy /\ b \in Batches /\ Has(w, b) /\ Owned(w, b)
      /\ asked[b] # None
  BY BusyFacts
<1>3. job[w].all = Whole(b) /\ IsFiniteSet(Whole(b))
  BY <1>2, WholeFacts DEF IInv, Owned
<1>4. row \in BatchRow
  BY <1>2, <1>3, StatsFacts DEF BatchRow
<1>5. /\ j \in Busy /\ j # Idle /\ j.batch = b /\ j.op = "change"
      /\ j.all = job[w].all /\ j.todo = job[w].todo
  BY <1>2 DEF Busy, Idle
<1> HIDE DEF j
<1>6. job'[w] = j /\ \A v \in Workers : v # w => job'[v] = job[v]
  BY <1>1 DEF IInv, TypeOK
<1>7. TypeOK'
  BY <1>1, <1>4, <1>5 DEF IInv, TypeOK
<1>8. OwnersInv' /\ FreshInv' /\ BatchInv'
  <2>1. \A c : ChangesOf(c)' = ChangesOf(c) /\ Whole(c)' = Whole(c)
    BY <1>1 DEF ChangesOf, Whole
  <2>2. Rows(b, Whole(b) \ job[w].todo) = ChangesOf(b)
    BY <1>2 DEF Owned
  <2>3. Owned(w, b)'
    <3>1. Rows(b, Whole(b) \ job[w].todo)' = ChangesOf(b)
      <4>1. job'[w].todo = job[w].todo
        BY <1>5, <1>6
      <4> QED
        BY <2>1, <2>2, <4>1 DEF Rows
    <3> HIDE DEF Rows, Whole, ChangesOf
    <3> QED
      BY <1>1, <1>2, <1>5, <1>6, <2>1, <3>1 DEF Owned
  <2>4. \A r \in batches' : (r.id # b => r \in batches) /\ (r.id = b => r = row)
    BY <1>1, <1>2 DEF Owned
  <2>5. row.total = Cardinality(Whole(b)) /\ row.status = "pending"
    BY <1>3
  <2> HIDE DEF row
  <2>6. ASSUME NEW r \in batches', r.id = b
        PROVE  r.total = Cardinality(Whole(b)) /\ r.status # "applied"
    <3>1. r = row
      BY <2>4, <2>6
    <3> QED
      BY <2>5, <3>1
  <2>7. UNCHANGED asked /\ j # Idle => j.batch = b
    BY <1>1, <1>5
  <2> QED
    BY <1>1, <1>2, <1>5, <2>1, <2>3, <2>4, <2>6, <2>7, OperationFrame
<1>9. VersionsInv'
  <2>1. job'[w].op # "version"
    BY <1>5, <1>6
  <2> QED
    BY <1>1, <1>6, <2>1, VersionsFrame DEF IInv
<1>10. VersionsHaveChanges'
  BY <1>1, CoveredFrame DEF IInv
<1> QED
  BY <1>7, <1>8, <1>9, <1>10 DEF IInv

\* No row of the batch is replaced: the changes have different entities.
LEMMA SaveChangeStep ==
    ASSUME IInv, NEW w \in Workers, job[w] # Idle,
           NEW c \in job[w].todo, SaveChange(w, c),
           NEW b \in Batches, job[w].batch = b
    PROVE  IInv'
<1> DEFINE left == job[w].todo \ {c}
           j == [job[w] EXCEPT !.todo = left,
                               !.at = IF HasVersion(c) THEN c ELSE None,
                               !.op = IF HasVersion(c) THEN "list"
                                      ELSE After(left)]
           kept == {r \in changes : ~(r.batch = b /\ r.entity = c.entity)}
<1>1. /\ job[w].op = "change"
      /\ changes' = kept \cup {RowOf(b, c)}
      /\ job' = [job EXCEPT ![w] = j]
      /\ UNCHANGED <<batches, versions, asked, missed>>
  BY DEF SaveChange
<1>2. job[w] \in Busy /\ Has(w, b) /\ Owned(w, b) /\ asked[b] # None
  BY BusyFacts
<1>3. /\ Whole(b) \subseteq Change /\ c \in Whole(b)
      /\ \A d, f \in Whole(b) : d.entity = f.entity => d = f
      /\ job[w].todo \subseteq Whole(b)
  BY <1>2, WholeFacts DEF IInv, Owned
<1>4. kept = changes
  <2> SUFFICES ASSUME NEW r \in changes, r.batch = b, r.entity = c.entity
               PROVE  FALSE
    OBVIOUS
  <2>1. r \in Rows(b, Whole(b) \ job[w].todo)
    BY <1>2 DEF Owned, ChangesOf
  <2>2. PICK d \in Whole(b) \ job[w].todo : r = RowOf(b, d)
    BY <2>1 DEF Rows
  <2>3. r.entity = d.entity
    BY <1>3, <2>2, StoredFacts
  <2> QED
    BY <1>3, <2>2, <2>3
<1> HIDE DEF kept
<1>5. /\ j \in Busy /\ j # Idle /\ j.batch = b
      /\ j.all = job[w].all /\ j.todo = left
      /\ j.at = IF HasVersion(c) THEN c ELSE None
      /\ j.op = IF HasVersion(c) THEN "list" ELSE After(left)
      /\ j.op \in {"list", "apply", "change"}
  <2> HIDE DEF HasVersion
  <2> QED
    BY <1>2, <1>3 DEF Busy, Idle, After
<1> HIDE DEF j
<1>6. job'[w] = j /\ \A v \in Workers : v # w => job'[v] = job[v]
  BY <1>1 DEF IInv, TypeOK
<1>7. TypeOK'
  BY <1>1, <1>3, <1>4, <1>5, StoredFacts DEF IInv, TypeOK
<1>8. OwnersInv' /\ FreshInv' /\ BatchInv'
  <2>1. \A d : Whole(d)' = Whole(d)
    BY <1>1 DEF Whole
  <2>2. \A d \in Batches : d # b => ChangesOf(d)' = ChangesOf(d)
    BY <1>1, <1>3, <1>4, StoredFacts DEF ChangesOf
  <2>3. ChangesOf(b)' = ChangesOf(b) \cup {RowOf(b, c)}
    BY <1>1, <1>3, <1>4, StoredFacts DEF ChangesOf
  <2>4. Owned(w, b)'
    <3>1. Rows(b, Whole(b) \ job[w].todo)' = Rows(b, Whole(b) \ left)
      BY <1>5, <1>6, <2>1 DEF Rows
    <3>2. Rows(b, Whole(b) \ left)
              = Rows(b, Whole(b) \ job[w].todo) \cup {RowOf(b, c)}
      BY <1>3 DEF Rows
    <3>3. ChangesOf(b) = Rows(b, Whole(b) \ job[w].todo)
      BY <1>2 DEF Owned
    <3>4. job'[w].op = "apply" => left = {}
      BY <1>5, <1>6 DEF After
    <3>5. job'[w].op = "list" => c \in Whole(b) \ left /\ HasVersion(c)
      BY <1>3, <1>5, <1>6 DEF After
    <3> HIDE DEF Rows, Whole, ChangesOf, left, HasVersion
    <3>6. /\ job'[w].all = Whole(b)
          /\ job'[w].todo \subseteq Whole(b)
          /\ \A r \in batches' : r.id = b => r.status = "pending"
      BY <1>1, <1>2, <1>3, <1>5, <1>6 DEF Owned, left
    <3>7. job'[w].op = "list" =>
              /\ job'[w].at \in Whole(b) \ job'[w].todo
              /\ HasVersion(job'[w].at)
      BY <1>5, <1>6, <3>5
    <3>8. ChangesOf(b)' = Rows(b, Whole(b) \ job[w].todo)'
      BY <2>3, <3>1, <3>2, <3>3
    <3>9. /\ job'[w].op \in {"list", "apply", "change"}
          /\ job'[w].op = "apply" => job'[w].todo = {}
      BY <1>5, <1>6, <3>4
    <3> QED
      BY <1>1, <1>2, <2>1, <3>6, <3>7, <3>8, <3>9 DEF Owned, HasVersion
  <2>5. ASSUME NEW r \in batches', r.id = b
        PROVE  r.total = Cardinality(Whole(b)) /\ r.status # "applied"
    BY <1>1, <1>2, <2>5 DEF IInv, BatchInv, Owned
  <2> QED
    BY <1>1, <1>2, <1>5, <2>2, <2>4, <2>5, OperationFrame
<1>9. VersionsInv'
  <2>1. job'[w].op # "version"
    BY <1>5, <1>6
  <2> QED
    BY <1>1, <1>6, <2>1, VersionsFrame DEF IInv
<1>10. VersionsHaveChanges'
  BY <1>1, <1>4, CoveredFrame DEF IInv
<1> QED
  BY <1>7, <1>8, <1>9, <1>10 DEF IInv

\* An operation after the rows: it reads or writes versions only.
LEMMA LaterFrame ==
    ASSUME IInv, NEW w \in Workers, job[w] # Idle,
           NEW b \in Batches, job[w].batch = b, NEW j \in Busy,
           UNCHANGED <<batches, changes, asked>>,
           job' = [job EXCEPT ![w] = j],
           j.batch = b, j.all = job[w].all, j.todo = job[w].todo,
           j.op # "batch", job[w].op # "batch",
           j.op \in {"list", "version"} =>
              j.at \in Whole(b) \ j.todo /\ HasVersion(j.at),
           j.op = "apply" => j.todo = {}
    PROVE  OwnersInv' /\ FreshInv' /\ BatchInv'
<1>1. Has(w, b) /\ Owned(w, b) /\ asked[b] # None
  BY BusyFacts
<1>2. job'[w] = j /\ j # Idle
  BY DEF IInv, TypeOK, Idle, Busy
<1>3. \A c : ChangesOf(c)' = ChangesOf(c) /\ Whole(c)' = Whole(c)
  BY DEF ChangesOf, Whole
<1>4. Owned(w, b)'
  <2>1. Rows(b, Whole(b) \ job[w].todo)' = Rows(b, Whole(b) \ job[w].todo)
    BY <1>2, <1>3 DEF Rows
  <2>2. /\ job'[w].all = Whole(b)
        /\ job'[w].todo \subseteq Whole(b)
        /\ \A r \in batches' : r.id = b => r.status = "pending"
    BY <1>1, <1>2 DEF Owned
  <2>3. ChangesOf(b)' = Rows(b, Whole(b) \ job[w].todo)'
    BY <1>1, <1>3, <2>1 DEF Owned
  <2> HIDE DEF Rows, Whole, ChangesOf
  <2>4. job'[w].op \in {"list", "version"} =>
            /\ job'[w].at \in Whole(b)' \ job'[w].todo
            /\ HasVersion(job[w].at)'
    BY <1>2, <1>3 DEF HasVersion
  <2> QED
    BY <1>1, <1>2, <1>3, <2>2, <2>3, <2>4 DEF Owned, HasVersion
<1>5. ASSUME NEW r \in batches', r.id = b
      PROVE  r.total = Cardinality(Whole(b)) /\ r.status # "applied"
  BY <1>1, <1>5 DEF IInv, BatchInv, Owned
<1> QED
  BY <1>1, <1>2, <1>3, <1>4, <1>5, OperationFrame

LEMMA CountVersionsStep ==
    ASSUME IInv, NEW w \in Workers, job[w] # Idle, CountVersions(w),
           NEW b \in Batches, job[w].batch = b
    PROVE  IInv'
<1> DEFINE n == NextNumber(job[w].at.entity)
           j == [job[w] EXCEPT !.number = n, !.op = "version"]
<1>1. /\ job[w].op = "list"
      /\ job' = [job EXCEPT ![w] = j]
      /\ missed' = [missed EXCEPT ![w] = FALSE]
      /\ UNCHANGED <<batches, changes, versions, asked>>
  BY DEF CountVersions
<1>2. /\ job[w] \in Busy /\ Owned(w, b) /\ asked[b] # None
      /\ Whole(b) \subseteq Change
  BY BusyFacts, WholeFacts DEF IInv
<1>3. \A e : NextNumber(e) \in Nat \ {0}
  <2> TAKE e
  <2>1. IsFiniteSet(VersionsOf(e))
    BY FS_Subset DEF IInv, VersionsInv, VersionsOf
  <2> QED
    BY <2>1, FS_CardinalityType DEF NextNumber
<1>4. \A e : NextNumber(e)' = NextNumber(e)
  BY <1>1 DEF NextNumber, VersionsOf
<1>5. n \in Nat
  BY <1>3
<1> HIDE DEF n
<1>6. /\ j \in Busy /\ j # Idle /\ j.batch = b /\ j.op = "version"
      /\ j.all = job[w].all /\ j.todo = job[w].todo
      /\ j.at = job[w].at /\ j.number = n
  BY <1>2, <1>5 DEF Busy, Idle
<1> HIDE DEF j
<1>7. job'[w] = j /\ \A v \in Workers : v # w => job'[v] = job[v]
  BY <1>1 DEF IInv, TypeOK
<1>8. missed'[w] = FALSE /\ \A v \in Workers : v # w => missed'[v] = missed[v]
  BY <1>1 DEF IInv, TypeOK
<1>9. TypeOK'
  BY <1>1, <1>6 DEF IInv, TypeOK
<1>10. OwnersInv' /\ FreshInv' /\ BatchInv'
  <2>1. job[w].at \in Whole(b) \ job[w].todo /\ HasVersion(job[w].at)
    BY <1>1, <1>2 DEF Owned
  <2> HIDE DEF Whole, HasVersion
  <2> QED
    BY <1>1, <1>6, <2>1, LaterFrame
<1>11. VersionsInv'
  <2>1. VersionsGapless'
    <3>1. \A e : VersionsOf(e)' = VersionsOf(e)
      BY <1>1 DEF VersionsOf
    <3> QED
      BY <3>1 DEF VersionsGapless, IInv, VersionsInv
  <2>2. NumbersInv'
    <3> SUFFICES ASSUME NEW v \in Workers, NEW e \in Entities,
                        job'[v].op = "version", job'[v].at.entity = e
                 PROVE  /\ job'[v].number \in 1..NextNumber(e)'
                        /\ ~missed'[v] => job'[v].number = NextNumber(e)'
      BY DEF NumbersInv
    <3>1. CASE v = w
      <4>1. job'[v].number = NextNumber(e)'
        BY <1>4, <1>6, <1>7, <3>1 DEF n
      <4> QED
        BY <1>3, <1>4, <4>1
    <3>2. CASE v # w
      <4>1. /\ job[v].number \in 1..NextNumber(e)
            /\ ~missed[v] => job[v].number = NextNumber(e)
        BY <1>7, <3>2 DEF IInv, VersionsInv, NumbersInv
      <4> QED
        BY <1>4, <1>7, <1>8, <3>2, <4>1
    <3> QED
      BY <3>1, <3>2
  <2> QED
    BY <1>1, <2>1, <2>2 DEF IInv, VersionsInv
<1>12. VersionsHaveChanges'
  BY <1>1, CoveredFrame DEF IInv
<1> QED
  BY <1>9, <1>10, <1>11, <1>12 DEF IInv

\* A set of versions numbered 1..N stays gapless when the version with a
\* number n <= N + 1 is added, in the place of the one that had it.
LEMMA ReplacedFacts ==
    ASSUME NEW V, IsFiniteSet(V), {v.version : v \in V} = 1..Cardinality(V),
           \A u, v \in V : u.version = v.version => u = v,
           NEW n \in 1..(Cardinality(V) + 1), NEW row, row.version = n,
           NEW U, U = {v \in V : v.version # n} \cup {row}
    PROVE  /\ {v.version : v \in U} = 1..Cardinality(U)
           /\ \A u, v \in U : u.version = v.version => u = v
           /\ Cardinality(U) >= Cardinality(V)
<1> DEFINE K == {v \in V : v.version # n}
           N == Cardinality(V)
<1>1. N \in Nat
  BY FS_CardinalityType
<1>2. row \notin K
  OBVIOUS
<1>3. IsFiniteSet(K)
  BY FS_Subset
<1>4. Cardinality(U) = Cardinality(K) + 1 /\ Cardinality(K) \in Nat
  BY <1>2, <1>3, FS_AddElement, FS_CardinalityType
<1>5. Cardinality(U) = IF n = N + 1 THEN N + 1 ELSE N
  <2>1. CASE n = N + 1
    <3>1. K = V
      BY <1>1, <2>1
    <3> QED
      BY <1>4, <2>1, <3>1
  <2>2. CASE n # N + 1
    <3>1. n \in 1..N
      BY <1>1, <2>2
    <3>2. PICK x \in V : x.version = n
      BY <3>1
    <3>3. K = V \ {x}
      BY <3>2
    <3>4. Cardinality(K) = N - 1
      BY <3>2, <3>3, FS_RemoveElement
    <3> QED
      BY <1>1, <1>4, <2>2, <3>4
  <2> QED
    BY <2>1, <2>2
<1>6. {v.version : v \in K} = (1..N) \ {n}
  OBVIOUS
<1>7. {v.version : v \in U} = ((1..N) \ {n}) \cup {n}
  BY <1>6
<1> HIDE DEF N
<1>8. ((1..N) \ {n}) \cup {n} = 1..(IF n = N + 1 THEN N + 1 ELSE N)
  BY <1>1 DEF N
<1>9. \A u, v \in U : u.version = v.version => u = v
  OBVIOUS
<1>10. {v.version : v \in U} = 1..Cardinality(U)
  BY <1>5, <1>7, <1>8
<1>11. Cardinality(U) >= N
  BY <1>1, <1>5
<1> QED
  BY <1>9, <1>10, <1>11 DEF N

\* The version that is stored replaces one of the same number or is the next.
LEMMA SaveVersionStep ==
    ASSUME IInv, NEW w \in Workers, job[w] # Idle, SaveVersion(w),
           NEW b \in Batches, job[w].batch = b
    PROVE  IInv'
<1> DEFINE c == job[w].at
           n == job[w].number
           row == VersionRow(b, c, n)
           j == [job[w] EXCEPT !.op = After(job[w].todo), !.at = None]
           meets(x) == x # w /\ job[x].op = "version"
                             /\ job[x].at.entity = c.entity
<1>1. /\ job[w].op = "version"
      /\ versions' = {v \in versions : ~(v.entity = c.entity
                                         /\ v.version = n)} \cup {row}
      /\ job' = [job EXCEPT ![w] = j]
      /\ missed' = [x \in Workers |-> missed[x] \/ meets(x)]
      /\ UNCHANGED <<batches, changes, asked>>
  BY DEF SaveVersion
<1>2. /\ job[w] \in Busy /\ Owned(w, b) /\ asked[b] # None
      /\ Whole(b) \subseteq Change
  BY BusyFacts, WholeFacts DEF IInv
<1>3. /\ c \in Whole(b) \ job[w].todo /\ c \in Change
      /\ c.type \in {"CREATED", "UPDATED"} /\ c.new \in Data
  BY <1>1, <1>2 DEF Owned, HasVersion, Change
<1>4. /\ n \in 1..NextNumber(c.entity) /\ n \in Nat \ {0}
      /\ c.entity \in Entities
  <2>1. c.entity \in Entities
    BY <1>3 DEF Change
  <2>2. n \in 1..NextNumber(c.entity) /\ n \in Nat
    BY <1>1, <1>2, <2>1 DEF IInv, VersionsInv, NumbersInv, Busy
  <2> QED
    BY <2>1, <2>2
<1>5. /\ row \in VersionRec /\ row.entity = c.entity /\ row.version = n
      /\ row.batch = b
  BY <1>3, <1>4 DEF VersionRec, VersionRow
<1>6. /\ j \in Busy /\ j # Idle /\ j.batch = b
      /\ j.op = After(job[w].todo)
      /\ j.all = job[w].all /\ j.todo = job[w].todo
      /\ j.op \in {"apply", "change"}
  BY <1>2 DEF Busy, Idle, After
<1> HIDE DEF j, row, c, n
<1>7. job'[w] = j /\ \A v \in Workers : v # w => job'[v] = job[v]
  BY <1>1 DEF IInv, TypeOK
<1>8. TypeOK'
  <2>1. missed' \in [Workers -> BOOLEAN]
    BY <1>1 DEF IInv, TypeOK
  <2> HIDE DEF meets
  <2> QED
    BY <1>1, <1>5, <1>6, <2>1 DEF IInv, TypeOK
<1>9. OwnersInv' /\ FreshInv' /\ BatchInv'
  <2>1. j.op = "apply" => j.todo = {}
    BY <1>6 DEF After
  <2> HIDE DEF Whole, HasVersion
  <2> QED
    BY <1>1, <1>6, <2>1, LaterFrame
<1>10. VersionsInv'
  <2> PICK k \in Entities : k = c.entity
    BY <1>4
  <2> DEFINE V == VersionsOf(k)
             U == {v \in V : v.version # n} \cup {row}
  <2>1. VersionsOf(k)' = U
    BY <1>1, <1>5 DEF VersionsOf
  <2>2. \A e : e # k => VersionsOf(e)' = VersionsOf(e)
    BY <1>1, <1>5 DEF VersionsOf
  <2>3. IsFiniteSet(versions')
    <3>1. IsFiniteSet({v \in versions : ~(v.entity = c.entity
                                          /\ v.version = n)})
      BY FS_Subset DEF IInv, VersionsInv
    <3> QED
      BY <1>1, <3>1, FS_AddElement
  <2>4. \A e : IsFiniteSet(VersionsOf(e)) /\ IsFiniteSet(VersionsOf(e)')
    BY <2>3, FS_Subset DEF IInv, VersionsInv, VersionsOf
  <2>5. /\ {v.version : v \in V} = 1..Cardinality(V)
        /\ \A u, v \in V : u.version = v.version => u = v
    BY <1>4 DEF IInv, VersionsInv, VersionsGapless
  <2>6. n \in 1..(Cardinality(V) + 1)
    BY <1>4 DEF NextNumber
  <2> HIDE DEF U, V
  <2>7. /\ {v.version : v \in U} = 1..Cardinality(U)
        /\ \A u, v \in U : u.version = v.version => u = v
        /\ Cardinality(U) >= Cardinality(V)
    BY <1>5, <2>4, <2>5, <2>6, ReplacedFacts DEF U, V
  <2>8. VersionsGapless'
    BY <2>1, <2>2, <2>7 DEF VersionsGapless, IInv, VersionsInv
  <2>9. /\ Cardinality(V) \in Nat /\ Cardinality(U) \in Nat
        /\ NextNumber(k) = Cardinality(V) + 1
        /\ NextNumber(k)' = Cardinality(U) + 1
    BY <2>1, <2>4, FS_CardinalityType DEF V, NextNumber
  <2>10. NumbersInv'
    <3> SUFFICES ASSUME NEW v \in Workers, NEW e \in Entities,
                        job'[v].op = "version", job'[v].at.entity = e
                 PROVE  /\ job'[v].number \in 1..NextNumber(e)'
                        /\ ~missed'[v] => job'[v].number = NextNumber(e)'
      BY DEF NumbersInv
    <3>1. v # w /\ job'[v] = job[v]
      BY <1>6, <1>7
    <3>2. /\ job[v].number \in 1..NextNumber(e)
          /\ ~missed[v] => job[v].number = NextNumber(e)
      BY <3>1 DEF IInv, VersionsInv, NumbersInv
    <3>3. missed'[v] = (missed[v] \/ meets(v))
      BY <1>1
    <3>4. CASE e = k
      <4>1. missed'[v]
        BY <3>1, <3>3, <3>4
      <4>2. job[v].number \in 1..(Cardinality(U) + 1)
        BY <2>7, <2>9, <3>2, <3>4
      <4> QED
        BY <2>9, <3>1, <3>4, <4>1, <4>2
    <3>5. CASE e # k
      <4>1. NextNumber(e)' = NextNumber(e)
        BY <2>2, <3>5 DEF NextNumber
      <4>2. ~meets(v)
        BY <3>1, <3>5
      <4> QED
        BY <3>1, <3>2, <3>3, <4>1, <4>2
    <3> QED
      BY <3>4, <3>5
  <2> QED
    BY <2>3, <2>8, <2>10 DEF VersionsInv
<1>11. VersionsHaveChanges'
  <2>1. RowOf(b, c) \in changes /\ RowOf(b, c) \in Undone(b)
    <3>1. RowOf(b, c) \in ChangesOf(b)
      BY <1>2, <1>3 DEF Owned, Rows
    <3> QED
      BY <1>3, <3>1, StoredFacts DEF ChangesOf, Undone
  <2>2. RowOf(b, c).entity = c.entity
    BY <1>3, StoredFacts
  <2>3. \A d : Undone(d)' = Undone(d)
    BY <1>1 DEF Undone
  <2> SUFFICES ASSUME NEW v \in versions'
               PROVE  \E r \in Undone(v.batch)' : r.entity = v.entity
    BY DEF VersionsHaveChanges
  <2>4. CASE v = row
    BY <1>5, <2>1, <2>2, <2>3, <2>4
  <2>5. CASE v # row
    BY <1>1, <2>3, <2>5 DEF IInv, VersionsHaveChanges
  <2> QED
    BY <2>4, <2>5
<1> QED
  BY <1>8, <1>9, <1>10, <1>11 DEF IInv

LEMMA ApplyStep ==
    ASSUME IInv, NEW w \in Workers, job[w] # Idle, Apply(w),
           NEW b \in Batches, job[w].batch = b
    PROVE  IInv'
<1> DEFINE done(r) == [r EXCEPT !.status = "applied",
                                !.counts = Stats(job[w].all)]
<1>1. /\ job[w].op = "apply"
      /\ batches' = {IF r.id = b THEN done(r) ELSE r : r \in batches}
      /\ job' = [job EXCEPT ![w] = Idle]
      /\ UNCHANGED <<changes, versions, asked, missed>>
  BY DEF Apply
<1>2. Has(w, b) /\ Owned(w, b) /\ asked[b] # None
  BY BusyFacts
<1>3. /\ job[w].all = Whole(b) /\ job[w].todo = {}
      /\ ChangesOf(b) = Rows(b, Whole(b))
  BY <1>1, <1>2 DEF Owned, Rows
<1>4. Stats(job[w].all) \in [ChangeTypes -> Nat]
  BY <1>2, <1>3, WholeFacts, StatsFacts DEF IInv
<1>5. \A r \in batches : /\ done(r) \in BatchRow
                         /\ done(r).id = r.id /\ done(r).total = r.total
                         /\ done(r).counts = Stats(job[w].all)
  BY <1>4 DEF IInv, TypeOK, BatchRow
<1> HIDE DEF done
<1>6. TypeOK'
  BY <1>1, <1>5 DEF IInv, TypeOK
<1>7. OwnersInv' /\ FreshInv' /\ BatchInv'
  <2>1. \A d : ChangesOf(d)' = ChangesOf(d)
    BY <1>1 DEF ChangesOf
  <2>2. ASSUME NEW r \in batches', r.id = b
        PROVE  /\ r.total = Cardinality(Whole(b))
               /\ r.counts = Stats(Whole(b))
    <3>1. PICK q \in batches : r = IF q.id = b THEN done(q) ELSE q
      BY <1>1
    <3>2. q.id = b /\ r = done(q)
      BY <2>2, <3>1, <1>5
    <3> HIDE DEF Whole
    <3> QED
      BY <1>3, <1>5, <3>2 DEF IInv, BatchInv
  <2>3. \A r \in batches' : r.id # b => r \in batches
    BY <1>1, <1>5
  <2>4. UNCHANGED asked
    BY <1>1
  <2> HIDE DEF Whole, Rows
  <2> QED
    BY <1>1, <1>2, <1>3, <2>1, <2>2, <2>3, <2>4, OperationFrame
<1>8. VersionsInv'
  <2>1. /\ job'[w].op # "version"
        /\ \A v \in Workers : v # w => job'[v] = job[v]
    BY <1>1 DEF IInv, TypeOK, Idle
  <2> QED
    BY <1>1, <2>1, VersionsFrame DEF IInv
<1>9. VersionsHaveChanges'
  BY <1>1, CoveredFrame DEF IInv
<1> QED
  BY <1>6, <1>7, <1>8, <1>9 DEF IInv

LEMMA FailStep ==
    ASSUME IInv, NEW w \in Workers, Fail(w),
           NEW b \in Batches, job[w].batch = b
    PROVE  IInv'
<1>1. /\ job[w] # Idle
      /\ job' = [job EXCEPT ![w] = Idle]
      /\ UNCHANGED <<batches, changes, versions, asked, missed>>
  BY DEF Fail
<1>2. Has(w, b) /\ Owned(w, b)
  BY <1>1, BusyFacts
<1>3. TypeOK'
  BY <1>1 DEF IInv, TypeOK
<1>4. OwnersInv' /\ FreshInv' /\ BatchInv'
  <2>1. \A d : ChangesOf(d)' = ChangesOf(d)
    BY <1>1 DEF ChangesOf
  <2>2. ASSUME NEW r \in batches', r.id = b
        PROVE  r.total = Cardinality(Whole(b)) /\ r.status # "applied"
    BY <1>1, <1>2, <2>2 DEF IInv, BatchInv, Owned
  <2> HIDE DEF Whole, Rows
  <2> QED
    BY <1>1, <1>2, <2>1, <2>2, OperationFrame
<1>5. VersionsInv'
  <2>1. /\ job'[w].op # "version"
        /\ \A v \in Workers : v # w => job'[v] = job[v]
    BY <1>1 DEF IInv, TypeOK, Idle
  <2> QED
    BY <1>1, <2>1, VersionsFrame DEF IInv
<1>6. VersionsHaveChanges'
  BY <1>1, CoveredFrame DEF IInv
<1> QED
  BY <1>3, <1>4, <1>5, <1>6 DEF IInv

LEMMA NextInv == IInv /\ [Next]_vars => IInv'
<1> SUFFICES ASSUME IInv, [Next]_vars
             PROVE  IInv'
  OBVIOUS
<1>1. ASSUME NEW w \in Workers, NEW b \in Batches, NEW a \in Asked,
             Import(w, b, a)
      PROVE  IInv'
  BY <1>1, ImportStep
<1>2. ASSUME NEW w \in Workers, job[w] # Idle, Operation(w)
      PROVE  IInv'
  <2> PICK b \in Batches : job[w].batch = b
    BY <1>2, BusyFacts
  <2>1. CASE CreateBatch(w)
    BY <1>2, <2>1, CreateBatchStep
  <2>2. CASE CountVersions(w)
    BY <1>2, <2>2, CountVersionsStep
  <2>3. CASE SaveVersion(w)
    BY <1>2, <2>3, SaveVersionStep
  <2>4. CASE Apply(w)
    BY <1>2, <2>4, ApplyStep
  <2>5. CASE Fail(w)
    BY <1>2, <2>5, FailStep
  <2>6. ASSUME NEW c \in job[w].todo, SaveChange(w, c)
        PROVE  IInv'
    BY <1>2, <2>6, SaveChangeStep
  <2> QED
    BY <1>2, <2>1, <2>2, <2>3, <2>4, <2>5, <2>6 DEF Operation
<1>3. CASE UNCHANGED vars
  <2> USE <1>3 DEF vars
  <2>1. TypeOK'
    BY DEF IInv, TypeOK
  <2>2. \A b : ChangesOf(b)' = ChangesOf(b) /\ Whole(b)' = Whole(b)
    BY DEF ChangesOf, Whole
  <2>3. OwnersInv'
    <3> SUFFICES ASSUME NEW w \in Workers, NEW b \in Batches, Has(w, b)'
                 PROVE  /\ Owned(w, b)'
                        /\ \A v \in Workers : Has(v, b)' => v = w
      BY DEF OwnersInv
    <3>1. Has(w, b) /\ \A v \in Workers : Has(v, b)' => Has(v, b)
      BY DEF Has
    <3>2. Owned(w, b) /\ \A v \in Workers : Has(v, b) => v = w
      BY <3>1 DEF IInv, OwnersInv
    <3> HIDE DEF Has
    <3> QED
      BY <2>2, <3>1, <3>2, OwnedFrame
  <2>4. FreshInv'
    BY <2>2 DEF IInv, FreshInv
  <2>5. BatchInv'
    <3>1. \A b : Rows(b, Whole(b))' = Rows(b, Whole(b))
      BY <2>2 DEF Rows
    <3> HIDE DEF Rows, Whole
    <3> QED
      BY <2>2, <3>1 DEF IInv, BatchInv
  <2>6. VersionsInv' /\ VersionsHaveChanges'
    BY VersionsFrame, CoveredFrame DEF IInv
  <2> QED
    BY <2>1, <2>3, <2>4, <2>5, <2>6 DEF IInv
<1> QED
  BY <1>1, <1>2, <1>3 DEF Next

-----------------------------------------------------------------------------
\* What the invariant says of a batch that is applied.

LEMMA AppliedFacts ==
    ASSUME IInv, NEW r \in batches, r.status = "applied",
           NEW b \in Batches, r.id = b
    PROVE  /\ asked[b] \in Asked
           /\ ChangesOf(b) = Rows(b, Whole(b))
           /\ r.counts = Stats(Whole(b))
           /\ r.total = Cardinality(Whole(b))
  BY DEF IInv, TypeOK, BatchRow, FreshInv, BatchInv

LEMMA CompleteFacts == IInv => AppliedIsComplete
<1> SUFFICES ASSUME IInv, NEW r \in batches, r.status = "applied",
                    NEW b \in Batches, r.id = b
             PROVE  /\ ChangesOf(b) = Rows(b, Whole(b))
                    /\ r.counts = Stats(ChangesOf(b))
                    /\ r.total = Cardinality(ChangesOf(b))
  BY DEF IInv, TypeOK, BatchRow, AppliedIsComplete, Rows, Whole
<1>1. /\ ChangesOf(b) = Rows(b, Whole(b))
      /\ r.counts = Stats(Whole(b))
      /\ r.total = Cardinality(Whole(b))
      /\ asked[b] # None
  BY AppliedFacts DEF IInv, FreshInv
<1>2. /\ Whole(b) \in SUBSET Change
      /\ IsFiniteSet(Whole(b))
      /\ \A c, d \in Whole(b) : c.entity = d.entity => c = d
  BY <1>1, WholeFacts DEF IInv
<1>3. /\ Cardinality(Rows(b, Whole(b))) = Cardinality(Whole(b))
      /\ Stats(Rows(b, Whole(b))) = Stats(Whole(b))
  <2> HIDE DEF Rows, Whole
  <2> QED
    BY <1>2, RowsFacts
<1> QED
  BY <1>1, <1>3

\* A difference has no direction, and data does not differ from itself, nor
\* from what its row holds.
LEMMA DiffFacts ==
    ASSUME NEW x \in Data, NEW y \in Data
    PROVE  /\ Diff(x, y) = Diff(y, x)
           /\ Diff(x, x) = {}
           /\ Stored(x) # None => DataOr(Stored(x)) = x
           /\ Stored(x) = None => DataOr(Stored(x)) = x
  BY ConstantsAssumption DEF Diff, Stored, DataOr

LEMMA RestoreFacts == IInv => RollbackRestores
<1> SUFFICES ASSUME IInv, NEW r \in batches, r.status = "applied",
                    NEW b \in Batches, r.id = b, NEW e \in Entities
             PROVE  LET before == KnownTo(asked[b])[e]
                        sent == asked[b].new[e]
                        rows == {u \in Undone(b) : u.entity = e}
                    IN  IF rows = {}
                        THEN /\ sent = None <=> before = None
                             /\ Diff(DataOr(sent), DataOr(before)) = {}
                        ELSE \A u \in rows :
                                LET undo == ActionOf(u)
                                IN  IF undo.action = "delete" THEN before = None
                                    ELSE /\ before # None
                                         /\ Diff(DataOr(undo.data), before) = {}
  BY DEF IInv, TypeOK, BatchRow, RollbackRestores
<1> DEFINE before == KnownTo(asked[b])[e]
           sent == asked[b].new[e]
           rows == {u \in Undone(b) : u.entity = e}
           change == ChangeOf(e, before, sent)
<1>1. asked[b] \in Asked /\ ChangesOf(b) = Rows(b, Whole(b))
  BY AppliedFacts
<1>2. KnownTo(asked[b]) \in Given /\ asked[b].new \in Given
  BY <1>1, KnownFacts
<1>3. before \in Data \cup {None} /\ sent \in Data \cup {None}
  BY <1>2 DEF Given
<1>4. Empty \in Data /\ Diff(Empty, Empty) = {} /\ None \notin Data
  BY ConstantsAssumption DEF Empty, Data, Diff
<1>5. (before # None \/ sent # None) =>
          change \in Whole(b) /\ RowOf(b, change) \in ChangesOf(b)
  BY <1>1 DEF Whole, DetectChanges, Rows
<1>6. ASSUME NEW c \in Whole(b), c.entity = e
      PROVE  (before # None \/ sent # None) /\ c = change /\ c \in Change
  <2> HIDE DEF KnownTo
  <2> QED
    BY <1>2, <1>6, DetectFacts DEF Whole
<1>7. (before # None \/ sent # None) =>
          /\ change \in Change
          /\ change.entity = e
          /\ change.type = "CREATED" <=> before = None
          /\ change.type = "DELETED" => change.old = before
          /\ change.type = "UPDATED" => change.old = before
          /\ change.type = "UNCHANGED" =>
                before # None /\ sent # None /\ Diff(before, sent) = {}
  <2> HIDE DEF before, sent
  <2> QED
    BY <1>3, ChangeFacts
<1> HIDE DEF change, before, sent
<1>8. CASE rows = {}
  <2>1. CASE before = None /\ sent = None
    BY <1>4, <1>8, <2>1 DEF DataOr, before, sent
  <2>2. CASE before # None \/ sent # None
    <3>1. change.type = "UNCHANGED"
      BY <1>5, <1>7, <1>8, <2>2, StoredFacts DEF Undone, ChangesOf
    <3>2. before # None /\ sent # None /\ Diff(before, sent) = {}
      BY <1>7, <2>2, <3>1
    <3>3. Diff(sent, before) = {}
      BY <1>3, <3>2, DiffFacts
    <3>4. DataOr(sent) = sent /\ DataOr(before) = before
      BY <3>2 DEF DataOr
    <3>5. /\ sent = None <=> before = None
          /\ Diff(DataOr(sent), DataOr(before)) = {}
      BY <3>2, <3>3, <3>4
    <3> QED
      BY <1>8, <3>5 DEF before, sent
  <2> QED
    BY <2>1, <2>2
<1>9. ASSUME NEW u \in rows
      PROVE  IF ActionOf(u).action = "delete" THEN before = None
             ELSE /\ before # None
                  /\ Diff(DataOr(ActionOf(u).data), before) = {}
  <2>1. u \in ChangesOf(b) /\ u.entity = e /\ u.type # "UNCHANGED"
    BY DEF Undone, ChangesOf
  <2>2. PICK c \in Whole(b) : u = RowOf(b, c)
    BY <1>1, <2>1 DEF Rows
  <2>3. c \in Change
    BY <1>1, WholeFacts, ConstantsAssumption DEF IInv
  <2>4. u.entity = c.entity /\ u.type = c.type /\ u.old = Stored(c.old)
    BY <2>2, <2>3, StoredFacts DEF RowOf
  <2>5. c = change /\ (before # None \/ sent # None)
    BY <1>6, <2>1, <2>4
  <2>6. u.type \in {"CREATED", "UPDATED", "DELETED"}
    BY <2>1, <2>3, <2>4 DEF Change, ChangeTypes
  <2>7. CASE u.type = "CREATED"
    BY <1>7, <2>4, <2>5, <2>7 DEF ActionOf
  <2>8. CASE u.type # "CREATED"
    <3>1. before # None /\ u.old = Stored(before)
      BY <1>7, <2>4, <2>5, <2>6, <2>8
    <3>2. ActionOf(u).action # "delete" /\ ActionOf(u).data = u.old
      BY <2>6, <2>8 DEF ActionOf
    <3>3. DataOr(Stored(before)) = before /\ Diff(before, before) = {}
      BY <1>3, <3>1, DiffFacts
    <3> QED
      BY <3>1, <3>2, <3>3
  <2> QED
    BY <2>7, <2>8
<1> QED
  BY <1>8, <1>9 DEF before, sent

\* An import whose count is not stale stores the next version: no other row
\* has its number.
LEMMA KeptFacts ==
    ASSUME IInv, NEW w \in Workers, SaveVersion(w), ~missed[w]
    PROVE  versions \subseteq versions'
<1> DEFINE e == job[w].at.entity
<1>1. job[w].op = "version" /\ job[w] # Idle
  BY DEF SaveVersion, Idle
<1>2. PICK b \in Batches : job[w].batch = b
  BY <1>1, BusyFacts
<1>3. e \in Entities
  <2>1. asked[b] # None /\ Owned(w, b)
    BY <1>1, <1>2, BusyFacts
  <2>2. TypeOK
    BY DEF IInv
  <2>3. Whole(b) \subseteq Change
    BY <2>1, <2>2, WholeFacts
  <2>4. job[w].at \in Whole(b)
    BY <1>1, <2>1 DEF Owned
  <2> QED
    BY <2>3, <2>4 DEF Change
<1>4. job[w].number = NextNumber(e)
  BY <1>1, <1>3 DEF IInv, VersionsInv, NumbersInv
<1>5. \A v \in VersionsOf(e) : v.version \in 1..Cardinality(VersionsOf(e))
  BY <1>3 DEF IInv, VersionsInv, VersionsGapless
<1>6. Cardinality(VersionsOf(e)) \in Nat
  BY FS_Subset, FS_CardinalityType DEF IInv, VersionsInv, VersionsOf
<1>7. \A v \in VersionsOf(e) : v.version # job[w].number
  BY <1>4, <1>5, <1>6 DEF NextNumber
<1> QED
  BY <1>7 DEF SaveVersion, VersionsOf

-----------------------------------------------------------------------------
\* IInv holds in every reachable state: the strengthening that makes the
\* properties of the storage operations inductive.
THEOREM Invariance == Spec => []IInv
  BY InitInv, NextInv, PTL DEF Spec

\* The tables and the jobs have their types, whatever clients send.
THEOREM TypeCorrect == Spec => []TypeOK
<1>1. IInv => TypeOK
  BY DEF IInv
<1> QED
  BY <1>1, Invariance, PTL

\* However many imports overlap or fail between counting the versions of an
\* entity and storing one, its versions are numbered 1, 2, ... without gaps and
\* without doubles: a count that is stale replaces, it never skips.
THEOREM VersionsAreGapless == Spec => []VersionsGapless
<1>1. IInv => VersionsGapless
  BY DEF IInv, VersionsInv
<1> QED
  BY <1>1, Invariance, PTL

\* A version that import_with_diff stored has a row in its batch that
\* get_rollback_actions acts on, even when the import failed right after it.
THEOREM VersionsAreCovered == Spec => []VersionsHaveChanges
<1>1. IInv => VersionsHaveChanges
  BY DEF IInv
<1> QED
  BY <1>1, Invariance, PTL

\* A batch is marked "applied" only when every change has its row, with counts
\* that are those of the rows.
THEOREM AppliedBatchesAreComplete == Spec => []AppliedIsComplete
  BY CompleteFacts, Invariance, PTL

\* The rollback actions of an applied batch lead back to the old entities that
\* the client sent, up to a None for a missing key.
THEOREM RollbacksRestore == Spec => []RollbackRestores
  BY RestoreFacts, Invariance, PTL

\* A version that is stored disappears only in a race: save_entity_version
\* with a count that no other import has overtaken replaces nothing.
THEOREM UnracedVersionsAreKept == Spec => UnracedVersionsKept
<1>1. IInv => [\A w \in Workers : SaveVersion(w) /\ ~missed[w] =>
                  versions \subseteq versions']_vars
  BY KeptFacts
<1> QED
  BY <1>1, Invariance, PTL DEF UnracedVersionsKept
=============================================================================
