----------------------- MODULE EntityAnalysis_proofs -----------------------
(***************************************************************************)
(* Proofs about EntityAnalysis, for any number of requests, entities and   *)
(* metrics: the metric cache and the table agree, concurrent requests get  *)
(* the same values, formulas agree with their dependencies, and the tags   *)
(* of an entity are whole.                                                 *)
(***************************************************************************)
EXTENDS EntityAnalysis, TLAPS

Pcs == {"find", "tag", "read", "fetch", "save", "done", "failed", "unsaved"}

\* A request at a metric has found those before it.
PassedInv ==
    \A r \in Requests : Computing(job[r]) =>
        \A i \in 1..job[r].at - 1 : cache[<<job[r].entity, Order[i]>>] # None

\* Two requests at one cell have been noticed.
RacedInv ==
    \A r, q \in Requests :
        r # q /\ Computing(job[r]) /\ Computing(job[q])
            /\ CellOf(job[r]) = CellOf(job[q]) => CellOf(job[r]) \in raced

\* A request that has not computed its metric yet, and is alone with it, knows
\* that nobody has.
ReadInv ==
    \A r \in Requests :
        job[r].pc \in {"read", "fetch"} /\ CellOf(job[r]) \notin raced =>
            cache[CellOf(job[r])] = None

\* A value m holds the values of its dependencies, as DerivedAgrees says.
HoldsDeps(e, m, value) ==
    \A d \in Deps[m] :
        \/ <<"context", d>> \in value
        \/ <<e, d>> \in raced
        \/ cache[<<e, d>>] # None /\ cache[<<e, d>>] \subseteq value

\* What is about to be saved is in the cache, and holds its dependencies.
SaveInv ==
    \A r \in Requests :
        /\ job[r].pc \in {"save", "unsaved"} => cache[CellOf(job[r])] # None
        /\ job[r].pc = "save" /\ Order[job[r].at] \in Formulas =>
              HoldsDeps(job[r].entity, Order[job[r].at],
                        job[r].results[Order[job[r].at]])
        /\ job[r].pc = "fetch" => Order[job[r].at] \in Aggregates

ValuesInv == PassedInv /\ RacedInv /\ ReadInv /\ SaveInv

IInv ==
    /\ TypeOK /\ ValuesInv /\ CacheBacked /\ ResponsesAgree
    /\ DerivedAgrees /\ TagsWhole

-----------------------------------------------------------------------------
\* What a step does to the values, by its kind; j is where request r goes to.

Same(r, j) ==
    /\ job[r] # Idle
    /\ j.entity = job[r].entity
    /\ j.results = job[r].results

\* Nothing is computed, taken over or saved.
Quiet(r, j) ==
    /\ UNCHANGED <<stored, cache>>
    /\ \/ /\ job[r] = Idle
          /\ j.pc = "find"
          /\ \A m \in Metrics : j.results[m] = None
       \/ /\ Same(r, j)
          /\ job[r].pc \in {"find", "tag", "read", "fetch"}
          /\ j.pc \in {"tag", "failed"}
       \/ /\ Same(r, j)
          /\ job[r].pc = "save" /\ j.pc = "unsaved" /\ j.at = job[r].at
       \/ /\ Same(r, j)
          /\ job[r].pc = "read" /\ j.pc = "fetch" /\ j.at = job[r].at
          /\ Order[j.at] \in Aggregates

\* The loop of compute_batch has gone on from a position.
Batched(r, j, from) ==
    /\ j.entity = job[r].entity
    /\ j.pc \in {"read", "done"}
    /\ j.at \in from..Length + 1
    /\ \A i \in from..j.at - 1 : cache'[<<j.entity, Order[i]>>] # None
    /\ j.pc = "read" => j.at <= Length /\ cache'[CellOf(j)] = None
    /\ \A m \in Metrics : \/ j.results[m] = cache'[<<j.entity, m>>]
                          \/ j.results[m] = job[r].results[m]

Begun(r, j) ==
    /\ UNCHANGED <<stored, cache>>
    /\ job[r].pc \in {"find", "tag"}
    /\ Batched(r, j, 1)

Hit(r, j) ==
    /\ UNCHANGED stored
    /\ job[r].pc = "read"
    /\ stored[CellOf(job[r])] # None
    /\ cache' = [cache EXCEPT ![CellOf(job[r])] = stored[CellOf(job[r])]]
    /\ Batched(r, j, job[r].at)

Computed(r, j) ==
    /\ UNCHANGED stored
    /\ job[r].pc \in {"read", "fetch"}
    /\ j.pc = "save" /\ j.entity = job[r].entity /\ j.at = job[r].at
    /\ \A m \in Metrics \ {Order[j.at]} : j.results[m] = job[r].results[m]
    /\ cache' = [cache EXCEPT ![CellOf(job[r])] = j.results[Order[j.at]]]
    /\ Order[j.at] \in Formulas =>
          HoldsDeps(j.entity, Order[j.at], j.results[Order[j.at]])

Saved(r, j) ==
    /\ UNCHANGED cache
    /\ job[r].pc = "save"
    /\ stored' = [stored EXCEPT ![CellOf(job[r])] =
                                    job[r].results[Order[job[r].at]]]
    /\ Batched(r, j, job[r].at + 1)

Moves(r, j) ==
    /\ JobOK(j)
    /\ Goes(r, j)
    /\ \/ Quiet(r, j) \/ Begun(r, j) \/ Hit(r, j) \/ Computed(r, j) \/ Saved(r, j)

-----------------------------------------------------------------------------
LEMMA OrderType ==
    /\ Length \in Nat
    /\ \A i \in 1..Length : Order[i] \in Metrics
BY ConstantsAssumption DEF Length

\* What a request that is not idle holds.
LEMMA JobTypes ==
    ASSUME TypeOK, NEW r \in Requests
    PROVE  /\ job[r] # Idle <=> JobOK(job[r])
           /\ job[r] = Idle <=> job[r].pc = "idle"
           /\ job[r] = Idle => job[r].pc = "idle"
<1>1. ASSUME JobOK(job[r]) PROVE job[r].pc # "idle" /\ job[r] # Idle
  <2>1. job[r].pc \in Pcs
    BY <1>1 DEF JobOK, JobRecord, Pcs
  <2> QED
    BY <2>1 DEF Idle, Pcs
<1>2. job[r] = Idle => job[r].pc = "idle"
  BY DEF Idle
<1> QED
  BY <1>1, <1>2 DEF TypeOK

LEMMA CellTypes ==
    ASSUME NEW j, JobOK(j), j.pc = "unsaved" \/ Computing(j)
    PROVE  /\ j.at \in 1..Length
           /\ Order[j.at] \in Metrics
           /\ j.entity \in Entities
           /\ j.version \in Versions
           /\ CellOf(j) \in Cell
BY OrderType DEF JobOK, JobRecord, CellOf, Cell, Computing

\* The loop of compute_batch stops at a metric that is not in the cache.
LEMMA BatchTypes ==
    ASSUME NEW r \in Requests, NEW j \in JobRecord, j.version # None,
           NEW from \in 1..Length + 1,
           NEW c, c \in [Cell -> {None} \cup Value],
           ComputeBatch(r, j, from, c)
    PROVE  \E n :
              /\ JobOK(n) /\ Goes(r, n)
              /\ n.entity = j.entity /\ n.pc \in {"read", "done"}
              /\ n.at \in from..Length + 1
              /\ \A i \in from..n.at - 1 : c[<<n.entity, Order[i]>>] # None
              /\ n.pc = "read" => n.at <= Length /\ c[CellOf(n)] = None
              /\ \A m \in Metrics : \/ n.results[m] = c[<<n.entity, m>>]
                                    \/ n.results[m] = j.results[m]
<1> USE OrderType
<1>1. PICK k \in from..Length + 1 :
          /\ NextMiss(j.entity, from, c, k)
          /\ Goes(r, [j EXCEPT !.pc = IF k > Length THEN "done" ELSE "read",
                               !.at = k, !.results = Collected(j, from, c, k)])
  BY DEF ComputeBatch
<1> DEFINE n == [j EXCEPT !.pc = IF k > Length THEN "done" ELSE "read",
                          !.at = k, !.results = Collected(j, from, c, k)]
<1>2. \A m \in Metrics : /\ Collected(j, from, c, k)[m] \in {None} \cup Value
                         /\ \/ Collected(j, from, c, k)[m] = c[<<j.entity, m>>]
                            \/ Collected(j, from, c, k)[m] = j.results[m]
  BY DEF Collected, JobRecord, Cell
<1>3. Collected(j, from, c, k) \in [Metrics -> {None} \cup Value]
  BY <1>2 DEF Collected
<1>4. k \in Nat \ {0} /\ k \in from..Length + 1
  OBVIOUS
<1>5. /\ n \in JobRecord
      /\ n.pc = (IF k > Length THEN "done" ELSE "read")
      /\ n.at = k /\ n.results = Collected(j, from, c, k)
      /\ n.entity = j.entity /\ n.version = j.version
  BY <1>3, <1>4 DEF JobRecord
<1>6. Goes(r, n)
  BY <1>1
<1> HIDE DEF n
<1>7. JobOK(n)
  BY <1>4, <1>5 DEF JobOK, Computing
<1>8. /\ \A i \in from..n.at - 1 : c[<<n.entity, Order[i]>>] # None
      /\ n.pc = "read" => n.at <= Length /\ c[CellOf(n)] = None
  BY <1>1, <1>4, <1>5 DEF NextMiss, CellOf
<1>9. \A m \in Metrics : \/ n.results[m] = c[<<n.entity, m>>]
                         \/ n.results[m] = j.results[m]
  BY <1>2, <1>5
<1> QED
  BY <1>4, <1>5, <1>6, <1>7, <1>8, <1>9

\* Dependencies come before a metric, and so have been passed.
LEMMA DepsPassed ==
    ASSUME TypeOK, PassedInv, NEW r \in Requests, Computing(job[r]),
           NEW d \in Deps[Order[job[r].at]]
    PROVE  /\ d \in Metrics
           /\ <<job[r].entity, d>> \in Cell
           /\ cache[<<job[r].entity, d>>] \in Value
           /\ cache[<<job[r].entity, d>>] # None
<1>1. JobOK(job[r])
  BY JobTypes DEF Computing
<1>2. /\ job[r].at \in 1..Length /\ Order[job[r].at] \in Metrics
      /\ job[r].entity \in Entities
  BY <1>1, CellTypes
<1>3. d \in Before(Order[job[r].at])
  BY <1>2, ConstantsAssumption
<1>4. PICK i \in 1..Length :
          /\ Order[i] = d
          /\ \E n \in i + 1..Length : Order[n] = Order[job[r].at]
  BY <1>3 DEF Before
<1>5. PICK n \in i + 1..Length : Order[n] = Order[job[r].at]
  BY <1>4
<1>6. n = job[r].at
  BY <1>2, <1>5, OrderType, ConstantsAssumption
<1>7. i \in 1..job[r].at - 1
  BY <1>2, <1>4, <1>5, <1>6, OrderType
<1>8. cache[<<job[r].entity, Order[i]>>] # None
  BY <1>7 DEF PassedInv
<1>9. d \in Metrics /\ <<job[r].entity, d>> \in Cell
  BY <1>2, <1>4, OrderType DEF Cell
<1> QED
  BY <1>4, <1>8, <1>9 DEF TypeOK

LEMMA ValueTypes ==
    ASSUME TypeOK, PassedInv, NEW r \in Requests, Computing(job[r])
    PROVE  /\ ValueOf(job[r]) \in Value
           /\ Order[job[r].at] \in Formulas =>
                 HoldsDeps(job[r].entity, Order[job[r].at], ValueOf(job[r]))
<1> DEFINE m == Order[job[r].at]
<1>1. JobOK(job[r])
  BY JobTypes DEF Computing
<1>2. /\ m \in Metrics /\ job[r].entity \in Entities
      /\ job[r].version \in Versions
  BY <1>1, CellTypes
<1>3. \A d \in Deps[m] : /\ d \in Metrics
                         /\ cache[<<job[r].entity, d>>] \in Value
                         /\ cache[<<job[r].entity, d>>] # None
  BY DepsPassed
<1>4. \A d \in Deps[m] : DepReadings(job[r], d) \in Value
  BY <1>3 DEF DepReadings, Value, Reading
<1>5. {<<job[r].entity, job[r].version>>} \in Value
  BY <1>2 DEF Value, Reading
<1>6. ValueOf(job[r]) \in Value
  <2>1. UNION {DepReadings(job[r], d) : d \in Deps[m]} \in Value
    BY <1>4 DEF Value
  <2> QED
    BY <1>5, <2>1 DEF ValueOf, Value
<1>7. ASSUME m \in Formulas
      PROVE  HoldsDeps(job[r].entity, m, ValueOf(job[r]))
  <2>1. \A d \in Deps[m] : DepReadings(job[r], d) \subseteq ValueOf(job[r])
    BY <1>7 DEF ValueOf
  <2> QED
    BY <1>3, <2>1 DEF HoldsDeps, DepReadings
<1> QED
  BY <1>6, <1>7

LEMMA ComputeTypes ==
    ASSUME TypeOK, NEW r \in Requests, job[r].pc \in {"read", "fetch"},
           NEW value \in Value,
           Order[job[r].at] \in Formulas =>
              HoldsDeps(job[r].entity, Order[job[r].at], value),
           Compute(r, job[r], value), UNCHANGED stored
    PROVE  \E j : Moves(r, j)
<1> DEFINE j == [job[r] EXCEPT !.pc = "save",
                               !.results[Order[job[r].at]] = value]
<1>1. JobOK(job[r])
  BY JobTypes
<1>2. Computing(job[r])
  BY DEF Computing
<1>3. job[r].at \in 1..Length /\ Order[job[r].at] \in Metrics
  BY <1>1, <1>2, CellTypes
<1>4. job[r] \in JobRecord
  BY <1>1 DEF JobOK
<1>5. /\ j \in JobRecord /\ j.pc = "save" /\ j.at = job[r].at
      /\ j.entity = job[r].entity /\ j.version = job[r].version
      /\ j.results = [job[r].results EXCEPT ![Order[job[r].at]] = value]
  BY <1>3, <1>4 DEF JobRecord
<1>6. /\ j.results[Order[j.at]] = value
      /\ \A m \in Metrics \ {Order[j.at]} : j.results[m] = job[r].results[m]
  BY <1>3, <1>4, <1>5 DEF JobRecord
<1>7. /\ Goes(r, j)
      /\ cache' = [cache EXCEPT ![CellOf(job[r])] = value]
  BY DEF Compute
<1> HIDE DEF j
<1>8. value # None
  BY ConstantsAssumption
<1>9. JobOK(j)
  BY <1>1, <1>2, <1>3, <1>5, <1>6, <1>8, OrderType DEF JobOK, Computing
<1>10. Computed(r, j)
  BY <1>5, <1>6, <1>7 DEF Computed
<1> QED
  BY <1>7, <1>9, <1>10 DEF Moves

LEMMA BeginMoves ==
    ASSUME TypeOK, NEW r \in Requests, NEW j \in JobRecord, j.version # None,
           job[r].pc \in {"find", "tag"},
           j.entity = job[r].entity, j.results = job[r].results,
           ComputeBatch(r, j, 1, cache), UNCHANGED <<stored, cache>>
    PROVE  \E n : Moves(r, n)
<1>1. 1 \in 1..Length + 1
  BY OrderType
<1>2. cache \in [Cell -> {None} \cup Value]
  BY DEF TypeOK
<1>3. PICK n :
          /\ JobOK(n) /\ Goes(r, n)
          /\ n.entity = j.entity /\ n.pc \in {"read", "done"}
          /\ n.at \in 1..Length + 1
          /\ \A i \in 1..n.at - 1 : cache[<<n.entity, Order[i]>>] # None
          /\ n.pc = "read" => n.at <= Length /\ cache[CellOf(n)] = None
          /\ \A m \in Metrics : \/ n.results[m] = cache[<<n.entity, m>>]
                                \/ n.results[m] = j.results[m]
  BY <1>1, <1>2, BatchTypes
<1>4. Begun(r, n)
  BY <1>3 DEF Begun, Batched
<1> QED
  BY <1>3, <1>4 DEF Moves

LEMMA AnalyseMoves ==
    ASSUME TypeOK, NEW r \in Requests, NEW e \in Entities, NEW o \in Contexts,
           Analyse(r, e, o)
    PROVE  \E j : Moves(r, j)
<1> DEFINE j == [pc |-> "find", entity |-> e, version |-> None, context |-> o,
                 at |-> 1, results |-> [m \in Metrics |-> None]]
<1>1. j \in JobRecord
  BY DEF JobRecord
<1>2. JobOK(j)
  BY <1>1 DEF JobOK, Computing
<1>3. Quiet(r, j)
  BY DEF Analyse, Quiet
<1> QED
  BY <1>2, <1>3 DEF Moves, Analyse

LEMMA FindMoves ==
    ASSUME TypeOK, NEW r \in Requests, FindEntity(r)
    PROVE  \E j : Moves(r, j)
<1> DEFINE j == [job[r] EXCEPT !.version = entities[job[r].entity]]
<1>1. /\ job[r] # Idle /\ job[r].pc = "find" /\ JobOK(job[r])
      /\ job[r] \in JobRecord
  BY JobTypes DEF FindEntity, JobOK
<1>2. entities[job[r].entity] \in Versions \cup {None}
  BY <1>1 DEF TypeOK, JobRecord
<1>3. /\ j \in JobRecord /\ j.entity = job[r].entity /\ j.pc = "find"
      /\ j.at = job[r].at /\ j.results = job[r].results
      /\ j.version = entities[job[r].entity]
  BY <1>1, <1>2 DEF JobRecord
<1>4. CASE /\ j.version = None
           /\ Goes(r, [job[r] EXCEPT !.pc = "failed"])
  <2> DEFINE n == [job[r] EXCEPT !.pc = "failed"]
  <2>1. /\ n \in JobRecord /\ n.pc = "failed" /\ n.entity = job[r].entity
        /\ n.results = job[r].results
    BY <1>1 DEF JobRecord
  <2>2. JobOK(n)
    BY <2>1 DEF JobOK, Computing
  <2>3. Quiet(r, n)
    BY <1>1, <2>1 DEF Quiet, Same, FindEntity
  <2> QED
    BY <1>4, <2>2, <2>3 DEF Moves
<1>5. CASE /\ j.version # None
           /\ Tagged[j.version] > 0
           /\ Goes(r, [j EXCEPT !.pc = "tag"])
  <2> DEFINE n == [j EXCEPT !.pc = "tag"]
  <2>1. /\ n \in JobRecord /\ n.pc = "tag" /\ n.entity = job[r].entity
        /\ n.results = job[r].results /\ n.version = j.version
        /\ n.at = job[r].at
    BY <1>3 DEF JobRecord
  <2>2. n.at = 1
    BY <1>1, <2>1 DEF JobOK
  <2>3. n.version \in Versions /\ Tagged[n.version] > 0
    BY <1>2, <1>3, <1>5, <2>1
  <2>4. Goes(r, n)
    BY <1>5
  <2> HIDE DEF n, j
  <2>5. Tagged[n.version] \in Nat
    BY <2>3, ConstantsAssumption
  <2>6. JobOK(n)
    BY <2>1, <2>2, <2>3, <2>5, ConstantsAssumption DEF JobOK, Computing
  <2>7. Quiet(r, n)
    BY <1>1, <2>1 DEF Quiet, Same, FindEntity
  <2> QED
    BY <2>4, <2>6, <2>7 DEF Moves
<1>6. CASE j.version # None /\ ComputeBatch(r, j, 1, cache)
  BY <1>1, <1>3, <1>6, BeginMoves DEF FindEntity
<1> QED
  BY <1>4, <1>5, <1>6 DEF FindEntity

LEMMA SaveTagsMoves ==
    ASSUME TypeOK, NEW r \in Requests, SaveTags(r)
    PROVE  \E j : Moves(r, j)
<1>1. /\ job[r] # Idle /\ job[r].pc = "tag" /\ JobOK(job[r])
      /\ job[r] \in JobRecord /\ job[r].version # None
  BY JobTypes DEF SaveTags, JobOK
<1>2. CASE LastTag(job[r])
  <2>1. ComputeBatch(r, job[r], 1, cache) /\ UNCHANGED <<stored, cache>>
    BY <1>2 DEF SaveTags
  <2> QED
    BY <1>1, <2>1, BeginMoves
<1>3. CASE ~LastTag(job[r])
  <2> DEFINE n == [job[r] EXCEPT !.at = @ + 1]
  <2>1. /\ n \in JobRecord /\ n.pc = "tag" /\ n.entity = job[r].entity
        /\ n.results = job[r].results /\ n.version = job[r].version
        /\ n.at = job[r].at + 1
    BY <1>1 DEF JobRecord
  <2>2. Tagged[job[r].version] \in Nat
    BY <1>1, ConstantsAssumption DEF JobRecord
  <2>3. JobOK(n)
    BY <1>1, <1>3, <2>1, <2>2 DEF JobOK, JobRecord, Computing, LastTag
  <2>4. Quiet(r, n)
    BY <1>1, <2>1 DEF Quiet, Same, SaveTags
  <2> QED
    BY <1>3, <2>3, <2>4 DEF Moves, SaveTags
<1> QED
  BY <1>2, <1>3

LEMMA FetchMoves ==
    ASSUME TypeOK, PassedInv, SaveInv, NEW r \in Requests, FetchNeighbours(r)
    PROVE  \E j : Moves(r, j)
<1> DEFINE value == {<<n, entities[n]>> :
                n \in {x \in Neighbours[job[r].entity] : entities[x] # None}}
<1>1. JobOK(job[r]) /\ job[r].pc = "fetch"
  BY JobTypes DEF FetchNeighbours
<1>2. job[r].entity \in Entities
  BY <1>1 DEF JobOK, JobRecord
<1>3. \A n \in Neighbours[job[r].entity] : n \in Entities
  BY <1>2, ConstantsAssumption
<1>4. value \in Value
  BY <1>3 DEF Value, Reading, TypeOK
<1>5. Order[job[r].at] \notin Formulas
  BY <1>1, ConstantsAssumption DEF SaveInv
<1>6. Compute(r, job[r], value) /\ UNCHANGED stored
  BY DEF FetchNeighbours
<1> HIDE DEF value
<1> QED
  BY <1>1, <1>4, <1>5, <1>6, ComputeTypes

LEMMA SaveMetricMoves ==
    ASSUME TypeOK, NEW r \in Requests, SaveMetric(r)
    PROVE  \E j : Moves(r, j)
<1>1. /\ job[r] # Idle /\ job[r].pc = "save" /\ JobOK(job[r])
      /\ job[r] \in JobRecord /\ job[r].version # None
  BY JobTypes DEF SaveMetric, JobOK, Computing
<1>2. job[r].at \in 1..Length
  BY <1>1, CellTypes DEF Computing
<1>3. PICK n :
          /\ JobOK(n) /\ Goes(r, n)
          /\ n.entity = job[r].entity /\ n.pc \in {"read", "done"}
          /\ n.at \in job[r].at + 1..Length + 1
          /\ \A i \in job[r].at + 1..n.at - 1 :
                cache[<<n.entity, Order[i]>>] # None
          /\ n.pc = "read" => n.at <= Length /\ cache[CellOf(n)] = None
          /\ \A m \in Metrics : \/ n.results[m] = cache[<<n.entity, m>>]
                                \/ n.results[m] = job[r].results[m]
  <2>1. job[r].at + 1 \in 1..Length + 1
    BY <1>2, OrderType
  <2>2. cache \in [Cell -> {None} \cup Value]
    BY DEF TypeOK
  <2>3. ComputeBatch(r, job[r], job[r].at + 1, cache)
    BY DEF SaveMetric
  <2> QED
    BY <1>1, <2>1, <2>2, <2>3, BatchTypes
<1>4. Saved(r, n)
  BY <1>1, <1>3 DEF Saved, Batched, SaveMetric
<1> QED
  BY <1>3, <1>4 DEF Moves

LEMMA ReadMoves ==
    ASSUME TypeOK, PassedInv, NEW r \in Requests, ReadStored(r)
    PROVE  \E j : Moves(r, j)
<1> DEFINE row == stored[CellOf(job[r])]
<1>1. /\ job[r] # Idle /\ job[r].pc = "read" /\ JobOK(job[r])
      /\ job[r] \in JobRecord /\ Computing(job[r])
  BY JobTypes DEF ReadStored, JobOK, Computing
<1>2. /\ job[r].at \in 1..Length /\ CellOf(job[r]) \in Cell
      /\ job[r].version # None
  BY <1>1, CellTypes DEF JobOK
<1>3. CASE /\ row # None
           /\ cache' = [cache EXCEPT ![CellOf(job[r])] = row]
           /\ ComputeBatch(r, job[r], job[r].at, cache')
  <2>1. job[r].at \in 1..Length + 1
    BY <1>2, OrderType
  <2>2. cache' \in [Cell -> {None} \cup Value]
    BY <1>2, <1>3 DEF TypeOK
  <2>3. \A c : /\ c = cache' => c \in [Cell -> {None} \cup Value]
               /\ c = cache' => ComputeBatch(r, job[r], job[r].at, c)
    BY <1>3, <2>2
  <2>4. PICK c : c = cache'
    OBVIOUS
  <2>5. PICK n :
            /\ JobOK(n) /\ Goes(r, n)
            /\ n.entity = job[r].entity /\ n.pc \in {"read", "done"}
            /\ n.at \in job[r].at..Length + 1
            /\ \A i \in job[r].at..n.at - 1 : c[<<n.entity, Order[i]>>] # None
            /\ n.pc = "read" => n.at <= Length /\ c[CellOf(n)] = None
            /\ \A m \in Metrics : \/ n.results[m] = c[<<n.entity, m>>]
                                  \/ n.results[m] = job[r].results[m]
    <3>1. c \in [Cell -> {None} \cup Value]
      BY <2>3, <2>4
    <3>2. ComputeBatch(r, job[r], job[r].at, c)
      BY <2>3, <2>4
    <3> QED
      BY <1>1, <1>2, <2>1, <3>1, <3>2, BatchTypes
  <2>6. Hit(r, n)
    BY <1>1, <1>3, <2>4, <2>5 DEF Hit, Batched, ReadStored
  <2> QED
    BY <2>5, <2>6 DEF Moves
<1>4. CASE Compute(r, job[r], ValueOf(job[r]))
  BY <1>1, <1>4, ValueTypes, ComputeTypes DEF ReadStored
<1>5. CASE /\ Goes(r, [job[r] EXCEPT !.pc = IF Order[job[r].at] \in Aggregates
                                            THEN "fetch" ELSE "failed"])
           /\ UNCHANGED cache
  <2> DEFINE n == [job[r] EXCEPT !.pc = IF Order[job[r].at] \in Aggregates
                                        THEN "fetch" ELSE "failed"]
  <2>1. /\ n \in JobRecord /\ n.entity = job[r].entity
        /\ n.results = job[r].results /\ n.version = job[r].version
        /\ n.at = job[r].at
        /\ n.pc = IF Order[job[r].at] \in Aggregates THEN "fetch" ELSE "failed"
    BY <1>1 DEF JobRecord
  <2>2. Goes(r, n)
    BY <1>5
  <2> HIDE DEF n
  <2>3. JobOK(n)
    BY <1>1, <1>2, <2>1 DEF JobOK, Computing
  <2>4. Quiet(r, n)
    BY <1>1, <1>5, <2>1 DEF Quiet, Same, ReadStored
  <2> QED
    BY <2>2, <2>3, <2>4 DEF Moves
<1> QED
  BY <1>3, <1>4, <1>5 DEF ReadStored

LEMMA FailMoves ==
    ASSUME TypeOK, NEW r \in Requests, Fail(r)
    PROVE  \E j : Moves(r, j)
<1> DEFINE n == [job[r] EXCEPT !.pc = IF @ = "save" THEN "unsaved" ELSE "failed"]
<1>1. /\ job[r] # Idle /\ JobOK(job[r]) /\ job[r] \in JobRecord
  BY JobTypes DEF Fail, JobOK
<1>2. /\ n \in JobRecord /\ n.entity = job[r].entity
      /\ n.results = job[r].results /\ n.version = job[r].version
      /\ n.at = job[r].at
      /\ n.pc = IF job[r].pc = "save" THEN "unsaved" ELSE "failed"
  BY <1>1 DEF JobRecord
<1>3. Goes(r, n) /\ UNCHANGED <<stored, cache>>
  BY DEF Fail
<1> HIDE DEF n
<1>4. JobOK(n)
  BY <1>1, <1>2 DEF JobOK, Computing
<1>5. Quiet(r, n)
  <2>1. job[r].pc \in {"find", "tag", "read", "fetch", "save"}
    BY DEF Fail
  <2> QED
    BY <1>1, <1>2, <1>3, <2>1 DEF Quiet, Same
<1> QED
  BY <1>3, <1>4, <1>5 DEF Moves

\* Every step is of one of the kinds.
LEMMA StepMoves ==
    ASSUME TypeOK, PassedInv, SaveInv, [Next]_vars
    PROVE  \/ UNCHANGED <<stored, cache, job, raced>>
           \/ \E r \in Requests : \E j : Moves(r, j)
<1>1. CASE UNCHANGED vars
  BY <1>1 DEF vars
<1>2. ASSUME NEW e \in Entities, NEW v \in Versions, SaveEntity(e, v)
      PROVE  UNCHANGED <<stored, cache, job, raced>>
  BY <1>2 DEF SaveEntity
<1>3. ASSUME NEW r \in Requests,
             \/ \E e \in Entities, o \in Contexts :
                   ExecuteAnalysis(r, e, o) \/ ExecuteDryRun(r, e, o)
             \/ Operation(r)
             \/ Fail(r)
      PROVE  \E j : Moves(r, j)
  <2>1. ASSUME NEW e \in Entities, NEW o \in Contexts,
               ExecuteAnalysis(r, e, o) \/ ExecuteDryRun(r, e, o)
        PROVE  \E j : Moves(r, j)
    BY <2>1, AnalyseMoves DEF ExecuteAnalysis, ExecuteDryRun
  <2>2. CASE Operation(r)
    BY <2>2, FindMoves, SaveTagsMoves, ReadMoves, FetchMoves, SaveMetricMoves
       DEF Operation
  <2> QED
    BY <1>3, <2>1, <2>2, FailMoves
<1> QED
  BY <1>1, <1>2, <1>3 DEF Next

-----------------------------------------------------------------------------
\* What every kind of step leaves alone.

LEMMA Moved ==
    ASSUME TypeOK, NEW r \in Requests, NEW j, Moves(r, j)
    PROVE  /\ JobOK(j) /\ job'[r] = j
           /\ \A q \in Requests \ {r} : job'[q] = job[q]
           /\ DOMAIN job' = Requests
           /\ raced \subseteq raced' /\ raced' \subseteq Cell
           /\ \A q \in Requests \ {r} :
                 Computing(j) /\ Computing(job[q]) /\ CellOf(job[q]) = CellOf(j)
                    => CellOf(j) \in raced'
<1>1. JobOK(j) /\ Goes(r, j)
  BY DEF Moves
<1>2. Computing(j) => CellOf(j) \in Cell
  BY <1>1, CellTypes
<1> QED
  BY <1>1, <1>2 DEF TypeOK, Goes

\* A cell of the cache is never emptied, and changes only in a race.
LEMMA CacheKept ==
    ASSUME TypeOK, ValuesInv, NEW r \in Requests, NEW j, Moves(r, j),
           NEW c \in Cell
    PROVE  /\ cache[c] # None => cache'[c] # None
           /\ cache[c] # None /\ c \notin raced' => cache'[c] = cache[c]
           /\ cache'[c] # cache[c] => /\ c = CellOf(job[r])
                                      /\ job[r].pc \in {"read", "fetch"}
                                      /\ cache'[c] # None
<1>1. JobOK(j) /\ raced \subseteq raced'
  BY Moved
<1>2. CASE UNCHANGED cache
  BY <1>2
<1>3. CASE Hit(r, j)
  BY <1>1, <1>3 DEF Hit, TypeOK, ValuesInv, ReadInv
<1>4. CASE Computed(r, j)
  BY <1>1, <1>4 DEF Computed, TypeOK, ValuesInv, ReadInv, JobOK
<1> QED
  BY <1>2, <1>3, <1>4 DEF Moves, Quiet, Begun, Saved

\* Only the request at a cell stores it.
LEMMA StoredKept ==
    ASSUME TypeOK, NEW r \in Requests, NEW j, Moves(r, j), NEW c \in Cell
    PROVE  stored'[c] # stored[c] =>
              /\ Saved(r, j) /\ c = CellOf(job[r])
              /\ stored'[c] = job[r].results[Order[job[r].at]]
              /\ stored'[c] # None
<1>1. CASE UNCHANGED stored
  BY <1>1
<1>2. CASE Saved(r, j)
  <2>1. JobOK(job[r])
    BY <1>2, JobTypes DEF Saved
  <2> QED
    BY <1>2, <2>1 DEF Saved, TypeOK, JobOK
<1> QED
  BY <1>1, <1>2 DEF Moves, Quiet, Begun, Hit, Computed

-----------------------------------------------------------------------------
\* Types.

LEMMA ValueTypesStep ==
    ASSUME TypeOK, NEW r \in Requests, NEW j, Moves(r, j)
    PROVE  /\ stored' \in [Cell -> {None} \cup Value]
           /\ cache' \in [Cell -> {None} \cup Value]
<1>1. JobOK(j)
  BY DEF Moves
<1>2. CASE UNCHANGED <<stored, cache>>
  BY <1>2 DEF TypeOK
<1>3. CASE Hit(r, j)
  <2>1. CellOf(job[r]) \in Cell
    BY <1>3, JobTypes, CellTypes DEF Hit, Computing
  <2> QED
    BY <1>3, <2>1 DEF Hit, TypeOK
<1>4. CASE Computed(r, j)
  <2>1. j.results[Order[j.at]] \in {None} \cup Value
    BY <1>1, <1>4, CellTypes DEF Computed, Computing, JobOK, JobRecord
  <2> QED
    BY <1>4, <2>1 DEF Computed, TypeOK
<1>5. CASE Saved(r, j)
  <2>1. JobOK(job[r]) /\ Computing(job[r])
    BY <1>5, JobTypes DEF Saved, Computing
  <2>2. job[r].results[Order[job[r].at]] \in {None} \cup Value
    BY <2>1, CellTypes DEF JobOK, JobRecord
  <2> QED
    BY <1>5, <2>2 DEF Saved, TypeOK
<1> QED
  BY <1>2, <1>3, <1>4, <1>5 DEF Moves, Quiet, Begun

LEMMA TagTypesStep ==
    ASSUME TypeOK, [Next]_vars
    PROVE  /\ entities' \in [Entities -> Versions \cup {None}]
           /\ tags' \in [Entities -> (Versions \X Nat) \cup {None}]
           /\ broken' \subseteq Entities
<1> USE DEF TypeOK
<1>1. CASE UNCHANGED <<entities, tags, broken>>
  BY <1>1
<1>2. ASSUME NEW e \in Entities, NEW v \in Versions, SaveEntity(e, v)
      PROVE  /\ entities' \in [Entities -> Versions \cup {None}]
             /\ tags' = tags /\ broken' = broken
  BY <1>2 DEF SaveEntity
<1>3. ASSUME NEW r \in Requests, SaveTags(r)
      PROVE  /\ entities' = entities
             /\ tags' \in [Entities -> (Versions \X Nat) \cup {None}]
             /\ broken' \subseteq Entities
  <2>1. JobOK(job[r]) /\ job[r].pc = "tag"
    BY <1>3, JobTypes DEF SaveTags
  <2>2. job[r].version \in Versions /\ job[r].at \in Nat
    BY <2>1 DEF JobOK, JobRecord
  <2> QED
    BY <1>3, <2>2 DEF SaveTags
<1>4. ASSUME NEW r \in Requests, Fail(r)
      PROVE  entities' = entities /\ tags' = tags /\ broken' \subseteq Entities
  <2>1. JobOK(job[r])
    BY <1>4, JobTypes DEF Fail
  <2> QED
    BY <1>4, <2>1 DEF Fail, JobOK, JobRecord
<1> QED
  BY <1>1, <1>2, <1>3, <1>4 DEF Next, vars, Operation, ExecuteAnalysis,
     ExecuteDryRun, Analyse, FindEntity, ReadStored, FetchNeighbours, SaveMetric

LEMMA TypeStep ==
    ASSUME TypeOK, PassedInv, SaveInv, [Next]_vars
    PROVE  TypeOK'
<1>1. CASE UNCHANGED <<stored, cache, job, raced>>
  BY <1>1, TagTypesStep DEF TypeOK
<1>2. ASSUME NEW r \in Requests, NEW j, Moves(r, j)
      PROVE  TypeOK'
  <2>1. \A q \in Requests : job'[q] = Idle \/ JobOK(job'[q])
    BY <1>2, Moved DEF TypeOK
  <2>2. \A q \in Requests : job'[q] = Idle \/ JobOK(job[q])'
    BY <2>1 DEF JobOK, Computing
  <2> QED
    BY <1>2, <2>2, Moved, ValueTypesStep, TagTypesStep DEF TypeOK
<1> QED
  BY <1>1, <1>2, StepMoves

-----------------------------------------------------------------------------
\* The invariants about values.

LEMMA PassedStep ==
    ASSUME TypeOK, ValuesInv, NEW r \in Requests, NEW j, Moves(r, j)
    PROVE  PassedInv'
<1> SUFFICES ASSUME NEW q \in Requests, Computing(job'[q]),
                    NEW i \in 1..job'[q].at - 1
             PROVE  cache'[<<job'[q].entity, Order[i]>>] # None
  BY DEF PassedInv, Computing
<1>1. JobOK(j) /\ job'[r] = j /\ \A p \in Requests \ {r} : job'[p] = job[p]
  BY Moved
<1>2. JobOK(job'[q])
  BY <1>1, JobTypes DEF Computing
<1>3. /\ job'[q].at \in 1..Length /\ job'[q].entity \in Entities
      /\ i \in 1..Length /\ Order[i] \in Metrics
  BY <1>2, CellTypes, OrderType
<1>4. <<job'[q].entity, Order[i]>> \in Cell
  BY <1>3 DEF Cell
<1>5. cache[<<job'[q].entity, Order[i]>>] # None
        => cache'[<<job'[q].entity, Order[i]>>] # None
  BY <1>4, CacheKept
<1>6. CASE q # r
  BY <1>1, <1>5, <1>6 DEF PassedInv, ValuesInv, Computing
<1>7. CASE q = r
  <2>1. \/ Quiet(r, j) /\ job[r].pc = "read"
        \/ Begun(r, j) \/ Hit(r, j) \/ Computed(r, j) \/ Saved(r, j)
    BY <1>1, <1>7 DEF Moves, Quiet, Computing
  <2>2. CASE Begun(r, j)
    BY <1>1, <1>7, <2>2 DEF Begun, Batched
  <2>3. ASSUME Computing(job[r]), i < job[r].at, j.entity = job[r].entity
        PROVE  cache'[<<job'[q].entity, Order[i]>>] # None
    <3>1. JobOK(job[r])
      BY <2>3, JobTypes DEF Computing
    <3>2. i \in 1..job[r].at - 1
      BY <2>3, <3>1, CellTypes
    <3> QED
      BY <1>1, <1>5, <1>7, <2>3, <3>2 DEF PassedInv, ValuesInv
  <2>4. CASE Quiet(r, j) /\ job[r].pc = "read"
    BY <1>1, <1>3, <1>7, <2>3, <2>4 DEF Quiet, Same, Computing
  <2>5. CASE Computed(r, j)
    BY <1>1, <1>3, <1>7, <2>3, <2>5 DEF Computed, Computing
  <2>6. CASE Hit(r, j)
    <3>1. Computing(job[r]) /\ j.entity = job[r].entity
      BY <2>6 DEF Hit, Batched, Computing
    <3>2. job[r].at \in 1..Length
      BY <3>1, JobTypes, CellTypes DEF Computing
    <3>3. CASE i >= job[r].at
      BY <1>1, <1>3, <1>7, <2>6, <3>2, <3>3 DEF Hit, Batched
    <3> QED
      BY <1>3, <2>3, <3>1, <3>2, <3>3
  <2>7. CASE Saved(r, j)
    <3>1. Computing(job[r]) /\ j.entity = job[r].entity
      BY <2>7 DEF Saved, Batched, Computing
    <3>2. job[r].at \in 1..Length
      BY <3>1, JobTypes, CellTypes DEF Computing
    <3>3. CASE i > job[r].at
      BY <1>1, <1>3, <1>7, <2>7, <3>2, <3>3 DEF Saved, Batched
    <3>4. CASE i = job[r].at
      BY <1>1, <1>5, <1>7, <2>7, <3>1, <3>4
         DEF Saved, ValuesInv, SaveInv, CellOf
    <3> QED
      BY <1>3, <2>3, <3>1, <3>2, <3>3, <3>4
  <2> QED
    BY <2>1, <2>2, <2>4, <2>5, <2>6, <2>7
<1> QED
  BY <1>6, <1>7

LEMMA RacedStep ==
    ASSUME TypeOK, ValuesInv, NEW r \in Requests, NEW j, Moves(r, j)
    PROVE  RacedInv'
<1> SUFFICES ASSUME NEW p \in Requests, NEW q \in Requests, p # q,
                    Computing(job'[p]), Computing(job'[q]),
                    CellOf(job'[p]) = CellOf(job'[q])
             PROVE  CellOf(job'[p]) \in raced'
  BY DEF RacedInv, Computing, CellOf
<1> QED
  BY Moved DEF ValuesInv, RacedInv

LEMMA ReadStep ==
    ASSUME TypeOK, ValuesInv, NEW r \in Requests, NEW j, Moves(r, j)
    PROVE  ReadInv'
<1> SUFFICES ASSUME NEW q \in Requests, job'[q].pc \in {"read", "fetch"},
                    CellOf(job'[q]) \notin raced'
             PROVE  cache'[CellOf(job'[q])] = None
  BY DEF ReadInv, CellOf
<1>1. /\ JobOK(j) /\ job'[r] = j /\ raced \subseteq raced'
      /\ \A p \in Requests \ {r} : job'[p] = job[p]
  BY Moved
<1>2. CASE q # r
  <2>1. Computing(job[q]) /\ JobOK(job[q]) /\ job'[q] = job[q]
    BY <1>1, <1>2, JobTypes DEF Computing
  <2>2. CellOf(job[q]) \in Cell /\ cache[CellOf(job[q])] = None
    BY <1>1, <2>1, CellTypes DEF ValuesInv, ReadInv
  <2>3. ASSUME cache'[CellOf(job[q])] # cache[CellOf(job[q])]
        PROVE  FALSE
    <3>1. CellOf(job[q]) = CellOf(job[r]) /\ Computing(job[r])
      BY <2>2, <2>3, CacheKept DEF Computing
    <3> QED
      BY <1>1, <1>2, <2>1, <3>1 DEF ValuesInv, RacedInv
  <2> QED
    BY <2>1, <2>2, <2>3
<1>3. CASE q = r
  <2>1. CASE j.pc = "fetch"
    <3>1. /\ Quiet(r, j) /\ job[r].pc = "read" /\ j.at = job[r].at
          /\ j.entity = job[r].entity
      BY <2>1 DEF Moves, Quiet, Same, Begun, Hit, Computed, Saved, Batched
    <3> QED
      BY <1>1, <1>3, <3>1 DEF Quiet, ValuesInv, ReadInv, CellOf
  <2>2. CASE j.pc = "read"
    BY <1>1, <1>3, <2>2
       DEF Moves, Quiet, Same, Begun, Hit, Computed, Saved, Batched
  <2> QED
    BY <1>1, <1>3, <2>1, <2>2
<1> QED
  BY <1>2, <1>3

\* HoldsDeps after the step, of a value from before it.
HoldsDepsNext(e, m, value) ==
    \A d \in Deps[m] :
        \/ <<"context", d>> \in value
        \/ <<e, d>> \in raced'
        \/ cache'[<<e, d>>] # None /\ cache'[<<e, d>>] \subseteq value

LEMMA HoldsDepsKept ==
    ASSUME TypeOK, ValuesInv, NEW r \in Requests, NEW j, Moves(r, j),
           NEW e \in Entities, NEW m \in Metrics, NEW value,
           HoldsDeps(e, m, value)
    PROVE  HoldsDepsNext(e, m, value)
<1> SUFFICES ASSUME NEW d \in Deps[m]
             PROVE  \/ <<"context", d>> \in value
                    \/ <<e, d>> \in raced'
                    \/ /\ cache'[<<e, d>>] # None
                       /\ cache'[<<e, d>>] \subseteq value
  BY DEF HoldsDepsNext
<1>1. <<e, d>> \in Cell
  BY ConstantsAssumption DEF Cell
<1>2. raced \subseteq raced'
  BY Moved
<1> QED
  BY <1>1, <1>2, CacheKept DEF HoldsDeps

LEMMA SaveStep ==
    ASSUME TypeOK, ValuesInv, NEW r \in Requests, NEW j, Moves(r, j)
    PROVE  SaveInv'
<1>1. /\ JobOK(j) /\ job'[r] = j
      /\ \A p \in Requests \ {r} : job'[p] = job[p]
  BY Moved
<1>2. ASSUME NEW q \in Requests, job'[q].pc \in {"save", "unsaved"}
      PROVE  cache'[CellOf(job'[q])] # None
  <2>1. CASE q # r
    <3>1. JobOK(job[q]) /\ job'[q] = job[q]
      BY <1>1, <1>2, <2>1, JobTypes
    <3>2. CellOf(job[q]) \in Cell /\ cache[CellOf(job[q])] # None
      BY <1>2, <3>1, CellTypes DEF ValuesInv, SaveInv, Computing
    <3> QED
      BY <3>1, <3>2, CacheKept
  <2>2. CASE q = r /\ j.pc = "save"
    <3>1. Computed(r, j)
      BY <2>2 DEF Moves, Quiet, Begun, Hit, Saved, Batched
    <3>2. CellOf(j) = CellOf(job[r]) /\ CellOf(j) \in Cell
      BY <1>1, <3>1, CellTypes DEF Computed, CellOf, Computing
    <3> QED
      BY <1>1, <2>2, <3>1, <3>2 DEF Computed, TypeOK, JobOK
  <2>3. CASE q = r /\ j.pc = "unsaved"
    <3>1. /\ Quiet(r, j) /\ job[r].pc = "save" /\ j.at = job[r].at
          /\ j.entity = job[r].entity
      BY <2>3 DEF Moves, Quiet, Same, Begun, Hit, Computed, Saved, Batched
    <3> QED
      BY <1>1, <2>3, <3>1 DEF Quiet, ValuesInv, SaveInv, CellOf
  <2> QED
    BY <1>1, <1>2, <2>1, <2>2, <2>3
<1>3. ASSUME NEW q \in Requests, job'[q].pc = "save",
             Order[job'[q].at] \in Formulas
      PROVE  HoldsDepsNext(job'[q].entity, Order[job'[q].at],
                           job'[q].results[Order[job'[q].at]])
  <2>1. JobOK(job'[q])
    BY <1>1, <1>3, JobTypes
  <2>2. job'[q].entity \in Entities /\ Order[job'[q].at] \in Metrics
    BY <1>3, <2>1, CellTypes DEF Computing
  <2>3. HoldsDeps(job'[q].entity, Order[job'[q].at],
                  job'[q].results[Order[job'[q].at]])
    <3>1. CASE q # r
      BY <1>1, <1>3, <3>1 DEF ValuesInv, SaveInv
    <3>2. CASE q = r
      <4>1. Computed(r, j)
        BY <1>1, <1>3, <3>2 DEF Moves, Quiet, Begun, Hit, Saved, Batched
      <4> QED
        BY <1>1, <1>3, <3>2, <4>1 DEF Computed
    <3> QED
      BY <3>1, <3>2
  <2> QED
    BY <2>2, <2>3, HoldsDepsKept
<1>4. ASSUME NEW q \in Requests, job'[q].pc = "fetch"
      PROVE  Order[job'[q].at] \in Aggregates
  BY <1>1, <1>4 DEF ValuesInv, SaveInv, Moves, Quiet, Begun, Hit, Computed,
     Saved, Batched
<1> QED
  BY <1>2, <1>3, <1>4 DEF SaveInv, CellOf, HoldsDeps, HoldsDepsNext

-----------------------------------------------------------------------------
\* The properties.

\* What a request saves is what is in the cache, unless it was not alone.
LEMMA SavesCached ==
    ASSUME TypeOK, ValuesInv, ResponsesAgree, NEW r \in Requests, NEW j,
           Saved(r, j), CellOf(job[r]) \notin raced
    PROVE  job[r].results[Order[job[r].at]] = cache[CellOf(job[r])]
<1>1. JobOK(job[r]) /\ job[r] # Idle /\ job[r].pc = "save"
  BY JobTypes DEF Saved
<1>2. /\ Order[job[r].at] \in Metrics
      /\ job[r].results[Order[job[r].at]] # None
  BY <1>1, CellTypes DEF Computing, JobOK
<1> QED
  BY <1>1, <1>2 DEF ResponsesAgree, CellOf

LEMMA CacheStep ==
    ASSUME TypeOK, ValuesInv, CacheBacked, ResponsesAgree,
           NEW r \in Requests, NEW j, Moves(r, j)
    PROVE  CacheBacked'
<1>1. /\ JobOK(j) /\ job'[r] = j /\ raced \subseteq raced'
      /\ \A p \in Requests \ {r} : job'[p] = job[p]
  BY Moved
<1>2. ASSUME NEW c \in Cell, stored'[c] # None
      PROVE  cache'[c] # None
  <2>1. CASE stored'[c] = stored[c]
    BY <1>2, <2>1, CacheKept DEF CacheBacked
  <2>2. CASE stored'[c] # stored[c]
    <3>1. c = CellOf(job[r]) /\ job[r].pc = "save"
      BY <2>2, StoredKept DEF Saved
    <3>2. cache[c] # None
      BY <3>1 DEF ValuesInv, SaveInv
    <3> QED
      BY <3>2, CacheKept
  <2> QED
    BY <2>1, <2>2
<1>3. ASSUME NEW c \in Cell, cache'[c] # None, c \notin raced'
      PROVE  \/ stored'[c] = cache'[c]
             \/ /\ stored'[c] = None
                /\ \E q \in Requests : /\ job'[q].pc \in {"save", "unsaved"}
                                       /\ CellOf(job'[q]) = c
  <2>1. c \notin raced
    BY <1>1, <1>3
  <2>2. CASE cache'[c] # cache[c]
    <3>1. c = CellOf(job[r]) /\ job[r].pc \in {"read", "fetch"}
      BY <2>2, CacheKept
    <3>2. cache[c] = None /\ stored[c] = None
      BY <2>1, <3>1 DEF ValuesInv, ReadInv, CacheBacked
    <3>3. Computed(r, j)
      BY <2>2, <3>1, <3>2 DEF Moves, Quiet, Begun, Hit, Saved
    <3> QED
      BY <1>1, <3>1, <3>2, <3>3 DEF Computed, CellOf
  <2>3. CASE stored'[c] # stored[c]
    <3>1. /\ Saved(r, j) /\ c = CellOf(job[r])
          /\ stored'[c] = job[r].results[Order[job[r].at]]
      BY <2>3, StoredKept
    <3> QED
      BY <2>1, <3>1, SavesCached DEF Saved
  <2>4. CASE cache'[c] = cache[c] /\ stored'[c] = stored[c]
    <3>1. stored[c] = cache[c] \/ (stored[c] = None /\ Unwritten(c))
      BY <1>3, <2>1, <2>4 DEF CacheBacked
    <3>2. ASSUME stored[c] = None,
                 NEW q \in Requests, job[q].pc \in {"save", "unsaved"},
                 CellOf(job[q]) = c
          PROVE  job'[q].pc \in {"save", "unsaved"} /\ CellOf(job'[q]) = c
      <4>1. CASE q # r
        BY <1>1, <3>2, <4>1
      <4>2. CASE q = r
        <5>1. ~Saved(r, j)
          <6>1. ASSUME Saved(r, j)
                PROVE  stored'[c] # None
            BY <1>3, <2>1, <2>4, <3>2, <4>2, <6>1, SavesCached
               DEF Saved, TypeOK
          <6> QED
            BY <2>4, <3>2, <6>1
        <5>2. /\ Quiet(r, j) /\ Same(r, j) /\ j.pc = "unsaved"
              /\ j.at = job[r].at
          <6>1. job[r] # Idle
            BY <3>2, <4>2, JobTypes
          <6> QED
            BY <3>2, <4>2, <5>1, <6>1
               DEF Moves, Quiet, Begun, Hit, Computed
        <5> QED
          BY <1>1, <3>2, <4>2, <5>2 DEF Same, CellOf
      <4> QED
        BY <4>1, <4>2
    <3> QED
      BY <2>4, <3>1, <3>2 DEF Unwritten
  <2> QED
    BY <2>2, <2>3, <2>4
<1> QED
  BY <1>2, <1>3 DEF CacheBacked, Unwritten, CellOf

LEMMA ResponsesStep ==
    ASSUME TypeOK, ValuesInv, ResponsesAgree, NEW r \in Requests, NEW j,
           Moves(r, j)
    PROVE  ResponsesAgree'
<1> SUFFICES ASSUME NEW q \in Requests, job'[q] # Idle, NEW m \in Metrics,
                    job'[q].results[m] # None,
                    <<job'[q].entity, m>> \notin raced'
             PROVE  job'[q].results[m] = cache'[<<job'[q].entity, m>>]
  BY DEF ResponsesAgree, Idle
<1>1. /\ JobOK(j) /\ job'[r] = j /\ raced \subseteq raced'
      /\ \A p \in Requests \ {r} : job'[p] = job[p]
  BY Moved
<1>2. JobOK(job'[q])
  BY <1>1, JobTypes
<1>3. <<job'[q].entity, m>> \in Cell
  BY <1>2 DEF JobOK, JobRecord, Cell
<1>4. ASSUME job[q] # Idle, job'[q].entity = job[q].entity,
             job'[q].results[m] = job[q].results[m]
      PROVE  job'[q].results[m] = cache'[<<job'[q].entity, m>>]
  BY <1>1, <1>3, <1>4, CacheKept DEF ResponsesAgree
<1>5. CASE q # r
  BY <1>1, <1>2, <1>4, <1>5, JobTypes
<1>6. CASE q = r
  <2>1. CASE Quiet(r, j)
    BY <1>1, <1>4, <1>6, <2>1 DEF Quiet, Same
  <2>2. CASE Computed(r, j)
    <3>1. JobOK(job[r]) /\ job[r] # Idle /\ Computing(job[r])
      BY <2>2, JobTypes DEF Computed, Computing
    <3>2. CASE m = Order[j.at]
      <4>1. CellOf(job[r]) = <<j.entity, m>>
        BY <2>2, <3>2 DEF Computed, CellOf
      <4> QED
        BY <1>1, <1>3, <1>6, <2>2, <3>2, <4>1 DEF Computed, TypeOK
    <3> QED
      BY <1>1, <1>4, <1>6, <2>2, <3>1, <3>2 DEF Computed
  <2>3. CASE Begun(r, j) \/ Hit(r, j) \/ Saved(r, j)
    <3>1. /\ job[r] # Idle /\ j.entity = job[r].entity
          /\ \/ j.results[m] = cache'[<<j.entity, m>>]
             \/ j.results[m] = job[r].results[m]
      BY <2>3, JobTypes DEF Begun, Hit, Saved, Batched
    <3> QED
      BY <1>1, <1>4, <1>6, <3>1
  <2> QED
    BY <2>1, <2>2, <2>3 DEF Moves
<1> QED
  BY <1>5, <1>6

LEMMA DerivedStep ==
    ASSUME TypeOK, ValuesInv, DerivedAgrees, NEW r \in Requests, NEW j,
           Moves(r, j)
    PROVE  DerivedAgrees'
<1> SUFFICES ASSUME NEW e \in Entities, NEW m \in Formulas,
                    stored'[<<e, m>>] # None
             PROVE  HoldsDepsNext(e, m, stored'[<<e, m>>])
  BY DEF DerivedAgrees, HoldsDepsNext
<1>1. m \in Metrics /\ <<e, m>> \in Cell
  BY ConstantsAssumption DEF Cell
<1>2. CASE stored'[<<e, m>>] = stored[<<e, m>>]
  <2>1. HoldsDeps(e, m, stored[<<e, m>>])
    BY <1>2 DEF DerivedAgrees, HoldsDeps
  <2> QED
    BY <1>1, <1>2, <2>1, HoldsDepsKept
<1>3. CASE stored'[<<e, m>>] # stored[<<e, m>>]
  <2>1. /\ job[r].pc = "save" /\ <<e, m>> = CellOf(job[r])
        /\ stored'[<<e, m>>] = job[r].results[Order[job[r].at]]
    BY <1>1, <1>3, StoredKept DEF Saved
  <2>2. e = job[r].entity /\ m = Order[job[r].at]
    BY <2>1 DEF CellOf
  <2>3. HoldsDeps(e, m, stored'[<<e, m>>])
    BY <2>1, <2>2 DEF ValuesInv, SaveInv
  <2> QED
    BY <1>1, <2>3, HoldsDepsKept
<1> QED
  BY <1>2, <1>3

LEMMA TagsStep ==
    ASSUME TypeOK, PassedInv, SaveInv, TagsWhole, [Next]_vars
    PROVE  TagsWhole'
<1> SUFFICES ASSUME NEW e \in Entities, tags'[e] # None, e \notin broken',
                    \A q \in Requests :
                       ~(job'[q].pc = "tag" /\ job'[q].entity = e)
             PROVE  tags'[e][2] = Tagged[tags'[e][1]]
  BY DEF TagsWhole
<1>1. ASSUME UNCHANGED <<tags, broken, job>>
      PROVE  tags'[e][2] = Tagged[tags'[e][1]]
  BY <1>1 DEF TagsWhole
<1>2. ASSUME NEW r \in Requests, job[r].pc # "tag" \/ job[r].entity # e,
             \A q \in Requests \ {r} : job'[q] = job[q],
             tags'[e] = tags[e], e \in broken => e \in broken'
      PROVE  tags'[e][2] = Tagged[tags'[e][1]]
  BY <1>2 DEF TagsWhole
<1>3. ASSUME NEW r \in Requests, \E j : Moves(r, j)
      PROVE  \A q \in Requests \ {r} : job'[q] = job[q]
  BY <1>3, Moved
<1>4. ASSUME NEW r \in Requests, NEW x \in Entities, NEW o \in Contexts,
             ExecuteAnalysis(r, x, o) \/ ExecuteDryRun(r, x, o)
      PROVE  tags'[e][2] = Tagged[tags'[e][1]]
  <2>1. Analyse(r, x, o)
    BY <1>4 DEF ExecuteAnalysis, ExecuteDryRun
  <2>2. job[r].pc # "tag" /\ UNCHANGED <<tags, broken>>
    BY <2>1 DEF Analyse, Idle
  <2> QED
    BY <1>2, <1>3, <2>1, <2>2, AnalyseMoves
<1>5. ASSUME NEW r \in Requests,
             FindEntity(r) \/ ReadStored(r) \/ FetchNeighbours(r) \/ SaveMetric(r)
      PROVE  tags'[e][2] = Tagged[tags'[e][1]]
  <2>1. job[r].pc # "tag" /\ UNCHANGED <<tags, broken>>
    BY <1>5 DEF FindEntity, ReadStored, FetchNeighbours, SaveMetric
  <2>2. \E j : Moves(r, j)
    BY <1>5, FindMoves, ReadMoves, FetchMoves, SaveMetricMoves
  <2> QED
    BY <1>2, <1>3, <2>1, <2>2
<1>6. ASSUME NEW r \in Requests, SaveTags(r)
      PROVE  tags'[e][2] = Tagged[tags'[e][1]]
  <2>1. \A q \in Requests \ {r} : job'[q] = job[q]
    BY <1>3, <1>6, SaveTagsMoves
  <2>2. CASE job[r].entity # e
    BY <1>2, <1>6, <2>1, <2>2 DEF SaveTags, TypeOK
  <2>3. CASE job[r].entity = e /\ LastTag(job[r])
    BY <1>6, <2>3 DEF SaveTags, LastTag, TypeOK
  <2>4. CASE job[r].entity = e /\ ~LastTag(job[r])
    <3>1. Goes(r, [job[r] EXCEPT !.at = @ + 1]) /\ job[r].pc = "tag"
      BY <1>6, <2>4 DEF SaveTags
    <3>2. job[r] \in JobRecord
      BY <1>6, JobTypes DEF SaveTags, JobOK
    <3>3. job'[r] = [job[r] EXCEPT !.at = @ + 1]
      BY <3>1 DEF Goes, TypeOK
    <3>4. job'[r].pc = "tag" /\ job'[r].entity = e
      BY <2>4, <3>1, <3>2, <3>3 DEF JobRecord
    <3> QED
      BY <3>4
  <2> QED
    BY <2>2, <2>3, <2>4
<1>7. ASSUME NEW r \in Requests, Fail(r)
      PROVE  tags'[e][2] = Tagged[tags'[e][1]]
  <2>1. \A q \in Requests \ {r} : job'[q] = job[q]
    BY <1>3, <1>7, FailMoves
  <2>2. job[r].pc # "tag" \/ job[r].entity # e
    BY <1>7 DEF Fail
  <2>3. tags' = tags /\ broken \subseteq broken'
    BY <1>7 DEF Fail
  <2> QED
    BY <1>2, <2>1, <2>2, <2>3
<1>8. ASSUME NEW x \in Entities, NEW v \in Versions, SaveEntity(x, v)
      PROVE  UNCHANGED <<tags, broken, job>>
  BY <1>8 DEF SaveEntity
<1> QED
  BY <1>1, <1>4, <1>5, <1>6, <1>7, <1>8 DEF Next, Operation, vars

-----------------------------------------------------------------------------
LEMMA InitHolds ==
    ASSUME Init
    PROVE  IInv
<1>1. \A r \in Requests : job[r] = Idle /\ job[r].pc = "idle"
  BY DEF Init, Idle
<1>2. TypeOK
  BY <1>1 DEF Init, TypeOK
<1>3. ValuesInv
  BY <1>1 DEF ValuesInv, PassedInv, RacedInv, ReadInv, SaveInv, Computing
<1>4. CacheBacked
  BY DEF Init, CacheBacked
<1>5. ResponsesAgree
  BY <1>1 DEF ResponsesAgree
<1>6. DerivedAgrees
  <2>1. \A e \in Entities, m \in Formulas : <<e, m>> \in Cell
    BY ConstantsAssumption DEF Cell
  <2> QED
    BY <2>1 DEF Init, DerivedAgrees
<1>7. TagsWhole
  BY DEF Init, TagsWhole
<1> QED
  BY <1>2, <1>3, <1>4, <1>5, <1>6, <1>7 DEF IInv

LEMMA StepHolds ==
    ASSUME IInv, [Next]_vars
    PROVE  IInv'
<1> USE DEF IInv
<1>1. TypeOK' /\ TagsWhole'
  BY TypeStep, TagsStep DEF ValuesInv
<1>2. CASE UNCHANGED <<stored, cache, job, raced>>
  <2>1. ValuesInv'
    BY <1>2 DEF ValuesInv, PassedInv, RacedInv, ReadInv, SaveInv, HoldsDeps,
       Computing, CellOf
  <2>2. CacheBacked' /\ ResponsesAgree' /\ DerivedAgrees'
    BY <1>2 DEF CacheBacked, Unwritten, CellOf, ResponsesAgree, DerivedAgrees
  <2> QED
    BY <1>1, <2>1, <2>2
<1>3. ASSUME NEW r \in Requests, NEW j, Moves(r, j)
      PROVE  IInv'
  <2>1. ValuesInv'
    BY <1>3, PassedStep, RacedStep, ReadStep, SaveStep DEF ValuesInv
  <2> QED
    BY <1>1, <1>3, <2>1, CacheStep, ResponsesStep, DerivedStep
<1> QED
  BY <1>2, <1>3, StepMoves DEF ValuesInv

\* The inductive invariant holds of every behaviour.
THEOREM Invariance == Spec => []IInv
<1>1. Init => IInv
  BY InitHolds
<1>2. IInv /\ [Next]_vars => IInv'
  BY StepHolds
<1> QED
  BY <1>1, <1>2, PTL DEF Spec

\* The tables, the cache and the coroutines of execute_analysis keep their
\* types, and a request points to a dimension or a metric that there is.
THEOREM TypeCorrect == Spec => []TypeOK
<1>1. IInv => TypeOK
  BY DEF IInv
<1> QED
  BY <1>1, Invariance, PTL

\* MetricCache and computed_metrics agree, but for metrics computed by two
\* requests together and those whose save is to come or raised.
THEOREM CacheIsBacked == Spec => []CacheBacked
<1>1. IInv => CacheBacked
  BY DEF IInv
<1> QED
  BY <1>1, Invariance, PTL

\* Requests that interleave answer with the same value of a metric, unless
\* they computed it together.
THEOREM ResponsesDoAgree == Spec => []ResponsesAgree
<1>1. IInv => ResponsesAgree
  BY DEF IInv
<1> QED
  BY <1>1, Invariance, PTL

\* A stored derived or composite metric was computed from the dependencies'
\* values that are kept.
THEOREM FormulasAgree == Spec => []DerivedAgrees
<1>1. IInv => DerivedAgrees
  BY DEF IInv
<1> QED
  BY <1>1, Invariance, PTL

\* The category tags of an entity are all of one version when no request is
\* saving them and none broke off.
THEOREM TagsAreWhole == Spec => []TagsWhole
<1>1. IInv => TagsWhole
  BY DEF IInv
<1> QED
  BY <1>1, Invariance, PTL
=============================================================================
