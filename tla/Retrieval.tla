----------------------------- MODULE Retrieval -----------------------------
(***************************************************************************)
(* DefaultRetrievalBackend over DuckDB, a NetworkX graph that mirrors its  *)
(* relations, and LocalVectorStore.  The graph and the vector store are in *)
(* memory, and what a request asks of them happens at once; a pattern is   *)
(* matched in DuckDB, where there is no graph, one awaited query at a time.*)
(* One query vector is asked about: a stored vector is the similarity it   *)
(* has to it.  Scores count in sixtieths, and are not divided by the sum   *)
(* of their weights.                                                       *)
(***************************************************************************)
EXTENDS Integers, Sequences, FiniteSets, SequencesExt

CONSTANTS
    Entities,       \* the entities, a sequence in the order of their ids
    ConceptOf,      \* [entities -> concepts], in the rows and in the metadata
    Graphs,         \* the sets of relations <<from, type, to>> to begin with
    Relations,      \* those that may be added
    Batches,        \* of vectors, [id, dimension, similarity]
    HybridQueries,  \* [dimension, seed, top, strategy, pattern, weights]
    SemanticQueries,\* [dimension, top, concept]
    MatchQueries,   \* [start, filter, pattern, limit]
    NeighborLimit,  \* how many relations of an entity the graph lists
    MaxChanges,     \* bound on the changes of vectors and relations
    None            \* no query vector, no seed, no concept, any type

\* An entity has one row, a relation is between entities, a vector is that of
\* an entity, and whoever asks wants some answers.
ASSUME RetrievalAssumption ==
    /\ Entities \in Seq(ToSet(Entities)) /\ IsInjective(Entities)
    /\ \A r \in Relations \cup UNION Graphs :
          r = <<r[1], r[2], r[3]>> /\ r[1] \in ToSet(Entities) /\ r[3] \in ToSet(Entities)
    /\ \A batch \in Batches : \A i \in DOMAIN batch :
          batch[i].id \in ToSet(Entities) /\ batch[i].similarity \in Int
    /\ \A batch \in Batches : Len(batch) \in Nat /\ DOMAIN batch = 1..Len(batch)
    /\ \A q \in HybridQueries :
          /\ q.top \in Nat \ {0} /\ q.seed \in ToSet(Entities) \cup {None}
          /\ q.strategy \in {"filter_then_fuse", "independent_then_fuse", "fuse_then_filter"}
          /\ "seed" \in DOMAIN q /\ q.weights \in [semantic : Int, graph : Int, path : Int]
          /\ \A i \in 1..Len(q.pattern) : q.pattern[i].type # None
    /\ \A q \in SemanticQueries : q.top \in Nat \ {0} /\ q.dimension # None
    /\ \A q \in MatchQueries : q.limit \in Nat /\ Len(q.pattern) \in Nat
                                /\ "dimension" \notin DOMAIN q
    /\ NeighborLimit \in Nat \ {0} /\ IsFiniteSet(Relations) /\ \A g \in Graphs : IsFiniteSet(g)
    /\ None \notin Nat

VARIABLES
    hasGraph,       \* the backend was given a graph
    relations,
    dimension,      \* of the vector store, None before it is initialized
    vectors,        \* partial: [entities -> similarity]
    match,          \* a pattern match under way
    answer,         \* the last answer, and what was there when it was asked for
    changes

vars == <<hasGraph, relations, dimension, vectors, match, answer, changes>>
stores == <<hasGraph, relations, dimension, vectors, changes>>

NoMatch == [on |-> FALSE]

NoAnswer == [kind |-> "none"]

Init ==
    /\ hasGraph \in BOOLEAN /\ relations \in Graphs
    /\ dimension = None /\ vectors = << >>
    /\ match = NoMatch /\ answer = NoAnswer
    /\ changes = 0

-----------------------------------------------------------------------------
\* The vector store.
Change == changes < MaxChanges /\ changes' = changes + 1 /\ answer' = NoAnswer

Initialize(d) ==
    /\ Change
    /\ dimension' = d /\ vectors' = << >>
    /\ UNCHANGED <<hasGraph, relations, match>>

Close ==
    /\ Change
    /\ dimension' = None /\ vectors' = << >>
    /\ UNCHANGED <<hasGraph, relations, match>>

\* The vectors before the first of another dimension are kept.
AddVectors(batch) ==
    /\ Change /\ dimension # None
    /\ LET added == {i \in DOMAIN batch : \A j \in 1..i : batch[j].dimension = dimension}
           those(id) == {i \in added : batch[i].id = id}
       IN  vectors' = [id \in DOMAIN vectors \cup {batch[i].id : i \in added} |->
                           IF those(id) = {} THEN vectors[id]
                           ELSE batch[Max(those(id))].similarity]
    /\ UNCHANGED <<hasGraph, relations, dimension, match>>

DeleteVectors(ids) ==
    /\ Change /\ dimension # None
    /\ vectors' = Restrict(vectors, DOMAIN vectors \ ids)
    /\ UNCHANGED <<hasGraph, relations, dimension, match>>

\* The rows and the graph have it; with a graph no match waits.
AddRelation(r) ==
    /\ r \notin relations
    /\ hasGraph => ~match.on
    /\ Change
    /\ relations' = relations \cup {r}
    /\ UNCHANGED <<hasGraph, dimension, vectors, match>>

-----------------------------------------------------------------------------
\* Searches.  Equal scores come in any order.
Ranked(scores) ==
    {s \in SetToSeqs(DOMAIN scores) :
        \A i, j \in DOMAIN s : i < j => scores[s[i]] >= scores[s[j]]}

\* The elements of a sequence that are in a set, in their order.
Kept(s, S) ==
    LET places == {i \in DOMAIN s : s[i] \in S}
        place(k) == CHOOSE i \in places : Cardinality({j \in places : j <= i}) = k
    IN  [k \in 1..Cardinality(places) |-> s[place(k)]]

First(s, n) == SubSeq(s, 1, IF n < Len(s) THEN n ELSE Len(s))

\* One request at a time: the next one when the last answer was received.
Ready == ~match.on /\ answer = NoAnswer

Receive ==
    /\ answer # NoAnswer
    /\ answer' = NoAnswer
    /\ UNCHANGED <<stores, match>>

Searchable(d) == dimension # None /\ d = dimension

\* A concept is looked for among what was found for all of them.
SemanticSearch(q) ==
    /\ Ready
    /\ IF ~Searchable(q.dimension) THEN answer' = [kind |-> "failed", query |-> q]
       ELSE \E ranked \in Ranked(vectors) :
              answer' = [kind |-> "semantic", query |-> q,
                         ids |-> Kept(First(ranked, q.top),
                                      {v \in DOMAIN vectors : q.concept \in {None, ConceptOf[v]}})]
    /\ UNCHANGED <<stores, match>>

\* A mutant of Fetched: no more vectors are fetched than are asked for.
FetchedTop(top) == top

Fetched(top) == 2 * top

\* The relations that the graph lists of n: of a type, or all and both ways.
Outgoing(n, type) == {r \in relations : r[1] = n /\ type \in {None, r[2]}}

Incoming(n, type) == {r \in relations : r[3] = n /\ type = None}

FarEnds(outgoing, incoming) == {r[3] : r \in outgoing} \cup {r[1] : r \in incoming}

Hubs ==
    {n \in ToSet(Entities) :
        Cardinality(Outgoing(n, None)) + Cardinality(Incoming(n, None)) > NeighborLimit}

\* The outgoing ones come first; which are beyond the limit, the order in which
\* they were added decides.
UpTo(limit, S) == kSubset(IF limit < Cardinality(S) THEN limit ELSE Cardinality(S), S)

Listings(n, type) ==
    UNION {{FarEnds(outgoing, incoming) :
               incoming \in UpTo(NeighborLimit - Cardinality(outgoing), Incoming(n, type))} :
           outgoing \in UpTo(NeighborLimit, Outgoing(n, type))}

Cuts(type) ==
    {cut \in [Hubs -> UNION {Listings(n, type) : n \in Hubs}] :
        \A n \in Hubs : cut[n] \in Listings(n, type)}

Around(S, type, cut) ==
    UNION {IF n \in Hubs THEN cut[n] ELSE FarEnds(Outgoing(n, type), Incoming(n, type)) : n \in S}

\* Level by level from the seed, and not back: the nearer, the higher.
Nearness(seed, cut) ==
    LET first  == Around({seed}, None, cut) \ {seed}
        second == Around(first, None, cut) \ ({seed} \cup first)
        third  == Around(second, None, cut) \ ({seed} \cup first \cup second)
    IN  [n \in first \cup second \cup third |->
             IF n \in first THEN 60 ELSE IF n \in second THEN 30 ELSE 20]

GraphScores(seed) ==
    IF hasGraph /\ seed # None THEN {Nearness(seed, cut) : cut \in Cuts(None)} ELSE {<< >>}

\* NetworkX gives neither concepts nor weights, and runs no Cypher, which is
\* what a longer pattern needs: the failure counts as no match.
PathScores(seed, pattern) ==
    LET hop(S, i) == {Around(S, pattern[i].type, cut) : cut \in Cuts(pattern[i].type)}
        matched == IF Len(pattern) = 1 THEN hop({seed}, 1)
                   ELSE UNION {hop(S, 2) : S \in hop({seed}, 1)}
    IN  IF hasGraph /\ seed # None /\ Len(pattern) \in 1..2
        THEN {[n \in ends |-> 60] : ends \in matched} ELSE {<< >>}

Score(scores, n) == IF n \in DOMAIN scores THEN scores[n] ELSE 0

\* Weights that do not add up to more than nothing score nothing.
Fused(sem, gra, pat, w, ids) ==
    [n \in ids |->
        IF w.semantic + w.graph + w.path > 0
        THEN w.semantic * Score(sem, n) + w.graph * Score(gra, n) + w.path * Score(pat, n)
        ELSE 0]

\* What each strategy fuses.  A filter that nothing passes is not applied, and
\* one that is applied at the end has no weight.
ScoresOf(q, sem, gra, pat) ==
    LET found == DOMAIN sem \cup DOMAIN gra
    IN  CASE q.strategy = "filter_then_fuse" ->
               Fused(sem, gra, pat, q.weights, IF pat # << >> THEN DOMAIN pat ELSE found)
          [] q.strategy = "independent_then_fuse" ->
               Fused(sem, gra, pat, q.weights, found \cup DOMAIN pat)
          [] q.strategy = "fuse_then_filter" ->
               Fused(sem, gra, << >>, [q.weights EXCEPT !.path = 0], found)

Filtered(q, ranked, pat) ==
    IF q.strategy = "fuse_then_filter" /\ q.pattern # << >>
    THEN Kept(ranked, DOMAIN pat) ELSE ranked

\* The metadata of what came from the vectors is searched for with a vector of
\* one number, which a store of another dimension refuses.
HybridSearch(q) ==
    /\ Ready
    /\ IF q.dimension # None /\ ~Searchable(q.dimension)
       THEN answer' = [kind |-> "failed", query |-> q]
       ELSE \E near \in IF q.dimension = None THEN {<< >>} ELSE Ranked(vectors) :
              \E sem \in {Restrict(vectors, ToSet(First(near, Fetched(q.top))))},
                 gra \in GraphScores(q.seed), pat \in PathScores(q.seed, q.pattern) :
                \E ranked \in Ranked(ScoresOf(q, sem, gra, pat)) :
                  \E ids \in {First(Filtered(q, ranked, pat), q.top)} :
                    answer' = IF dimension # 1 /\ ToSet(ids) \cap DOMAIN sem # {}
                              THEN [kind |-> "failed", query |-> q]
                              ELSE [kind |-> "hybrid", query |-> q, ids |-> ids]
    /\ UNCHANGED <<stores, match>>

-----------------------------------------------------------------------------
\* Pattern matches: of each start the first neighbor of each hop, and no other.
Starts(q) == Kept(Entities, {n \in ToSet(Entities) : ConceptOf[n] = q.start /\ n \in q.filter})

BeginMatch(q) ==
    /\ Ready
    /\ \/ /\ q.pattern = << >>
          /\ answer' = [kind |-> "match", query |-> q, given |-> relations,
                        paths |-> LET starts == First(Starts(q), q.limit)
                                  IN  [i \in DOMAIN starts |-> <<starts[i]>>]]
          /\ UNCHANGED match
       \/ /\ hasGraph /\ Len(q.pattern) > 2
          /\ answer' = [kind |-> "failed", query |-> q]
          /\ UNCHANGED match
       \/ /\ q.pattern # << >> /\ (hasGraph => Len(q.pattern) <= 2)
          /\ match' = [on |-> TRUE, query |-> q, given |-> relations, todo |-> Starts(q),
                       path |-> << >>, paths |-> << >>]
          /\ answer' = NoAnswer
    /\ UNCHANGED stores

Matching == match.on /\ UNCHANGED <<stores, answer>>

MatchStart ==
    /\ Matching
    /\ match.path = << >> /\ match.todo # << >>
    /\ Len(match.paths) < match.query.limit
    /\ match' = [match EXCEPT !.path = <<Head(match.todo)>>, !.todo = Tail(match.todo)]

\* A mutant of Neighbors: the concept of the neighbor is not looked at.
NeighborsOfAnyConcept(n, hop) == {r[3] : r \in {x \in relations : x[1] = n /\ x[2] = hop.type}}

Neighbors(n, hop) ==
    {m \in {r[3] : r \in {x \in relations : x[1] = n /\ x[2] = hop.type}} :
        hasGraph \/ ConceptOf[m] = hop.concept}

MatchHop ==
    /\ Matching
    /\ match.path # << >> /\ Len(match.path) <= Len(match.query.pattern)
    /\ LET next == Neighbors(Last(match.path), match.query.pattern[Len(match.path)])
       IN  \/ next = {} /\ match' = [match EXCEPT !.path = << >>]
           \/ \E n \in next : match' = [match EXCEPT !.path = Append(match.path, n)]

MatchFound ==
    /\ Matching
    /\ match.path # << >> /\ Len(match.path) > Len(match.query.pattern)
    /\ match' = [match EXCEPT !.paths = Append(match.paths, match.path), !.path = << >>]

EndMatch ==
    /\ match.on
    /\ match.path = << >>
    /\ match.todo = << >> \/ Len(match.paths) >= match.query.limit
    /\ answer' = [kind |-> "match", query |-> match.query, given |-> match.given,
                  paths |-> match.paths]
    /\ match' = NoMatch
    /\ UNCHANGED stores

Next ==
    \/ \E d \in 1..2 : Initialize(d)
    \/ Close
    \/ \E batch \in Batches : AddVectors(batch)
    \/ \E n \in ToSet(Entities) : DeleteVectors({n})
    \/ \E r \in Relations : AddRelation(r)
    \/ \E q \in SemanticQueries : SemanticSearch(q)
    \/ \E q \in HybridQueries : HybridSearch(q)
    \/ \E q \in MatchQueries : BeginMatch(q)
    \/ MatchStart \/ MatchHop \/ MatchFound \/ EndMatch \/ Receive

Spec == Init /\ [][Next]_vars

-----------------------------------------------------------------------------
\* The ends of walks of k relations from n, in either direction.
Adjacent(n) == {m \in ToSet(Entities) : \E r \in relations : {r[1], r[3]} = {n, m}}

Beside(S) == UNION {Adjacent(n) : n \in S}

WalkEnds(n, k) ==
    CASE k = 1 -> Beside({n})
      [] k = 2 -> Beside(Beside({n}))
      [] k = 3 -> Beside(Beside(Beside({n})))

Proximity(n) ==
    [m \in (UNION {WalkEnds(n, k) : k \in 1..3}) \ {n} |->
        60 \div CHOOSE k \in 1..3 : m \in WalkEnds(n, k) /\ \A i \in 1..(k - 1) : m \notin WalkEnds(n, i)]

\* The ends of the paths of a pattern that the graph can be asked for.
Matches(seed, pattern) ==
    LET ends(S, i) == {r[3] : r \in {x \in relations : x[1] \in S /\ x[2] = pattern[i].type}}
    IN  CASE ~hasGraph \/ seed = None \/ Len(pattern) \notin 1..2 -> {}
          [] OTHER -> IF Len(pattern) = 1 THEN ends({seed}, 1) ELSE ends(ends({seed}, 1), 2)

\* ids are the best of scores, in their order, as many as there are up to top.
Best(ids, scores, top) ==
    /\ IsInjective(ids) /\ ToSet(ids) \subseteq DOMAIN scores
    /\ \A i, j \in DOMAIN ids : i < j => scores[ids[i]] >= scores[ids[j]]
    /\ \A n \in DOMAIN scores \ ToSet(ids), i \in DOMAIN ids : scores[n] <= scores[ids[i]]
    /\ Len(ids) = IF top < Cardinality(DOMAIN scores) THEN top ELSE Cardinality(DOMAIN scores)

\* DefaultRetrievalBackend.hybrid_search and semantic_search, which see only
\* the nearest vectors, and the first relations of an entity: where these are all
\* there are, a hybrid answer is the best by similarity, proximity and path;
\* otherwise it still has no more than was asked for, each a candidate.  A search
\* that has no vector never fails; one that has one fails in a store of another
\* dimension, or that is not initialized, and a hybrid one where the store has
\* vectors of more than one number.  A search for a concept misses no vector of
\* it that fewer than top others come up to.
SearchesRanked ==
    /\ answer.kind = "hybrid" =>
           LET q == answer.query
               sem == IF q.dimension = None THEN << >> ELSE vectors
               gra == IF hasGraph /\ q.seed # None THEN Proximity(q.seed) ELSE << >>
               pat == [n \in Matches(q.seed, q.pattern) |-> 60]
               scores == ScoresOf(q, sem, gra, pat)
               wanted == IF q.strategy = "fuse_then_filter" /\ q.pattern # << >>
                       THEN Restrict(scores, DOMAIN scores \cap DOMAIN pat) ELSE scores
           IN  /\ Len(answer.ids) <= q.top
               /\ ToSet(answer.ids) \subseteq
                      IF Hubs = {} THEN DOMAIN wanted ELSE DOMAIN sem \cup DOMAIN gra \cup DOMAIN pat
               /\ Hubs = {} /\ Cardinality(DOMAIN sem) <= 2 * q.top => Best(answer.ids, wanted, q.top)
    /\ answer.kind = "semantic" =>
           LET q == answer.query
               wanted == {v \in DOMAIN vectors : q.concept \in {None, ConceptOf[v]}}
               rivals(v) == {x \in DOMAIN vectors \ {v} : vectors[x] >= vectors[v]}
           IN  /\ ToSet(answer.ids) \subseteq wanted
               /\ \A v \in wanted : Cardinality(rivals(v)) < q.top => v \in ToSet(answer.ids)
    /\ answer.kind = "failed" /\ "dimension" \in DOMAIN answer.query =>
           /\ answer.query.dimension # None
           /\ \/ dimension # answer.query.dimension
              \/ "seed" \in DOMAIN answer.query /\ dimension # 1 /\ vectors # << >>

\* DefaultRetrievalBackend.graph_pattern_match while relations are added: each
\* path is one of the relations, from another start, with the concepts of the
\* pattern unless the graph was asked, which has none; and where no entity has
\* two neighbors to choose from, no start that had a match is missed.
PatternsMatch ==
    answer.kind = "match" =>
        LET q == answer.query
            hops == 1..Len(q.pattern)
            fits(p, es) ==
                \A i \in hops : /\ <<p[i], q.pattern[i].type, p[i + 1]>> \in es
                                /\ hasGraph \/ ConceptOf[p[i + 1]] = q.pattern[i].concept
            firsts == {p[1] : p \in ToSet(answer.paths)}
        IN  /\ Len(answer.paths) <= q.limit
            /\ Cardinality(firsts) = Len(answer.paths)
            /\ firsts \subseteq ToSet(Starts(q))
            /\ \A p \in ToSet(answer.paths) : Len(p) = Len(q.pattern) + 1 /\ fits(p, relations)
            /\ \/ Len(answer.paths) = q.limit
               \/ \E n \in ToSet(Entities), i \in hops : Cardinality(Neighbors(n, q.pattern[i])) > 1
               \/ \A p \in [1..(Len(q.pattern) + 1) -> ToSet(Entities)] :
                      p[1] \in ToSet(Starts(q)) /\ fits(p, answer.given) => p[1] \in firsts
=============================================================================
