----------------------------- MODULE Traversals -----------------------------
(***************************************************************************)
(* The searches of the engine over a directed graph, each as the loop or   *)
(* the recursion it is in the code:                                        *)
(*   impact    ImpactAnalyzer._trace_downstream, of a field                *)
(*   chains    _compute_impact_chains, of an override through rules        *)
(*   shortest  DAGService.find_path, between metrics                       *)
(*   nearest   NetworkXGraphStore.find_paths without a target              *)
(*   traverse  QueryService.graph_traverse                                 *)
(*   paths     QueryService.find_path                                      *)
(*   cycles    NetworkXGraphStore.detect_cycles                            *)
(*   depth     longest_path of the graph operators and of the metric engine*)
(*   count     neighbor_attribute_count, deduplicated                      *)
(*   dag       DAGService.build_metric_dag of a target                     *)
(* Those in Stored await DuckDB for the neighbours of each node, and other *)
(* requests add relations in between; the others run without a pause.      *)
(***************************************************************************)
EXTENDS Integers, Sequences, FiniteSets, SequencesExt

CONSTANTS
    Nodes,
    Source,       \* where the search begins
    EdgeSets,     \* those it may be given
    Algorithms,   \* the searches listed above
    Rows,         \* how often a node lists a neighbour
    Changed,      \* outputs that differ between the baseline and the simulation
    MaxAdded,     \* bound on the edges added meanwhile
    TraverseDepth, PathDepth, CycleDepth, NearestDepth, MaxHops, CountHops, DagDepth,
    ResultLimit   \* of "nearest"

\* Edges are between nodes, and the limits are numbers; a path has a node.  A
\* list of guarantors or dependencies may name one twice, and a neighbour read
\* from DuckDB comes once for every row of its id, of whatever concept, and of
\* the relation.
ASSUME TraversalAssumption ==
    /\ IsFiniteSet(Nodes) /\ Source \in Nodes
    /\ \A es \in EdgeSets : es \subseteq Nodes \X Nodes
    /\ Rows \in [Nodes \X Nodes -> Nat \ {0}] /\ Changed \subseteq Nodes
    /\ {TraverseDepth, CycleDepth, NearestDepth, MaxHops, CountHops, DagDepth,
        ResultLimit} \subseteq Nat
    /\ PathDepth \in Nat \ {0}

Stored == {"traverse", "paths", "depth", "count"}

VARIABLES
    alg, target,
    given,    \* the edges at the beginning
    edges,    \* the edges now
    queue,    \* what a loop has yet to look at; entries are paths from Source
    stack,    \* the calls of a recursion: [node, todo]
    ahead,    \* the next level of a search by levels
    visited,
    found,    \* nodes, paths or edges: the result of the others
    depth,    \* of a search by levels: the result of "depth"
    ended

traversalVars == <<alg, target, given, edges, queue, stack, ahead, visited, found, depth, ended>>

After(es, n) == {m \in Nodes : <<n, m>> \in es}

Before(es, n) == {m \in Nodes : <<m, n>> \in es}

\* The graph of NetworkX has each successor of a node once.
Times(n, m) == IF alg = "cycles" THEN 1 ELSE Rows[<<n, m>>]

\* The lists, in every order, in which n may name the neighbours of a set.
Listed(n, neighbors) ==
    {[i \in DOMAIN order |-> order[i][1]] :
        order \in SetToSeqs(UNION {{m} \X (1..Times(n, m)) : m \in neighbors})}

Path == [i \in DOMAIN stack |-> stack[i].node]

TraversalInit ==
    /\ alg \in Algorithms /\ given \in EdgeSets /\ edges = given
    /\ target \in IF alg \in {"shortest", "paths"} THEN Nodes ELSE {Source}
    /\ queue = IF alg \in {"impact", "chains", "shortest", "nearest", "traverse"}
               THEN << <<Source>> >> ELSE << >>
    /\ visited = IF alg \in {"shortest", "nearest", "cycles", "paths", "dag"}
                 THEN {Source} ELSE {}
    /\ \/ /\ alg \in {"cycles", "paths"}
          /\ \E order \in Listed(Source, IF alg = "paths" /\ PathDepth = 1 THEN {}
                                         ELSE After(edges, Source)) :
                 stack = <<[node |-> Source, todo |-> order]>>
          /\ ahead = << >>
       \/ /\ alg = "dag"
          /\ \E order \in Listed(Source, IF DagDepth = 0 THEN {} ELSE Before(edges, Source)) :
                 stack = <<[node |-> Source, todo |-> order]>>
          /\ ahead = << >>
       \/ /\ alg = "depth" /\ stack = << >>
          /\ ahead \in Listed(Source, After(edges, Source))
       \/ /\ alg = "count" /\ stack = << >> /\ ahead = <<Source>>
       \/ /\ alg \notin {"cycles", "paths", "dag", "depth", "count"}
          /\ stack = << >> /\ ahead = << >>
    /\ found = << >> /\ depth = 0
    /\ ended = FALSE

AddEdge ==
    /\ alg \in Stored /\ ~ended
    /\ Cardinality(edges) < Cardinality(given) + MaxAdded
    /\ \E e \in Nodes \X Nodes \ edges : edges' = edges \cup {e}
    /\ UNCHANGED <<alg, target, given, queue, stack, ahead, visited, found, depth, ended>>

-----------------------------------------------------------------------------
\* Loops over a queue.  The rules of a chain are visited, not its fields.
Mark(p, n) == IF alg = "chains" THEN <<Last(p), n>> ELSE n

\* A mutant of Queued: what was found last is looked at first.
QueuedFirst(p, fresh) == [i \in DOMAIN fresh |-> Append(p, fresh[i])] \o Tail(queue)

Queued(p, fresh) == Tail(queue) \o [i \in DOMAIN fresh |-> Append(p, fresh[i])]

\* The successors of the end of p that were not visited ...
Fresh(p) == {n \in After(edges, Last(p)) : Mark(p, n) \notin visited}

\* ... and the orders in which their edges may be stored.
Orders(p) == SetToSeqs(Fresh(p))

Expand(p, order) ==
    /\ queue' = Queued(p, order)
    /\ visited' = visited \cup {Mark(p, n) : n \in Fresh(p)}

Drop == queue' = Tail(queue) /\ UNCHANGED <<visited, found>>

Pop ==
    /\ ~ended /\ queue # << >>
    /\ UNCHANGED <<alg, target, given, edges, stack, ahead, depth>>

TraceDownstream ==
    /\ alg \in {"impact", "chains"}
    /\ Pop
    /\ \E order \in Orders(Head(queue)) :
          /\ Expand(Head(queue), order)
          /\ found' = found \o order
    /\ UNCHANGED ended

\* What the chains of an override give of the outputs they reach.
Affected == ToSet(found) \cap Changed

FindShortest ==
    /\ alg = "shortest"
    /\ Pop
    /\ \/ /\ Last(Head(queue)) = target
          /\ found' = <<Head(queue)>> /\ ended' = TRUE
          /\ UNCHANGED <<queue, visited>>
       \/ /\ Last(Head(queue)) # target
          /\ \E order \in Orders(Head(queue)) : Expand(Head(queue), order)
          /\ UNCHANGED <<found, ended>>

FindNearest ==
    /\ alg = "nearest" /\ Len(found) < ResultLimit
    /\ Pop
    /\ IF Len(Head(queue)) > NearestDepth + 1 THEN Drop
       ELSE /\ \E order \in Orders(Head(queue)) : Expand(Head(queue), order)
            /\ found' = Append(found, Head(queue))
    /\ UNCHANGED ended

\* One call for the neighbours of a node; the start is not marked as visited.
Traverse ==
    /\ alg = "traverse"
    /\ Pop
    /\ IF Len(Head(queue)) > TraverseDepth THEN Drop
       ELSE \E order \in Orders(Head(queue)) :
               /\ Expand(Head(queue), order)
               /\ found' = found \o order
    /\ UNCHANGED ended

\* A mutant of Exhausted: an empty queue is waited on for a first result.
ExhaustedWithResult == queue = << >> /\ found # << >>

Exhausted == queue = << >> \/ (alg = "nearest" /\ Len(found) = ResultLimit)

EndLoop ==
    /\ alg \in {"impact", "chains", "shortest", "nearest", "traverse"}
    /\ ~ended /\ Exhausted
    /\ ended' = TRUE
    /\ UNCHANGED <<alg, target, given, edges, queue, stack, ahead, visited, found, depth>>

-----------------------------------------------------------------------------
\* Recursions.  Top is the call that runs; Skip goes on with its next node.
Top == Last(stack)

Skipped == [stack EXCEPT ![Len(stack)].todo = Tail(Top.todo)]

\* The node is on the path until its call returns.
Call(n) ==
    /\ \E order \in Listed(n, After(edges, n)) :
           stack' = Append(Skipped, [node |-> n, todo |-> order])
    /\ visited' = visited \cup {n}
    /\ UNCHANGED found

Skip == stack' = Skipped /\ UNCHANGED <<visited, found>>

Found(p) == stack' = Skipped /\ found' = Append(found, p) /\ UNCHANGED visited

InCall ==
    /\ ~ended /\ stack # << >>
    /\ Top.todo # << >>
    /\ UNCHANGED <<alg, target, given, edges, queue, ahead, depth, ended>>

\* The depth of the code is a number of nodes, both ends included.
FindPaths ==
    /\ alg = "paths" /\ target # Source
    /\ InCall
    /\ LET n == Head(Top.todo)
       IN  IF n \in visited THEN Skip
           ELSE IF n = target THEN Found(Append(Path, n))
           ELSE IF Len(stack) + 1 >= PathDepth THEN Skip
           ELSE Call(n)

FindPathToItself ==
    /\ alg = "paths" /\ target = Source /\ ~ended
    /\ found' = << <<Source>> >> /\ ended' = TRUE
    /\ UNCHANGED <<alg, target, given, edges, queue, stack, ahead, visited, depth>>

DetectCycles ==
    /\ alg = "cycles"
    /\ InCall
    /\ LET n == Head(Top.todo)
       IN  IF n = Source /\ Len(stack) > 1 THEN Found(Append(Path, n))
           ELSE IF n \in visited \/ Len(stack) >= CycleDepth THEN Skip
           ELSE Call(n)

\* A dependency is noted as seen before the call that would go on with it: the
\* call finds it seen and returns.
BuildDag ==
    /\ alg = "dag"
    /\ InCall
    /\ LET dep == Head(Top.todo)
           seen == visited \cup {dep}
       IN  /\ visited' = seen
           /\ found' = IF <<dep, Top.node>> \in ToSet(found) THEN found
                       ELSE Append(found, <<dep, Top.node>>)
           /\ IF dep \in seen \/ Len(stack) >= DagDepth THEN stack' = Skipped
              ELSE \E order \in Listed(dep, Before(edges, dep)) :
                       stack' = Append(Skipped, [node |-> dep, todo |-> order])

\* A mutant of Left: a node that was on a path stays marked.
LeftMarked(n) == visited

Left(n) == visited \ {n}

Return ==
    /\ ~ended /\ stack # << >>
    /\ Top.todo = << >>
    /\ alg = "paths" => target # Source
    /\ visited' = IF alg = "dag" THEN visited ELSE Left(Top.node)
    /\ stack' = Front(stack)
    /\ ended' = (Len(stack) = 1)
    /\ UNCHANGED <<alg, target, given, edges, queue, ahead, found, depth>>

-----------------------------------------------------------------------------
\* Searches by levels; queue is what is left of the level.
LastLevel ==
    \/ ahead = << >>
    \/ alg = "depth" /\ Cardinality(visited) >= MaxHops
    \/ alg = "count" /\ depth >= CountHops

NextLevel ==
    /\ alg \in {"depth", "count"} /\ ~ended
    /\ queue = << >> /\ ~LastLevel
    /\ queue' = ahead /\ ahead' = << >> /\ depth' = depth + 1
    /\ UNCHANGED <<alg, target, given, edges, stack, visited, found, ended>>

EndLevels ==
    /\ alg \in {"depth", "count"} /\ ~ended
    /\ queue = << >> /\ LastLevel
    /\ ended' = TRUE
    /\ UNCHANGED <<alg, target, given, edges, queue, stack, ahead, visited, found, depth>>

\* A guarantor that is met again, or named twice, adds one to the depth and ends
\* its level.
LongestPath ==
    /\ alg = "depth" /\ ~ended /\ queue # << >>
    /\ \/ /\ Head(queue) \in visited
          /\ depth' = depth + 1 /\ queue' = << >>
          /\ UNCHANGED <<ahead, visited>>
       \/ /\ Head(queue) \notin visited
          /\ visited' = visited \cup {Head(queue)} /\ queue' = Tail(queue)
          /\ \E order \in Listed(Head(queue), After(edges, Head(queue)) \ visited') :
                 ahead' = ahead \o order
          /\ UNCHANGED depth
    /\ UNCHANGED <<alg, target, given, edges, stack, found, ended>>

\* DuckDB takes the direction "both" for "incoming".
Counted(n) == Before(edges, n) \ (visited \cup {n})

\* All neighbours match.  An entity that two others of a level lead to counts
\* twice, one whose own neighbours were read before does not count.
NeighborCount ==
    /\ alg = "count" /\ ~ended /\ queue # << >>
    /\ \/ Head(queue) \in visited /\ UNCHANGED <<visited, ahead, found>>
       \/ /\ Head(queue) \notin visited
          /\ visited' = visited \cup {Head(queue)}
          /\ \E neighbors \in Listed(Head(queue), Counted(Head(queue))) :
                 ahead' = ahead \o neighbors /\ found' = found \o neighbors
    /\ queue' = Tail(queue)
    /\ UNCHANGED <<alg, target, given, edges, stack, depth, ended>>

Step ==
    \/ TraceDownstream \/ FindShortest \/ FindNearest \/ Traverse \/ EndLoop
    \/ FindPaths \/ FindPathToItself \/ DetectCycles \/ BuildDag \/ Return
    \/ NextLevel \/ EndLevels \/ LongestPath \/ NeighborCount

TraversalNext == Step \/ AddEdge

\* A search goes on whenever the event loop runs it.
TraversalSpec == TraversalInit /\ [][TraversalNext]_traversalVars /\ WF_traversalVars(Step)

-----------------------------------------------------------------------------
\* Where walks of exactly k edges lead from Source, and those of at most k.
Exactly(es, k) ==
    LET at[i \in Nat] ==
            IF i = 0 THEN {Source} ELSE UNION {After(es, n) : n \in at[i - 1]}
    IN  at[k]

Within(es, first, last) == UNION {Exactly(es, k) : k \in first..last}

Size == Cardinality(Nodes)

\* The simple paths of at most k nodes from Source.
SimplePaths(es, k) ==
    {p \in UNION {[1..n -> Nodes] : n \in 1..k} :
        /\ p[1] = Source
        /\ \A i \in 1..(Len(p) - 1) : <<p[i], p[i + 1]>> \in es
        /\ IsInjective(p)}

\* An impact analysis finds just what depends on a field, and the chains of an
\* override just the outputs that do and that the simulation changed; a path
\* between metrics is found if there is one, and a shortest; the nearest paths
\* are shortest ones to all there is in the given depth; a traversal misses
\* nothing that was there when it began, and gives nothing that is not there
\* when it ends, whatever is added meanwhile; the graph of a metric has its
\* dependencies, each once however often it names them, and none of theirs,
\* whatever depth of one or more is asked for; a chain of guarantors that never
\* meet again and are named once has the depth of its longest path; a count of
\* neighbours misses none that was there when it began.
SearchesExact ==
    ended =>
        CASE alg = "impact" -> ToSet(found) = Within(edges, 1, Size)
          [] alg = "chains" -> Affected = Within(edges, 1, Size) \cap Changed
          [] alg = "shortest" ->
                 IF found = << >> THEN target \notin Within(edges, 0, Size)
                 ELSE /\ found[1] \in SimplePaths(edges, Size)
                      /\ Last(found[1]) = target
                      /\ target \notin Within(edges, 0, Len(found[1]) - 2)
          [] alg = "nearest" ->
                 /\ ToSet(found) \subseteq SimplePaths(edges, NearestDepth + 1)
                 /\ \A p \in ToSet(found) : Last(p) \notin Within(edges, 0, Len(p) - 2)
                 /\ Len(found) < ResultLimit =>
                        {Last(p) : p \in ToSet(found)} = Within(edges, 0, NearestDepth)
          [] alg = "traverse" ->
                 /\ Within(given, 1, TraverseDepth) \subseteq ToSet(found)
                 /\ ToSet(found) \subseteq Within(edges, 1, TraverseDepth)
          [] alg = "dag" ->
                 /\ ToSet(found) = IF DagDepth = 0 THEN {}
                                   ELSE {<<m, Source>> : m \in Before(edges, Source)}
                 /\ IsInjective(found)
          [] alg = "depth" ->
                 LET reached == Within(edges, 0, Size)
                     inner == {e \in edges : e[1] \in reached}
                 IN  /\ edges = given
                     /\ Cardinality(inner) = Cardinality(reached) - 1
                     /\ Cardinality(inner) < MaxHops
                     /\ \A x \in inner : Rows[x] = 1
                     => Exactly(edges, depth) # {} /\ Exactly(edges, depth + 1) = {}
          [] alg = "count" ->
                 LET back == {<<e[2], e[1]>> : e \in given}
                 IN  Within(back, 1, CountHops) \ {Source} \subseteq ToSet(found)
          [] OTHER -> TRUE

\* Of the recursions: every simple path to the target, and every cycle of two
\* nodes or more through the node, of the length asked for, is found, and no
\* other; it is found once unless a node on it lists the next more than once; a
\* node that one path has left can be on the next.
PathsExact ==
    ended /\ alg \in {"paths", "cycles"} =>
        LET to(es) == IF alg = "paths"
                      THEN {p \in SimplePaths(es, PathDepth) : Last(p) = target}
                      ELSE {Append(p, Source) :
                               p \in {x \in SimplePaths(es, CycleDepth) :
                                         Len(x) > 1 /\ <<Last(x), Source>> \in es}}
        IN  /\ to(given) \subseteq ToSet(found) /\ ToSet(found) \subseteq to(edges)
            /\ \A i, j \in DOMAIN found :
                  found[i] = found[j] /\ i # j =>
                      \E k \in 1..(Len(found[i]) - 1) :
                          Times(found[i][k], found[i][k + 1]) > 1

\* Every search ends, on cyclic graphs too, and while edges are added.
Ends == <>ended

=============================================================================
