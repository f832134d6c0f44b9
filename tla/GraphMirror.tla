----------------------------- MODULE GraphMirror -----------------------------
(***************************************************************************)
(* What a graph kept beside a primary store promises: it is a graph, and   *)
(* all it says about an entity or a relation was in the primary store at   *)
(* some time.  It may lag, lose parts, and be emptied; it may not invent.  *)
(* A node the primary store has not told it about is Unlabelled.           *)
(***************************************************************************)
CONSTANTS
    Nodes,
    Edges,
    Ends,         \* [edges -> their two nodes]
    Unlabelled

VARIABLES
    held,         \* the pairs <<node or edge, value>> the primary ever held
    mirror        \* [nodes and edges in the graph -> values]

IsGraph(m) ==
    /\ DOMAIN m \subseteq Nodes \cup Edges
    /\ \A e \in DOMAIN m \cap Edges : Ends[e] \subseteq DOMAIN m

Init ==
    /\ held = {}
    /\ DOMAIN mirror = {}

\* Every value that is new in the graph is one that is held; a new node may
\* also be one that an edge needs, or one it needed that was not added then.
Follows ==
    /\ IsGraph(mirror')
    /\ \A x \in DOMAIN mirror' :
           \/ x \in DOMAIN mirror /\ mirror'[x] = mirror[x]
           \/ <<x, mirror'[x]>> \in held'
           \/ /\ mirror'[x] = Unlabelled
              /\ \E r \in held' : r[1] \in Edges /\ x \in Ends[r[1]]

\* The primary store gets a value, and the graph with it or not.
Hold ==
    /\ held \subseteq held'
    /\ \E r \in held' : held' = held \cup {r}
    /\ Follows

\* The graph is brought up to any earlier values, or loses something.
Copy ==
    /\ UNCHANGED held
    /\ Follows

Next == Hold \/ Copy

Spec == Init /\ [][Next]_<<held, mirror>>
=============================================================================
