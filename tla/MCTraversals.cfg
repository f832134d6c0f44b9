CONSTANTS
    a = a
    b = b
    c = c
    d = d
    e = e
    Nodes = {a, b, c, d, e}
    Source = a
    EdgeSets <- MCGraphs
    Algorithms = {"impact", "chains", "shortest", "nearest", "traverse", "paths",
                  "cycles", "depth", "count", "dag"}
    Rows <- MCRows
    Changed = {b, d}
    MaxAdded = 1
    TraverseDepth = 2
    PathDepth = 3
    CycleDepth = 3
    NearestDepth = 2
    MaxHops = 3
    CountHops = 2
    DagDepth = 5
    ResultLimit = 3
SPECIFICATION TraversalSpec
INVARIANTS
    SearchesExact
    PathsExact
PROPERTY Ends
CHECK_DEADLOCK FALSE
