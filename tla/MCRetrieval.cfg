CONSTANTS
    s = s
    t = t
    b = b
    k = k
    None = None
    Entities <- MCEntities
    ConceptOf <- MCConceptOf
    Graphs <- MCGraphs
    Relations <- MCRelations
    Batches <- MCBatches
    HybridQueries <- MCHybridQueries
    SemanticQueries <- MCSemanticQueries
    MatchQueries <- MCMatchQueries
    NeighborLimit = 2
    MaxChanges = 3
SPECIFICATION Spec
INVARIANTS
    SearchesRanked
    PatternsMatch
