CONSTANTS
    supplier = supplier
    invoice = invoice
    total = total
    score = score
    v1 = v1
    v2 = v2
    None = None
    Requests = {r1, r2}
    DryRuns = {r2}
    Entities <- MCEntities
    Versions <- MCVersions
    Metrics <- MCMetrics
    Order <- MCOrder
    Formulas <- MCFormulas
    Aggregates <- MCAggregates
    Deps <- MCDeps
    Given <- MCGiven
    Neighbours <- MCNeighbours
    Tagged <- MCTagged
    Contexts <- MCContexts
SPECIFICATION FairSpec
INVARIANTS
    CacheBacked
    ResponsesAgree
    DerivedAgrees
    TagsWhole
PROPERTIES
    Answered
