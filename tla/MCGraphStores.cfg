SPECIFICATION Spec
CONSTANTS
    a = a
    b = b
    NoEntity = NoEntity
    Keys <- MCKeys
    Place <- MCPlace
    Data = {1, 2, 3}
    Relations <- MCRelations
    Sent <- MCSent
    Clashing <- MCClashing
    Workers = {w1, w2}
    MaxRequests = 3
    MaxLosses = 1
    NeighborLimit = 1
INVARIANTS
    FreshUnlessLagging
    PathsAgree
    AnswersBacked
PROPERTIES
    MirrorsRows
CHECK_DEADLOCK FALSE
