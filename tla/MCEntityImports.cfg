CONSTANTS
    e1 = e1
    e2 = e2
    f = f
    x = x
    Workers = {w1, w2}
    Batches = {b1, b2, b3}
    Entities <- MCEntities
    Fields = {f}
    Values = {x}
    Missing = Missing
    Null = Null
    None = None
    Sent <- MCSent
    Known <- MCKnown
SYMMETRY Symmetry
SPECIFICATION Spec
INVARIANTS
    VersionsGapless
    RollbackRestores
PROPERTY UnracedVersionsKept
CHECK_DEADLOCK FALSE
