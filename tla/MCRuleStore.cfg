CONSTANTS
    a = a
    i1 = i1
    i2 = i2
    plain = plain
    hex = hex
    Workers = {w1, w2}
    GroupIds <- MCGroupIds
    UuidLike <- MCUuidLike
    Names <- MCNames
    Spaces = {s1, s2}
    StepIds <- MCStepIds
    Fields = {f1, f2}
    Values = {x1, x2}
    Imports <- MCImports
    Orderings <- MCOrderings
    MaxOrder = 1
    MaxRequests = 4
SYMMETRY Symmetry
SPECIFICATION Spec
INVARIANTS
    OrphansExcused
PROPERTIES
    UnracedSavesKeepGroups
    UnracedUpdatesMerge
CHECK_DEADLOCK FALSE
