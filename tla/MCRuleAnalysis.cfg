CONSTANTS
    a = a
    b = b
    Rules = {1, 2, 3}
    Elements <- MCElements
    Definitions <- MCDefinitions
    NameKey = NameKey
SPECIFICATION AnalysisSpec
INVARIANTS
    SortCorrect
    EveryRuleReportedOnce
PROPERTY Terminates
CHECK_DEADLOCK FALSE
