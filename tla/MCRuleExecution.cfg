SPECIFICATION ExecutionSpec
CONSTANTS
    NULL = NULL
    RuleIds <- MCRuleIds
    Rule <- MCRule
    Chains <- MCChains
    EntityData <- MCEntityData
    L3Metrics <- MCL3Metrics
    Overrides <- MCOverrides
    MaxRetries = 2
INVARIANTS
    RejectionStands
    ResultsExplainMetrics
    SimulationAgrees
    OverridesExplainDiffs
    StepsAgree
PROPERTIES
    RetriesEnd
CHECK_DEADLOCK FALSE
