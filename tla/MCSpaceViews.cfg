CONSTANTS
    example = example
    mine = mine
    exampleView = exampleView
    v1 = v1
    Spaces = {example, mine}
    Views = {exampleView, v1}
    Layers = {NoLayers, l1}
    NoLayers = NoLayers
    Entities = {e1}
    Examples = {example}
    ExampleView <- MCExampleView
    MaxRequests = 3
    MaxStops = 2
    NoView = NoView
    Absent = Absent
    Torn = Torn
SPECIFICATION Spec
PROPERTIES
    LifecycleReachesView
    NoNewOrphans
    TornSpacesStay
    SyncedAtStart
