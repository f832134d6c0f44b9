CONSTANTS
    e1 = e1
    e2 = e2
    c1 = c1
    c2 = c2
    Entities = {e1, e2}
    Concepts = {"company", "person"}
    Contents = {"plain", "changed"}
    Batches <- MCBatches
    Clients = {c1, c2}
    MaxDatasets = 2
    MaxSnapshots = 2
    MaxRequests = 3
SPECIFICATION Spec
SYMMETRY Symmetry
INVARIANTS
    OrphansRaced
    SnapshotsCovered
