SPECIFICATION Spec
CONSTANTS
    Nodes = {1, 2, 3}
    Standard = {1, 2, 3}
    Entry <- ToFirst
    MaxDegree = 5
    Sparse = 2
    PatchSize = 3
    MaxRetries = 0
    MaxLosses = 0
INVARIANT NeighborsAreMutual
CHECK_DEADLOCK FALSE
