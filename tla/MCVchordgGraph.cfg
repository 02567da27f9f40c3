SPECIFICATION Spec
CONSTANTS
    Rows = {1, 2, 3}
    Tid <- MCTid
    Vector <- MCVector
    M = 4
    EF = 4
    Alpha <- MCAlpha
    Versions = {0}
    VertexCap = 2
    VectorCap = 2
    MaxPages = 6
    MaxRunning = 2
    MaxVacuums = 1
    MaxCrashes = 1
 
INVARIANT CommittedReachable
INVARIANT VacuumedGone
