SPECIFICATION Spec
CONSTANTS
    a = a
    b = b
    c = c
    Tenants = {a, b, c}
    Policies = {"fair", "priority", "fair-priority"}
    Aging = 1
    Band = 1
    Weight <- MCWeight
    Unit = 2
    Workload <- MCWorkload
    MaxRequests = 4
    MaxTime <- MCMaxTime
CHECK_DEADLOCK FALSE
INVARIANTS
    LagBounded
PROPERTIES
    PopsPromised
    AgingBounds
