SPECIFICATION Spec
CONSTANTS
    Inserters = {i1}
    Searchers = {}
    Vacuums = {v1}
    Builders = {}
    NoProc = NoProc
    Payloads = {x1, x2, x3}
    Null = Null
    MaxBlocks = 8
    GroupSize = 2
    FrozenGroups = 1
    DirectoryCap = 1
    i1 = i1
    v1 = v1
    x1 = x1
    x2 = x2
    x3 = x3
    Choice <- MCChoice
    Scopes <- AppendCrash
SYMMETRY MCSymmetry
INVARIANTS
    ReachableInitialised
