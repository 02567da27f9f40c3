SPECIFICATION Spec
CONSTANTS
    Inserters = {i1}
    Searchers = {}
    Vacuums = {v1}
    Builders = {b1, b2}
    NoProc = NoProc
    Payloads = {x1, x2}
    Null = Null
    MaxBlocks = 24
    GroupSize = 2
    FrozenGroups = 1
    DirectoryCap = 1
    b1 = b1
    b2 = b2
    i1 = i1
    v1 = v1
    x1 = x1
    x2 = x2
    Choice <- MCChoice
    Scopes <- TwoOrCrash
SYMMETRY MCSymmetry
INVARIANTS
    CommittedReachable
    PagesIntact
    CountCovers
