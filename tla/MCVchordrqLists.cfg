SPECIFICATION Spec
CONSTANTS
    Inserters = {i1, i2}
    Searchers = {s1}
    Vacuums = {v1}
    Builders = {}
    NoProc = NoProc
    Payloads = {x1, x2, x3}
    Null = Null
    MaxBlocks = 13
    GroupSize = 2
    FrozenGroups = 1
    DirectoryCap = 1
    i1 = i1
    i2 = i2
    s1 = s1
    v1 = v1
    x1 = x1
    x2 = x2
    x3 = x3
    Choice <- MCChoice
    Scopes <- Crowded
SYMMETRY MCSymmetry
INVARIANTS
    OwnedOnce
    CommittedReachable
    VacuumedGone
    SearchExact
    ShortcutsAgree
