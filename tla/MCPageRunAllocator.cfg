SPECIFICATION Spec
CONSTANTS
    BlockCount = 10
    BlockBytes = 4
    PayloadBytes = {0, 1, 4, 5, 8, 9, 13, 20}
INVARIANTS
    Partition
    Coalesced
    Consistent
