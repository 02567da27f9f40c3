SPECIFICATION FairSpec
CONSTANTS
    k1 = k1
    k2 = k2
    k3 = k3
    k4 = k4
    t1 = t1
    t2 = t2
    Resident = Resident
    BlockCount = 3
    Keys = {k1, k2, k3, k4}
    Blocks <- MCBlocks
    Tenants = {t1, t2}
    Reservation <- MCReservation
    TenantMax = 2
    PinnedMax = 2
    DeviceCount = 2
    Manifests <- MCManifests
    BatchSize = 2
    MaxCandidates = 2
INVARIANTS
    ScoresOwn
    QuietWhenIdle
    CachesSound
PROPERTIES
    SparedByEviction
    RequestEnds
