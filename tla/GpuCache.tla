------------------------------ MODULE GpuCache ------------------------------
(***************************************************************************)
(* The cache of tensors in the arena of one GPU (GpuCache of tilemaxsimd)  *)
(* as operations on its value.  Sizes are in blocks.  The priorities of    *)
(* the entries (inflation and the frequency sketch) are left out: which of *)
(* the entries that may be evicted is the least valuable, and whether a    *)
(* newcomer beats it, is left open to the caller.                          *)
(***************************************************************************)
EXTENDS PageRuns

CONSTANTS
    Keys,               \* the cache keys of tensors
    Blocks,             \* [Keys -> Sizes]: whole blocks of a tensor's payload
    Tenants,            \* the tenants of requests
    Resident,           \* the owner of prewarmed tensors
    Reservation,        \* [Tenants -> Nat]: blocks reserved to a tenant
    TenantMax,          \* default_tenant_max_bytes
    PinnedMax           \* pinned_max_bytes
ASSUME CacheAssumption ==
    /\ Blocks \in [Keys -> Sizes]
    /\ Resident \notin Tenants
    /\ Reservation \in [Tenants -> Nat]
    /\ TenantMax \in 0 .. BlockCount /\ PinnedMax \in 0 .. BlockCount

Owners == Tenants \cup {Resident}
Reserved(t) == IF t = Resident THEN 0 ELSE Reservation[t]

\* An entry of the cache, as admit_for_tenant makes it: referenced and loading.
Entry(start, n, pinned, owner) ==
    [start |-> start, blocks |-> n, references |-> 1, pinned |-> pinned,
     ready |-> FALSE, owner |-> owner]

new_with_limits ==
    [allocator |-> new, entries |-> [k \in {} |-> 0],
     tenant_allocated |-> [t \in Owners |-> 0], pinned |-> 0]

Holds(c, k) == k \in DOMAIN c.entries
contains(c, k) == Holds(c, k) /\ c.entries[k].ready

\* get and acquire_existing, of the entries with a key in hits, which are ready.
acquire_existing(c, hits) ==
    [c EXCEPT !.entries = [k \in DOMAIN c.entries |->
        IF k \in hits THEN [c.entries[k] EXCEPT !.references = @ + 1] ELSE c.entries[k]]]

release_entry(c, k) == [c EXCEPT !.entries[k].references = @ - 1]

\* mark_ready, of the entries with a key in loaded.
mark_ready(c, loaded) ==
    [c EXCEPT !.entries = [k \in DOMAIN c.entries |->
        IF k \in loaded THEN [c.entries[k] EXCEPT !.ready = TRUE] ELSE c.entries[k]]]

\* Mutant: what a tenant has reserved may be evicted.
CanEvictReserved(c, k) == c.entries[k].references = 0 /\ ~c.entries[k].pinned

can_evict(c, k) ==
    LET e == c.entries[k]
    IN  /\ e.references = 0 /\ ~e.pinned
        /\ c.tenant_allocated[e.owner] - e.blocks >= Reserved(e.owner)

Victims(c) == {k \in DOMAIN c.entries : can_evict(c, k)}

TenantVictims(c, tenant) ==
    {k \in DOMAIN c.entries : /\ c.entries[k].owner = tenant
                              /\ c.entries[k].references = 0 /\ ~c.entries[k].pinned}

\* Mutant: the pages of the entry are not given back.
RemoveKeepsPages(c, k) ==
    LET e == c.entries[k]
    IN  [c EXCEPT !.entries = [j \in DOMAIN c.entries \ {k} |-> c.entries[j]],
                  !.pinned = IF e.pinned THEN @ - e.blocks ELSE @,
                  !.tenant_allocated[e.owner] = @ - e.blocks]

remove_entry(c, k) ==
    LET e == c.entries[k]
    IN  [allocator |-> release(c.allocator, e.start),
         entries |-> [j \in DOMAIN c.entries \ {k} |-> c.entries[j]],
         tenant_allocated |-> [c.tenant_allocated EXCEPT ![e.owner] = @ - e.blocks],
         pinned |-> IF e.pinned THEN c.pinned - e.blocks ELSE c.pinned]

\* What a tenant may hold.
Limit(t) == IF Reserved(t) > TenantMax THEN Reserved(t) ELSE TenantMax

\* The guards of admit_for_tenant before, in and after its two loops.
NeverFits(c, n, pinned) == n > BlockCount \/ (pinned /\ c.pinned + n > PinnedMax)

OverLimit(c, n, pinned, tenant) ==
    ~pinned /\ c.tenant_allocated[tenant] + n > Limit(tenant)
NoRoom(c, n) == Fitting(c.allocator, n) = {}

\* The end of admit_for_tenant: the entry is made on the pages allocated for it.
place(c, k, pinned, tenant) ==
    LET n == Blocks[k]
        e == Entry(FitStart(c.allocator, n), n, pinned, tenant)
    IN  [allocator |-> allocate(c.allocator, n),
         entries |-> [j \in DOMAIN c.entries \cup {k} |-> IF j = k THEN e ELSE c.entries[j]],
         tenant_allocated |-> [c.tenant_allocated EXCEPT ![tenant] = @ + n],
         pinned |-> IF pinned THEN c.pinned + n ELSE c.pinned]

-----------------------------------------------------------------------------
(* What the engine relies on, of a cache c.                                *)

\* How many blocks the entries with a key in S have together.
SumBlocks(c, S) == Cardinality(UNION {{k} \X (1 .. c.entries[k].blocks) : k \in S})

\* The allocated runs are those of the entries, one each: no page is leaked, and none
\* is shared.
PagesOwned(c) ==
    /\ \A s \in Starts : c.allocator.allocated[s] # 0 =>
           \E k \in DOMAIN c.entries : c.entries[k].start = s
    /\ \A k \in DOMAIN c.entries :
           /\ c.allocator.allocated[c.entries[k].start] = c.entries[k].blocks
           /\ \A j \in DOMAIN c.entries \ {k} : c.entries[j].start # c.entries[k].start

\* The counters that limits and reservations are compared with are the sums over the
\* entries.
Accounted(c) ==
    /\ c.pinned = SumBlocks(c, {k \in DOMAIN c.entries : c.entries[k].pinned})
    /\ \A t \in Owners :
           c.tenant_allocated[t] = SumBlocks(c, {k \in DOMAIN c.entries : c.entries[k].owner = t})
=============================================================================
