------------------------- MODULE EngineCacheProofs --------------------------
(***************************************************************************)
(* The caches of the scoring engine, for any number of devices, tensors,   *)
(* tenants and blocks, and the steps of the engine that take in nothing    *)
(* new: prewarm's batches, scoring and the release of what was scored.     *)
(*                                                                         *)
(* Sane is what holds of one cache between any two of its operations.      *)
(* Books relates all caches to the tensors that the engine holds: an entry *)
(* is referenced exactly when it is held, and loading only when it is held *)
(* as newly admitted.  The loops that release a chunk shorten the list of  *)
(* held tensors and keep Books.  The inductive invariant adds where pc is  *)
(* (Placed), what the arenas hold (Bytes) and which candidates have been   *)
(* scored (Scored).                                                        *)
(***************************************************************************)
EXTENDS Engine, PageRunsProofs

USE Zenon

EntryType ==
    [start : Starts, blocks : Sizes, references : 0 .. 1, pinned : BOOLEAN, ready : BOOLEAN,
     owner : Owners]

TensorType ==
    [key : Keys, device : Devices, start : Starts, transient : BOOLEAN, newly_admitted : BOOLEAN]

\* The record of a cache.
CacheOf(al, en, ta, p) ==
    [allocator |-> al, entries |-> en, tenant_allocated |-> ta, pinned |-> p]

Shaped(c) ==
    /\ c = CacheOf(c.allocator, c.entries, c.tenant_allocated, c.pinned)
    /\ DOMAIN c.entries \subseteq Keys /\ IsFiniteSet(DOMAIN c.entries)
    /\ c.entries \in [DOMAIN c.entries -> EntryType]
    /\ \A k \in DOMAIN c.entries : c.entries[k].blocks = Blocks[k]
    /\ c.tenant_allocated \in [Owners -> Nat] /\ c.pinned \in Nat

Sane(c) == Shaped(c) /\ AtRest(c.allocator) /\ PagesOwned(c) /\ Accounted(c)

Limited(c) == \A t \in Tenants : c.tenant_allocated[t] <= Limit(t)

\* The caches, whoever holds their entries.
Shelves(cs) ==
    /\ cs = [d \in Devices |-> cs[d]]
    /\ \A d \in Devices : Sane(cs[d]) /\ Limited(cs[d])
    /\ \A d, e \in Devices : \A k \in Keys : Holds(cs[d], k) /\ Holds(cs[e], k) => d = e

EntryOf(cs, r) == cs[r.device].entries[r.key]

\* The entries of the tensors in held are there.
Taken(cs, held) ==
    /\ held \subseteq TensorType
    /\ \A r \in held : Holds(cs[r.device], r.key) /\ EntryOf(cs, r).start = r.start
    /\ \A r, q \in held : r.key = q.key => r = q

\* An entry is referenced when it is held, and loading only when its holder admitted it.
Counted(cs, held) ==
    \A d \in Devices : \A k \in DOMAIN cs[d].entries :
        /\ cs[d].entries[k].references = IF \E r \in held : r.key = k THEN 1 ELSE 0
        /\ ~cs[d].entries[k].ready => \E r \in held : r.key = k /\ r.newly_admitted

Books(cs, held) == Shelves(cs) /\ Taken(cs, held) /\ Counted(cs, held)

\* A ready entry has the bytes of its tensor.
Bytes(cs, ar) ==
    \A d \in Devices : \A k \in DOMAIN cs[d].entries :
        cs[d].entries[k].ready =>
            \A b \in cs[d].entries[k].start .. cs[d].entries[k].start + Blocks[k] - 1 : ar[d][b] = k

Distinct(s) == \A i, j \in DOMAIN s : s[i] = s[j] => i = j

Places == {"prewarm", "items", "admit", "upload", "score", "collect", "answer", "hits", "stopped", Idle}

Typed ==
    /\ arena \in [Devices -> [Starts -> Keys \cup {NoKey}]]
    /\ next_device \in Devices /\ pc \in Places
    /\ request \in Request \cup {NoRequest}
    /\ scores \in [DOMAIN request.candidates -> Keys \cup {None, NoKey}]
    /\ pending \in Seq(Keys) /\ Distinct(pending) /\ todo \in Seq(Keys) /\ Distinct(todo)
    /\ chunk \in Seq(TensorType)
    /\ attempt \in [force : BOOLEAN, step : Devices]

\* Where the engine is, and what it holds there.
Placed ==
    /\ \A i, j \in DOMAIN chunk : chunk[i].key = chunk[j].key => i = j
    /\ pc \in {"prewarm", "collect", "answer", Idle} => chunk = <<>>
    /\ pc \in {"prewarm", Idle, "stopped"} => prewarming
    /\ pc \in {"hits", "score", "collect", "answer"} => ~prewarming
    /\ pc # "hits" => Len(chunk) <= Len(pending)
    /\ pc \notin {"hits", "stopped"} =>
           \A i \in DOMAIN chunk : chunk[i].key = pending[i]
    /\ pc = "hits" => \A i \in DOMAIN chunk : ~chunk[i].newly_admitted
    /\ pc = "admit" =>
           /\ Len(chunk) < Len(pending)
           /\ \A d \in Devices : ~Holds(caches[d], Tensor)
    /\ pc \in {"collect", "answer"} => pending = <<>>

\* What is known of a tensor of the chunk and its entry.
Handled(r) ==
    LET e == EntryOf(caches, r)
    IN  /\ pc \in {"items", "admit", "upload"} => (r.newly_admitted <=> ~e.ready)
        /\ pc \in {"hits", "score"} => e.ready
        /\ r.newly_admitted => (e.pinned <=> prewarming) /\ e.owner = Owner
        /\ r.transient => r.newly_admitted /\ ~prewarming

Held ==
    IF pc = "stopped" THEN Shelves(caches)
    ELSE /\ Books(caches, Elements(chunk)) /\ Bytes(caches, arena)
         /\ \A i \in DOMAIN chunk : Handled(chunk[i])

\* Which candidates have a score, and which will get one.
Waiting(k) ==
    \/ k \in Elements(pending)
    \/ pc = "hits" /\ \E i \in DOMAIN chunk : chunk[i].key = k

Scored ==
    ~prewarming =>
        /\ \A i \in DOMAIN scores : scores[i] \in {None, request.candidates[i]}
        /\ \A k \in Elements(request.candidates) : scores[FirstIndex(k)] # None \/ Waiting(k)
        /\ \A k \in Keys : Waiting(k) => k \in Elements(request.candidates)

IInv == Typed /\ Placed /\ Held /\ Scored

-----------------------------------------------------------------------------
(* The operations on one cache, field by field.                            *)

\* Fields of the record of a cache.
LEMMA Fields ==
    ASSUME NEW al, NEW en, NEW ta, NEW p
    PROVE  /\ CacheOf(al, en, ta, p).allocator = al /\ CacheOf(al, en, ta, p).entries = en
           /\ CacheOf(al, en, ta, p).tenant_allocated = ta /\ CacheOf(al, en, ta, p).pinned = p
BY DEF CacheOf

LEMMA NewEntries ==
    ASSUME NEW c, Shaped(c), NEW e2
    PROVE  [c EXCEPT !.entries = e2] = CacheOf(c.allocator, e2, c.tenant_allocated, c.pinned)
<1> DEFINE al == c.allocator
           en == c.entries
           ta == c.tenant_allocated
           p == c.pinned
<1>1. c = CacheOf(al, en, ta, p)
  BY DEF Shaped
<1> HIDE DEF al, en, ta, p
<1>2. [c EXCEPT !.entries = e2] = CacheOf(al, e2, ta, p)
  BY <1>1, SMTT(30) DEF CacheOf
<1> QED BY <1>2 DEF al, ta, p

\* The entries of c with another count of references, or marked.
Recounted(c, k, n) == [c.entries EXCEPT ![k] = [c.entries[k] EXCEPT !.references = n]]
Acquired(c, hits) ==
    [k \in DOMAIN c.entries |->
        IF k \in hits THEN [c.entries[k] EXCEPT !.references = @ + 1] ELSE c.entries[k]]
MarkedIn(c, loaded) ==
    [k \in DOMAIN c.entries |->
        IF k \in loaded THEN [c.entries[k] EXCEPT !.ready = TRUE] ELSE c.entries[k]]

LEMMA AcquireFields ==
    ASSUME NEW c, Shaped(c), NEW hits
    PROVE  acquire_existing(c, hits)
             = CacheOf(c.allocator, Acquired(c, hits), c.tenant_allocated, c.pinned)
<1>1. acquire_existing(c, hits) = [c EXCEPT !.entries = Acquired(c, hits)]
  BY DEF acquire_existing, Acquired
<1> QED BY <1>1, NewEntries

LEMMA MarkFields ==
    ASSUME NEW c, Shaped(c), NEW loaded
    PROVE  mark_ready(c, loaded)
             = CacheOf(c.allocator, MarkedIn(c, loaded), c.tenant_allocated, c.pinned)
<1>1. mark_ready(c, loaded) = [c EXCEPT !.entries = MarkedIn(c, loaded)]
  BY DEF mark_ready, MarkedIn
<1> QED BY <1>1, NewEntries

LEMMA ReleaseFields ==
    ASSUME NEW c, Shaped(c), NEW k \in DOMAIN c.entries
    PROVE  release_entry(c, k)
             = CacheOf(c.allocator, Recounted(c, k, c.entries[k].references - 1),
                       c.tenant_allocated, c.pinned)
<1>1. release_entry(c, k) = [c EXCEPT !.entries = Recounted(c, k, c.entries[k].references - 1)]
  BY DEF release_entry, Recounted
<1> QED BY <1>1, NewEntries

LEMMA RemoveFields ==
    ASSUME NEW c, Shaped(c), NEW k \in DOMAIN c.entries
    PROVE  remove_entry(c, k) =
             CacheOf(release(c.allocator, c.entries[k].start),
                     [j \in DOMAIN c.entries \ {k} |-> c.entries[j]],
                     [c.tenant_allocated EXCEPT ![c.entries[k].owner] = @ - c.entries[k].blocks],
                     IF c.entries[k].pinned THEN c.pinned - c.entries[k].blocks ELSE c.pinned)
BY DEF CacheOf, remove_entry

LEMMA PlaceFields ==
    ASSUME NEW c, Shaped(c), NEW k, NEW pinned, NEW tenant
    PROVE  place(c, k, pinned, tenant) =
             CacheOf(allocate(c.allocator, Blocks[k]),
                     [j \in DOMAIN c.entries \cup {k} |->
                        IF j = k THEN Entry(FitStart(c.allocator, Blocks[k]), Blocks[k], pinned, tenant)
                        ELSE c.entries[j]],
                     [c.tenant_allocated EXCEPT ![tenant] = @ + Blocks[k]],
                     IF pinned THEN c.pinned + Blocks[k] ELSE c.pinned)
BY DEF CacheOf, place

-----------------------------------------------------------------------------
(* The blocks of several tensors.                                          *)

Cells(S) == UNION {{k} \X (1 .. Blocks[k]) : k \in S}

LEMMA OneTensor ==
    ASSUME NEW k \in Keys
    PROVE  /\ IsFiniteSet({k} \X (1 .. Blocks[k])) /\ Cardinality({k} \X (1 .. Blocks[k])) = Blocks[k]
           /\ Blocks[k] \in Nat /\ Blocks[k] \in Sizes /\ Blocks[k] # 0
<1>1. Blocks[k] \in Nat /\ Blocks[k] \in Sizes /\ Blocks[k] # 0
  BY CacheAssumption, BlockCountAssumption, SMTT(30) DEF Sizes
<1>2. IsFiniteSet(1 .. Blocks[k]) /\ Cardinality(1 .. Blocks[k]) = Blocks[k]
  <2>1. ASSUME NEW n \in Nat PROVE IsFiniteSet(1 .. n) /\ Cardinality(1 .. n) = n
    BY FS_Interval, SMTT(30)
  <2> QED BY <1>1, <2>1
<1>3. IsFiniteSet({k}) /\ Cardinality({k}) = 1
  BY FS_Singleton
<1> DEFINE B == 1 .. Blocks[k]
           C == {k}
<1> HIDE DEF B, C
<1>4. IsFiniteSet(C \X B) /\ Cardinality(C \X B) = Cardinality(C) * Cardinality(B)
  BY <1>2, <1>3, FS_Product DEF B, C
<1>5. Cardinality(C) * Cardinality(B) = Blocks[k]
  BY <1>1, <1>2, <1>3, SMTT(30) DEF B, C
<1> QED BY <1>1, <1>4, <1>5 DEF B, C

LEMMA CellsFinite ==
    ASSUME NEW S \in SUBSET Keys, IsFiniteSet(S)
    PROVE  IsFiniteSet(Cells(S)) /\ Cardinality(Cells(S)) \in Nat
<1> DEFINE F == [k \in S |-> {k} \X (1 .. Blocks[k])]
           T == {{k} \X (1 .. Blocks[k]) : k \in S}
<1>1. F \in Surjection(S, T)
  BY DEF Surjection
<1>2. IsFiniteSet(T)
  BY <1>1, FS_Surjection
<1>3. \A U \in T : IsFiniteSet(U)
  BY OneTensor
<1>4. IsFiniteSet(Cells(S))
  BY <1>2, <1>3, FS_UNION DEF Cells
<1> QED BY <1>4, FS_CardinalityType

\* Another tensor adds its blocks.
LEMMA CellsWith ==
    ASSUME NEW S \in SUBSET Keys, IsFiniteSet(S), NEW k \in Keys, k \notin S
    PROVE  /\ Cardinality(Cells(S \cup {k})) = Cardinality(Cells(S)) + Blocks[k]
           /\ Cardinality(Cells(S)) \in Nat
<1> DEFINE F == {k} \X (1 .. Blocks[k])
<1>1. Cells(S \cup {k}) = Cells(S) \cup F
  BY DEF Cells
<1>2. Cells(S) \cap F = {}
  BY SMTT(30) DEF Cells
<1>3. IsFiniteSet(Cells(S)) /\ IsFiniteSet(F) /\ Cardinality(F) = Blocks[k] /\ Cardinality(Cells(S)) \in Nat
  BY CellsFinite, OneTensor
<1> HIDE DEF F
<1>4. Cardinality(Cells(S) \cup F) = Cardinality(Cells(S)) + Cardinality(F)
  BY <1>2, <1>3, AddSize
<1> QED BY <1>1, <1>3, <1>4

\* A tensor that is taken away takes its blocks with it.
LEMMA CellsWithout ==
    ASSUME NEW S \in SUBSET Keys, IsFiniteSet(S), NEW k \in S
    PROVE  /\ Cardinality(Cells(S \ {k})) = Cardinality(Cells(S)) - Blocks[k]
           /\ Cardinality(Cells(S \ {k})) \in Nat
<1> DEFINE T == S \ {k}
<1>1. T \in SUBSET Keys /\ IsFiniteSet(T) /\ k \in Keys /\ k \notin T /\ T \cup {k} = S
  BY FS_Subset
<1> HIDE DEF T
<1>2. Cardinality(Cells(S)) = Cardinality(Cells(T)) + Blocks[k] /\ Cardinality(Cells(T)) \in Nat
  BY <1>1, CellsWith
<1>3. Blocks[k] \in Nat
  BY <1>1, OneTensor
<1>4. Cardinality(Cells(T)) = Cardinality(Cells(S)) - Blocks[k]
  BY <1>2, <1>3, SMTT(30)
<1> QED BY <1>2, <1>4 DEF T

LEMMA SumIs ==
    ASSUME NEW c, Shaped(c), NEW S \in SUBSET (DOMAIN c.entries)
    PROVE  SumBlocks(c, S) = Cardinality(Cells(S))
<1>1. \A k \in S : c.entries[k].blocks = Blocks[k]
  BY DEF Shaped
<1>2. {{k} \X (1 .. c.entries[k].blocks) : k \in S} = {{k} \X (1 .. Blocks[k]) : k \in S}
  BY <1>1
<1> QED BY <1>2 DEF SumBlocks, Cells

PinnedIn(en) == {k \in DOMAIN en : en[k].pinned}
OwnedIn(en, t) == {k \in DOMAIN en : en[k].owner = t}

\* The counters are sums over the entries.
LEMMA AccountedIs ==
    ASSUME NEW c, Shaped(c)
    PROVE  Accounted(c) <=>
             /\ c.pinned = Cardinality(Cells(PinnedIn(c.entries)))
             /\ \A t \in Owners : c.tenant_allocated[t] = Cardinality(Cells(OwnedIn(c.entries, t)))
<1>1. SumBlocks(c, PinnedIn(c.entries)) = Cardinality(Cells(PinnedIn(c.entries)))
  BY SumIs DEF PinnedIn
<1>2. \A t \in Owners : SumBlocks(c, OwnedIn(c.entries, t)) = Cardinality(Cells(OwnedIn(c.entries, t)))
  BY SumIs DEF OwnedIn
<1> QED BY <1>1, <1>2 DEF Accounted, PinnedIn, OwnedIn

-----------------------------------------------------------------------------
(* Operations that only change how an entry is used.                       *)

\* cc has the entries of c, used differently.
Alike(c, cc) ==
    /\ cc = CacheOf(c.allocator, cc.entries, c.tenant_allocated, c.pinned)
    /\ DOMAIN cc.entries = DOMAIN c.entries
    /\ cc.entries \in [DOMAIN c.entries -> EntryType]
    /\ \A k \in DOMAIN c.entries :
           /\ cc.entries[k].start = c.entries[k].start /\ cc.entries[k].blocks = c.entries[k].blocks
           /\ cc.entries[k].pinned = c.entries[k].pinned /\ cc.entries[k].owner = c.entries[k].owner

LEMMA AlikeSane ==
    ASSUME NEW c, NEW cc, Sane(c), Alike(c, cc)
    PROVE  /\ Sane(cc)
           /\ cc.allocator = c.allocator /\ cc.tenant_allocated = c.tenant_allocated
           /\ cc.pinned = c.pinned
<1>1. /\ cc.allocator = c.allocator /\ cc.tenant_allocated = c.tenant_allocated
      /\ cc.pinned = c.pinned
  <2> DEFINE en == cc.entries
  <2>1. cc = CacheOf(c.allocator, en, c.tenant_allocated, c.pinned)
    BY DEF Alike
  <2> HIDE DEF en
  <2> QED BY <2>1, Fields, SMTT(30)
<1>2. /\ DOMAIN cc.entries = DOMAIN c.entries /\ cc.entries \in [DOMAIN c.entries -> EntryType]
      /\ \A k \in DOMAIN c.entries :
             /\ cc.entries[k].start = c.entries[k].start /\ cc.entries[k].blocks = c.entries[k].blocks
             /\ cc.entries[k].pinned = c.entries[k].pinned
             /\ cc.entries[k].owner = c.entries[k].owner
  BY DEF Alike
<1>3. cc = CacheOf(cc.allocator, cc.entries, cc.tenant_allocated, cc.pinned)
  BY <1>1 DEF Alike
<1>4. Shaped(c) /\ AtRest(c.allocator) /\ PagesOwned(c) /\ Accounted(c)
  BY DEF Sane
<1>5. Shaped(cc)
  <2>1. /\ DOMAIN c.entries \subseteq Keys /\ IsFiniteSet(DOMAIN c.entries)
        /\ \A k \in DOMAIN c.entries : c.entries[k].blocks = Blocks[k]
        /\ c.tenant_allocated \in [Owners -> Nat] /\ c.pinned \in Nat
    BY <1>4 DEF Shaped
  <2>2. \A k \in DOMAIN cc.entries : cc.entries[k].blocks = Blocks[k]
    BY <1>2, <2>1
  <2> QED BY <1>1, <1>2, <1>3, <2>1, <2>2 DEF Shaped
<1>6. PagesOwned(cc)
  BY <1>1, <1>2, <1>4, SMTT(30) DEF PagesOwned
<1>7. Accounted(cc)
  <2>1. PinnedIn(cc.entries) = PinnedIn(c.entries)
    BY <1>2 DEF PinnedIn
  <2>2. \A t \in Owners : OwnedIn(cc.entries, t) = OwnedIn(c.entries, t)
    BY <1>2 DEF OwnedIn
  <2>3. /\ c.pinned = Cardinality(Cells(PinnedIn(c.entries)))
        /\ \A t \in Owners : c.tenant_allocated[t] = Cardinality(Cells(OwnedIn(c.entries, t)))
    BY <1>4, AccountedIs
  <2>4. /\ cc.pinned = Cardinality(Cells(PinnedIn(cc.entries)))
        /\ \A t \in Owners : cc.tenant_allocated[t] = Cardinality(Cells(OwnedIn(cc.entries, t)))
    BY <1>1, <2>1, <2>2, <2>3
  <2> QED BY <1>5, <2>4, AccountedIs
<1> QED BY <1>1, <1>4, <1>5, <1>6, <1>7 DEF Sane

LEMMA ReleaseAlike ==
    ASSUME NEW c, Sane(c), NEW k \in DOMAIN c.entries, c.entries[k].references = 1
    PROVE  /\ Alike(c, release_entry(c, k))
           /\ \A j \in DOMAIN c.entries :
                  /\ release_entry(c, k).entries[j].ready = c.entries[j].ready
                  /\ release_entry(c, k).entries[j].references
                       = IF j = k THEN 0 ELSE c.entries[j].references
<1> DEFINE cc == release_entry(c, k)
           en == c.entries
           e2 == Recounted(c, k, c.entries[k].references - 1)
<1>1. Shaped(c) /\ en \in [DOMAIN en -> EntryType] /\ k \in DOMAIN en
  BY DEF Sane, Shaped
<1>2. cc = CacheOf(c.allocator, e2, c.tenant_allocated, c.pinned)
  BY <1>1, ReleaseFields
<1>3. e2 = [en EXCEPT ![k] = [en[k] EXCEPT !.references = 0]]
  BY SMTT(30) DEF Recounted
<1> HIDE DEF cc, en, e2
<1>4. cc.entries = e2
  BY <1>2, Fields, SMTT(30)
<1>5. /\ e2 \in [DOMAIN en -> EntryType]
      /\ \A j \in DOMAIN en :
             /\ e2[j].start = en[j].start /\ e2[j].blocks = en[j].blocks
             /\ e2[j].pinned = en[j].pinned /\ e2[j].owner = en[j].owner
             /\ e2[j].ready = en[j].ready
             /\ e2[j].references = IF j = k THEN 0 ELSE en[j].references
  BY <1>1, <1>3, SMTT(30) DEF EntryType
<1>6. DOMAIN e2 = DOMAIN en
  BY <1>5
<1> QED BY <1>2, <1>4, <1>5, <1>6 DEF Alike, cc, en

LEMMA AcquireAlike ==
    ASSUME NEW c, Sane(c), NEW hits, \A k \in hits : k \in DOMAIN c.entries => c.entries[k].references = 0
    PROVE  /\ Alike(c, acquire_existing(c, hits))
           /\ \A j \in DOMAIN c.entries :
                  /\ acquire_existing(c, hits).entries[j].ready = c.entries[j].ready
                  /\ acquire_existing(c, hits).entries[j].references
                       = IF j \in hits THEN 1 ELSE c.entries[j].references
<1> DEFINE cc == acquire_existing(c, hits)
           en == c.entries
           e2 == Acquired(c, hits)
<1>1. /\ Shaped(c) /\ en \in [DOMAIN en -> EntryType]
      /\ \A j \in DOMAIN en : j \in hits => en[j].references = 0
  BY DEF Sane, Shaped
<1>2. cc = CacheOf(c.allocator, e2, c.tenant_allocated, c.pinned)
  BY <1>1, AcquireFields
<1>3. e2 = [j \in DOMAIN en |-> IF j \in hits THEN [en[j] EXCEPT !.references = @ + 1] ELSE en[j]]
  BY DEF Acquired
<1> HIDE DEF cc, en, e2
<1>4. cc.entries = e2
  BY <1>2, Fields, SMTT(30)
<1>5. ASSUME NEW j \in DOMAIN en
      PROVE  /\ e2[j] \in EntryType
             /\ e2[j].start = en[j].start /\ e2[j].blocks = en[j].blocks
             /\ e2[j].pinned = en[j].pinned /\ e2[j].owner = en[j].owner
             /\ e2[j].ready = en[j].ready
             /\ e2[j].references = IF j \in hits THEN 1 ELSE en[j].references
  BY <1>1, <1>3, SMTT(30) DEF EntryType
<1>6. DOMAIN e2 = DOMAIN en /\ e2 \in [DOMAIN en -> EntryType]
  BY <1>3, <1>5
<1> QED BY <1>2, <1>4, <1>5, <1>6 DEF Alike, cc, en

LEMMA MarkAlike ==
    ASSUME NEW c, Sane(c), NEW loaded
    PROVE  /\ Alike(c, mark_ready(c, loaded))
           /\ \A j \in DOMAIN c.entries :
                  /\ mark_ready(c, loaded).entries[j].references = c.entries[j].references
                  /\ mark_ready(c, loaded).entries[j].ready <=> j \in loaded \/ c.entries[j].ready
<1> DEFINE cc == mark_ready(c, loaded)
           en == c.entries
           e2 == MarkedIn(c, loaded)
<1>1. Shaped(c) /\ en \in [DOMAIN en -> EntryType]
  BY DEF Sane, Shaped
<1>2. cc = CacheOf(c.allocator, e2, c.tenant_allocated, c.pinned)
  BY <1>1, MarkFields
<1>3. e2 = [j \in DOMAIN en |-> IF j \in loaded THEN [en[j] EXCEPT !.ready = TRUE] ELSE en[j]]
  BY DEF MarkedIn
<1> HIDE DEF cc, en, e2
<1>4. cc.entries = e2
  BY <1>2, Fields, SMTT(30)
<1>5. ASSUME NEW j \in DOMAIN en
      PROVE  /\ e2[j] \in EntryType
             /\ e2[j].start = en[j].start /\ e2[j].blocks = en[j].blocks
             /\ e2[j].pinned = en[j].pinned /\ e2[j].owner = en[j].owner
             /\ e2[j].references = en[j].references
             /\ e2[j].ready <=> j \in loaded \/ en[j].ready
  BY <1>1, <1>3 DEF EntryType
<1>6. DOMAIN e2 = DOMAIN en /\ e2 \in [DOMAIN en -> EntryType]
  BY <1>3, <1>5
<1> QED BY <1>2, <1>4, <1>5, <1>6 DEF Alike, cc, en

-----------------------------------------------------------------------------
(* Entries come and go.                                                    *)

\* What is removed gives back its pages and leaves the counters.
LEMMA RemoveSane ==
    ASSUME NEW c, Sane(c), NEW k \in DOMAIN c.entries
    PROVE  LET cc == remove_entry(c, k)
               o == c.entries[k].owner
           IN  /\ Sane(cc)
               /\ cc.entries = [j \in DOMAIN c.entries \ {k} |-> c.entries[j]]
               /\ cc.tenant_allocated = [c.tenant_allocated EXCEPT ![o] = @ - Blocks[k]]
               /\ o \in Owners /\ Blocks[k] \in Nat
<1> DEFINE cc == remove_entry(c, k)
           en == c.entries
           o == en[k].owner
           s == en[k].start
           n == Blocks[k]
           en2 == [j \in DOMAIN en \ {k} |-> en[j]]
           al2 == release(c.allocator, s)
           ta2 == [c.tenant_allocated EXCEPT ![o] = @ - n]
           p2 == IF en[k].pinned THEN c.pinned - n ELSE c.pinned
           ta == c.tenant_allocated
           g == c.allocator.allocated
<1>1. Shaped(c) /\ AtRest(c.allocator) /\ PagesOwned(c) /\ Accounted(c)
  BY DEF Sane
<1>2. /\ DOMAIN en \subseteq Keys /\ IsFiniteSet(DOMAIN en) /\ en \in [DOMAIN en -> EntryType]
      /\ \A j \in DOMAIN en : en[j].blocks = Blocks[j]
      /\ ta \in [Owners -> Nat] /\ c.pinned \in Nat /\ k \in DOMAIN en
  BY <1>1 DEF Shaped
<1>3. cc = CacheOf(al2, en2, ta2, p2)
  BY <1>1, <1>2, RemoveFields
<1>4. cc.allocator = al2 /\ cc.entries = en2 /\ cc.tenant_allocated = ta2 /\ cc.pinned = p2
  <2> HIDE DEF cc, al2, en2, ta2, p2
  <2> QED BY <1>3, Fields, SMTT(30)
<1>5. /\ \A t \in Starts : g[t] # 0 => \E j \in DOMAIN en : en[j].start = t
      /\ \A j \in DOMAIN en : /\ g[en[j].start] = en[j].blocks
                              /\ \A i \in DOMAIN en \ {j} : en[i].start # en[j].start
  BY <1>1 DEF PagesOwned
<1>6. /\ c.pinned = Cardinality(Cells(PinnedIn(en)))
      /\ \A t \in Owners : ta[t] = Cardinality(Cells(OwnedIn(en, t)))
  BY <1>1, AccountedIs
<1>7. k \in Keys /\ n \in Nat /\ n \in Sizes /\ n # 0
  <2>1. k \in Keys
    BY <1>2
  <2> QED BY <2>1, OneTensor
<1>8. s \in Starts /\ o \in Owners /\ en[k].pinned \in BOOLEAN
  BY <1>2 DEF EntryType
<1>9. AtRest(al2) /\ al2.allocated = [g EXCEPT ![s] = 0]
  <2>1. c.allocator.allocated[s] # 0
    BY <1>2, <1>5, <1>7
  <2> HIDE DEF s, g, n
  <2> QED BY <1>1, <1>8, <2>1, ReleaseRests DEF g
<1>10. g \in [Starts -> 0 .. BlockCount]
  BY <1>1 DEF AtRest, Sound, Values
<1> HIDE DEF cc, en, al2, o, s, n, ta, g, ta2, p2
<1>11. DOMAIN en2 = DOMAIN en \ {k} /\ en2 \in [DOMAIN en \ {k} -> EntryType]
  BY <1>2
<1>12. PagesOwned(cc)
  <2>1. \A j \in DOMAIN en \ {k} : en[j].start \in Starts /\ en[j].start # s
    BY <1>2, <1>5 DEF EntryType, s
  <2>2. \A t \in Starts : [g EXCEPT ![s] = 0][t] # 0 => \E j \in DOMAIN en2 : en2[j].start = t
    BY <1>2, <1>5, <1>8, <1>10, <1>11 DEF s
  <2>3. \A j \in DOMAIN en2 :
            /\ [g EXCEPT ![s] = 0][en2[j].start] = en2[j].blocks
            /\ \A i \in DOMAIN en2 \ {j} : en2[i].start # en2[j].start
    BY <1>5, <1>10, <1>11, <2>1
  <2> HIDE DEF en2
  <2> QED BY <1>4, <1>9, <2>2, <2>3, SMTT(30) DEF PagesOwned
<1>13. p2 = Cardinality(Cells(PinnedIn(en2))) /\ p2 \in Nat
  <2>1. PinnedIn(en2) = PinnedIn(en) \ {k} /\ PinnedIn(en) \in SUBSET Keys
    BY <1>2, <1>11 DEF PinnedIn
  <2>2. IsFiniteSet(PinnedIn(en))
    BY <1>2, FS_Subset DEF PinnedIn
  <2>3. CASE en[k].pinned
    <3>1. k \in PinnedIn(en) /\ p2 = c.pinned - n
      BY <1>2, <2>3 DEF PinnedIn, p2
    <3> QED BY <1>6, <2>1, <2>2, <3>1, CellsWithout DEF n
  <2>4. CASE ~en[k].pinned
    <3>1. PinnedIn(en) \ {k} = PinnedIn(en) /\ p2 = c.pinned
      BY <2>4 DEF PinnedIn, p2
    <3> QED BY <1>2, <1>6, <2>1, <3>1
  <2> QED BY <1>8, <2>3, <2>4
<1>14. ASSUME NEW t \in Owners PROVE ta2[t] = Cardinality(Cells(OwnedIn(en2, t))) /\ ta2[t] \in Nat
  <2>1. OwnedIn(en2, t) = OwnedIn(en, t) \ {k} /\ OwnedIn(en, t) \in SUBSET Keys
    BY <1>2, <1>11 DEF OwnedIn
  <2>2. IsFiniteSet(OwnedIn(en, t))
    BY <1>2, FS_Subset DEF OwnedIn
  <2>3. CASE t = o
    <3>1. k \in OwnedIn(en, t) /\ ta2[t] = ta[t] - n
      BY <1>2, <2>3 DEF OwnedIn, o, ta2, ta
    <3> QED BY <1>6, <2>1, <2>2, <3>1, CellsWithout DEF n
  <2>4. CASE t # o
    <3>1. OwnedIn(en, t) \ {k} = OwnedIn(en, t) /\ ta2[t] = ta[t]
      BY <1>2, <2>4 DEF OwnedIn, o, ta2, ta
    <3> QED BY <1>2, <1>6, <2>1, <3>1
  <2> QED BY <2>3, <2>4
<1>15. ta2 \in [Owners -> Nat]
  BY <1>2, <1>14 DEF ta2, ta
<1>16. Shaped(cc)
  <2>1. cc = CacheOf(cc.allocator, cc.entries, cc.tenant_allocated, cc.pinned)
    BY <1>3, <1>4
  <2>2. /\ DOMAIN en2 \subseteq Keys /\ IsFiniteSet(DOMAIN en2) /\ en2 \in [DOMAIN en2 -> EntryType]
        /\ \A j \in DOMAIN en2 : en2[j].blocks = Blocks[j]
    BY <1>2, <1>11, FS_Subset
  <2> HIDE DEF en2
  <2> QED BY <1>4, <1>13, <1>15, <2>1, <2>2 DEF Shaped
<1> HIDE DEF en2
<1>17. Accounted(cc)
  BY <1>4, <1>13, <1>14, <1>16, AccountedIs
<1>18. Sane(cc)
  BY <1>4, <1>9, <1>12, <1>16, <1>17 DEF Sane
<1> QED BY <1>4, <1>7, <1>8, <1>18 DEF cc, en, o, n, en2, ta2, ta

\* The entries of c with one more, and the counters of tenants with n more for t.
WithEntry(c, k, e) == [j \in DOMAIN c.entries \cup {k} |-> IF j = k THEN e ELSE c.entries[j]]
Charged(c, t, n) == [c.tenant_allocated EXCEPT ![t] = @ + n]
PlacedIn(c, cc, k, e, tenant) ==
    /\ Sane(cc) /\ e \in EntryType
    /\ cc.entries = WithEntry(c, k, e)
    /\ cc.tenant_allocated = Charged(c, tenant, Blocks[k])

\* What is placed takes pages that no entry has.
LEMMA PlaceSane ==
    ASSUME NEW c, Sane(c), NEW k \in Keys, k \notin DOMAIN c.entries,
           Fitting(c.allocator, Blocks[k]) # {}, NEW pinned \in BOOLEAN, NEW tenant \in Owners
    PROVE  PlacedIn(c, place(c, k, pinned, tenant), k,
                    Entry(FitStart(c.allocator, Blocks[k]), Blocks[k], pinned, tenant), tenant)
<1> DEFINE cc == place(c, k, pinned, tenant)
           en == c.entries
           n == Blocks[k]
           s == FitStart(c.allocator, n)
           e == Entry(s, n, pinned, tenant)
           en2 == [j \in DOMAIN en \cup {k} |-> IF j = k THEN e ELSE en[j]]
           al2 == allocate(c.allocator, n)
           ta == c.tenant_allocated
           ta2 == [ta EXCEPT ![tenant] = @ + n]
           p2 == IF pinned THEN c.pinned + n ELSE c.pinned
           g == c.allocator.allocated
<1>1. Shaped(c) /\ AtRest(c.allocator) /\ PagesOwned(c) /\ Accounted(c)
  BY DEF Sane
<1>2. /\ DOMAIN en \subseteq Keys /\ IsFiniteSet(DOMAIN en) /\ en \in [DOMAIN en -> EntryType]
      /\ \A j \in DOMAIN en : en[j].blocks = Blocks[j]
      /\ ta \in [Owners -> Nat] /\ c.pinned \in Nat /\ k \notin DOMAIN en
  BY <1>1 DEF Shaped
<1>3. cc = CacheOf(al2, en2, ta2, p2)
  BY <1>1, PlaceFields
<1>4. cc.allocator = al2 /\ cc.entries = en2 /\ cc.tenant_allocated = ta2 /\ cc.pinned = p2
  <2> HIDE DEF cc, al2, en2, ta2, p2
  <2> QED BY <1>3, Fields, SMTT(30)
<1>5. /\ \A t \in Starts : g[t] # 0 => \E j \in DOMAIN en : en[j].start = t
      /\ \A j \in DOMAIN en : /\ g[en[j].start] = en[j].blocks
                              /\ \A i \in DOMAIN en \ {j} : en[i].start # en[j].start
  BY <1>1 DEF PagesOwned
<1>6. /\ c.pinned = Cardinality(Cells(PinnedIn(en)))
      /\ \A t \in Owners : ta[t] = Cardinality(Cells(OwnedIn(en, t)))
  BY <1>1, AccountedIs
<1>7. n \in Nat /\ n \in Sizes /\ n # 0
  BY OneTensor
<1>8. AtRest(al2) /\ s \in Starts /\ g[s] = 0 /\ al2.allocated = [g EXCEPT ![s] = n]
  <2> HIDE DEF n
  <2>1. Fitting(c.allocator, n) # {}
    BY DEF n
  <2> QED BY <1>1, <1>7, <2>1, AllocateRests
<1>9. g \in [Starts -> 0 .. BlockCount]
  BY <1>1 DEF AtRest, Sound, Values
<1> HIDE DEF s, n
<1>10. /\ e \in EntryType /\ e.start = s /\ e.blocks = n /\ e.owner = tenant /\ (e.pinned <=> pinned)
  BY <1>7, <1>8, SMTT(30) DEF EntryType, Entry
<1> HIDE DEF cc, en, al2, ta, g, ta2, p2, e
<1>11. /\ DOMAIN en2 = DOMAIN en \cup {k} /\ en2 \in [DOMAIN en \cup {k} -> EntryType]
       /\ en2[k] = e /\ \A j \in DOMAIN en : en2[j] = en[j]
  BY <1>2, <1>10
<1> HIDE DEF en2
<1>12. PagesOwned(cc)
  <2>1. \A j \in DOMAIN en : en[j].start \in Starts /\ en[j].start # s
    <3>1. \A j \in DOMAIN en : en[j].start \in Starts /\ g[en[j].start] = Blocks[j] /\ Blocks[j] # 0
      BY <1>2, <1>5, OneTensor, BlockCountAssumption DEF EntryType, Sizes
    <3> QED BY <1>8, <3>1
  <2>2. \A t \in Starts : [g EXCEPT ![s] = n][t] # 0 => \E j \in DOMAIN en2 : en2[j].start = t
    BY <1>5, <1>9, <1>10, <1>11, SMTT(30)
  <2>3. \A j \in DOMAIN en2 :
            /\ [g EXCEPT ![s] = n][en2[j].start] = en2[j].blocks
            /\ \A i \in DOMAIN en2 \ {j} : en2[i].start # en2[j].start
    <3>1. ASSUME NEW j \in DOMAIN en
          PROVE  /\ [g EXCEPT ![s] = n][en2[j].start] = en2[j].blocks
                 /\ \A i \in DOMAIN en2 \ {j} : en2[i].start # en2[j].start
      BY <1>5, <1>9, <1>10, <1>11, <2>1, SMTT(30)
    <3>2. /\ [g EXCEPT ![s] = n][en2[k].start] = en2[k].blocks
          /\ \A i \in DOMAIN en2 \ {k} : en2[i].start # en2[k].start
      BY <1>8, <1>9, <1>10, <1>11, <2>1
    <3> QED BY <1>11, <3>1, <3>2
  <2> QED BY <1>4, <1>8, <2>2, <2>3, SMTT(30) DEF PagesOwned
<1>13. p2 = Cardinality(Cells(PinnedIn(en2))) /\ p2 \in Nat
  <2>1. PinnedIn(en) \in SUBSET Keys /\ k \notin PinnedIn(en)
    BY <1>2 DEF PinnedIn
  <2>2. IsFiniteSet(PinnedIn(en))
    BY <1>2, FS_Subset DEF PinnedIn
  <2>3. CASE pinned
    <3>1. PinnedIn(en2) = PinnedIn(en) \cup {k} /\ p2 = c.pinned + n
      BY <1>2, <1>10, <1>11, <2>3 DEF PinnedIn, p2
    <3> QED BY <1>2, <1>6, <1>7, <2>1, <2>2, <3>1, CellsWith, SMTT(30) DEF n
  <2>4. CASE ~pinned
    <3>1. PinnedIn(en2) = PinnedIn(en) /\ p2 = c.pinned
      BY <1>2, <1>10, <1>11, <2>4 DEF PinnedIn, p2
    <3> QED BY <1>2, <1>6, <3>1
  <2> QED BY <2>3, <2>4
<1>14. ASSUME NEW t \in Owners PROVE ta2[t] = Cardinality(Cells(OwnedIn(en2, t))) /\ ta2[t] \in Nat
  <2>1. OwnedIn(en, t) \in SUBSET Keys /\ k \notin OwnedIn(en, t)
    BY <1>2 DEF OwnedIn
  <2>2. IsFiniteSet(OwnedIn(en, t))
    BY <1>2, FS_Subset DEF OwnedIn
  <2>3. CASE t = tenant
    <3>1. OwnedIn(en2, t) = OwnedIn(en, t) \cup {k} /\ ta2[t] = ta[t] + n /\ ta[t] \in Nat
      BY <1>2, <1>10, <1>11, <2>3 DEF OwnedIn, ta2
    <3> QED BY <1>6, <1>7, <2>1, <2>2, <3>1, CellsWith, SMTT(30) DEF n
  <2>4. CASE t # tenant
    <3>1. OwnedIn(en2, t) = OwnedIn(en, t) /\ ta2[t] = ta[t]
      BY <1>2, <1>10, <1>11, <2>4 DEF OwnedIn, ta2
    <3> QED BY <1>2, <1>6, <3>1
  <2> QED BY <2>3, <2>4
<1>15. ta2 \in [Owners -> Nat]
  BY <1>2, <1>14 DEF ta2
<1>16. Shaped(cc)
  <2>1. cc = CacheOf(cc.allocator, cc.entries, cc.tenant_allocated, cc.pinned)
    BY <1>3, <1>4
  <2>2. IsFiniteSet(DOMAIN en \cup {k})
    BY <1>2, FS_AddElement
  <2>3. /\ DOMAIN en2 \subseteq Keys /\ en2 \in [DOMAIN en2 -> EntryType]
        /\ \A j \in DOMAIN en2 : en2[j].blocks = Blocks[j]
    BY <1>2, <1>10, <1>11 DEF n
  <2> QED BY <1>4, <1>11, <1>13, <1>15, <2>1, <2>2, <2>3 DEF Shaped
<1>17. Accounted(cc)
  BY <1>4, <1>13, <1>14, <1>16, AccountedIs
<1>18. Sane(cc)
  BY <1>4, <1>8, <1>12, <1>16, <1>17 DEF Sane
<1> QED BY <1>4, <1>10, <1>18 DEF cc, en, n, s, e, en2, ta2, ta, PlacedIn, WithEntry, Charged

-----------------------------------------------------------------------------
(* The caches of all devices.                                              *)

\* The blocks of the entries of a cache are in the arena and apart.
LEMMA PagesApart ==
    ASSUME NEW c, Sane(c), NEW k \in DOMAIN c.entries
    PROVE  /\ c.entries[k].start .. c.entries[k].start + Blocks[k] - 1 \subseteq Starts
           /\ \A j \in DOMAIN c.entries :
                \A b \in Starts :
                    /\ b \in c.entries[k].start .. c.entries[k].start + Blocks[k] - 1
                    /\ b \in c.entries[j].start .. c.entries[j].start + Blocks[j] - 1
                    => j = k
<1> DEFINE g == c.allocator.allocated
           en == c.entries
<1>1. /\ \A s \in Starts : s + g[s] <= BlockCount
      /\ \A s, t \in Starts : s < t /\ g[s] # 0 /\ g[t] # 0 => s + g[s] <= t
  BY DEF Sane, AtRest, Sound, Apart
<1>2. ASSUME NEW j \in DOMAIN en
      PROVE  /\ en[j].start \in Starts /\ g[en[j].start] = Blocks[j] /\ Blocks[j] # 0
             /\ Blocks[j] \in Nat /\ \A i \in DOMAIN en \ {j} : en[i].start # en[j].start
  <2>1. /\ j \in Keys /\ en[j] \in EntryType /\ en[j].blocks = Blocks[j]
    BY DEF Sane, Shaped
  <2>2. g[en[j].start] = en[j].blocks /\ \A i \in DOMAIN en \ {j} : en[i].start # en[j].start
    BY DEF Sane, PagesOwned
  <2>3. en[j].start \in Starts
    BY <2>1 DEF EntryType
  <2>4. Blocks[j] # 0 /\ Blocks[j] \in Nat
    BY <2>1, OneTensor
  <2> QED BY <2>1, <2>2, <2>3, <2>4
<1> HIDE DEF g, en
<1>3. k \in DOMAIN en
  BY DEF en
<1>4. en[k].start .. en[k].start + Blocks[k] - 1 \subseteq Starts
  BY <1>1, <1>2, <1>3, BlockCountAssumption, SMTT(30) DEF Starts
<1>5. ASSUME NEW j \in DOMAIN en, NEW b \in Starts,
             b \in en[k].start .. en[k].start + Blocks[k] - 1,
             b \in en[j].start .. en[j].start + Blocks[j] - 1
      PROVE  j = k
  <2> SUFFICES ASSUME j # k PROVE FALSE
    OBVIOUS
  <2>1. /\ en[j].start \in Starts /\ en[k].start \in Starts /\ en[j].start # en[k].start
        /\ g[en[j].start] = Blocks[j] /\ Blocks[j] # 0 /\ Blocks[j] \in Nat
        /\ g[en[k].start] = Blocks[k] /\ Blocks[k] # 0 /\ Blocks[k] \in Nat
    BY <1>2, <1>3
  <2>2. /\ en[j].start < en[k].start => en[j].start + Blocks[j] <= en[k].start
        /\ en[k].start < en[j].start => en[k].start + Blocks[k] <= en[j].start
    BY <1>1, <2>1
  <2> QED BY <1>5, <2>1, <2>2, BlockCountAssumption, SMTT(30) DEF Starts
<1> QED BY <1>4, <1>5 DEF en

\* One cache is replaced by a smaller one.
LEMMA ShelvesSmaller ==
    ASSUME NEW cs, Shelves(cs), NEW d \in Devices, NEW cc, Sane(cc), Limited(cc),
           DOMAIN cc.entries \subseteq DOMAIN cs[d].entries
    PROVE  LET cs2 == [cs EXCEPT ![d] = cc]
           IN  /\ Shelves(cs2) /\ cs2[d] = cc
               /\ \A e \in Devices : e # d => cs2[e] = cs[e]
<1> DEFINE cs2 == [cs EXCEPT ![d] = cc]
<1>1. /\ cs = [e \in Devices |-> cs[e]] /\ (\A e \in Devices : Sane(cs[e]) /\ Limited(cs[e]))
      /\ \A e, f \in Devices : \A k \in Keys : Holds(cs[e], k) /\ Holds(cs[f], k) => e = f
  BY DEF Shelves
<1>2. /\ cs2 = [e \in Devices |-> cs2[e]] /\ cs2[d] = cc
      /\ \A e \in Devices : e # d => cs2[e] = cs[e]
  BY <1>1
<1> HIDE DEF cs2
<1>3. \A e \in Devices : Sane(cs2[e]) /\ Limited(cs2[e])
  BY <1>1, <1>2
<1>4. \A e \in Devices : \A k \in Keys : Holds(cs2[e], k) => Holds(cs[e], k)
  BY <1>2 DEF Holds
<1>5. \A e, f \in Devices : \A k \in Keys : Holds(cs2[e], k) /\ Holds(cs2[f], k) => e = f
  BY <1>1, <1>4
<1>6. Shelves(cs2)
  BY <1>2, <1>3, <1>5 DEF Shelves
<1> QED BY <1>2, <1>6 DEF cs2

\* cs2 is what is left of cs after some tensors in gone have been removed.
Shrunk(cs, cs2, gone, who) ==
    \A d \in Devices :
        /\ DOMAIN cs2[d].entries \subseteq DOMAIN cs[d].entries
        /\ \A k \in DOMAIN cs2[d].entries :
               /\ cs2[d].entries[k].start = cs[d].entries[k].start
               /\ cs2[d].entries[k].pinned = cs[d].entries[k].pinned
               /\ cs2[d].entries[k].ready = cs[d].entries[k].ready
               /\ cs2[d].entries[k].owner = cs[d].entries[k].owner
        /\ \A k \in DOMAIN cs[d].entries \ DOMAIN cs2[d].entries :
               \E r \in gone : r.key = k /\ r.device = d
        /\ \A t \in Owners \ {who} : cs2[d].tenant_allocated[t] = cs[d].tenant_allocated[t]

LEMMA ShrunkSame == ASSUME NEW cs, NEW gone, NEW who PROVE Shrunk(cs, cs, gone, who)
BY DEF Shrunk

LEMMA ShrunkTwice ==
    ASSUME NEW c1, NEW c2, NEW c3, NEW gone, NEW who,
           Shrunk(c1, c2, gone, who), Shrunk(c2, c3, gone, who)
    PROVE  Shrunk(c1, c3, gone, who)
<1> SUFFICES ASSUME NEW d \in Devices
    PROVE  /\ DOMAIN c3[d].entries \subseteq DOMAIN c1[d].entries
           /\ \A k \in DOMAIN c3[d].entries :
                  /\ c3[d].entries[k].start = c1[d].entries[k].start
                  /\ c3[d].entries[k].pinned = c1[d].entries[k].pinned
                  /\ c3[d].entries[k].ready = c1[d].entries[k].ready
                  /\ c3[d].entries[k].owner = c1[d].entries[k].owner
           /\ \A k \in DOMAIN c1[d].entries \ DOMAIN c3[d].entries :
                  \E r \in gone : r.key = k /\ r.device = d
           /\ \A t \in Owners \ {who} : c3[d].tenant_allocated[t] = c1[d].tenant_allocated[t]
  BY DEF Shrunk
<1>1. /\ DOMAIN c2[d].entries \subseteq DOMAIN c1[d].entries
      /\ \A k \in DOMAIN c2[d].entries :
             /\ c2[d].entries[k].start = c1[d].entries[k].start
             /\ c2[d].entries[k].pinned = c1[d].entries[k].pinned
             /\ c2[d].entries[k].ready = c1[d].entries[k].ready
             /\ c2[d].entries[k].owner = c1[d].entries[k].owner
      /\ \A k \in DOMAIN c1[d].entries \ DOMAIN c2[d].entries :
             \E r \in gone : r.key = k /\ r.device = d
      /\ \A t \in Owners \ {who} : c2[d].tenant_allocated[t] = c1[d].tenant_allocated[t]
  BY DEF Shrunk
<1>2. /\ DOMAIN c3[d].entries \subseteq DOMAIN c2[d].entries
      /\ \A k \in DOMAIN c3[d].entries :
             /\ c3[d].entries[k].start = c2[d].entries[k].start
             /\ c3[d].entries[k].pinned = c2[d].entries[k].pinned
             /\ c3[d].entries[k].ready = c2[d].entries[k].ready
             /\ c3[d].entries[k].owner = c2[d].entries[k].owner
      /\ \A k \in DOMAIN c2[d].entries \ DOMAIN c3[d].entries :
             \E r \in gone : r.key = k /\ r.device = d
      /\ \A t \in Owners \ {who} : c3[d].tenant_allocated[t] = c2[d].tenant_allocated[t]
  BY DEF Shrunk
<1> QED BY <1>1, <1>2, SMTT(30)

\* What is left still has its bytes.
LEMMA ShrunkBytes ==
    ASSUME NEW cs, NEW cs2, NEW gone, NEW who, NEW ar, Shrunk(cs, cs2, gone, who), Bytes(cs, ar)
    PROVE  Bytes(cs2, ar)
<1> SUFFICES ASSUME NEW d \in Devices, NEW k \in DOMAIN cs2[d].entries, cs2[d].entries[k].ready,
                    NEW b \in cs2[d].entries[k].start .. cs2[d].entries[k].start + Blocks[k] - 1
             PROVE  ar[d][b] = k
  BY DEF Bytes
<1>1. /\ k \in DOMAIN cs[d].entries /\ cs2[d].entries[k].start = cs[d].entries[k].start
      /\ cs[d].entries[k].ready
  BY SMTT(30) DEF Shrunk
<1> QED BY <1>1 DEF Bytes

\* cc is c without the tensor k, or with k no longer referenced.
Lessened(c, cc, k) ==
    /\ Sane(cc) /\ Limited(cc)
    /\ DOMAIN cc.entries \subseteq DOMAIN c.entries /\ DOMAIN c.entries \ {k} \subseteq DOMAIN cc.entries
    /\ \A j \in DOMAIN cc.entries :
           /\ cc.entries[j].start = c.entries[j].start /\ cc.entries[j].pinned = c.entries[j].pinned
           /\ cc.entries[j].ready = c.entries[j].ready /\ cc.entries[j].owner = c.entries[j].owner
           /\ cc.entries[j].references = IF j = k THEN 0 ELSE c.entries[j].references
           /\ j = k => c.entries[j].ready

LEMMA ReleaseLessens ==
    ASSUME NEW c, Sane(c), Limited(c), NEW k \in DOMAIN c.entries, c.entries[k].references = 1,
           c.entries[k].ready
    PROVE  /\ Lessened(c, release_entry(c, k), k)
           /\ release_entry(c, k).tenant_allocated = c.tenant_allocated
           /\ DOMAIN release_entry(c, k).entries = DOMAIN c.entries
<1> DEFINE cc == release_entry(c, k)
<1>1. /\ Alike(c, cc)
      /\ \A j \in DOMAIN c.entries :
             /\ cc.entries[j].ready = c.entries[j].ready
             /\ cc.entries[j].references = IF j = k THEN 0 ELSE c.entries[j].references
  BY ReleaseAlike
<1> HIDE DEF cc
<1>2. Sane(cc) /\ cc.tenant_allocated = c.tenant_allocated
  BY <1>1, AlikeSane
<1>3. Limited(cc)
  BY <1>2 DEF Limited
<1>4. /\ DOMAIN cc.entries = DOMAIN c.entries
      /\ \A j \in DOMAIN c.entries :
             /\ cc.entries[j].start = c.entries[j].start /\ cc.entries[j].pinned = c.entries[j].pinned
             /\ cc.entries[j].owner = c.entries[j].owner
  BY <1>1 DEF Alike
<1>5. Lessened(c, cc, k)
  BY <1>1, <1>2, <1>3, <1>4 DEF Lessened
<1> QED BY <1>2, <1>4, <1>5 DEF cc

LEMMA RemoveLessens ==
    ASSUME NEW c, Sane(c), Limited(c), NEW k \in DOMAIN c.entries
    PROVE  /\ Lessened(c, remove_entry(c, k), k)
           /\ DOMAIN remove_entry(c, k).entries = DOMAIN c.entries \ {k}
           /\ \A t \in Owners \ {c.entries[k].owner} :
                  remove_entry(c, k).tenant_allocated[t] = c.tenant_allocated[t]
<1> DEFINE cc == remove_entry(c, k)
           o == c.entries[k].owner
           n == Blocks[k]
<1>1. /\ Sane(cc) /\ cc.entries = [j \in DOMAIN c.entries \ {k} |-> c.entries[j]]
      /\ cc.tenant_allocated = [c.tenant_allocated EXCEPT ![o] = @ - n]
      /\ o \in Owners /\ n \in Nat
  BY RemoveSane
<1>2. c.tenant_allocated \in [Owners -> Nat]
  BY DEF Sane, Shaped
<1> HIDE DEF cc, o, n
<1>3. /\ DOMAIN cc.entries = DOMAIN c.entries \ {k}
      /\ \A j \in DOMAIN cc.entries : cc.entries[j] = c.entries[j] /\ j # k
  BY <1>1
<1>4. /\ \A t \in Owners \ {o} : cc.tenant_allocated[t] = c.tenant_allocated[t]
      /\ \A t \in Owners : cc.tenant_allocated[t] <= c.tenant_allocated[t]
      /\ \A t \in Owners : cc.tenant_allocated[t] \in Int
  BY <1>1, <1>2, SMTT(30)
<1>5. Limited(cc)
  <2>1. ASSUME NEW t \in Tenants PROVE cc.tenant_allocated[t] <= Limit(t)
    <3>1. t \in Owners /\ c.tenant_allocated[t] <= Limit(t)
      BY DEF Limited, Owners
    <3>2. Limit(t) \in Int
      BY CacheAssumption, BlockCountAssumption, SMTT(30) DEF Limit, Reserved
    <3> QED BY <1>2, <1>4, <3>1, <3>2, SMTT(30)
  <2> QED BY <2>1 DEF Limited
<1>6. Lessened(c, cc, k)
  BY <1>1, <1>3, <1>5 DEF Lessened
<1> QED BY <1>3, <1>4, <1>6 DEF cc, o

\* The books are right when one entry is removed or released.
LEMMA BooksLess ==
    ASSUME NEW cs, NEW held, Books(cs, held), NEW d \in Devices, NEW k \in DOMAIN cs[d].entries,
           NEW cc, Lessened(cs[d], cc, k)
    PROVE  Books([cs EXCEPT ![d] = cc], {r \in held : r.key # k})
<1> DEFINE cs2 == [cs EXCEPT ![d] = cc]
           held2 == {r \in held : r.key # k}
<1>1. Shelves(cs) /\ Taken(cs, held) /\ Counted(cs, held)
  BY DEF Books
<1>2. Shelves(cs2) /\ cs2[d] = cc /\ \A e \in Devices : e # d => cs2[e] = cs[e]
  <2>1. Sane(cc) /\ Limited(cc) /\ DOMAIN cc.entries \subseteq DOMAIN cs[d].entries
    BY DEF Lessened
  <2> QED BY <1>1, <2>1, ShelvesSmaller, SMTT(30)
<1> HIDE DEF cs2
<1>3. \A e \in Devices : \A j \in DOMAIN cs2[e].entries :
         /\ j \in DOMAIN cs[e].entries
         /\ cs2[e].entries[j].start = cs[e].entries[j].start
         /\ cs2[e].entries[j].ready = cs[e].entries[j].ready
         /\ cs2[e].entries[j].references = IF j = k THEN 0 ELSE cs[e].entries[j].references
         /\ j = k => cs[e].entries[j].ready
  <2>1. ASSUME NEW e \in Devices, NEW j \in DOMAIN cs2[e].entries, e # d
        PROVE  cs2[e] = cs[e] /\ j # k
    <3>1. j \in Keys /\ k \in Keys
      BY <1>1, <1>2, <2>1 DEF Shelves, Sane, Shaped
    <3> QED BY <1>1, <1>2, <2>1, <3>1 DEF Shelves, Holds
  <2>2. ASSUME NEW j \in DOMAIN cs2[d].entries
        PROVE  /\ j \in DOMAIN cs[d].entries
               /\ cs2[d].entries[j].start = cs[d].entries[j].start
               /\ cs2[d].entries[j].ready = cs[d].entries[j].ready
               /\ cs2[d].entries[j].references = IF j = k THEN 0 ELSE cs[d].entries[j].references
               /\ j = k => cs[d].entries[j].ready
    BY <1>2, <2>2 DEF Lessened
  <2> QED BY <2>1, <2>2
<1>4. Taken(cs2, held2)
  <2>1. /\ held \subseteq TensorType /\ \A r, q \in held : r.key = q.key => r = q
        /\ \A r \in held : r.key \in DOMAIN cs[r.device].entries /\ EntryOf(cs, r).start = r.start
    BY <1>1 DEF Taken, Holds
  <2>2. ASSUME NEW r \in held2 PROVE Holds(cs2[r.device], r.key) /\ EntryOf(cs2, r).start = r.start
    <3>1. r \in held /\ r.key # k /\ r.device \in Devices
      BY <2>1 DEF TensorType
    <3>2. r.key \in DOMAIN cs2[r.device].entries
      BY <1>2, <2>1, <3>1 DEF Lessened
    <3> QED BY <1>3, <2>1, <3>1, <3>2 DEF Holds, EntryOf
  <2> QED BY <2>1, <2>2 DEF Taken
<1>5. Counted(cs2, held2)
  <2> SUFFICES ASSUME NEW e \in Devices, NEW j \in DOMAIN cs2[e].entries
               PROVE  /\ cs2[e].entries[j].references = IF \E r \in held2 : r.key = j THEN 1 ELSE 0
                      /\ ~cs2[e].entries[j].ready => \E r \in held2 : r.key = j /\ r.newly_admitted
    BY DEF Counted
  <2>1. /\ j \in DOMAIN cs[e].entries
        /\ cs[e].entries[j].references = IF \E r \in held : r.key = j THEN 1 ELSE 0
        /\ ~cs[e].entries[j].ready => \E r \in held : r.key = j /\ r.newly_admitted
    <3>1. j \in DOMAIN cs[e].entries
      BY <1>3
    <3> QED BY <1>1, <3>1 DEF Counted
  <2> QED BY <1>3, <2>1, SMTT(30)
<1> QED BY <1>2, <1>4, <1>5 DEF Books, cs2

\* One turn of the loop that releases a chunk.
LEMMA Dropped ==
    ASSUME NEW cs, NEW held, Books(cs, held), NEW r \in held, NEW gone, NEW who,
           r \in gone => EntryOf(cs, r).owner = who,
           r \notin gone => EntryOf(cs, r).ready
    PROVE  LET c == cs[r.device]
               cc == IF r \in gone THEN remove_entry(c, r.key) ELSE release_entry(c, r.key)
           IN  /\ Books([cs EXCEPT ![r.device] = cc], held \ {r})
               /\ Shrunk(cs, [cs EXCEPT ![r.device] = cc], gone, who)
<1> DEFINE d == r.device
           k == r.key
           c == cs[d]
           cc == IF r \in gone THEN remove_entry(c, k) ELSE release_entry(c, k)
           cs2 == [cs EXCEPT ![d] = cc]
<1>1. /\ d \in Devices /\ k \in DOMAIN c.entries /\ {q \in held : q.key # k} = held \ {r}
      /\ Sane(c) /\ Limited(c) /\ c.entries[k].references = 1
  <2>1. Shelves(cs) /\ Taken(cs, held) /\ Counted(cs, held)
    BY DEF Books
  <2>2. d \in Devices /\ k \in DOMAIN c.entries /\ {q \in held : q.key # k} = held \ {r}
    BY <2>1 DEF Taken, TensorType, Holds
  <2>3. Sane(c) /\ Limited(c)
    BY <2>1, <2>2 DEF Shelves
  <2>4. c.entries[k].references = 1
    BY <2>1, <2>2 DEF Counted
  <2> QED BY <2>2, <2>3, <2>4
<1>2. /\ Lessened(c, cc, k)
      /\ k \notin DOMAIN cc.entries => r \in gone
      /\ \A t \in Owners \ {who} : cc.tenant_allocated[t] = c.tenant_allocated[t]
  <2>1. CASE r \in gone
    <3>1. c.entries[k].owner = who /\ cc = remove_entry(c, k)
      BY <2>1 DEF EntryOf
    <3> HIDE DEF cc, c, k
    <3> QED BY <1>1, <2>1, <3>1, RemoveLessens, SMTT(30)
  <2>2. CASE r \notin gone
    <3>1. c.entries[k].ready /\ cc = release_entry(c, k)
      BY <2>2 DEF EntryOf
    <3> HIDE DEF cc, c, k
    <3> QED BY <1>1, <2>2, <3>1, ReleaseLessens
  <2> QED BY <2>1, <2>2
<1> HIDE DEF cc
<1>3. Books(cs2, held \ {r})
  <2> HIDE DEF d, k
  <2>1. Books(cs2, {q \in held : q.key # k})
    BY <1>1, <1>2, BooksLess, SMTT(30)
  <2> QED BY <1>1, <2>1
<1>4. Shrunk(cs, cs2, gone, who)
  <2>1. /\ cs2[d] = cc /\ \A e \in Devices : e # d => cs2[e] = cs[e]
    BY <1>1 DEF Books, Shelves
  <2>2. \A e \in Devices : e # d => cs2[e] = cs[e]
    BY <2>1
  <2> HIDE DEF cs2
  <2>3. SUFFICES ASSUME NEW e \in Devices
        PROVE  /\ DOMAIN cs2[e].entries \subseteq DOMAIN cs[e].entries
               /\ \A j \in DOMAIN cs2[e].entries :
                      /\ cs2[e].entries[j].start = cs[e].entries[j].start
                      /\ cs2[e].entries[j].pinned = cs[e].entries[j].pinned
                      /\ cs2[e].entries[j].ready = cs[e].entries[j].ready
                      /\ cs2[e].entries[j].owner = cs[e].entries[j].owner
               /\ \A j \in DOMAIN cs[e].entries \ DOMAIN cs2[e].entries :
                      \E q \in gone : q.key = j /\ q.device = e
               /\ \A t \in Owners \ {who} : cs2[e].tenant_allocated[t] = cs[e].tenant_allocated[t]
    BY DEF Shrunk
  <2>4. CASE e # d
    BY <2>2, <2>4
  <2>5. CASE e = d
    <3>1. /\ DOMAIN cc.entries \subseteq DOMAIN c.entries
          /\ DOMAIN c.entries \ {k} \subseteq DOMAIN cc.entries
          /\ \A j \in DOMAIN cc.entries :
                /\ cc.entries[j].start = c.entries[j].start /\ cc.entries[j].pinned = c.entries[j].pinned
                /\ cc.entries[j].ready = c.entries[j].ready /\ cc.entries[j].owner = c.entries[j].owner
      BY <1>2 DEF Lessened
    <3>2. \A j \in DOMAIN c.entries \ DOMAIN cc.entries : r \in gone /\ r.key = j /\ r.device = e
      BY <1>2, <2>5, <3>1
    <3>3. cs2[e] = cc /\ cs[e] = c
      BY <2>1, <2>5
    <3> HIDE DEF c, d, k
    <3> QED BY <1>2, <3>1, <3>2, <3>3, SMTT(30)
  <2> QED BY <2>4, <2>5
<1> QED BY <1>3, <1>4 DEF cs2, cc

\* cs without the entry of k on a device.
Evicted(cs, d, k) == [cs EXCEPT ![d] = remove_entry(cs[d], k)]

\* An entry that is not referenced is evicted.
LEMMA BooksEvict ==
    ASSUME NEW cs, NEW held, Books(cs, held), NEW d \in Devices, NEW k \in DOMAIN cs[d].entries,
           cs[d].entries[k].references = 0
    PROVE  Books(Evicted(cs, d, k), held)
<1>1. {r \in held : r.key # k} = held
  <2>1. cs[d].entries[k].references = IF \E r \in held : r.key = k THEN 1 ELSE 0
    BY DEF Books, Counted
  <2> QED BY <2>1, SMTT(30)
<1>2. Lessened(cs[d], remove_entry(cs[d], k), k)
  BY RemoveLessens DEF Books, Shelves
<1> DEFINE cc == remove_entry(cs[d], k)
<1> HIDE DEF cc
<1>3. Books([cs EXCEPT ![d] = cc], {r \in held : r.key # k})
  <2>1. Lessened(cs[d], cc, k)
    BY <1>2 DEF cc
  <2> QED BY <2>1, BooksLess, SMTT(30)
<1> QED BY <1>1, <1>3 DEF cc, Evicted

-----------------------------------------------------------------------------
(* The loop that releases a chunk.                                         *)

Turn(r, cs, gone) ==
    [cs EXCEPT ![r.device] = IF r \in gone THEN remove_entry(cs[r.device], r.key)
                             ELSE release_entry(cs[r.device], r.key)]
Turns(cs, tensors, gone, m, g) ==
    g = [n \in 0 .. m |-> IF n = 0 THEN cs ELSE Turn(tensors[n], g[n - 1], gone)]

LEMMA TurnsExist ==
    ASSUME NEW cs, NEW tensors, NEW gone, NEW L \in Nat
    PROVE  \E g : Turns(cs, tensors, gone, L, g)
<1> DEFINE Good == {m \in 0 .. L : \E g : Turns(cs, tensors, gone, m, g)}
<1>1. 0 \in Good
  <2> DEFINE g == [n \in 0 .. 0 |-> cs]
  <2>1. g = [n \in 0 .. 0 |-> IF n = 0 THEN cs ELSE Turn(tensors[n], g[n - 1], gone)]
    BY SMTT(30)
  <2>2. Turns(cs, tensors, gone, 0, g)
    BY <2>1 DEF Turns
  <2> QED BY <2>2, SMTT(30)
<1>2. ASSUME NEW m \in 0 .. L, m # 0, m - 1 \in Good PROVE m \in Good
  <2>1. PICK g : Turns(cs, tensors, gone, m - 1, g)
    BY <1>2
  <2> DEFINE h == [n \in 0 .. m |-> IF n = m THEN Turn(tensors[m], g[m - 1], gone) ELSE g[n]]
  <2>2. \A n \in 0 .. m - 1 : h[n] = g[n] /\ n # m /\ n \in 0 .. m
    BY SMTT(30)
  <2>3. ASSUME NEW n \in 0 .. m
        PROVE  h[n] = IF n = 0 THEN cs ELSE Turn(tensors[n], h[n - 1], gone)
    <3>1. CASE n = m
      <4>1. h[n] = Turn(tensors[m], g[m - 1], gone) /\ h[n - 1] = g[n - 1]
        BY <1>2, <2>2, <3>1, SMTT(30)
      <4> QED BY <1>2, <3>1, <4>1
    <3>2. CASE n # m
      <4>1. n \in 0 .. m - 1 /\ (n # 0 => n - 1 \in 0 .. m - 1)
        BY <1>2, <3>2, SMTT(30)
      <4>2. g[n] = IF n = 0 THEN cs ELSE Turn(tensors[n], g[n - 1], gone)
        BY <2>1, <4>1 DEF Turns
      <4>3. h[n] = g[n] /\ (n # 0 => h[n - 1] = g[n - 1])
        BY <2>2, <4>1
      <4> HIDE DEF h
      <4> QED BY <4>2, <4>3
    <3> QED BY <3>1, <3>2
  <2>4. h = [n \in 0 .. m |-> h[n]]
    OBVIOUS
  <2> HIDE DEF h
  <2>5. Turns(cs, tensors, gone, m, h)
    BY <2>3, <2>4 DEF Turns
  <2> QED BY <2>5
<1> HIDE DEF Good
<1>3. \A n \in 0 .. L : n \in Good
  BY <1>1, <1>2, EveryTurn, SMTT(30)
<1> QED BY <1>3, SMTT(30) DEF Good

LEMMA ReleaseAllIs ==
    ASSUME NEW cs, NEW tensors, Len(tensors) \in Nat, NEW gone
    PROVE  \E g : /\ Turns(cs, tensors, gone, Len(tensors), g)
                  /\ ReleaseAll(cs, tensors, gone) = g[Len(tensors)]
<1> DEFINE g == CHOOSE after : Turns(cs, tensors, gone, Len(tensors), after)
<1>1. Turns(cs, tensors, gone, Len(tensors), g)
  BY TurnsExist
<1>2. ReleaseAll(cs, tensors, gone) = g[Len(tensors)]
  BY DEF ReleaseAll, Turns, Turn
<1> HIDE DEF g
<1> QED BY <1>1, <1>2

\* After it nothing is held, and only what had to go is gone.
LEMMA Released ==
    ASSUME NEW cs, NEW tensors \in Seq(TensorType), Books(cs, Elements(tensors)),
           \A i, j \in DOMAIN tensors : tensors[i].key = tensors[j].key => i = j,
           NEW gone, NEW who,
           \A i \in DOMAIN tensors : tensors[i] \in gone => EntryOf(cs, tensors[i]).owner = who,
           \A i \in DOMAIN tensors : tensors[i] \notin gone => EntryOf(cs, tensors[i]).ready
    PROVE  /\ Books(ReleaseAll(cs, tensors, gone), {})
           /\ Shrunk(cs, ReleaseAll(cs, tensors, gone), gone, who)
<1> DEFINE L == Len(tensors)
           Left(n) == {tensors[i] : i \in n + 1 .. L}
<1>1. L \in Nat /\ DOMAIN tensors = 1 .. L
  BY SMTT(30)
<1>2. PICK g : Turns(cs, tensors, gone, L, g) /\ ReleaseAll(cs, tensors, gone) = g[L]
  BY <1>1, ReleaseAllIs
<1> DEFINE Good == {n \in 0 .. L : Books(g[n], Left(n)) /\ Shrunk(cs, g[n], gone, who)}
<1>3. 0 \in Good
  <2>1. g[0] = cs
    BY <1>1, <1>2, SMTT(30) DEF Turns
  <2>2. Left(0) = Elements(tensors)
    BY <1>1, SMTT(30) DEF Elements
  <2>3. Shrunk(cs, cs, gone, who)
    BY ShrunkSame
  <2> HIDE DEF Left
  <2>4. Books(g[0], Left(0)) /\ Shrunk(cs, g[0], gone, who)
    BY <2>1, <2>2, <2>3
  <2>5. 0 \in 0 .. L
    BY <1>1, SMTT(30)
  <2> QED BY <2>4, <2>5
<1>4. ASSUME NEW n \in 0 .. L, n # 0, n - 1 \in Good PROVE n \in Good
  <2> DEFINE r == tensors[n]
             b == g[n - 1]
  <2>1. Books(b, Left(n - 1)) /\ Shrunk(cs, b, gone, who)
    BY <1>4
  <2>2. n \in 1 .. L /\ n - 1 \in 0 .. L /\ n \in DOMAIN tensors /\ r \in TensorType
    BY <1>1, <1>4, SMTT(30)
  <2>3. r \in Left(n - 1) /\ Left(n - 1) \ {r} = Left(n)
    <3>1. \A i \in n + 1 .. L : tensors[i] # r
      BY <1>1, <2>2, SMTT(30)
    <3> QED BY <1>1, <2>2, <3>1, SMTT(30)
  <2>4. g[n] = Turn(r, b, gone)
    BY <1>2, <2>2, <1>4 DEF Turns
  <2>5. /\ r.device \in Devices /\ r.key \in DOMAIN b[r.device].entries
    <3> HIDE DEF r, b, Left
    <3> QED BY <2>1, <2>2, <2>3 DEF Books, Taken, Holds, TensorType
  <2>6. /\ EntryOf(b, r).owner = EntryOf(cs, r).owner
        /\ EntryOf(b, r).ready = EntryOf(cs, r).ready
    <3> HIDE DEF r, b
    <3>1. b[r.device].entries[r.key].owner = cs[r.device].entries[r.key].owner
      BY <2>1, <2>5, SMTT(30) DEF Shrunk
    <3>2. b[r.device].entries[r.key].ready = cs[r.device].entries[r.key].ready
      BY <2>1, <2>5, SMTT(30) DEF Shrunk
    <3> QED BY <3>1, <3>2 DEF EntryOf
  <2>7. /\ r \in gone => EntryOf(b, r).owner = who
        /\ r \notin gone => EntryOf(b, r).ready
    BY <2>2, <2>6
  <2> HIDE DEF r, b, Left, Good
  <2>8. Books(Turn(r, b, gone), Left(n - 1) \ {r}) /\ Shrunk(b, Turn(r, b, gone), gone, who)
    BY <2>1, <2>3, <2>7, Dropped DEF Turn
  <2>9. Shrunk(cs, g[n], gone, who)
    BY <2>1, <2>4, <2>8, ShrunkTwice, SMTT(30)
  <2> QED BY <2>3, <2>4, <2>8, <2>9 DEF Good
<1> HIDE DEF Good
<1>5. \A n \in 0 .. L : n \in Good
  <2>1. \A n \in 0 .. L : n # 0 /\ n - 1 \in Good => n \in Good
    BY <1>4
  <2>2. L \in Nat /\ 0 \in 0 .. L
    BY <1>1, SMTT(30)
  <2> HIDE DEF L
  <2> QED BY <1>3, <2>1, <2>2, EveryTurn
<1>6. Books(g[L], Left(L)) /\ Shrunk(cs, g[L], gone, who)
  <2>1. L \in Good
    BY <1>1, <1>5, SMTT(30)
  <2> HIDE DEF L, Left
  <2> QED BY <2>1 DEF Good
<1>7. Left(L) = {}
  BY <1>1, SMTT(30)
<1> QED BY <1>2, <1>6, <1>7

-----------------------------------------------------------------------------
(* Entries are taken, marked and placed.                                   *)

\* The caches keep their entries, and count their holders again.
LEMMA BooksAlike ==
    ASSUME NEW cs, Shelves(cs), NEW cs2, cs2 = [d \in Devices |-> cs2[d]],
           \A d \in Devices : Alike(cs[d], cs2[d]),
           NEW held, Taken(cs, held), Counted(cs2, held)
    PROVE  Books(cs2, held)
<1>1. ASSUME NEW d \in Devices
      PROVE  /\ Sane(cs2[d]) /\ Limited(cs2[d]) /\ DOMAIN cs2[d].entries = DOMAIN cs[d].entries
             /\ \A k \in DOMAIN cs[d].entries : cs2[d].entries[k].start = cs[d].entries[k].start
  <2>1. Sane(cs[d]) /\ Limited(cs[d]) /\ Alike(cs[d], cs2[d])
    BY DEF Shelves
  <2>2. Sane(cs2[d]) /\ cs2[d].tenant_allocated = cs[d].tenant_allocated
    BY <2>1, AlikeSane
  <2>3. Limited(cs2[d])
    BY <2>1, <2>2 DEF Limited
  <2> QED BY <2>1, <2>2, <2>3 DEF Alike
<1>2. Shelves(cs2)
  <2>1. \A d, e \in Devices : \A k \in Keys : Holds(cs2[d], k) /\ Holds(cs2[e], k) => d = e
    <3>1. \A d \in Devices : \A k \in Keys : Holds(cs2[d], k) => Holds(cs[d], k)
      BY <1>1 DEF Holds
    <3> QED BY <3>1 DEF Shelves
  <2> QED BY <1>1, <2>1 DEF Shelves
<1>3. Taken(cs2, held)
  <2>1. ASSUME NEW r \in held PROVE Holds(cs2[r.device], r.key) /\ EntryOf(cs2, r).start = r.start
    <3>1. /\ r.device \in Devices /\ r.key \in DOMAIN cs[r.device].entries
          /\ cs[r.device].entries[r.key].start = r.start
      BY DEF Taken, TensorType, Holds, EntryOf
    <3> QED BY <1>1, <3>1 DEF Holds, EntryOf
  <2> QED BY <2>1 DEF Taken
<1> QED BY <1>2, <1>3 DEF Books

\* cs with an entry for k on a device.
Admitted(cs, d, k, pinned, tenant) == [cs EXCEPT ![d] = place(cs[d], k, pinned, tenant)]

\* cs2 is cs with one more entry.
Joined(cs, cs2, d, k) ==
    \A e \in Devices :
        /\ DOMAIN cs2[e].entries = IF e = d THEN DOMAIN cs[e].entries \cup {k} ELSE DOMAIN cs[e].entries
        /\ \A j \in DOMAIN cs[e].entries : cs2[e].entries[j] = cs[e].entries[j]
        /\ \A t \in Owners : cs2[e].tenant_allocated[t] >= cs[e].tenant_allocated[t]

\* A tensor is admitted on a device that has room for it.
LEMMA BooksPlace ==
    ASSUME NEW cs, NEW held, Books(cs, held), NEW d \in Devices, NEW k \in Keys,
           \A e \in Devices : ~Holds(cs[e], k),
           Fitting(cs[d].allocator, Blocks[k]) # {},
           NEW pinned \in BOOLEAN, NEW tenant \in Owners,
           tenant \in Tenants => cs[d].tenant_allocated[tenant] + Blocks[k] <= Limit(tenant),
           NEW r \in TensorType, r.key = k, r.device = d, r.newly_admitted,
           r.start = place(cs[d], k, pinned, tenant).entries[k].start
    PROVE  LET cs2 == Admitted(cs, d, k, pinned, tenant)
           IN  /\ Books(cs2, held \cup {r})
               /\ Joined(cs, cs2, d, k)
               /\ EntryOf(cs2, r).pinned = pinned /\ EntryOf(cs2, r).owner = tenant
               /\ ~EntryOf(cs2, r).ready
<1> DEFINE c == cs[d]
           cc == place(c, k, pinned, tenant)
           x == Entry(FitStart(c.allocator, Blocks[k]), Blocks[k], pinned, tenant)
           cs2 == [cs EXCEPT ![d] = cc]
           n == Blocks[k]
<1>1. Shelves(cs) /\ Taken(cs, held) /\ Counted(cs, held)
  BY DEF Books
<1>2. Sane(c) /\ Limited(c) /\ k \notin DOMAIN c.entries
  BY <1>1 DEF Shelves, Holds
<1>3. /\ Sane(cc) /\ x \in EntryType
      /\ cc.entries = [j \in DOMAIN c.entries \cup {k} |-> IF j = k THEN x ELSE c.entries[j]]
      /\ cc.tenant_allocated = [c.tenant_allocated EXCEPT ![tenant] = @ + n]
  <2>1. Fitting(c.allocator, Blocks[k]) # {}
    OBVIOUS
  <2> HIDE DEF c
  <2>2. PlacedIn(c, cc, k, x, tenant)
    BY <1>2, <2>1, PlaceSane
  <2> HIDE DEF cc, x
  <2> QED BY <2>2 DEF PlacedIn, WithEntry, Charged
<1>4. x.references = 1 /\ x.pinned = pinned /\ x.owner = tenant /\ x.ready = FALSE
  BY DEF Entry
<1>5. c.tenant_allocated \in [Owners -> Nat] /\ n \in Nat
  BY <1>2, OneTensor DEF Sane, Shaped
<1>6. /\ cs2[d] = cc /\ (\A e \in Devices : e # d => cs2[e] = cs[e])
      /\ cs2 = [e \in Devices |-> cs2[e]]
  BY <1>1 DEF Shelves
<1> HIDE DEF cs2, cc, x, n
<1>7. /\ DOMAIN cc.entries = DOMAIN c.entries \cup {k} /\ cc.entries[k] = x
      /\ \A j \in DOMAIN c.entries : cc.entries[j] = c.entries[j]
  BY <1>2, <1>3, SMTT(30)
<1>8. /\ \A t \in Owners : cc.tenant_allocated[t] >= c.tenant_allocated[t]
      /\ \A t \in Owners : cc.tenant_allocated[t] = IF t = tenant THEN c.tenant_allocated[t] + n
                                                   ELSE c.tenant_allocated[t]
  <2> HIDE DEF c
  <2> QED BY <1>3, <1>5, SMTT(30)
<1>9. Limited(cc)
  <2>1. ASSUME NEW t \in Tenants PROVE cc.tenant_allocated[t] <= Limit(t)
    <3>1. t \in Owners /\ c.tenant_allocated[t] <= Limit(t)
      BY <1>2 DEF Limited, Owners
    <3> QED BY <1>8, <3>1 DEF n
  <2> QED BY <2>1 DEF Limited
<1>10. Shelves(cs2)
  <2>1. \A e \in Devices : Sane(cs2[e]) /\ Limited(cs2[e])
    BY <1>1, <1>3, <1>6, <1>9 DEF Shelves
  <2>2. ASSUME NEW e \in Devices, NEW f \in Devices, NEW j \in Keys,
               Holds(cs2[e], j), Holds(cs2[f], j)
        PROVE  e = f
    <3>1. CASE j = k
      <4>1. \A h \in Devices : h # d => ~Holds(cs2[h], j)
        BY <1>6, <3>1
      <4> QED BY <2>2, <4>1
    <3>2. CASE j # k
      <4>1. \A h \in Devices : Holds(cs2[h], j) => Holds(cs[h], j)
        BY <1>6, <1>7, <3>2 DEF Holds
      <4> QED BY <1>1, <2>2, <4>1 DEF Shelves
    <3> QED BY <3>1, <3>2
  <2> QED BY <1>6, <2>1, <2>2 DEF Shelves
<1>11. \A e \in Devices :
          /\ DOMAIN cs2[e].entries = IF e = d THEN DOMAIN cs[e].entries \cup {k}
                                     ELSE DOMAIN cs[e].entries
          /\ \A j \in DOMAIN cs[e].entries : cs2[e].entries[j] = cs[e].entries[j]
          /\ \A t \in Owners : cs2[e].tenant_allocated[t] >= cs[e].tenant_allocated[t]
  <2>1. ASSUME NEW e \in Devices, NEW t \in Owners, e # d
        PROVE  cs2[e].tenant_allocated[t] >= cs[e].tenant_allocated[t]
    <3>1. cs[e].tenant_allocated[t] \in Nat
      BY <1>1 DEF Shelves, Sane, Shaped
    <3> QED BY <1>6, <2>1, <3>1, SMTT(30)
  <2> QED BY <1>6, <1>7, <1>8, <2>1
<1>12. cs2[d].entries[k] = x /\ EntryOf(cs2, r) = x
  BY <1>6, <1>7 DEF EntryOf
<1>13. \A q \in held : q.key # k /\ q.device \in Devices
  <2>1. ASSUME NEW q \in held PROVE q.key # k /\ q.device \in Devices
    BY <1>1 DEF Taken, TensorType
  <2> QED BY <2>1
<1>14. Taken(cs2, held \cup {r})
  <2>1. /\ held \cup {r} \subseteq TensorType
        /\ \A p, q \in held \cup {r} : p.key = q.key => p = q
    BY <1>1, <1>13 DEF Taken
  <2>2. ASSUME NEW q \in held PROVE Holds(cs2[q.device], q.key) /\ EntryOf(cs2, q).start = q.start
    <3>1. /\ q.device \in Devices /\ q.key \in DOMAIN cs[q.device].entries
          /\ cs[q.device].entries[q.key].start = q.start
      BY <1>1, <1>13 DEF Taken, Holds, EntryOf
    <3>2. q.key \in DOMAIN cs2[q.device].entries
      BY <1>11, <3>1
    <3>3. cs2[q.device].entries[q.key] = cs[q.device].entries[q.key]
      BY <1>11, <3>1
    <3> QED BY <3>1, <3>2, <3>3 DEF Holds, EntryOf
  <2>3. Holds(cs2[r.device], r.key) /\ EntryOf(cs2, r).start = r.start
    <3>1. cc.entries[k].start = r.start
      BY DEF cc
    <3> QED BY <1>6, <1>7, <3>1 DEF Holds, EntryOf
  <2> QED BY <2>1, <2>2, <2>3 DEF Taken
<1>15. Counted(cs2, held \cup {r})
  <2> SUFFICES ASSUME NEW e \in Devices, NEW j \in DOMAIN cs2[e].entries
               PROVE  /\ cs2[e].entries[j].references
                           = IF \E q \in held \cup {r} : q.key = j THEN 1 ELSE 0
                      /\ ~cs2[e].entries[j].ready
                           => \E q \in held \cup {r} : q.key = j /\ q.newly_admitted
    BY DEF Counted
  <2>1. CASE j = k
    <3>1. e = d
      BY <1>11, <2>1 DEF Holds
    <3> QED BY <1>4, <1>12, <2>1, <3>1
  <2>2. CASE j # k
    <3>1. j \in DOMAIN cs[e].entries /\ cs2[e].entries[j] = cs[e].entries[j]
      <4>1. j \in DOMAIN cs[e].entries
        <5>1. DOMAIN cs2[e].entries
                = IF e = d THEN DOMAIN cs[e].entries \cup {k} ELSE DOMAIN cs[e].entries
          BY <1>11
        <5> QED BY <2>2, <5>1
      <4> QED BY <1>11, <4>1
    <3>2. /\ cs[e].entries[j].references = IF \E q \in held : q.key = j THEN 1 ELSE 0
          /\ ~cs[e].entries[j].ready => \E q \in held : q.key = j /\ q.newly_admitted
      BY <1>1, <3>1 DEF Counted
    <3> QED BY <2>2, <3>1, <3>2
  <2> QED BY <2>1, <2>2
<1>16. Books(cs2, held \cup {r})
  BY <1>10, <1>14, <1>15 DEF Books
<1> QED BY <1>4, <1>11, <1>12, <1>16 DEF cs2, cc, Admitted, Joined

-----------------------------------------------------------------------------
(* Lists of tensors.                                                       *)

LEMMA AppendIs ==
    ASSUME NEW S, NEW t \in Seq(S), NEW x \in S
    PROVE  /\ Append(t, x) \in Seq(S) /\ Len(Append(t, x)) = Len(t) + 1
           /\ DOMAIN Append(t, x) = 1 .. Len(t) + 1
           /\ \A i \in DOMAIN t : Append(t, x)[i] = t[i]
           /\ Append(t, x)[Len(t) + 1] = x
           /\ Elements(Append(t, x)) = Elements(t) \cup {x}
           /\ Distinct(t) /\ x \notin Elements(t) => Distinct(Append(t, x))
<1>1. /\ Append(t, x) \in Seq(S) /\ Len(Append(t, x)) = Len(t) + 1 /\ Len(t) \in Nat
      /\ DOMAIN Append(t, x) = 1 .. Len(t) + 1 /\ DOMAIN t = 1 .. Len(t)
      /\ \A i \in DOMAIN t : Append(t, x)[i] = t[i]
      /\ Append(t, x)[Len(t) + 1] = x
  BY SMTT(30)
<1> DEFINE u == Append(t, x)
<1>2. /\ DOMAIN u = DOMAIN t \cup {Len(t) + 1} /\ u[Len(t) + 1] = x /\ Len(t) + 1 \notin DOMAIN t
      /\ \A i \in DOMAIN t : u[i] = t[i]
  BY <1>1, SMTT(30)
<1> HIDE DEF u
<1>3. Elements(u) = Elements(t) \cup {x}
  BY <1>2, SMTT(30) DEF Elements
<1>4. Distinct(t) /\ x \notin Elements(t) => Distinct(u)
  BY <1>2 DEF Elements, Distinct
<1> QED BY <1>1, <1>3, <1>4 DEF u

LEMMA SubSeqIs ==
    ASSUME NEW S, NEW t \in Seq(S), NEW m \in 1 .. Len(t) + 1, NEW n \in m - 1 .. Len(t)
    PROVE  /\ SubSeq(t, m, n) \in Seq(S) /\ Len(SubSeq(t, m, n)) = n - m + 1
           /\ \A i \in 1 .. n - m + 1 : SubSeq(t, m, n)[i] = t[m + i - 1]
           /\ Elements(SubSeq(t, m, n)) = {t[i] : i \in m .. n}
           /\ Distinct(t) => Distinct(SubSeq(t, m, n))
<1> DEFINE u == SubSeq(t, m, n)
<1>1. /\ u \in Seq(S) /\ Len(u) = n - m + 1 /\ DOMAIN u = 1 .. n - m + 1 /\ Len(t) \in Nat
      /\ DOMAIN t = 1 .. Len(t) /\ m \in Int /\ n \in Int
      /\ \A i \in 1 .. n - m + 1 : u[i] = t[m + i - 1]
  BY SMTT(30)
<1> HIDE DEF u
<1>2. Elements(u) = {t[i] : i \in m .. n}
  <2>1. ASSUME NEW i \in m .. n PROVE i - m + 1 \in DOMAIN u /\ u[i - m + 1] = t[i]
    BY <1>1, SMTT(30)
  <2>2. ASSUME NEW i \in DOMAIN u PROVE m + i - 1 \in m .. n /\ u[i] = t[m + i - 1]
    BY <1>1, SMTT(30)
  <2>3. ASSUME NEW x \in Elements(u) PROVE x \in {t[i] : i \in m .. n}
    BY <2>2 DEF Elements
  <2>4. ASSUME NEW x \in {t[i] : i \in m .. n} PROVE x \in Elements(u)
    BY <2>1 DEF Elements
  <2> QED BY <2>3, <2>4
<1>3. ASSUME Distinct(t) PROVE Distinct(u)
  <2>1. \A i \in DOMAIN u : m + i - 1 \in DOMAIN t /\ u[i] = t[m + i - 1]
    BY <1>1, SMTT(30)
  <2>2. ASSUME NEW i \in DOMAIN u, NEW j \in DOMAIN u, u[i] = u[j] PROVE i = j
    <3>1. m + i - 1 = m + j - 1
      BY <1>3, <2>1, <2>2 DEF Distinct
    <3> QED BY <1>1, <3>1, SMTT(30)
  <2> QED BY <2>2 DEF Distinct
<1> QED BY <1>1, <1>2, <1>3 DEF u

\* The loop of Filtered.
Outs(s, kept, m, g) ==
    g = [n \in 0 .. m |-> IF n = 0 THEN <<>>
                          ELSE IF n \in kept THEN Append(g[n - 1], s[n]) ELSE g[n - 1]]

LEMMA OutsExist ==
    ASSUME NEW s, NEW kept, NEW L \in Nat
    PROVE  \E g : Outs(s, kept, L, g)
<1> DEFINE More(n, o) == IF n \in kept THEN Append(o, s[n]) ELSE o
           Good == {m \in 0 .. L : \E g : Outs(s, kept, m, g)}
<1>1. 0 \in Good
  <2> DEFINE g == [n \in 0 .. 0 |-> <<>>]
  <2>1. g = [n \in 0 .. 0 |-> IF n = 0 THEN <<>> ELSE More(n, g[n - 1])]
    BY SMTT(30)
  <2>2. Outs(s, kept, 0, g)
    BY <2>1 DEF Outs
  <2> QED BY <2>2, SMTT(30)
<1>2. ASSUME NEW m \in 0 .. L, m # 0, m - 1 \in Good PROVE m \in Good
  <2>1. PICK g : Outs(s, kept, m - 1, g)
    BY <1>2
  <2> DEFINE h == [n \in 0 .. m |-> IF n = m THEN More(m, g[m - 1]) ELSE g[n]]
  <2>2. g = [n \in 0 .. m - 1 |-> IF n = 0 THEN <<>> ELSE More(n, g[n - 1])]
    BY <2>1 DEF Outs
  <2> HIDE DEF More
  <2>3. \A n \in 0 .. m - 1 : h[n] = g[n] /\ n # m /\ n \in 0 .. m
    BY SMTT(30)
  <2>4. ASSUME NEW n \in 0 .. m PROVE h[n] = IF n = 0 THEN <<>> ELSE More(n, h[n - 1])
    <3>1. CASE n = m
      <4>1. h[n] = More(m, g[m - 1]) /\ h[n - 1] = g[n - 1]
        BY <1>2, <2>3, <3>1, SMTT(30)
      <4> QED BY <1>2, <3>1, <4>1
    <3>2. CASE n # m
      <4>1. n \in 0 .. m - 1 /\ (n # 0 => n - 1 \in 0 .. m - 1)
        BY <1>2, <3>2, SMTT(30)
      <4>2. g[n] = IF n = 0 THEN <<>> ELSE More(n, g[n - 1])
        BY <2>2, <4>1
      <4>3. h[n] = g[n] /\ (n # 0 => h[n - 1] = g[n - 1])
        BY <2>3, <4>1
      <4> HIDE DEF h
      <4> QED BY <4>2, <4>3
    <3> QED BY <3>1, <3>2
  <2>5. h = [n \in 0 .. m |-> h[n]]
    OBVIOUS
  <2> HIDE DEF h
  <2>6. h = [n \in 0 .. m |-> IF n = 0 THEN <<>> ELSE More(n, h[n - 1])]
    BY <2>4, <2>5
  <2>7. Outs(s, kept, m, h)
    BY <2>6 DEF Outs, More
  <2> QED BY <2>7
<1> HIDE DEF Good
<1>3. \A n \in 0 .. L : n \in Good
  BY <1>1, <1>2, EveryTurn, SMTT(30)
<1> QED BY <1>3, SMTT(30) DEF Good

\* What Filtered returns, for indices with different elements.
LEMMA FilteredIs ==
    ASSUME NEW S, NEW s \in Seq(S), NEW kept, kept \subseteq DOMAIN s,
           \A i, j \in kept : s[i] = s[j] => i = j
    PROVE  /\ Filtered(s, kept) \in Seq(S) /\ Distinct(Filtered(s, kept))
           /\ Elements(Filtered(s, kept)) = {s[i] : i \in kept}
<1> DEFINE L == Len(s)
           Kept(n) == {i \in kept : i <= n}
           At(n) == {s[i] : i \in Kept(n)}
<1>1. L \in Nat /\ DOMAIN s = 1 .. L
  BY SMTT(30)
<1> DEFINE g == CHOOSE out : Outs(s, kept, L, out)
<1>2. Outs(s, kept, L, g)
  BY <1>1, OutsExist
<1>3. Filtered(s, kept) = g[L]
  BY DEF Filtered, Outs
<1> HIDE DEF g
<1> DEFINE Good == {n \in 0 .. L : g[n] \in Seq(S) /\ Distinct(g[n]) /\ Elements(g[n]) = At(n)}
<1>4. 0 \in Good
  <2>1. g[0] = <<>> /\ 0 \in 0 .. L
    BY <1>1, <1>2, SMTT(30) DEF Outs
  <2>2. Kept(0) = {}
    BY <1>1, SMTT(30)
  <2>3. At(0) = {}
    BY <2>2
  <2>4. <<>> \in Seq(S) /\ Distinct(<<>>) /\ Elements(<<>>) = {}
    BY SMTT(30) DEF Distinct, Elements
  <2> HIDE DEF At
  <2> QED BY <2>1, <2>3, <2>4
<1>5. ASSUME NEW n \in 0 .. L, n # 0, n - 1 \in Good PROVE n \in Good
  <2>1. g[n] = IF n \in kept THEN Append(g[n - 1], s[n]) ELSE g[n - 1]
    BY <1>2, <1>5 DEF Outs
  <2>2. n \in DOMAIN s /\ s[n] \in S
    BY <1>1, <1>5, SMTT(30)
  <2>3. g[n - 1] \in Seq(S) /\ Distinct(g[n - 1]) /\ Elements(g[n - 1]) = At(n - 1)
    BY <1>5
  <2>4. CASE n \in kept
    <3>1. Kept(n) = Kept(n - 1) \cup {n}
      BY <1>1, <1>5, <2>4, SMTT(30)
    <3>2. At(n) = At(n - 1) \cup {s[n]}
      <4> HIDE DEF Kept
      <4> QED BY <3>1
    <3>3. s[n] \notin At(n - 1)
      BY <1>1, <1>5, <2>4, SMTT(30)
    <3> HIDE DEF At
    <3>4. g[n] = Append(g[n - 1], s[n])
      BY <2>1, <2>4
    <3> DEFINE t == g[n - 1]
               x == s[n]
    <3> HIDE DEF t, x
    <3>5. t \in Seq(S) /\ x \in S /\ Distinct(t) /\ x \notin Elements(t)
      BY <2>2, <2>3, <3>3 DEF t, x
    <3>6. /\ Append(t, x) \in Seq(S) /\ Elements(Append(t, x)) = Elements(t) \cup {x}
          /\ Distinct(Append(t, x))
      BY <3>5, AppendIs, SMTT(30)
    <3> QED BY <2>3, <3>2, <3>4, <3>6 DEF t, x
  <2>5. CASE n \notin kept
    <3>1. Kept(n) = Kept(n - 1)
      BY <1>1, <1>5, <2>5, SMTT(30)
    <3>2. At(n) = At(n - 1)
      BY <3>1
    <3> HIDE DEF At
    <3> QED BY <2>1, <2>3, <2>5, <3>2
  <2> QED BY <2>4, <2>5
<1> HIDE DEF Good
<1>6. L \in Good
  <2>1. L \in Nat /\ 0 \in 0 .. L /\ L \in 0 .. L
    BY <1>1, SMTT(30)
  <2>2. \A n \in 0 .. L : n # 0 /\ n - 1 \in Good => n \in Good
    BY <1>5
  <2> HIDE DEF L
  <2> QED BY <1>4, <2>1, <2>2, EveryTurn
<1>7. Kept(L) = kept
  BY <1>1, SMTT(30)
<1>8. At(L) = {s[i] : i \in kept}
  BY <1>7
<1> HIDE DEF At
<1> QED BY <1>3, <1>6, <1>8 DEF Good

\* Every element occurs first somewhere.
LEMMA FirstsCover ==
    ASSUME NEW S, NEW s \in Seq(S)
    PROVE  /\ Firsts(s) \subseteq DOMAIN s
           /\ \A i, j \in Firsts(s) : s[i] = s[j] => i = j
           /\ {s[i] : i \in Firsts(s)} = Elements(s)
<1>1. DOMAIN s \subseteq Nat /\ Len(s) \in Nat /\ DOMAIN s = 1 .. Len(s)
  BY SMTT(30)
<1>2. Firsts(s) \subseteq DOMAIN s
  BY DEF Firsts
<1>3. ASSUME NEW i \in Firsts(s), NEW j \in Firsts(s), s[i] = s[j] PROVE i = j
  <2>1. i \in 1 .. Len(s) /\ j \in 1 .. Len(s)
    BY <1>1, <1>2
  <2>2. ~(i < j) /\ ~(j < i)
    BY <1>1, <1>3, <2>1, SMTT(30) DEF Firsts
  <2> QED BY <2>1, <2>2, SMTT(30)
<1>4. ASSUME NEW i \in DOMAIN s PROVE \E j \in Firsts(s) : s[j] = s[i]
  <2> DEFINE T == {j \in DOMAIN s : s[j] = s[i]}
  <2>1. T \subseteq Nat /\ T # {}
    BY <1>1
  <2> HIDE DEF T
  <2>2. PICK j \in T : \A m \in T : j <= m
    BY <2>1, LeastIn
  <2>3. j \in DOMAIN s /\ s[j] = s[i]
    BY DEF T
  <2>4. \A m \in 1 .. j - 1 : s[m] # s[j]
    BY <1>1, <2>2, <2>3, SMTT(30) DEF T
  <2> QED BY <2>3, <2>4 DEF Firsts
<1>5. {s[i] : i \in Firsts(s)} = Elements(s)
  BY <1>2, <1>4 DEF Elements
<1> QED BY <1>2, <1>3, <1>5

LEMMA UniqueIs ==
    ASSUME NEW S, NEW s \in Seq(S)
    PROVE  unique_descriptors(s) \in Seq(S) /\ Distinct(unique_descriptors(s))
BY FirstsCover, FilteredIs, SMTT(30) DEF unique_descriptors

-----------------------------------------------------------------------------
(* The state of the engine.                                                *)

\* Requests, and what stands for none.
LEMMA RequestIs ==
    ASSUME NEW r \in Request
    PROVE  r # NoRequest /\ r.tenant \in Tenants /\ r.candidates \in Seq(Keys)
<1>1. r.tenant \in Tenants /\ r.candidates \in UNION {[1 .. n -> Keys] : n \in 1 .. MaxCandidates}
  BY DEF Request
<1>2. r # NoRequest
  BY <1>1, CacheAssumption, SMTT(30) DEF NoRequest
<1>3. PICK n \in 1 .. MaxCandidates : r.candidates \in [1 .. n -> Keys]
  BY <1>1
<1>4. r.candidates \in Seq(Keys)
  BY <1>3, EngineAssumption, SMTT(30)
<1> QED BY <1>1, <1>2, <1>4

LEMMA OwnerIs ==
    ASSUME Typed
    PROVE  /\ Owner \in Owners /\ Owner = request.tenant /\ request.candidates \in Seq(Keys)
           /\ (prewarming => Owner = Resident) /\ (~prewarming => Owner \in Tenants)
           /\ (~prewarming <=> request \in Request)
<1>1. CASE request \in Request
  BY <1>1, RequestIs DEF Owner, prewarming, Owners
<1>2. CASE request \notin Request
  <2>1. request = NoRequest
    BY <1>2 DEF Typed
  <2>2. NoRequest.tenant = Resident /\ NoRequest.candidates \in Seq(Keys)
    BY SMTT(30) DEF NoRequest
  <2> QED BY <1>2, <2>1, <2>2 DEF Owner, prewarming, Owners
<1> QED BY <1>1, <1>2

\* The first place of a candidate.
LEMMA FirstIndexIs ==
    ASSUME request.candidates \in Seq(Keys), NEW k \in Elements(request.candidates)
    PROVE  FirstIndex(k) \in DOMAIN request.candidates /\ request.candidates[FirstIndex(k)] = k
<1> DEFINE S == {i \in DOMAIN request.candidates : request.candidates[i] = k}
<1>1. S \subseteq Nat /\ S # {}
  BY SMTT(30) DEF Elements
<1>2. FirstIndex(k) = Least(S)
  BY DEF FirstIndex
<1>3. Least(S) \in S
  <2> HIDE DEF S
  <2> QED BY <1>1, LeastIn
<1> QED BY <1>2, <1>3

LEMMA NoElements == Elements(<<>>) = {} /\ DOMAIN <<>> = {} /\ Len(<<>>) = 0 /\ Distinct(<<>>)
BY SMTT(30) DEF Elements, Distinct

\* An empty cache.
LEMMA NewSane == Sane(new_with_limits) /\ Limited(new_with_limits) /\ DOMAIN new_with_limits.entries = {}
<1> DEFINE c == new_with_limits
           en == [k \in {} |-> 0]
           ta == [t \in Owners |-> 0]
<1>1. c = CacheOf(new, en, ta, 0)
  BY DEF new_with_limits, CacheOf
<1>2. c.allocator = new /\ c.entries = en /\ c.tenant_allocated = ta /\ c.pinned = 0
  <2> HIDE DEF c, en, ta
  <2> QED BY <1>1, Fields, SMTT(30)
<1> HIDE DEF c
<1>3. DOMAIN en = {} /\ en \in [DOMAIN en -> EntryType] /\ IsFiniteSet(DOMAIN en)
  <2>1. DOMAIN en = {} /\ en \in [DOMAIN en -> EntryType]
    OBVIOUS
  <2> QED BY <2>1, FS_EmptySet
<1> HIDE DEF en
<1>4. Shaped(c)
  <2>1. c = CacheOf(c.allocator, c.entries, c.tenant_allocated, c.pinned)
    BY <1>1, <1>2
  <2>2. ta \in [Owners -> Nat] /\ 0 \in Nat
    OBVIOUS
  <2> HIDE DEF ta
  <2> QED BY <1>2, <1>3, <2>1, <2>2 DEF Shaped
<1>5. AtRest(new) /\ \A s \in Starts : new.allocated[s] = 0
  BY NewRests
<1>6. PagesOwned(c)
  BY <1>2, <1>3, <1>5 DEF PagesOwned
<1>7. Accounted(c)
  <2>1. Cells({}) = {} /\ Cardinality({}) = 0
    BY FS_EmptySet DEF Cells
  <2>2. PinnedIn(en) = {} /\ \A t \in Owners : OwnedIn(en, t) = {}
    BY <1>3 DEF PinnedIn, OwnedIn
  <2> QED BY <1>2, <1>4, <2>1, <2>2, AccountedIs
<1>8. Limited(c)
  <2>1. ASSUME NEW t \in Tenants PROVE c.tenant_allocated[t] <= Limit(t)
    <3>1. Limit(t) \in Nat
      BY CacheAssumption, BlockCountAssumption, SMTT(30) DEF Limit, Reserved
    <3> QED BY <1>2, <3>1, SMTT(30) DEF Owners
  <2> QED BY <2>1 DEF Limited
<1> QED BY <1>2, <1>3, <1>4, <1>5, <1>6, <1>7, <1>8 DEF Sane, c

LEMMA Initially == Init => IInv
<1> SUFFICES ASSUME Init PROVE IInv
  OBVIOUS
<1>1. /\ caches = [d \in Devices |-> new_with_limits]
      /\ arena = [d \in Devices |-> [s \in Starts |-> NoKey]]
      /\ next_device = 0 /\ request = NoRequest /\ scores = <<>> /\ pending = <<>> /\ chunk = <<>>
      /\ attempt = NoAttempt /\ pc = "prewarm"
  BY DEF Init
<1>2. todo \in Seq(Keys) /\ Distinct(todo)
  <2>1. PICK m \in Manifests : todo = unique_descriptors(m)
    BY DEF Init
  <2>2. m \in Seq(Keys)
    BY EngineAssumption
  <2> QED BY <2>1, <2>2, UniqueIs
<1>3. /\ prewarming /\ 0 \in Devices /\ NoRequest.candidates = <<>>
  BY <1>1, EngineAssumption, SMTT(30) DEF prewarming, Devices, NoRequest
<1>4. Typed
  <2>1. arena \in [Devices -> [Starts -> Keys \cup {NoKey}]] /\ attempt \in [force : BOOLEAN, step : Devices]
    BY <1>1, <1>3 DEF NoAttempt
  <2>2. scores \in [DOMAIN request.candidates -> Keys \cup {None, NoKey}]
    BY <1>1, <1>3, SMTT(30)
  <2>3. pending \in Seq(Keys) /\ chunk \in Seq(TensorType)
    BY <1>1, SMTT(30)
  <2> QED BY <1>1, <1>2, <1>3, <2>1, <2>2, <2>3, NoElements DEF Typed, Places
<1>5. Placed
  BY <1>1, <1>3, NoElements, SMTT(30) DEF Placed, Idle
<1>6. \A d \in Devices : /\ caches[d] = new_with_limits /\ DOMAIN caches[d].entries = {}
                         /\ Sane(caches[d]) /\ Limited(caches[d])
  BY <1>1, NewSane
<1>7. Books(caches, {})
  <2>1. caches = [d \in Devices |-> caches[d]]
    BY <1>1
  <2>2. Shelves(caches)
    BY <1>6, <2>1 DEF Shelves, Holds
  <2> QED BY <1>6, <2>2 DEF Books, Taken, Counted
<1>8. Bytes(caches, arena)
  BY <1>6 DEF Bytes
<1>9. Held
  BY <1>1, <1>7, <1>8, NoElements DEF Held
<1> QED BY <1>3, <1>4, <1>5, <1>9 DEF IInv, Scored

ArenaType == [Devices -> [Starts -> Keys \cup {NoKey}]]

\* A request ends when nothing is held.
LEMMA Finished ==
    ASSUME IInv, Finish, Books(caches', {}), Bytes(caches', arena'), arena' \in ArenaType,
           next_device' = next_device, todo' = todo
    PROVE  IInv'
<1>1. /\ pc' = Idle /\ request' = NoRequest /\ scores' = <<>> /\ pending' = <<>> /\ chunk' = <<>>
      /\ attempt' = NoAttempt
  BY DEF Finish
<1>2. Typed /\ 0 \in Devices /\ prewarming' /\ NoRequest.candidates = <<>>
  BY <1>1, EngineAssumption, SMTT(30) DEF IInv, Devices, prewarming, NoRequest
<1>3. Typed'
  <2>1. attempt' \in [force : BOOLEAN, step : Devices]
    BY <1>1, <1>2 DEF NoAttempt
  <2>2. scores' \in [DOMAIN request'.candidates -> Keys \cup {None, NoKey}]
    BY <1>1, <1>2, SMTT(30)
  <2>3. pending' \in Seq(Keys) /\ chunk' \in Seq(TensorType) /\ Distinct(pending')
    BY <1>1, NoElements, SMTT(30)
  <2> QED BY <1>1, <1>2, <2>1, <2>2, <2>3 DEF Typed, Places, ArenaType
<1>4. Placed'
  BY <1>1, <1>2, NoElements, SMTT(30) DEF Placed, Idle
<1>5. Held'
  BY <1>1, NoElements DEF Held, Idle
<1> QED BY <1>2, <1>3, <1>4, <1>5 DEF IInv, Scored

\* The start of the daemon fails.
LEMMA StoppedThere ==
    ASSUME IInv, prewarming, Stop, Shelves(caches'), arena' \in ArenaType,
           next_device' = next_device, todo' = todo
    PROVE  IInv'
<1>1. /\ pc' = "stopped" /\ request' = request /\ scores' = scores /\ pending' = pending
      /\ chunk' = chunk /\ attempt' = attempt
  BY DEF Stop
<1>2. Typed /\ Placed /\ prewarming'
  BY <1>1 DEF IInv, prewarming
<1>3. Typed'
  BY <1>1, <1>2 DEF Typed, Places, ArenaType
<1>4. Placed'
  BY <1>1, <1>2 DEF Placed, Idle
<1>5. Held'
  BY <1>1 DEF Held
<1> QED BY <1>2, <1>3, <1>4, <1>5 DEF IInv, Scored

LEMMA PrewarmBatchKeeps == ASSUME IInv, PrewarmBatch PROVE IInv'
<1> DEFINE n == IF Len(todo) < BatchSize THEN Len(todo) ELSE BatchSize
<1>1. /\ pc = "prewarm" /\ todo # <<>> /\ pc' = "items"
      /\ pending' = SubSeq(todo, 1, n) /\ todo' = SubSeq(todo, n + 1, Len(todo))
      /\ caches' = caches /\ arena' = arena /\ next_device' = next_device /\ request' = request
      /\ scores' = scores /\ chunk' = chunk /\ attempt' = attempt
  BY DEF PrewarmBatch
<1>2. Typed /\ Placed /\ Held
  BY DEF IInv
<1>3. chunk = <<>> /\ prewarming /\ todo \in Seq(Keys) /\ Distinct(todo)
  BY <1>1, <1>2 DEF Placed, Typed
<1>4. /\ n \in 0 .. Len(todo) /\ n + 1 \in 1 .. Len(todo) + 1 /\ Len(todo) \in Nat
  BY <1>3, EngineAssumption, SMTT(30)
<1> HIDE DEF n
<1>5. /\ pending' \in Seq(Keys) /\ Distinct(pending') /\ todo' \in Seq(Keys) /\ Distinct(todo')
  <2>1. SubSeq(todo, 1, n) \in Seq(Keys) /\ Distinct(SubSeq(todo, 1, n))
    BY <1>3, <1>4, SubSeqIs, SMTT(30)
  <2>2. SubSeq(todo, n + 1, Len(todo)) \in Seq(Keys) /\ Distinct(SubSeq(todo, n + 1, Len(todo)))
    BY <1>3, <1>4, SubSeqIs, SMTT(30)
  <2> QED BY <1>1, <2>1, <2>2
<1>6. prewarming'
  BY <1>1, <1>3 DEF prewarming
<1>7. Typed'
  BY <1>1, <1>2, <1>5 DEF Typed, Places
<1>8. Placed'
  BY <1>1, <1>3, <1>5, <1>6, NoElements, SMTT(30) DEF Placed, Idle
<1>9. Held'
  BY <1>1, <1>2, <1>3, NoElements DEF Held
<1> QED BY <1>6, <1>7, <1>8, <1>9 DEF IInv, Scored

LEMMA PrewarmUnreadableKeeps == ASSUME IInv, PrewarmUnreadable PROVE IInv'
<1>1. /\ pc = "prewarm" /\ Stop /\ caches' = caches /\ arena' = arena
      /\ next_device' = next_device /\ todo' = todo
  BY DEF PrewarmUnreadable
<1>2. prewarming /\ Shelves(caches') /\ arena' \in ArenaType
  BY <1>1 DEF IInv, Placed, Held, Books, Typed, ArenaType
<1> QED BY <1>1, <1>2, StoppedThere

LEMMA PrewarmDoneKeeps == ASSUME IInv, PrewarmDone PROVE IInv'
<1>1. /\ pc = "prewarm" /\ pc' = Idle /\ caches' = caches /\ arena' = arena
      /\ next_device' = next_device /\ todo' = todo /\ request' = request /\ scores' = scores
      /\ pending' = pending /\ chunk' = chunk /\ attempt' = attempt
  BY DEF PrewarmDone
<1>2. Typed /\ Placed /\ Held /\ chunk = <<>> /\ prewarming /\ prewarming'
  BY <1>1 DEF IInv, Placed, prewarming
<1>3. Typed'
  BY <1>1, <1>2 DEF Typed, Places
<1>4. Placed'
  BY <1>1, <1>2, NoElements DEF Placed, Idle
<1>5. Held'
  BY <1>1, <1>2, NoElements DEF Held, Idle
<1> QED BY <1>2, <1>3, <1>4, <1>5 DEF IInv, Scored

LEMMA EndItemsKeeps == ASSUME IInv, EndItems PROVE IInv'
<1>1. /\ pc = "items" /\ pc' = "upload" /\ caches' = caches /\ arena' = arena
      /\ next_device' = next_device /\ todo' = todo /\ request' = request /\ scores' = scores
      /\ pending' = pending /\ chunk' = chunk /\ attempt' = attempt
  BY DEF EndItems
<1>2. Typed /\ Placed /\ Held /\ Scored
  BY DEF IInv
<1>3. Typed'
  BY <1>1, <1>2 DEF Typed, Places
<1>4. Placed'
  BY <1>1, <1>2 DEF Placed, Idle, prewarming, Tensor
<1>5. Held'
  BY <1>1, <1>2 DEF Held, Handled, EntryOf, Owner, prewarming
<1>6. Scored'
  BY <1>1, <1>2 DEF Scored, Waiting, FirstIndex, prewarming
<1> QED BY <1>3, <1>4, <1>5, <1>6 DEF IInv

-----------------------------------------------------------------------------
(* Tensors are scored and released.                                        *)

\* What the engine knows of a tensor of its chunk.
LEMMA InChunk ==
    ASSUME IInv, pc # "stopped", NEW i \in DOMAIN chunk
    PROVE  /\ chunk[i] \in TensorType /\ chunk[i] \in Elements(chunk)
           /\ chunk[i].device \in Devices /\ chunk[i].key \in Keys
           /\ chunk[i].key \in DOMAIN caches[chunk[i].device].entries
           /\ EntryOf(caches, chunk[i]).start = chunk[i].start
           /\ Handled(chunk[i])
<1>1. chunk[i] \in TensorType /\ chunk[i] \in Elements(chunk)
  BY SMTT(30) DEF IInv, Typed, Elements
<1>2. Taken(caches, Elements(chunk)) /\ Handled(chunk[i])
  BY DEF IInv, Held, Books
<1> QED BY <1>1, <1>2 DEF Taken, TensorType, Holds

LEMMA ReadsOwn ==
    ASSUME IInv, pc \in {"hits", "score"}, NEW i \in DOMAIN chunk
    PROVE  Read(chunk[i]) = chunk[i].key
<1> DEFINE r == chunk[i]
           e == EntryOf(caches, r)
<1>1. /\ r.device \in Devices /\ r.key \in DOMAIN caches[r.device].entries
      /\ e.start = r.start /\ e.ready
  BY InChunk DEF Handled
<1>2. Bytes(caches, arena)
  BY DEF IInv, Held
<1>3. \A b \in e.start .. e.start + Blocks[r.key] - 1 : arena[r.device][b] = r.key
  BY <1>1, <1>2 DEF Bytes, EntryOf
<1> HIDE DEF r, e
<1> QED BY <1>1, <1>3 DEF Read, BlocksOf, r

LEMMA ChunkAsked ==
    ASSUME IInv, pc \in {"hits", "score"}, NEW i \in DOMAIN chunk
    PROVE  ~prewarming /\ chunk[i].key \in Keys /\ chunk[i].key \in Elements(request.candidates)
<1>1. ~prewarming /\ chunk[i].key \in Keys
  BY InChunk DEF IInv, Placed
<1>2. Waiting(chunk[i].key)
  <2>1. CASE pc = "hits"
    BY <2>1 DEF Waiting
  <2>2. CASE pc = "score"
    <3>1. chunk[i].key = pending[i] /\ Len(chunk) <= Len(pending)
      BY <2>2 DEF IInv, Placed
    <3>2. chunk \in Seq(TensorType) /\ pending \in Seq(Keys)
      BY DEF IInv, Typed
    <3>3. i \in DOMAIN pending
      BY <3>1, <3>2, SMTT(30)
    <3> QED BY <3>1, <3>3 DEF Waiting, Elements
  <2> QED BY <2>1, <2>2
<1> QED BY <1>1, <1>2 DEF IInv, Scored

\* The scores of a chunk are those of its candidates; the others are kept.
LEMMA ScoresGrow ==
    ASSUME IInv, pc \in {"hits", "score"}
    PROVE  /\ ScoresOf(chunk) \in [DOMAIN request.candidates -> Keys \cup {None, NoKey}]
           /\ \A i \in DOMAIN request.candidates : ScoresOf(chunk)[i] \in {None, request.candidates[i]}
           /\ \A i \in DOMAIN request.candidates : scores[i] # None => ScoresOf(chunk)[i] # None
           /\ \A n \in DOMAIN chunk : ScoresOf(chunk)[FirstIndex(chunk[n].key)] # None
<1> DEFINE s2 == ScoresOf(chunk)
           At(i) == {n \in DOMAIN chunk : FirstIndex(chunk[n].key) = i}
<1>1. /\ scores \in [DOMAIN request.candidates -> Keys \cup {None, NoKey}]
      /\ request.candidates \in Seq(Keys)
      /\ \A i \in DOMAIN request.candidates : scores[i] \in {None, request.candidates[i]}
  <2>1. ~prewarming /\ Typed /\ Scored
    BY DEF IInv, Placed
  <2>2. scores \in [DOMAIN request.candidates -> Keys \cup {None, NoKey}]
    BY <2>1 DEF Typed
  <2> QED BY <2>1, <2>2, OwnerIs DEF Scored
<1>2. s2 = [i \in DOMAIN scores |->
               IF At(i) # {} THEN Read(chunk[CHOOSE n \in DOMAIN chunk : FirstIndex(chunk[n].key) = i])
               ELSE scores[i]]
  <2>1. \A i : (At(i) # {}) <=> (\E n \in DOMAIN chunk : FirstIndex(chunk[n].key) = i)
    OBVIOUS
  <2> HIDE DEF At
  <2> QED BY <2>1 DEF ScoresOf
<1>3. ASSUME NEW i \in DOMAIN scores, At(i) # {}
      PROVE  s2[i] = request.candidates[i] /\ s2[i] \in Keys
  <2> DEFINE m == CHOOSE n \in DOMAIN chunk : FirstIndex(chunk[n].key) = i
  <2>1. m \in DOMAIN chunk /\ FirstIndex(chunk[m].key) = i
    BY <1>3
  <2>2. s2[i] = Read(chunk[m])
    <3> HIDE DEF At, s2
    <3> QED BY <1>2, <1>3
  <2> HIDE DEF m, s2
  <2>3. Read(chunk[m]) = chunk[m].key /\ chunk[m].key \in Keys
    BY <2>1, ReadsOwn, ChunkAsked
  <2>4. request.candidates[FirstIndex(chunk[m].key)] = chunk[m].key
    BY <1>1, <2>1, ChunkAsked, FirstIndexIs
  <2> QED BY <2>1, <2>2, <2>3, <2>4
<1>4. ASSUME NEW i \in DOMAIN scores, At(i) = {} PROVE s2[i] = scores[i]
  <2> HIDE DEF At, s2
  <2> QED BY <1>2, <1>4
<1>5. DOMAIN s2 = DOMAIN scores /\ s2 = [i \in DOMAIN scores |-> s2[i]]
  <2> HIDE DEF At, s2
  <2> QED BY <1>2, SMTT(30)
<1>6. DOMAIN scores = DOMAIN request.candidates
  BY <1>1
<1>7. None \notin Keys
  BY EngineAssumption
<1>8. ASSUME NEW n \in DOMAIN chunk PROVE s2[FirstIndex(chunk[n].key)] # None
  <2>1. FirstIndex(chunk[n].key) \in DOMAIN scores
    BY <1>1, <1>6, ChunkAsked, FirstIndexIs
  <2>2. At(FirstIndex(chunk[n].key)) # {}
    OBVIOUS
  <2> HIDE DEF At, s2
  <2> QED BY <1>3, <1>7, <2>1, <2>2
<1>9. \A i \in DOMAIN request.candidates :
         /\ s2[i] \in {None, request.candidates[i]} /\ s2[i] \in Keys \cup {None, NoKey}
         /\ scores[i] # None => s2[i] # None
  <2> HIDE DEF At, s2
  <2> QED BY <1>1, <1>3, <1>4, <1>6, <1>7
<1> HIDE DEF s2
<1>10. s2 \in [DOMAIN request.candidates -> Keys \cup {None, NoKey}]
  BY <1>5, <1>6, <1>9
<1> QED BY <1>8, <1>9, <1>10 DEF s2

\* After a chunk has been scored nothing is held.
LEMMA ChunkReleased ==
    ASSUME IInv, pc \in {"hits", "score"}
    PROVE  /\ Books(release_chunks(chunk), {}) /\ Bytes(release_chunks(chunk), arena)
           /\ Shrunk(caches, release_chunks(chunk), {r \in Elements(chunk) : r.transient}, Owner)
<1> DEFINE gone == {r \in Elements(chunk) : r.transient}
<1>1. /\ chunk \in Seq(TensorType) /\ Books(caches, Elements(chunk)) /\ Bytes(caches, arena)
      /\ \A i, j \in DOMAIN chunk : chunk[i].key = chunk[j].key => i = j
  BY DEF IInv, Typed, Held, Placed
<1>2. ASSUME NEW i \in DOMAIN chunk
      PROVE  /\ chunk[i] \in gone => EntryOf(caches, chunk[i]).owner = Owner
             /\ chunk[i] \notin gone => EntryOf(caches, chunk[i]).ready
  BY InChunk DEF Handled
<1> HIDE DEF gone
<1>3. /\ Books(ReleaseAll(caches, chunk, gone), {})
      /\ Shrunk(caches, ReleaseAll(caches, chunk, gone), gone, Owner)
  BY <1>1, <1>2, Released
<1>4. release_chunks(chunk) = ReleaseAll(caches, chunk, gone)
  BY DEF release_chunks, gone
<1> QED BY <1>1, <1>3, <1>4, ShrunkBytes DEF gone

LEMMA ScoreHitsKeeps == ASSUME IInv, ScoreHits PROVE IInv'
<1>1. /\ pc = "hits" /\ scores' = ScoresOf(chunk) /\ caches' = release_chunks(chunk)
      /\ chunk' = <<>> /\ pc' = (IF pending = <<>> THEN "collect" ELSE "items")
      /\ arena' = arena /\ next_device' = next_device /\ todo' = todo /\ request' = request
      /\ pending' = pending /\ attempt' = attempt
  BY DEF ScoreHits
<1>2. Typed /\ Placed /\ Held /\ Scored /\ ~prewarming /\ ~prewarming'
  BY <1>1 DEF IInv, Placed, prewarming
<1>3. Books(caches', {}) /\ Bytes(caches', arena')
  BY <1>1, ChunkReleased
<1>4. /\ scores' \in [DOMAIN request.candidates -> Keys \cup {None, NoKey}]
      /\ \A i \in DOMAIN request.candidates : scores'[i] \in {None, request.candidates[i]}
      /\ \A i \in DOMAIN request.candidates : scores[i] # None => scores'[i] # None
      /\ \A n \in DOMAIN chunk : scores'[FirstIndex(chunk[n].key)] # None
  BY <1>1, ScoresGrow
<1>5. Typed'
  <2>1. chunk' \in Seq(TensorType)
    BY <1>1, SMTT(30)
  <2> QED BY <1>1, <1>2, <1>4, <2>1 DEF Typed, Places
<1>6. Placed'
  BY <1>1, <1>2, NoElements, SMTT(30) DEF Placed, Typed, Idle
<1>7. Held'
  BY <1>1, <1>3, NoElements DEF Held
<1>8. Scored'
  <2>1. request.candidates \in Seq(Keys)
    BY <1>2, OwnerIs
  <2>2. ASSUME NEW k \in Elements(request.candidates)
        PROVE  scores'[FirstIndex(k)] # None \/ k \in Elements(pending)
    <3>1. scores[FirstIndex(k)] # None \/ Waiting(k)
      BY <1>2 DEF Scored
    <3>2. FirstIndex(k) \in DOMAIN request.candidates
      BY <2>1, FirstIndexIs
    <3> QED BY <1>4, <3>1, <3>2 DEF Waiting
  <2>3. \A k \in Elements(pending) : k \in Keys => k \in Elements(request.candidates)
    BY <1>2 DEF Scored, Waiting
  <2>4. DOMAIN scores' = DOMAIN request.candidates
    BY <1>4
  <2>5. \A k : Waiting(k)' <=> k \in Elements(pending)
    BY <1>1 DEF Waiting
  <2>6. \A k : FirstIndex(k)' = FirstIndex(k)
    BY <1>1 DEF FirstIndex
  <2> QED BY <1>1, <1>4, <2>2, <2>3, <2>4, <2>5, <2>6 DEF Scored
<1> QED BY <1>5, <1>6, <1>7, <1>8 DEF IInv

LEMMA ScoreHitsFailsKeeps == ASSUME IInv, ScoreHitsFails PROVE IInv'
<1>1. /\ pc = "hits" /\ caches' = release_chunks(chunk) /\ Finish
      /\ arena' = arena /\ next_device' = next_device /\ todo' = todo
  BY DEF ScoreHitsFails
<1>2. Books(caches', {}) /\ Bytes(caches', arena') /\ arena' \in ArenaType
  BY <1>1, ChunkReleased DEF IInv, Typed, ArenaType
<1> QED BY <1>1, <1>2, Finished

LEMMA ScoreChunkFailsKeeps == ASSUME IInv, ScoreChunkFails PROVE IInv'
<1>1. /\ pc = "score" /\ caches' = release_chunks(chunk) /\ Finish
      /\ arena' = arena /\ next_device' = next_device /\ todo' = todo
  BY DEF ScoreChunkFails
<1>2. Books(caches', {}) /\ Bytes(caches', arena') /\ arena' \in ArenaType
  BY <1>1, ChunkReleased DEF IInv, Typed, ArenaType
<1> QED BY <1>1, <1>2, Finished

LEMMA ScoreChunkKeeps == ASSUME IInv, ScoreChunk PROVE IInv'
<1> DEFINE n == Len(chunk)
           L == Len(pending)
<1>1. /\ pc = "score" /\ scores' = ScoresOf(chunk) /\ caches' = release_chunks(chunk)
      /\ pending' = SubSeq(pending, n + 1, L)
      /\ chunk' = <<>> /\ pc' = (IF pending' = <<>> THEN "collect" ELSE "items")
      /\ arena' = arena /\ next_device' = next_device /\ todo' = todo /\ request' = request
      /\ attempt' = attempt
  BY DEF ScoreChunk
<1>2. Typed /\ Placed /\ Held /\ Scored /\ ~prewarming /\ ~prewarming'
  BY <1>1 DEF IInv, Placed, prewarming
<1>3. Books(caches', {}) /\ Bytes(caches', arena')
  BY <1>1, ChunkReleased
<1>4. /\ scores' \in [DOMAIN request.candidates -> Keys \cup {None, NoKey}]
      /\ \A i \in DOMAIN request.candidates : scores'[i] \in {None, request.candidates[i]}
      /\ \A i \in DOMAIN request.candidates : scores[i] # None => scores'[i] # None
      /\ \A m \in DOMAIN chunk : scores'[FirstIndex(chunk[m].key)] # None
  BY <1>1, ScoresGrow
<1>5. /\ pending \in Seq(Keys) /\ Distinct(pending) /\ chunk \in Seq(TensorType) /\ n <= L
      /\ \A i \in DOMAIN chunk : chunk[i].key = pending[i]
  BY <1>1, <1>2 DEF Typed, Placed
<1>6. /\ n \in Nat /\ L \in Nat /\ DOMAIN pending = 1 .. L /\ DOMAIN chunk = 1 .. n
      /\ n + 1 \in 1 .. L + 1 /\ L \in n + 1 - 1 .. L
  BY <1>5, SMTT(30)
<1> HIDE DEF n
<1>7. /\ pending' \in Seq(Keys) /\ Distinct(pending')
      /\ Elements(pending') = {pending[i] : i \in n + 1 .. L}
  <2>1. /\ SubSeq(pending, n + 1, L) \in Seq(Keys) /\ Distinct(SubSeq(pending, n + 1, L))
        /\ Elements(SubSeq(pending, n + 1, L)) = {pending[i] : i \in n + 1 .. L}
    BY <1>5, <1>6, SubSeqIs, SMTT(30)
  <2> QED BY <1>1, <2>1
<1> HIDE DEF L
<1>8. Typed'
  <2>1. chunk' \in Seq(TensorType)
    BY <1>1, SMTT(30)
  <2> QED BY <1>1, <1>2, <1>4, <1>7, <2>1 DEF Typed, Places
<1>9. Placed'
  BY <1>1, <1>2, <1>7, NoElements, SMTT(30) DEF Placed, Idle
<1>10. Held'
  BY <1>1, <1>3, NoElements DEF Held
<1>11. Scored'
  <2>1. request.candidates \in Seq(Keys)
    BY <1>2, OwnerIs
  <2>2. ASSUME NEW k \in Elements(request.candidates)
        PROVE  scores'[FirstIndex(k)] # None \/ k \in Elements(pending')
    <3>1. scores[FirstIndex(k)] # None \/ k \in Elements(pending)
      BY <1>1, <1>2 DEF Scored, Waiting
    <3>2. FirstIndex(k) \in DOMAIN request.candidates
      BY <2>1, FirstIndexIs
    <3>3. ASSUME k \in Elements(pending), k \notin Elements(pending')
          PROVE  \E m \in DOMAIN chunk : chunk[m].key = k
      <4>1. PICK m \in DOMAIN pending : pending[m] = k
        BY <3>3 DEF Elements
      <4>2. m \in 1 .. n
        BY <1>6, <1>7, <3>3, <4>1, SMTT(30)
      <4> QED BY <1>5, <1>6, <4>1, <4>2
    <3> QED BY <1>4, <3>1, <3>2, <3>3
  <2>3. \A k \in Elements(pending') : k \in Keys => k \in Elements(request.candidates)
    <3>1. ASSUME NEW k \in Elements(pending') PROVE k \in Elements(pending)
      <4>1. PICK i \in n + 1 .. L : k = pending[i]
        BY <1>7, <3>1
      <4>2. i \in DOMAIN pending
        BY <1>6, SMTT(30)
      <4> QED BY <4>1, <4>2 DEF Elements
    <3> QED BY <1>2, <3>1 DEF Scored, Waiting
  <2>4. DOMAIN scores' = DOMAIN request.candidates
    BY <1>4
  <2>5. \A k : Waiting(k)' <=> k \in Elements(pending')
    BY <1>1 DEF Waiting, Elements
  <2>6. \A k : FirstIndex(k)' = FirstIndex(k)
    BY <1>1 DEF FirstIndex
  <2> QED BY <1>1, <1>4, <2>2, <2>3, <2>4, <2>5, <2>6 DEF Scored
<1> QED BY <1>8, <1>9, <1>10, <1>11 DEF IInv

LEMMA AnswerKeeps == ASSUME IInv, Answer PROVE IInv'
<1>1. /\ pc = "answer" /\ Finish /\ caches' = caches
      /\ arena' = arena /\ next_device' = next_device /\ todo' = todo
  BY DEF Answer
<1>2. Books(caches', {}) /\ Bytes(caches', arena') /\ arena' \in ArenaType
  BY <1>1, NoElements DEF IInv, Typed, Placed, Held, ArenaType
<1> QED BY <1>1, <1>2, Finished

LEMMA CollectKeeps == ASSUME IInv, Collect PROVE IInv'
<1> DEFINE all == [i \in DOMAIN scores |-> scores[FirstIndex(request.candidates[i])]]
<1>1. /\ pc = "collect" /\ caches' = caches /\ arena' = arena /\ next_device' = next_device
      /\ todo' = todo
      /\ \/ Finish
         \/ /\ None \notin Elements(all) /\ scores' = all /\ pc' = "answer"
            /\ request' = request /\ pending' = pending /\ chunk' = chunk /\ attempt' = attempt
  BY DEF Collect
<1>2. /\ Typed /\ Placed /\ Held /\ Scored /\ chunk = <<>> /\ pending = <<>> /\ ~prewarming
      /\ Books(caches, {}) /\ Bytes(caches, arena)
  BY <1>1, NoElements DEF IInv, Placed, Held
<1>3. CASE Finish
  <2>1. arena' \in ArenaType
    BY <1>1, <1>2 DEF Typed, ArenaType
  <2> QED BY <1>1, <1>2, <1>3, <2>1, Finished
<1>4. CASE /\ None \notin Elements(all) /\ scores' = all /\ pc' = "answer"
           /\ request' = request /\ pending' = pending /\ chunk' = chunk /\ attempt' = attempt
  <2> DEFINE cand == request.candidates
             Wide == Keys \cup {None, NoKey}
  <2>1. /\ cand \in Seq(Keys) /\ scores \in [DOMAIN cand -> Wide]
        /\ \A i \in DOMAIN cand : scores[i] \in {None, cand[i]}
    <3>1. cand \in Seq(Keys)
      BY <1>2, OwnerIs
    <3>2. scores \in [DOMAIN cand -> Wide]
      BY <1>2 DEF Typed
    <3> QED BY <1>2, <3>1, <3>2 DEF Scored
  <2>2. ASSUME NEW i \in DOMAIN cand
        PROVE  /\ FirstIndex(cand[i]) \in DOMAIN cand /\ cand[FirstIndex(cand[i])] = cand[i]
    BY <2>1, FirstIndexIs DEF Elements
  <2>3. \A i \in DOMAIN cand : all[i] \in Wide /\ all[i] \in {None, cand[i]} /\ all[i] # None
    <3>1. ASSUME NEW i \in DOMAIN cand
          PROVE  all[i] \in Wide /\ all[i] \in {None, cand[i]} /\ all[i] # None
      <4>1. i \in DOMAIN all /\ all[i] = scores[FirstIndex(cand[i])]
        BY <2>1
      <4>2. all[i] # None
        <5> HIDE DEF all
        <5> QED BY <1>4, <4>1 DEF Elements
      <4> HIDE DEF all
      <4> QED BY <2>1, <2>2, <4>1, <4>2
    <3> QED BY <3>1
  <2>4. scores' \in [DOMAIN cand -> Wide]
    <3>1. scores' = [i \in DOMAIN cand |-> all[i]]
      BY <1>4, <2>1
    <3> HIDE DEF all, Wide, cand
    <3> QED BY <2>3, <3>1
  <2>5. Typed'
    BY <1>1, <1>2, <1>4, <2>4 DEF Typed, Places
  <2>6. Placed'
    BY <1>1, <1>2, <1>4, NoElements DEF Placed, Idle, prewarming
  <2>7. Held'
    BY <1>1, <1>2, <1>4, NoElements DEF Held
  <2>8. Scored'
    <3>1. \A i \in DOMAIN cand : scores'[i] \in {None, cand[i]} /\ scores'[i] # None
      BY <1>4, <2>3
    <3>2. \A k \in Elements(cand) : FirstIndex(k) \in DOMAIN cand
      BY <2>1, FirstIndexIs
    <3>3. \A k : ~Waiting(k)'
      BY <1>2, <1>4, NoElements DEF Waiting
    <3>4. \A k : FirstIndex(k)' = FirstIndex(k)
      BY <1>4 DEF FirstIndex
    <3>5. DOMAIN scores' = DOMAIN cand /\ cand' = cand
      BY <1>4, <2>4
    <3> HIDE DEF all
    <3> QED BY <1>4, <3>1, <3>2, <3>3, <3>4, <3>5 DEF Scored
  <2> QED BY <2>5, <2>6, <2>7, <2>8 DEF IInv
<1> QED BY <1>1, <1>3, <1>4
=============================================================================
