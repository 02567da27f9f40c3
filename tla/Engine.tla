------------------------------- MODULE Engine -------------------------------
(***************************************************************************)
(* The scoring engine of tilemaxsimd.  At startup the tensors of the       *)
(* resident manifests are uploaded and pinned, batch by batch.  Then       *)
(* requests are scored one after the other: the candidates that are cached *)
(* first, the others in chunks that are admitted to the GPU caches,        *)
(* uploaded, scored and released.  One thread runs the engine; what varies *)
(* is the requests, the choice of victims, the admissions that the         *)
(* frequency sketch rejects, and the reads, uploads and kernels that fail. *)
(***************************************************************************)
EXTENDS GpuCache, Sequences

NoKey == "no_key"       \* a block that holds no tensor's bytes, or a part of them
None == "none"          \* no score

CONSTANTS
    DeviceCount,
    Manifests,          \* what the resident manifests may list: sequences of keys
    BatchSize,          \* tensors of a prewarm batch
    MaxCandidates       \* bound: candidates of a request
ASSUME EngineAssumption ==
    /\ DeviceCount \in Nat \ {0} /\ BatchSize \in Nat \ {0} /\ MaxCandidates \in Nat
    /\ Manifests \subseteq Seq(Keys) /\ Manifests # {}
    /\ {None, NoKey} \cap Keys = {}

Devices == 0 .. DeviceCount - 1
Idle == "idle"

VARIABLES
    caches,         \* [Devices -> cache]
    arena,          \* [Devices -> [Starts -> Keys or NoKey]]: whose bytes a block holds
    next_device,    \* the device that gets the first admission opportunity
    pc,             \* where prewarm or score is
    todo,           \* prewarm: the unique descriptors that are left
    request,        \* score: the tenant and the candidates
    scores,         \* per candidate, the tensor whose score it was given, or NoKey
    pending,        \* the tensors to be uploaded: a batch, or a request's misses
    chunk,          \* the ResidentTensors of the current chunk
    attempt         \* the admission of pending[Len(chunk) + 1]: force and step

vars == <<caches, arena, next_device, pc, todo, request, scores, pending, chunk, attempt>>

Request == [tenant : Tenants, candidates : UNION {[1 .. n -> Keys] : n \in 1 .. MaxCandidates}]
NoRequest == [tenant |-> Resident, candidates |-> <<>>]
NoAttempt == [force |-> FALSE, step |-> 0]
prewarming == request = NoRequest

Elements(s) == {s[i] : i \in DOMAIN s}

\* The elements of s at the indices in kept, in order.
Filtered(s, kept) ==
    LET out[n \in 0 .. Len(s)] ==
            IF n = 0 THEN <<>>
            ELSE IF n \in kept THEN Append(out[n - 1], s[n]) ELSE out[n - 1]
    IN  out[Len(s)]

\* Where a descriptor occurs first.
Firsts(s) == {i \in DOMAIN s : \A j \in 1 .. i - 1 : s[j] # s[i]}
unique_descriptors(s) == Filtered(s, Firsts(s))

Init ==
    /\ caches = [d \in Devices |-> new_with_limits]
    /\ arena = [d \in Devices |-> [s \in Starts |-> NoKey]]
    /\ next_device = 0
    /\ \E m \in Manifests : todo = unique_descriptors(m)
    /\ request = NoRequest /\ scores = <<>> /\ pending = <<>> /\ chunk = <<>>
    /\ attempt = NoAttempt
    /\ pc = "prewarm"

-----------------------------------------------------------------------------
(* Helpers.                                                                *)

ResidentTensor(k, d, transient, newly) ==
    [key |-> k, device |-> d, start |-> caches[d].entries[k].start,
     transient |-> transient, newly_admitted |-> newly]

\* The tensor whose turn it is, and the parameters of its admission.
Tensor == pending[Len(chunk) + 1]
Owner == IF prewarming THEN Resident ELSE request.tenant
Device == (next_device + attempt.step) % DeviceCount

\* The devices on which a tensor is ready; the first of them is used.
Holders(k) == {d \in Devices : contains(caches[d], k)}

\* The keys of the tensors, and of the new tensors, that a chunk has on a device.
KeysOn(tensors, d) == {tensors[i].key : i \in {j \in DOMAIN tensors : tensors[j].device = d}}
NewOn(tensors, d) ==
    {tensors[i].key : i \in {j \in DOMAIN tensors : tensors[j].device = d /\ tensors[j].newly_admitted}}

\* The loop of release_chunks and of cleanup_after_upload_failure: the entries of the
\* tensors that have to go are removed, the others are released.
ReleaseAll(cs, tensors, gone) ==
    LET after[n \in 0 .. Len(tensors)] ==
            IF n = 0 THEN cs
            ELSE LET r == tensors[n]
                     c == after[n - 1][r.device]
                 IN  [after[n - 1] EXCEPT ![r.device] =
                         IF r \in gone THEN remove_entry(c, r.key) ELSE release_entry(c, r.key)]
    IN  after[Len(tensors)]

release_chunks(tensors) ==
    ReleaseAll(caches, tensors, {r \in Elements(tensors) : r.transient})

\* Mutant: what could not be uploaded is released like the rest.
DoomedTransient(tensors, failed) == {r \in Elements(tensors) : r.newly_admitted /\ r.transient}

\* What cleanup_after_upload_failure and the end of prewarm remove.
Doomed(tensors, failed) ==
    {r \in Elements(tensors) : r.newly_admitted /\ (r.device \in failed \/ r.transient)}

\* The caches after the new tensors have been marked on the devices that did not fail.
Marked(failed) ==
    [d \in Devices |-> IF d \in failed THEN caches[d] ELSE mark_ready(caches[d], NewOn(chunk, d))]

\* Mutant: an upload runs one block over its end.
BlocksAndNext(r) == (r.start .. r.start + Blocks[r.key]) \cap Starts

\* The blocks an upload writes and a kernel reads.
BlocksOf(r) == r.start .. r.start + Blocks[r.key] - 1

\* The kernel reads what is in the arena at the tensor's offset.
Read(r) == IF \A b \in BlocksOf(r) : arena[r.device][b] = r.key THEN r.key ELSE NoKey

FirstIndex(k) == Least({i \in DOMAIN request.candidates : request.candidates[i] = k})

\* score_devices, when the kernel of every device succeeds.
ScoresOf(tensors) ==
    [i \in DOMAIN scores |->
        IF \E n \in DOMAIN tensors : FirstIndex(tensors[n].key) = i
        THEN Read(tensors[CHOOSE n \in DOMAIN tensors : FirstIndex(tensors[n].key) = i])
        ELSE scores[i]]

\* The engine is done with a request, answered or failed.
Finish ==
    /\ pc' = Idle /\ request' = NoRequest /\ scores' = <<>> /\ pending' = <<>> /\ chunk' = <<>>
    /\ attempt' = NoAttempt

\* prewarm fails, and with it the start of the daemon.
Stop ==
    /\ pc' = "stopped"
    /\ UNCHANGED <<request, scores, pending, chunk, attempt>>

Fail == IF prewarming THEN Stop ELSE Finish

-----------------------------------------------------------------------------
(* prewarm takes the next batch; score takes a request.                    *)

PrewarmBatch ==
    /\ pc = "prewarm" /\ todo # <<>>
    /\ LET n == IF Len(todo) < BatchSize THEN Len(todo) ELSE BatchSize
       IN  /\ pending' = SubSeq(todo, 1, n)
           /\ todo' = SubSeq(todo, n + 1, Len(todo))
    /\ pc' = "items"
    /\ UNCHANGED <<caches, arena, next_device, request, scores, chunk, attempt>>

\* resolve_many fails.
PrewarmUnreadable ==
    /\ pc = "prewarm" /\ todo # <<>>
    /\ Stop
    /\ UNCHANGED <<caches, arena, next_device, todo>>

PrewarmDone ==
    /\ pc = "prewarm" /\ todo = <<>>
    /\ pc' = Idle
    /\ UNCHANGED <<caches, arena, next_device, todo, request, scores, pending, chunk, attempt>>

\* The first pass over the candidates: hits are referenced, misses are noted.
Score(r) ==
    LET first == Firsts(r.candidates)
        found == {i \in first : Holders(r.candidates[i]) # {}}
        hits == Filtered(r.candidates, found)
    IN  /\ pc = Idle
        /\ request' = r
        /\ scores' = [i \in DOMAIN r.candidates |-> None]
        /\ pending' = Filtered(r.candidates, first \ found)
        /\ chunk' = [i \in DOMAIN hits |->
                        ResidentTensor(hits[i], Least(Holders(hits[i])), FALSE, FALSE)]
        /\ caches' = [d \in Devices |-> acquire_existing(caches[d], KeysOn(chunk', d))]
        /\ pc' = "hits"
        /\ UNCHANGED <<arena, next_device, todo, attempt>>

-----------------------------------------------------------------------------
(* The hits are scored and released; then the payloads of the misses are   *)
(* resolved.                                                               *)

ScoreHits ==
    /\ pc = "hits"
    /\ scores' = ScoresOf(chunk)
    /\ caches' = release_chunks(chunk)
    /\ chunk' = <<>>
    /\ pc' = IF pending = <<>> THEN "collect" ELSE "items"
    /\ UNCHANGED <<arena, next_device, todo, request, pending, attempt>>

\* A kernel fails, or a payload cannot be resolved.
ScoreHitsFails ==
    /\ pc = "hits" /\ (chunk # <<>> \/ pending # <<>>)
    /\ caches' = release_chunks(chunk)
    /\ Finish
    /\ UNCHANGED <<arena, next_device, todo>>

-----------------------------------------------------------------------------
(* The loop over the pending tensors that fills a chunk.                   *)

\* A tensor that is on a device already is taken there (it never is: the keys of a
\* batch and of the misses are distinct); another one has to be admitted.
NextItem ==
    /\ pc = "items" /\ Len(chunk) < Len(pending)
    /\ IF Holders(Tensor) # {}
       THEN LET d == Least(Holders(Tensor))
            IN  /\ caches' = [caches EXCEPT ![d] = acquire_existing(@, {Tensor})]
                /\ chunk' = Append(chunk, ResidentTensor(Tensor, d, FALSE, FALSE))
                /\ UNCHANGED <<pc, attempt>>
       ELSE /\ attempt' = [force |-> prewarming, step |-> 0]
            /\ pc' = "admit"
            /\ UNCHANGED <<caches, chunk>>
    /\ UNCHANGED <<arena, next_device, todo, request, scores, pending>>

EndItems ==
    /\ pc = "items" /\ Len(chunk) = Len(pending)
    /\ pc' = "upload"
    /\ UNCHANGED <<caches, arena, next_device, todo, request, scores, pending, chunk, attempt>>

-----------------------------------------------------------------------------
(* admit_for_tenant on one device after the other.                         *)

Admitting(full) ==
    /\ pc = "admit"
    /\ ~NeverFits(caches[Device], Blocks[Tensor], prewarming)
    /\ full = OverLimit(caches[Device], Blocks[Tensor], prewarming, Owner)

EvictFrom(k) ==
    /\ caches' = [caches EXCEPT ![Device] = remove_entry(@, k)]
    /\ UNCHANGED <<arena, next_device, pc, todo, request, scores, pending, chunk, attempt>>

\* The tenant is at its limit: it gives up an entry of its own.
EvictOwn ==
    /\ Admitting(TRUE)
    /\ \E k \in TenantVictims(caches[Device], Owner) : EvictFrom(k)

\* No run of free pages is long enough: an entry of any tenant goes.
EvictAny ==
    /\ Admitting(FALSE) /\ NoRoom(caches[Device], Blocks[Tensor])
    /\ \E k \in Victims(caches[Device]) : EvictFrom(k)

\* Mutant: when nothing is left to try, the admission starts over.
NextAttemptAgain ==
    /\ IF attempt.step + 1 < DeviceCount
       THEN attempt' = [attempt EXCEPT !.step = @ + 1] /\ UNCHANGED <<pc, request, scores, pending, chunk>>
       ELSE IF chunk = <<>>
       THEN attempt' = [force |-> TRUE, step |-> 0] /\ UNCHANGED <<pc, request, scores, pending, chunk>>
       ELSE pc' = "upload" /\ attempt' = NoAttempt /\ UNCHANGED <<request, scores, pending, chunk>>
    /\ UNCHANGED <<caches, arena, next_device, todo>>

\* The device does not take the tensor: the next one is asked; after the last, an
\* empty chunk is given a transient slab by force, and a chunk with tensors is closed.
NextAttempt ==
    /\ IF attempt.step + 1 < DeviceCount
       THEN attempt' = [attempt EXCEPT !.step = @ + 1] /\ UNCHANGED <<pc, request, scores, pending, chunk>>
       ELSE IF ~attempt.force /\ chunk = <<>>
       THEN attempt' = [force |-> TRUE, step |-> 0] /\ UNCHANGED <<pc, request, scores, pending, chunk>>
       ELSE IF chunk # <<>> /\ ~prewarming
       THEN pc' = "upload" /\ attempt' = NoAttempt /\ UNCHANGED <<request, scores, pending, chunk>>
       ELSE Fail
    /\ UNCHANGED <<caches, arena, next_device, todo>>

\* Deferred: it can never fit, or there is nothing left to evict.
Defer ==
    /\ \/ pc = "admit" /\ NeverFits(caches[Device], Blocks[Tensor], prewarming)
       \/ Admitting(TRUE) /\ TenantVictims(caches[Device], Owner) = {}
       \/ /\ Admitting(FALSE) /\ NoRoom(caches[Device], Blocks[Tensor])
          /\ Victims(caches[Device]) = {}
    /\ NextAttempt

\* Rejected: the least valuable victim is worth more.
Reject ==
    /\ ~attempt.force
    /\ \/ Admitting(TRUE) /\ TenantVictims(caches[Device], Owner) # {}
       \/ /\ Admitting(FALSE) /\ NoRoom(caches[Device], Blocks[Tensor])
          /\ Victims(caches[Device]) # {}
    /\ NextAttempt

Place ==
    /\ Admitting(FALSE) /\ ~NoRoom(caches[Device], Blocks[Tensor])
    /\ caches' = [caches EXCEPT ![Device] = place(@, Tensor, prewarming, Owner)]
    /\ chunk' = Append(chunk, [key |-> Tensor, device |-> Device,
                               start |-> caches'[Device].entries[Tensor].start,
                               transient |-> attempt.force /\ ~prewarming, newly_admitted |-> TRUE])
    /\ next_device' = (Device + 1) % DeviceCount
    /\ attempt' = NoAttempt
    /\ pc' = "items"
    /\ UNCHANGED <<arena, todo, request, scores, pending>>

-----------------------------------------------------------------------------
(* The chunk is uploaded, scored and released.                             *)

Uploading(d) == \E i \in DOMAIN chunk : chunk[i].newly_admitted /\ chunk[i].device = d

\* A failed upload leaves the pages of its tensors in any state.
Upload(failed) ==
    /\ pc = "upload"
    /\ arena' = [d \in Devices |-> [b \in Starts |->
           IF \E i \in DOMAIN chunk : /\ chunk[i].newly_admitted /\ chunk[i].device = d
                                      /\ b \in BlocksOf(chunk[i])
           THEN IF d \in failed THEN NoKey
                ELSE chunk[CHOOSE i \in DOMAIN chunk : /\ chunk[i].newly_admitted /\ chunk[i].device = d
                                                       /\ b \in BlocksOf(chunk[i])].key
           ELSE arena[d][b]]]
    /\ LET marked == Marked(failed)
           cleaned == ReleaseAll(marked, chunk, Doomed(chunk, failed))
       IN  CASE failed # {} -> caches' = cleaned /\ Fail
             [] failed = {} /\ prewarming ->
                    /\ caches' = cleaned
                    /\ pc' = "prewarm" /\ pending' = <<>> /\ chunk' = <<>>
                    /\ UNCHANGED <<request, scores, attempt>>
             [] OTHER -> caches' = marked /\ pc' = "score"
                         /\ UNCHANGED <<request, scores, pending, chunk, attempt>>
    /\ UNCHANGED <<next_device, todo>>

ScoreChunk ==
    /\ pc = "score"
    /\ scores' = ScoresOf(chunk)
    /\ caches' = release_chunks(chunk)
    /\ pending' = SubSeq(pending, Len(chunk) + 1, Len(pending))
    /\ chunk' = <<>>
    /\ pc' = IF pending' = <<>> THEN "collect" ELSE "items"
    /\ UNCHANGED <<arena, next_device, todo, request, attempt>>

ScoreChunkFails ==
    /\ pc = "score"
    /\ caches' = release_chunks(chunk)
    /\ Finish
    /\ UNCHANGED <<arena, next_device, todo>>

\* Duplicates get the score of the first candidate with the same tensor; a score that
\* is missing fails the request.
Collect ==
    /\ pc = "collect"
    /\ LET all == [i \in DOMAIN scores |-> scores[FirstIndex(request.candidates[i])]]
       IN  IF None \in Elements(all) THEN Finish
           ELSE /\ scores' = all /\ pc' = "answer"
                /\ UNCHANGED <<request, pending, chunk, attempt>>
    /\ UNCHANGED <<caches, arena, next_device, todo>>

Answer ==
    /\ pc = "answer"
    /\ Finish
    /\ UNCHANGED <<caches, arena, next_device, todo>>

Step ==
    \/ PrewarmBatch \/ PrewarmUnreadable \/ PrewarmDone
    \/ ScoreHits \/ ScoreHitsFails
    \/ NextItem \/ EndItems
    \/ EvictOwn \/ EvictAny \/ Defer \/ Reject \/ Place
    \/ \E failed \in SUBSET {d \in Devices : Uploading(d)} : Upload(failed)
    \/ ScoreChunk \/ ScoreChunkFails \/ Collect \/ Answer

Stopped == pc = "stopped" /\ UNCHANGED vars

Next ==
    \/ \E r \in Request : Score(r)
    \/ Step
    \/ Stopped

Spec == Init /\ [][Next]_vars

\* The engine's thread keeps running.
FairSpec == Spec /\ WF_vars(Step)

-----------------------------------------------------------------------------
\* Every variable has its type; references are never released twice.
TypeOK ==
    /\ \A d \in Devices : \A k \in DOMAIN caches[d].entries :
           caches[d].entries[k].references \in 0 .. 1 /\ caches[d].entries[k].owner \in Owners
    /\ arena \in [Devices -> [Starts -> Keys \cup {NoKey}]]
    /\ next_device \in Devices
    /\ pc \in {"prewarm", "items", "admit", "upload", "score", "collect", "answer", "hits", "stopped", Idle}
    /\ request \in Request \cup {NoRequest}
    /\ scores \in Seq(Keys \cup {None, NoKey})
    /\ pending \in Seq(Keys) /\ todo \in Seq(Keys)
    /\ Len(chunk) <= Len(pending) \/ pc = "hits"
    /\ attempt \in [force : BOOLEAN, step : Devices]

\* A score is computed from the bytes of the candidate's own tensor: the pages that
\* the engine remembered when it took a reference are not given to another tensor
\* before the kernel has run, and pages of a failed upload are never scored.  All
\* candidates are scored before the answer is put together.
ScoresOwn ==
    /\ \A i \in DOMAIN scores : scores[i] \in {None, request.candidates[i]}
    /\ pc = "collect" => \A i \in DOMAIN scores : scores[FirstIndex(request.candidates[i])] # None

\* Between requests nothing is referenced or loading, whichever read, upload or kernel
\* failed: otherwise pages could never be evicted again.
QuietWhenIdle ==
    pc \in {Idle, "prewarm"} =>
        \A d \in Devices : \A k \in DOMAIN caches[d].entries :
            caches[d].entries[k].references = 0 /\ caches[d].entries[k].ready

\* No page of an arena is leaked or shared, and the counters that limits are compared
\* with agree with the entries (admit_for_tenant, remove_entry).
Bookkeeping ==
    \A d \in Devices : PagesOwned(caches[d]) /\ Accounted(caches[d]) /\ ~caches[d].allocator.fault

\* A tensor is cached on one device at most.
OneCopy ==
    \A k \in Keys : \A d, e \in Devices : Holds(caches[d], k) /\ Holds(caches[e], k) => d = e

\* No tenant exceeds its share of a device: the limit, or its reservation if larger.
WithinLimit ==
    \A d \in Devices, t \in Tenants :
        caches[d].tenant_allocated[t] <= TenantMax \/ caches[d].tenant_allocated[t] <= Reservation[t]

\* The caches are sound, whatever was admitted, evicted or has failed: no page of an arena
\* is leaked or shared, references are never released twice, the counters agree with
\* the entries, a tensor is cached on one device, and no tenant exceeds its share.
CachesSound == TypeOK /\ Bookkeeping /\ OneCopy /\ WithinLimit

\* A tensor that prewarm has loaded stays where it is.
PinnedKept(c, cc) ==
    \A k \in DOMAIN c.entries : c.entries[k].pinned /\ c.entries[k].ready =>
        /\ k \in DOMAIN cc.entries /\ cc.entries[k].pinned
        /\ cc.entries[k].start = c.entries[k].start
\* What the tenant loses is not of its reservation.
ReservationKept(c, cc, tenant) ==
    cc.tenant_allocated[tenant] < c.tenant_allocated[tenant] =>
        cc.tenant_allocated[tenant] >= Reservation[tenant]

\* What eviction must spare (can_evict): what prewarm has pinned stays where it is, and
\* work for one tenant takes nothing from another tenant's reservation.
SparedByEviction ==
    [][\A d \in Devices :
           /\ PinnedKept(caches[d], caches'[d])
           /\ \A t \in Tenants \ {request.tenant} :
                 ReservationKept(caches[d], caches'[d], t)]_vars

\* Every request is answered or fails, and prewarm ends: the loops that evict, admit
\* and upload make progress.
RequestEnds == pc # Idle ~> pc \in {Idle, "stopped"}
=============================================================================
