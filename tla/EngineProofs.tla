---------------------------- MODULE EngineProofs ----------------------------
(***************************************************************************)
(* The scoring engine, for any number of devices, tensors, tenants,        *)
(* candidates and blocks: scores are computed from the right bytes,        *)
(* nothing stays referenced or loading between requests, pages and         *)
(* counters are never lost, and eviction spares pins and reservations.     *)
(*                                                                         *)
(* The caches and the steps that only release and score are in             *)
(* EngineCacheProofs.  Here are those that bring tensors into a chunk      *)
(* (hits, admission after eviction, upload), the invariant as a whole, and *)
(* the theorems.                                                           *)
(***************************************************************************)
EXTENDS EngineCacheProofs

USE Zenon

-----------------------------------------------------------------------------
(* A chunk is filled.                                                      *)

\* Ready entries that were there before have their bytes.
LEMMA BytesKept ==
    ASSUME NEW cs, NEW cs2, NEW ar, Bytes(cs, ar),
           \A d \in Devices : \A k \in DOMAIN cs2[d].entries : cs2[d].entries[k].ready =>
               /\ k \in DOMAIN cs[d].entries /\ cs[d].entries[k].ready
               /\ cs2[d].entries[k].start = cs[d].entries[k].start
    PROVE  Bytes(cs2, ar)
<1> SUFFICES ASSUME NEW d \in Devices, NEW k \in DOMAIN cs2[d].entries, cs2[d].entries[k].ready,
                    NEW b \in cs2[d].entries[k].start .. cs2[d].entries[k].start + Blocks[k] - 1
             PROVE  ar[d][b] = k
  BY DEF Bytes
<1>1. /\ k \in DOMAIN cs[d].entries /\ cs2[d].entries[k].start = cs[d].entries[k].start
      /\ cs[d].entries[k].ready
  OBVIOUS
<1> QED BY <1>1 DEF Bytes

\* The tensor whose turn it is, is not in the chunk.
LEMMA FreshTensor ==
    ASSUME IInv, pc \in {"items", "admit"}, Len(chunk) < Len(pending)
    PROVE  Tensor \in Keys /\ \A i \in DOMAIN chunk : chunk[i].key # Tensor
<1>1. /\ pending \in Seq(Keys) /\ Distinct(pending) /\ chunk \in Seq(TensorType)
      /\ \A i \in DOMAIN chunk : chunk[i].key = pending[i]
  BY DEF IInv, Typed, Placed
<1>2. Len(chunk) + 1 \in DOMAIN pending /\ Len(chunk) \in Nat /\ DOMAIN chunk = 1 .. Len(chunk)
  BY <1>1, SMTT(30)
<1>3. Tensor \in Keys
  BY <1>1, <1>2, SMTT(30) DEF Tensor
<1>4. ASSUME NEW i \in DOMAIN chunk PROVE chunk[i].key # Tensor
  <2>1. i # Len(chunk) + 1 /\ i \in DOMAIN pending /\ chunk[i].key = pending[i]
    BY <1>1, <1>2, SMTT(30)
  <2> QED BY <1>2, <2>1, <1>1 DEF Tensor, Distinct
<1> QED BY <1>3, <1>4

\* What a tensor added to the chunk changes of it.
KeyedOnce(t) == \A i, j \in DOMAIN t : t[i].key = t[j].key => i = j

LEMMA Longer ==
    ASSUME chunk \in Seq(TensorType), NEW r \in TensorType, chunk' = Append(chunk, r)
    PROVE  /\ chunk' \in Seq(TensorType) /\ Len(chunk') = Len(chunk) + 1
           /\ Len(chunk) \in Nat /\ DOMAIN chunk = 1 .. Len(chunk)
           /\ DOMAIN chunk' = DOMAIN chunk \cup {Len(chunk) + 1}
           /\ (\A i \in DOMAIN chunk : chunk'[i] = chunk[i]) /\ chunk'[Len(chunk) + 1] = r
           /\ Elements(chunk') = Elements(chunk) \cup {r}
           /\ KeyedOnce(chunk) /\ (\A i \in DOMAIN chunk : chunk[i].key # r.key) => KeyedOnce(chunk')
<1> DEFINE a == Append(chunk, r)
           n == Len(chunk)
<1>1. /\ a \in Seq(TensorType) /\ Len(a) = n + 1 /\ DOMAIN a = 1 .. n + 1
      /\ (\A i \in DOMAIN chunk : a[i] = chunk[i]) /\ a[n + 1] = r
      /\ Elements(a) = Elements(chunk) \cup {r}
  BY AppendIs, SMTT(30)
<1>2. chunk' = a /\ n \in Nat /\ DOMAIN chunk = 1 .. n
  BY SMTT(30)
<1> HIDE DEF a, n
<1>3. DOMAIN chunk' = DOMAIN chunk \cup {n + 1}
  BY <1>1, <1>2, SMTT(30)
<1>4. KeyedOnce(chunk) /\ (\A i \in DOMAIN chunk : chunk[i].key # r.key) => KeyedOnce(chunk')
  BY <1>1, <1>2, <1>3 DEF KeyedOnce
<1> QED BY <1>1, <1>2, <1>3, <1>4 DEF n

\* A tensor is added to the chunk.
LEMMA ChunkGrows ==
    ASSUME IInv, pc \in {"items", "admit"}, Len(chunk) < Len(pending),
           NEW r \in TensorType, r.key = Tensor, r.transient => r.newly_admitted /\ ~prewarming,
           chunk' = Append(chunk, r), pc' = "items", request' = request, pending' = pending,
           arena' = arena, todo' = todo, scores' = scores, next_device' \in Devices,
           attempt' \in [force : BOOLEAN, step : Devices],
           Books(caches', Elements(chunk) \cup {r}), Bytes(caches', arena),
           \A i \in DOMAIN chunk :
               /\ EntryOf(caches', chunk[i]).ready = EntryOf(caches, chunk[i]).ready
               /\ EntryOf(caches', chunk[i]).pinned = EntryOf(caches, chunk[i]).pinned
               /\ EntryOf(caches', chunk[i]).owner = EntryOf(caches, chunk[i]).owner,
           r.newly_admitted <=> ~EntryOf(caches', r).ready,
           r.newly_admitted => /\ EntryOf(caches', r).pinned <=> prewarming
                               /\ EntryOf(caches', r).owner = Owner
    PROVE  IInv'
<1> DEFINE n == Len(chunk)
<1>1. Typed /\ Placed /\ Held /\ Scored /\ chunk \in Seq(TensorType) /\ pending \in Seq(Keys)
  BY DEF IInv, Typed
<1>2. /\ chunk' \in Seq(TensorType) /\ Len(chunk') = n + 1
      /\ n \in Nat /\ DOMAIN chunk = 1 .. n /\ DOMAIN chunk' = DOMAIN chunk \cup {n + 1}
      /\ (\A i \in DOMAIN chunk : chunk'[i] = chunk[i]) /\ chunk'[n + 1] = r
      /\ Elements(chunk') = Elements(chunk) \cup {r}
      /\ KeyedOnce(chunk) /\ (\A i \in DOMAIN chunk : chunk[i].key # r.key) => KeyedOnce(chunk')
  BY <1>1, Longer
<1>4. (prewarming' <=> prewarming) /\ Owner' = Owner
  BY DEF prewarming, Owner
<1>5. Typed'
  BY <1>1, <1>2 DEF Typed, Places
<1> HIDE DEF n
<1>6. Placed'
  <2>1. /\ KeyedOnce(chunk)
        /\ \A i \in DOMAIN chunk : chunk[i].key = pending[i]
        /\ \A i \in DOMAIN chunk : chunk[i].key # r.key
    <3>1. \A i \in DOMAIN chunk : chunk[i].key # r.key
      BY FreshTensor
    <3>2. pc # "stopped" /\ pc # "hits"
      OBVIOUS
    <3> QED BY <1>1, <3>1, <3>2 DEF Placed, KeyedOnce
  <2>2. \A i, j \in DOMAIN chunk' : chunk'[i].key = chunk'[j].key => i = j
    BY <1>2, <2>1 DEF KeyedOnce
  <2>3. \A i \in DOMAIN chunk' : chunk'[i].key = pending[i]
    <3>1. r.key = pending[n + 1]
      BY DEF Tensor, n
    <3> QED BY <1>2, <2>1, <3>1
  <2>4. Len(chunk') <= Len(pending)
    BY <1>1, <1>2, SMTT(30) DEF n
  <2> QED BY <2>2, <2>3, <2>4 DEF Placed, Idle
<1>7. Held'
  <2>1. ASSUME NEW i \in DOMAIN chunk' PROVE Handled(chunk[i])'
    <3>1. CASE i \in DOMAIN chunk
      <4> DEFINE q == chunk[i]
      <4>1. Handled(q) /\ chunk'[i] = q
        BY <1>1, <1>2, <3>1 DEF Held
      <4>2. /\ EntryOf(caches', q).ready = EntryOf(caches, q).ready
            /\ EntryOf(caches', q).pinned = EntryOf(caches, q).pinned
            /\ EntryOf(caches', q).owner = EntryOf(caches, q).owner
        BY <3>1
      <4> HIDE DEF q
      <4> QED BY <1>4, <4>1, <4>2 DEF Handled
    <3>2. CASE i = n + 1
      BY <1>2, <1>4, <3>2 DEF Handled
    <3> QED BY <1>2, <3>1, <3>2
  <2>2. Books(caches', Elements(chunk'))
    BY <1>2
  <2> QED BY <2>1, <2>2 DEF Held
<1>8. Scored'
  BY <1>1, <1>4 DEF Scored, Waiting, FirstIndex
<1> QED BY <1>5, <1>6, <1>7, <1>8 DEF IInv

LEMMA DeviceIs == ASSUME Typed PROVE Device \in Devices
<1>1. next_device + attempt.step \in Int /\ DeviceCount \in Nat /\ DeviceCount > 0
  BY EngineAssumption, SMTT(30) DEF Typed, Devices
<1> DEFINE m == next_device + attempt.step
<1> HIDE DEF m
<1>2. m % DeviceCount \in 0 .. DeviceCount - 1
  BY <1>1, SMTT(30) DEF m
<1> QED BY <1>2 DEF Device, Devices, m

\* cs after a reference has been taken to the entry of r.
AcquiredOne(cs, r) == [cs EXCEPT ![r.device] = acquire_existing(cs[r.device], {r.key})]

\* The entry that is taken is ready, and nobody else holds it.
LEMMA BooksAcquire ==
    ASSUME NEW cs, NEW held, Books(cs, held), NEW r \in TensorType,
           r.key \in DOMAIN cs[r.device].entries, EntryOf(cs, r).ready, EntryOf(cs, r).start = r.start,
           \A q \in held : q.key # r.key
    PROVE  LET cs2 == AcquiredOne(cs, r)
           IN  /\ Books(cs2, held \cup {r})
               /\ \A d \in Devices : Alike(cs[d], cs2[d])
               /\ \A d \in Devices : \A k \in DOMAIN cs[d].entries :
                      cs2[d].entries[k].ready = cs[d].entries[k].ready
<1> DEFINE d == r.device
           k == r.key
           c == cs[d]
           cc == acquire_existing(c, {k})
           cs2 == [cs EXCEPT ![d] = cc]
<1>1. /\ Shelves(cs) /\ Taken(cs, held) /\ Counted(cs, held) /\ d \in Devices /\ k \in Keys
      /\ k \in DOMAIN c.entries
  BY DEF Books, TensorType
<1>2. Sane(c) /\ c.entries[k].references = 0
  BY <1>1 DEF Shelves, Counted
<1>3. /\ Alike(c, cc)
      /\ \A j \in DOMAIN c.entries :
             /\ cc.entries[j].ready = c.entries[j].ready
             /\ cc.entries[j].references = IF j \in {k} THEN 1 ELSE c.entries[j].references
  BY <1>2, AcquireAlike
<1>4. /\ cs2[d] = cc /\ (\A e \in Devices : e # d => cs2[e] = cs[e])
      /\ cs2 = [e \in Devices |-> cs2[e]]
  BY <1>1 DEF Shelves
<1> HIDE DEF cs2, cc
<1>5. ASSUME NEW e \in Devices
      PROVE  /\ Alike(cs[e], cs2[e]) /\ DOMAIN cs2[e].entries = DOMAIN cs[e].entries
             /\ \A j \in DOMAIN cs[e].entries :
                    /\ cs2[e].entries[j].ready = cs[e].entries[j].ready
                    /\ cs2[e].entries[j].references = IF j = k THEN 1 ELSE cs[e].entries[j].references
  <2>1. CASE e = d
    BY <1>3, <1>4, <2>1 DEF Alike
  <2>2. CASE e # d
    <3>1. cs2[e] = cs[e] /\ Shaped(cs[e])
      BY <1>1, <1>4, <2>2 DEF Shelves, Sane
    <3>2. k \notin DOMAIN cs[e].entries
      BY <1>1, <2>2 DEF Shelves, Holds
    <3>3. Alike(cs[e], cs[e])
      BY <3>1 DEF Alike, Shaped
    <3> QED BY <3>1, <3>2, <3>3
  <2> QED BY <2>1, <2>2
<1>6. Taken(cs, held \cup {r})
  <2>1. \A p, q \in held \cup {r} : p.key = q.key => p = q
    BY <1>1 DEF Taken
  <2> QED BY <1>1, <2>1 DEF Taken, Holds
<1>7. Counted(cs2, held \cup {r})
  <2> SUFFICES ASSUME NEW e \in Devices, NEW j \in DOMAIN cs2[e].entries
               PROVE  /\ cs2[e].entries[j].references
                           = IF \E q \in held \cup {r} : q.key = j THEN 1 ELSE 0
                      /\ ~cs2[e].entries[j].ready
                           => \E q \in held \cup {r} : q.key = j /\ q.newly_admitted
    BY DEF Counted
  <2>1. j \in DOMAIN cs[e].entries
    BY <1>5
  <2>2. /\ cs[e].entries[j].references = IF \E q \in held : q.key = j THEN 1 ELSE 0
        /\ ~cs[e].entries[j].ready => \E q \in held : q.key = j /\ q.newly_admitted
    BY <1>1, <2>1 DEF Counted
  <2>3. /\ cs2[e].entries[j].ready = cs[e].entries[j].ready
        /\ cs2[e].entries[j].references = IF j = k THEN 1 ELSE cs[e].entries[j].references
    BY <1>5, <2>1
  <2> QED BY <2>2, <2>3
<1>8. Books(cs2, held \cup {r})
  BY <1>1, <1>4, <1>5, <1>6, <1>7, BooksAlike
<1> QED BY <1>5, <1>8 DEF cs2, cc, AcquiredOne

LEMMA NextItemKeeps == ASSUME IInv, NextItem PROVE IInv'
<1>1. /\ pc = "items" /\ Len(chunk) < Len(pending)
      /\ arena' = arena /\ next_device' = next_device /\ todo' = todo /\ request' = request
      /\ scores' = scores /\ pending' = pending
  BY DEF NextItem
<1>2. Typed /\ Placed /\ Held /\ Scored /\ Books(caches, Elements(chunk)) /\ Bytes(caches, arena)
  BY <1>1 DEF IInv, Held
<1>3. Tensor \in Keys /\ \A i \in DOMAIN chunk : chunk[i].key # Tensor
  BY <1>1, FreshTensor
<1>4. CASE Holders(Tensor) # {}
  <2> DEFINE k == Tensor
             d == Least(Holders(k))
             r == ResidentTensor(k, d, FALSE, FALSE)
  <2>1. /\ caches' = [caches EXCEPT ![d] = acquire_existing(caches[d], {k})]
        /\ chunk' = Append(chunk, r) /\ pc' = pc /\ attempt' = attempt
    BY <1>4 DEF NextItem
  <2>2. d \in Devices /\ k \in DOMAIN caches[d].entries /\ caches[d].entries[k].ready
    <3>1. Holders(k) \subseteq Nat
      BY EngineAssumption, SMTT(30) DEF Holders, Devices
    <3>2. d \in Holders(k)
      BY <1>4, <3>1, LeastIn
    <3> QED BY <3>2 DEF Holders, contains, Holds
  <2>3. /\ r.key = k /\ r.device = d /\ r.start = caches[d].entries[k].start
        /\ r.transient = FALSE /\ r.newly_admitted = FALSE /\ r \in TensorType
    <3>1. caches[d].entries[k] \in EntryType
      BY <1>2, <2>2 DEF Books, Shelves, Sane, Shaped
    <3>2. caches[d].entries[k].start \in Starts
      BY <3>1 DEF EntryType
    <3> QED BY <1>3, <2>2, <3>2 DEF ResidentTensor, TensorType
  <2> HIDE DEF r, d, k
  <2>4. \A q \in Elements(chunk) : q.key # r.key
    BY <1>3, <2>3 DEF Elements, k
  <2>5. /\ Books(caches', Elements(chunk) \cup {r})
        /\ \A e \in Devices : Alike(caches[e], caches'[e])
        /\ \A e \in Devices : \A j \in DOMAIN caches[e].entries :
               caches'[e].entries[j].ready = caches[e].entries[j].ready
    <3>1. caches' = AcquiredOne(caches, r)
      BY <2>1, <2>3 DEF AcquiredOne
    <3>2. /\ r.key \in DOMAIN caches[r.device].entries /\ EntryOf(caches, r).ready
          /\ EntryOf(caches, r).start = r.start
      BY <2>2, <2>3 DEF EntryOf
    <3> QED BY <1>2, <2>3, <2>4, <3>1, <3>2, BooksAcquire
  <2>6. \A e \in Devices : /\ DOMAIN caches'[e].entries = DOMAIN caches[e].entries
                           /\ \A j \in DOMAIN caches[e].entries :
                                 /\ caches'[e].entries[j].start = caches[e].entries[j].start
                                 /\ caches'[e].entries[j].pinned = caches[e].entries[j].pinned
                                 /\ caches'[e].entries[j].owner = caches[e].entries[j].owner
    BY <2>5 DEF Alike
  <2>7. Bytes(caches', arena)
    <3>1. \A e \in Devices : \A j \in DOMAIN caches'[e].entries : caches'[e].entries[j].ready =>
               /\ j \in DOMAIN caches[e].entries /\ caches[e].entries[j].ready
               /\ caches'[e].entries[j].start = caches[e].entries[j].start
      BY <2>5, <2>6
    <3> QED BY <1>2, <3>1, BytesKept, SMTT(30)
  <2>8. ASSUME NEW i \in DOMAIN chunk
        PROVE  /\ EntryOf(caches', chunk[i]).ready = EntryOf(caches, chunk[i]).ready
               /\ EntryOf(caches', chunk[i]).pinned = EntryOf(caches, chunk[i]).pinned
               /\ EntryOf(caches', chunk[i]).owner = EntryOf(caches, chunk[i]).owner
    <3>1. chunk[i].device \in Devices /\ chunk[i].key \in DOMAIN caches[chunk[i].device].entries
      BY <1>1, InChunk
    <3> QED BY <2>5, <2>6, <3>1 DEF EntryOf
  <2>9. EntryOf(caches', r).ready
    BY <2>2, <2>3, <2>5 DEF EntryOf
  <2> QED BY <1>1, <1>2, <2>1, <2>3, <2>5, <2>7, <2>8, <2>9, ChunkGrows DEF Typed, k
<1>5. CASE Holders(Tensor) = {}
  <2>1. /\ attempt' = [force |-> prewarming, step |-> 0] /\ pc' = "admit"
        /\ caches' = caches /\ chunk' = chunk
    BY <1>5 DEF NextItem
  <2>2. Typed'
    <3>1. attempt' \in [force : BOOLEAN, step : Devices]
      BY <2>1, EngineAssumption, SMTT(30) DEF Devices, prewarming
    <3> QED BY <1>1, <1>2, <2>1, <3>1 DEF Typed, Places
  <2>3. ASSUME NEW d \in Devices, Holds(caches[d], Tensor) PROVE FALSE
    <3>1. Tensor \in DOMAIN caches[d].entries /\ ~caches[d].entries[Tensor].ready
      BY <1>5, <2>3 DEF Holders, contains, Holds
    <3>2. \E r \in Elements(chunk) : r.key = Tensor
      BY <1>2, <3>1 DEF Books, Counted
    <3> QED BY <1>3, <3>2 DEF Elements
  <2>4. Placed'
    BY <1>1, <1>2, <2>1, <2>3 DEF Placed, Idle, prewarming, Tensor
  <2>5. Held'
    BY <1>1, <1>2, <2>1 DEF Held, Handled, EntryOf, Owner, prewarming
  <2>6. Scored'
    BY <1>1, <1>2, <2>1 DEF Scored, Waiting, FirstIndex, prewarming
  <2> QED BY <2>2, <2>4, <2>5, <2>6 DEF IInv
<1> QED BY <1>4, <1>5

-----------------------------------------------------------------------------
(* A tensor is admitted.                                                   *)

\* cs2 is cs without the entry of k on d.
LeftBy(cs, cs2, d, k) ==
    \A e \in Devices :
        /\ DOMAIN cs2[e].entries = IF e = d THEN DOMAIN cs[e].entries \ {k} ELSE DOMAIN cs[e].entries
        /\ \A j \in DOMAIN cs2[e].entries : cs2[e].entries[j] = cs[e].entries[j]

\* What eviction leaves of the other entries.
LEMMA EvictLeaves ==
    ASSUME NEW cs, Shelves(cs), NEW d \in Devices, NEW k \in DOMAIN cs[d].entries
    PROVE  LeftBy(cs, Evicted(cs, d, k), d, k)
<1> DEFINE cc == remove_entry(cs[d], k)
           cs2 == Evicted(cs, d, k)
<1>1. Sane(cs[d])
  BY DEF Shelves
<1>2. cc.entries = [j \in DOMAIN cs[d].entries \ {k} |-> cs[d].entries[j]]
  BY <1>1, RemoveSane
<1>3. cs2[d] = cc /\ \A e \in Devices : e # d => cs2[e] = cs[e]
  BY DEF Shelves, Evicted
<1> HIDE DEF cs2, cc
<1>4. /\ DOMAIN cc.entries = DOMAIN cs[d].entries \ {k}
      /\ \A j \in DOMAIN cc.entries : cc.entries[j] = cs[d].entries[j]
  BY <1>2
<1>5. ASSUME NEW e \in Devices
      PROVE  /\ DOMAIN cs2[e].entries
                  = IF e = d THEN DOMAIN cs[e].entries \ {k} ELSE DOMAIN cs[e].entries
             /\ \A j \in DOMAIN cs2[e].entries : cs2[e].entries[j] = cs[e].entries[j]
  <2>1. CASE e = d
    BY <1>3, <1>4, <2>1
  <2>2. CASE e # d
    BY <1>3, <2>2
  <2> QED BY <2>1, <2>2
<1> QED BY <1>5 DEF cs2, LeftBy

LEMMA EvictKeeps ==
    ASSUME IInv, pc = "admit", NEW k \in DOMAIN caches[Device].entries,
           caches[Device].entries[k].references = 0, EvictFrom(k)
    PROVE  IInv'
<1> DEFINE d == Device
<1>1. /\ caches' = Evicted(caches, d, k) /\ arena' = arena /\ next_device' = next_device /\ pc' = pc
      /\ todo' = todo /\ request' = request /\ scores' = scores /\ pending' = pending
      /\ chunk' = chunk /\ attempt' = attempt
  BY DEF EvictFrom, Evicted
<1>2. /\ Typed /\ Placed /\ Held /\ Scored /\ Books(caches, Elements(chunk)) /\ Bytes(caches, arena)
      /\ Shelves(caches) /\ d \in Devices /\ (prewarming' <=> prewarming) /\ Owner' = Owner
  BY <1>1, DeviceIs DEF IInv, Held, Books, Owner, prewarming
<1> HIDE DEF d
<1>3. k \in DOMAIN caches[d].entries /\ caches[d].entries[k].references = 0
  BY DEF d
<1>4. Books(caches', Elements(chunk))
  BY <1>1, <1>2, <1>3, BooksEvict
<1>5. \A e \in Devices : /\ DOMAIN caches'[e].entries \subseteq DOMAIN caches[e].entries
                         /\ \A j \in DOMAIN caches'[e].entries :
                               caches'[e].entries[j] = caches[e].entries[j]
  <2>1. ASSUME NEW e \in Devices
        PROVE  /\ DOMAIN caches'[e].entries
                    = IF e = d THEN DOMAIN caches[e].entries \ {k} ELSE DOMAIN caches[e].entries
               /\ \A j \in DOMAIN caches'[e].entries : caches'[e].entries[j] = caches[e].entries[j]
    <3>1. LeftBy(caches, caches', d, k)
      BY <1>1, <1>2, <1>3, EvictLeaves
    <3> QED BY <3>1 DEF LeftBy
  <2> QED BY <2>1
<1>6. Bytes(caches', arena')
  <2>1. \A e \in Devices : \A j \in DOMAIN caches'[e].entries : caches'[e].entries[j].ready =>
             /\ j \in DOMAIN caches[e].entries /\ caches[e].entries[j].ready
             /\ caches'[e].entries[j].start = caches[e].entries[j].start
    BY <1>5
  <2> QED BY <1>1, <1>2, <2>1, BytesKept, SMTT(30)
<1>7. ASSUME NEW i \in DOMAIN chunk PROVE Handled(chunk[i])'
  <2> DEFINE r == chunk[i]
  <2>1. r \in Elements(chunk) /\ r.device \in Devices /\ Handled(r)
    BY InChunk
  <2>2. chunk'[i] = r
    BY <1>1
  <2> HIDE DEF r
  <2>3. r.key \in DOMAIN caches'[r.device].entries
    BY <1>4, <2>1 DEF Books, Taken, Holds
  <2>4. EntryOf(caches', r) = EntryOf(caches, r)
    BY <1>5, <2>1, <2>3 DEF EntryOf
  <2> QED BY <1>1, <1>2, <2>1, <2>2, <2>4 DEF Handled
<1>8. Held'
  BY <1>1, <1>4, <1>6, <1>7 DEF Held
<1>9. Typed'
  BY <1>1, <1>2 DEF Typed
<1>10. Placed'
  <2>1. \A e \in Devices : ~Holds(caches'[e], Tensor)
    BY <1>2, <1>5 DEF Placed, Holds
  <2> QED BY <1>1, <1>2, <2>1 DEF Placed, Idle, Tensor
<1>11. Scored'
  BY <1>1, <1>2 DEF Scored, Waiting, FirstIndex
<1> QED BY <1>8, <1>9, <1>10, <1>11 DEF IInv

LEMMA EvictOwnKeeps == ASSUME IInv, EvictOwn PROVE IInv'
<1>1. PICK k \in TenantVictims(caches[Device], Owner) : pc = "admit" /\ EvictFrom(k)
  BY DEF EvictOwn, Admitting
<1>2. k \in DOMAIN caches[Device].entries /\ caches[Device].entries[k].references = 0
  BY DEF TenantVictims
<1> QED BY <1>1, <1>2, EvictKeeps

LEMMA EvictAnyKeeps == ASSUME IInv, EvictAny PROVE IInv'
<1>1. PICK k \in Victims(caches[Device]) : pc = "admit" /\ EvictFrom(k)
  BY DEF EvictAny, Admitting
<1>2. k \in DOMAIN caches[Device].entries /\ caches[Device].entries[k].references = 0
  BY DEF Victims, can_evict
<1> QED BY <1>1, <1>2, EvictKeeps

LEMMA NextAttemptKeeps == ASSUME IInv, pc = "admit", NextAttempt PROVE IInv'
<1>1. /\ caches' = caches /\ arena' = arena /\ next_device' = next_device /\ todo' = todo
  BY DEF NextAttempt
<1>2. /\ Typed /\ Placed /\ Held /\ Scored /\ Books(caches, Elements(chunk)) /\ Bytes(caches, arena)
      /\ arena' \in ArenaType
  BY <1>1 DEF IInv, Held, Typed, ArenaType
<1>3. \/ /\ attempt.step + 1 < DeviceCount /\ attempt' = [attempt EXCEPT !.step = @ + 1]
         /\ pc' = pc /\ request' = request /\ scores' = scores /\ pending' = pending /\ chunk' = chunk
      \/ /\ attempt' = [force |-> TRUE, step |-> 0]
         /\ pc' = pc /\ request' = request /\ scores' = scores /\ pending' = pending /\ chunk' = chunk
      \/ /\ attempt' = NoAttempt /\ pc' = "upload"
         /\ request' = request /\ scores' = scores /\ pending' = pending /\ chunk' = chunk
      \/ prewarming /\ Stop
      \/ chunk = <<>> /\ Finish
  BY DEF NextAttempt, Fail
<1>4. ASSUME attempt' \in [force : BOOLEAN, step : Devices], pc' \in {"admit", "upload"},
             request' = request, scores' = scores, pending' = pending, chunk' = chunk
      PROVE  IInv'
  <2>1. Typed'
    BY <1>1, <1>2, <1>4 DEF Typed, Places
  <2>2. Placed'
    BY <1>1, <1>2, <1>4 DEF Placed, Idle, prewarming, Tensor
  <2>3. Held'
    BY <1>1, <1>2, <1>4 DEF Held, Handled, EntryOf, Owner, prewarming
  <2>4. Scored'
    BY <1>1, <1>2, <1>4 DEF Scored, Waiting, FirstIndex, prewarming
  <2> QED BY <2>1, <2>2, <2>3, <2>4 DEF IInv
<1>5. ASSUME attempt.step + 1 < DeviceCount, attempt' = [attempt EXCEPT !.step = @ + 1]
      PROVE  attempt' \in [force : BOOLEAN, step : Devices]
  <2>1. attempt \in [force : BOOLEAN, step : Devices] /\ attempt.step + 1 \in Devices
    BY <1>2, <1>5, EngineAssumption, SMTT(30) DEF Typed, Devices
  <2> HIDE DEF Devices
  <2> QED BY <1>5, <2>1
<1>6. /\ [force |-> TRUE, step |-> 0] \in [force : BOOLEAN, step : Devices]
      /\ NoAttempt \in [force : BOOLEAN, step : Devices]
  BY EngineAssumption, SMTT(30) DEF Devices, NoAttempt
<1>7. ASSUME prewarming, Stop PROVE IInv'
  BY <1>1, <1>2, <1>7, StoppedThere DEF Books
<1>8. ASSUME chunk = <<>>, Finish PROVE IInv'
  BY <1>1, <1>2, <1>8, Finished, NoElements
<1> QED BY <1>3, <1>4, <1>5, <1>6, <1>7, <1>8

LEMMA DeferKeeps == ASSUME IInv, Defer PROVE IInv'
<1>1. pc = "admit" /\ NextAttempt
  BY DEF Defer, Admitting
<1> QED BY <1>1, NextAttemptKeeps

LEMMA RejectKeeps == ASSUME IInv, Reject PROVE IInv'
<1>1. pc = "admit" /\ NextAttempt
  BY DEF Reject, Admitting
<1> QED BY <1>1, NextAttemptKeeps

\* The guards of admit_for_tenant keep the tenant within its limit.
LEMMA WithinAfter ==
    ASSUME IInv, Admitting(FALSE), Tensor \in Keys, Owner \in Tenants
    PROVE  caches[Device].tenant_allocated[Owner] + Blocks[Tensor] <= Limit(Owner)
<1>1. FALSE = OverLimit(caches[Device], Blocks[Tensor], prewarming, Owner) /\ pc = "admit"
  BY DEF Admitting
<1>2. ~prewarming
  BY OwnerIs, CacheAssumption DEF IInv
<1>3. ~(caches[Device].tenant_allocated[Owner] + Blocks[Tensor] > Limit(Owner))
  BY <1>1, <1>2 DEF OverLimit
<1>4. Blocks[Tensor] \in Nat /\ Limit(Owner) \in Int
  <2>1. Limit(Owner) \in Int
    BY CacheAssumption, BlockCountAssumption, SMTT(30) DEF Limit, Reserved
  <2> QED BY <2>1, OneTensor
<1>5. caches[Device].tenant_allocated[Owner] \in Nat
  <2>1. Device \in Devices /\ Shelves(caches)
    BY <1>1, DeviceIs DEF IInv, Held, Books
  <2>2. caches[Device].tenant_allocated \in [Owners -> Nat]
    BY <2>1 DEF Shelves, Sane, Shaped
  <2> QED BY <2>2 DEF Owners
<1> QED BY <1>3, <1>4, <1>5, SMTT(30)

\* How Place changes the caches.
LEMMA PlaceIs ==
    ASSUME IInv, Place
    PROVE  \E r \in TensorType :
              /\ r.key = Tensor /\ r.device = Device /\ r.newly_admitted
              /\ r.transient => ~prewarming
              /\ chunk' = Append(chunk, r)
              /\ Books(caches', Elements(chunk) \cup {r})
              /\ Joined(caches, caches', Device, Tensor)
              /\ EntryOf(caches', r).pinned = prewarming /\ EntryOf(caches', r).owner = Owner
              /\ ~EntryOf(caches', r).ready
<1> DEFINE d == Device
           k == Tensor
           pw == prewarming
           o == Owner
           r == [key |-> k, device |-> d, start |-> caches'[d].entries[k].start,
                 transient |-> attempt.force /\ ~pw, newly_admitted |-> TRUE]
<1>1. /\ Admitting(FALSE) /\ ~NoRoom(caches[d], Blocks[k]) /\ pc = "admit"
      /\ caches' = Admitted(caches, d, k, pw, o) /\ chunk' = Append(chunk, r)
  BY DEF Place, Admitting, Admitted
<1>2. /\ Typed /\ Books(caches, Elements(chunk)) /\ Shelves(caches) /\ d \in Devices
      /\ Len(chunk) < Len(pending) /\ \A e \in Devices : ~Holds(caches[e], k)
  BY <1>1, DeviceIs DEF IInv, Held, Books, Placed
<1>3. k \in Keys /\ o \in Owners /\ pw \in BOOLEAN
  BY <1>1, <1>2, FreshTensor, OwnerIs DEF prewarming
<1>4. o \in Tenants => caches[d].tenant_allocated[o] + Blocks[k] <= Limit(o)
  BY <1>1, <1>3, WithinAfter
<1>5. Fitting(caches[d].allocator, Blocks[k]) # {}
  BY <1>1 DEF NoRoom
<1>6. attempt.force \in BOOLEAN
  BY <1>2 DEF Typed
<1> DEFINE cc == place(caches[d], k, pw, o)
<1> HIDE DEF d, k, pw, o
<1>7. caches'[d] = cc
  BY <1>1, <1>2 DEF Shelves, Admitted
<1>8. cc.entries[k].start \in Starts
  <2>1. Sane(caches[d]) /\ k \notin DOMAIN caches[d].entries
    BY <1>2 DEF Shelves, Holds
  <2> DEFINE x == Entry(FitStart(caches[d].allocator, Blocks[k]), Blocks[k], pw, o)
  <2>2. cc.entries = WithEntry(caches[d], k, x) /\ x \in EntryType
    BY <1>3, <1>5, <2>1, PlaceSane DEF PlacedIn
  <2> HIDE DEF x, cc
  <2>3. cc.entries[k] = x
    BY <2>2 DEF WithEntry
  <2> QED BY <2>2, <2>3 DEF EntryType
<1>9. /\ r \in TensorType /\ r.key = k /\ r.device = d /\ r.newly_admitted = TRUE
      /\ r.start = cc.entries[k].start /\ (r.transient => ~pw)
  <2> HIDE DEF cc
  <2> QED BY <1>2, <1>3, <1>6, <1>7, <1>8 DEF TensorType
<1> HIDE DEF r
<1>10. /\ Books(caches', Elements(chunk) \cup {r}) /\ Joined(caches, caches', d, k)
       /\ EntryOf(caches', r).pinned = pw /\ EntryOf(caches', r).owner = o
       /\ ~EntryOf(caches', r).ready
  <2> DEFINE held == Elements(chunk)
             cs == caches
             cs2 == Admitted(cs, d, k, pw, o)
  <2>1. /\ Books(cs, held) /\ d \in Devices /\ k \in Keys /\ (\A e \in Devices : ~Holds(cs[e], k))
        /\ pw \in BOOLEAN /\ o \in Owners
    BY <1>2, <1>3
  <2>2. /\ r \in TensorType /\ r.key = k /\ r.device = d /\ r.newly_admitted
        /\ r.start = place(cs[d], k, pw, o).entries[k].start
    BY <1>9
  <2>3. /\ Fitting(cs[d].allocator, Blocks[k]) # {}
        /\ o \in Tenants => cs[d].tenant_allocated[o] + Blocks[k] <= Limit(o)
    BY <1>4, <1>5
  <2>4. caches' = cs2
    BY <1>1
  <2> HIDE DEF held, cs
  <2>5. /\ Books(cs2, held \cup {r}) /\ Joined(cs, cs2, d, k)
        /\ EntryOf(cs2, r).pinned = pw /\ EntryOf(cs2, r).owner = o /\ ~EntryOf(cs2, r).ready
    BY <2>1, <2>2, <2>3, BooksPlace, SMTT(30)
  <2> HIDE DEF cs2
  <2> QED BY <2>4, <2>5 DEF held, cs
<1> HIDE DEF cc
<1> QED BY <1>1, <1>9, <1>10 DEF d, k, pw, o

LEMMA PlaceKeeps == ASSUME IInv, Place PROVE IInv'
<1>1. /\ pc = "admit" /\ next_device' = (Device + 1) % DeviceCount /\ attempt' = NoAttempt
      /\ pc' = "items" /\ arena' = arena /\ todo' = todo /\ request' = request /\ scores' = scores
      /\ pending' = pending
  BY DEF Place, Admitting
<1>2. /\ Typed /\ Len(chunk) < Len(pending) /\ Bytes(caches, arena) /\ Device \in Devices
      /\ Books(caches, Elements(chunk)) /\ \A e \in Devices : ~Holds(caches[e], Tensor)
  BY <1>1, DeviceIs DEF IInv, Held, Placed
<1>3. PICK r \in TensorType :
              /\ r.key = Tensor /\ r.device = Device /\ r.newly_admitted
              /\ r.transient => ~prewarming
              /\ chunk' = Append(chunk, r)
              /\ Books(caches', Elements(chunk) \cup {r})
              /\ Joined(caches, caches', Device, Tensor)
              /\ EntryOf(caches', r).pinned = prewarming /\ EntryOf(caches', r).owner = Owner
              /\ ~EntryOf(caches', r).ready
  BY PlaceIs
<1>4. next_device' \in Devices
  <2>1. Device + 1 \in Int /\ DeviceCount \in Nat /\ DeviceCount > 0
    BY <1>2, EngineAssumption, SMTT(30) DEF Devices
  <2> DEFINE m == Device + 1
  <2> HIDE DEF m
  <2>2. m % DeviceCount \in 0 .. DeviceCount - 1
    BY <2>1, SMTT(30) DEF m
  <2> QED BY <1>1, <2>2 DEF Devices, m
<1>5. attempt' \in [force : BOOLEAN, step : Devices]
  BY <1>1, EngineAssumption, SMTT(30) DEF NoAttempt, Devices
<1>6. Bytes(caches', arena)
  <2>1. ASSUME NEW e \in Devices, NEW j \in DOMAIN caches'[e].entries, caches'[e].entries[j].ready
        PROVE  /\ j \in DOMAIN caches[e].entries /\ caches[e].entries[j].ready
               /\ caches'[e].entries[j].start = caches[e].entries[j].start
    <3>1. j \in DOMAIN caches[e].entries
      <4>1. DOMAIN caches'[e].entries
              = IF e = Device THEN DOMAIN caches[e].entries \cup {Tensor} ELSE DOMAIN caches[e].entries
        BY <1>3 DEF Joined
      <4>2. j = Tensor /\ e = Device => ~caches'[e].entries[j].ready
        BY <1>3 DEF EntryOf
      <4> QED BY <2>1, <4>1, <4>2
    <3>2. caches'[e].entries[j] = caches[e].entries[j]
      BY <1>3, <3>1 DEF Joined
    <3> QED BY <2>1, <3>1, <3>2
  <2> QED BY <1>2, <2>1, BytesKept, SMTT(30)
<1>7. ASSUME NEW i \in DOMAIN chunk PROVE EntryOf(caches', chunk[i]) = EntryOf(caches, chunk[i])
  <2>1. chunk[i].device \in Devices /\ chunk[i].key \in DOMAIN caches[chunk[i].device].entries
    BY <1>1, InChunk
  <2> QED BY <1>3, <2>1 DEF EntryOf, Joined
<1>8. /\ r.newly_admitted <=> ~EntryOf(caches', r).ready
      /\ (EntryOf(caches', r).pinned <=> prewarming) /\ EntryOf(caches', r).owner = Owner
  BY <1>3
<1> QED BY <1>1, <1>2, <1>3, <1>4, <1>5, <1>6, <1>7, <1>8, ChunkGrows

-----------------------------------------------------------------------------
(* A request arrives.                                                      *)

LEMMA SeqFrom == ASSUME NEW S, NEW n \in Nat, NEW f \in [1 .. n -> S] PROVE f \in Seq(S)
BY SMTT(30)

LEMMA KeysApart ==
    ASSUME NEW t, \A i, j \in DOMAIN t : t[i].key = t[j].key => i = j
    PROVE  \A r, q \in Elements(t) : r.key = q.key => r = q
BY DEF Elements

LEMMA KeysDistinct ==
    ASSUME NEW t, NEW s, DOMAIN t = DOMAIN s, Distinct(s), \A i \in DOMAIN s : t[i].key = s[i]
    PROVE  \A i, j \in DOMAIN t : t[i].key = t[j].key => i = j
BY DEF Distinct

\* The tensors of cached candidates, each on the first device that has it.
TensorsOf(hits) ==
    [i \in DOMAIN hits |-> ResidentTensor(hits[i], Least(Holders(hits[i])), FALSE, FALSE)]

\* The hits of a request, as they are referenced.
LEMMA HitsTaken ==
    ASSUME Books(caches, {}), NEW hits \in Seq(Keys), Distinct(hits),
           \A i \in DOMAIN hits : Holders(hits[i]) # {},
           NEW tensors, tensors = TensorsOf(hits)
    PROVE  /\ tensors \in Seq(TensorType) /\ DOMAIN tensors = DOMAIN hits
           /\ \A i \in DOMAIN hits : /\ tensors[i].key = hits[i] /\ ~tensors[i].newly_admitted
                                     /\ ~tensors[i].transient
           /\ \A i, j \in DOMAIN tensors : tensors[i].key = tensors[j].key => i = j
           /\ Taken(caches, Elements(tensors))
<1>1. DOMAIN tensors = DOMAIN hits
  BY DEF TensorsOf
<1>2. ASSUME NEW i \in DOMAIN hits
      PROVE  /\ tensors[i] \in TensorType /\ tensors[i].key = hits[i]
             /\ tensors[i].newly_admitted = FALSE /\ tensors[i].transient = FALSE
             /\ Holds(caches[tensors[i].device], tensors[i].key)
             /\ EntryOf(caches, tensors[i]).start = tensors[i].start
  <2> DEFINE k == hits[i]
             d == Least(Holders(k))
             r == ResidentTensor(k, d, FALSE, FALSE)
  <2>1. k \in Keys /\ Holders(k) # {}
    BY SMTT(30)
  <2>2. tensors[i] = r
    BY DEF TensorsOf
  <2> HIDE DEF k
  <2>3. d \in Devices /\ k \in DOMAIN caches[d].entries
    <3>1. Holders(k) \subseteq Nat
      BY EngineAssumption, SMTT(30) DEF Holders, Devices
    <3>2. d \in Holders(k)
      BY <2>1, <3>1, LeastIn
    <3> QED BY <3>2 DEF Holders, contains, Holds
  <2>4. caches[d].entries[k].start \in Starts
    <3>1. caches[d].entries[k] \in EntryType
      BY <2>3 DEF Books, Shelves, Sane, Shaped
    <3> QED BY <3>1 DEF EntryType
  <2> HIDE DEF d
  <2>5. /\ r \in TensorType /\ r.key = k /\ r.device = d /\ r.newly_admitted = FALSE
        /\ r.transient = FALSE /\ r.start = caches[d].entries[k].start
    BY <2>1, <2>3, <2>4 DEF ResidentTensor, TensorType
  <2> HIDE DEF r
  <2> QED BY <2>2, <2>3, <2>5 DEF Holds, EntryOf, k
<1>3. tensors \in Seq(TensorType)
  <2>1. tensors \in [1 .. Len(hits) -> TensorType]
    <3>1. \A i \in DOMAIN hits : tensors[i] \in TensorType
      BY <1>2
    <3>2. DOMAIN hits = 1 .. Len(hits)
      BY SMTT(30)
    <3>3. tensors = [i \in 1 .. Len(hits) |-> tensors[i]]
      BY <3>2 DEF TensorsOf
    <3> QED BY <3>1, <3>2, <3>3
  <2>2. Len(hits) \in Nat
    BY SMTT(30)
  <2> QED BY <2>1, <2>2, SeqFrom
<1>4. \A i, j \in DOMAIN tensors : tensors[i].key = tensors[j].key => i = j
  <2>1. \A i \in DOMAIN hits : tensors[i].key = hits[i]
    BY <1>2
  <2> QED BY <1>1, <2>1, KeysDistinct
<1>5. Taken(caches, Elements(tensors))
  <2>1. Elements(tensors) \subseteq TensorType
    BY <1>1, <1>2 DEF Elements
  <2>2. \A r \in Elements(tensors) : Holds(caches[r.device], r.key) /\ EntryOf(caches, r).start = r.start
    BY <1>1, <1>2 DEF Elements
  <2>3. \A r, q \in Elements(tensors) : r.key = q.key => r = q
    BY <1>4, KeysApart
  <2> QED BY <2>1, <2>2, <2>3 DEF Taken
<1> QED BY <1>1, <1>2, <1>3, <1>4, <1>5

\* References are taken to them on all devices.
LEMMA HitsReferenced ==
    ASSUME Books(caches, {}), NEW tensors, Taken(caches, Elements(tensors)), NEW cs2,
           cs2 = [d \in Devices |-> acquire_existing(caches[d], KeysOn(tensors, d))]
    PROVE  /\ Books(cs2, Elements(tensors))
           /\ \A d \in Devices :
                /\ Alike(caches[d], cs2[d])
                /\ \A j \in DOMAIN cs2[d].entries : cs2[d].entries[j].ready
                /\ \A j \in DOMAIN caches[d].entries : caches[d].entries[j].ready
<1>1. Shelves(caches) /\ Counted(caches, {})
  BY DEF Books
<1>2. \A d \in Devices : \A j \in DOMAIN caches[d].entries :
         caches[d].entries[j].references = 0 /\ caches[d].entries[j].ready
  BY <1>1 DEF Counted
<1>3. ASSUME NEW d \in Devices
      PROVE  /\ Alike(caches[d], cs2[d])
             /\ \A j \in DOMAIN caches[d].entries :
                    /\ cs2[d].entries[j].ready = caches[d].entries[j].ready
                    /\ cs2[d].entries[j].references
                         = IF j \in KeysOn(tensors, d) THEN 1 ELSE caches[d].entries[j].references
  <2>1. cs2[d] = acquire_existing(caches[d], KeysOn(tensors, d)) /\ Sane(caches[d])
    BY <1>1 DEF Shelves
  <2>2. \A k \in KeysOn(tensors, d) : k \in DOMAIN caches[d].entries => caches[d].entries[k].references = 0
    BY <1>2
  <2> QED BY <2>1, <2>2, AcquireAlike, SMTT(30)
<1>4. \A d \in Devices : DOMAIN cs2[d].entries = DOMAIN caches[d].entries
  BY <1>3 DEF Alike
<1>5. ASSUME NEW d \in Devices, NEW j \in DOMAIN caches[d].entries
      PROVE  j \in KeysOn(tensors, d) <=> \E q \in Elements(tensors) : q.key = j
  <2>1. ASSUME j \in KeysOn(tensors, d) PROVE \E q \in Elements(tensors) : q.key = j
    BY <2>1 DEF KeysOn, Elements
  <2>2. ASSUME NEW q \in Elements(tensors), q.key = j PROVE j \in KeysOn(tensors, d)
    <3>1. q \in TensorType /\ Holds(caches[q.device], j)
      BY <2>2 DEF Taken
    <3>2. q.device \in Devices /\ j \in Keys
      BY <2>2, <3>1 DEF TensorType
    <3>3. q.device = d
      BY <1>1, <3>1, <3>2 DEF Shelves, Holds
    <3> QED BY <2>2, <3>3 DEF KeysOn, Elements
  <2> QED BY <2>1, <2>2
<1>6. Counted(cs2, Elements(tensors))
  <2> SUFFICES ASSUME NEW d \in Devices, NEW j \in DOMAIN cs2[d].entries
               PROVE  /\ cs2[d].entries[j].references
                           = IF \E q \in Elements(tensors) : q.key = j THEN 1 ELSE 0
                      /\ cs2[d].entries[j].ready
    BY DEF Counted
  <2>1. j \in DOMAIN caches[d].entries
    BY <1>4
  <2>2. /\ cs2[d].entries[j].ready = caches[d].entries[j].ready
        /\ cs2[d].entries[j].references
             = IF j \in KeysOn(tensors, d) THEN 1 ELSE caches[d].entries[j].references
    BY <1>3, <2>1
  <2>3. caches[d].entries[j].references = 0 /\ caches[d].entries[j].ready
    BY <1>2, <2>1
  <2>4. j \in KeysOn(tensors, d) <=> \E q \in Elements(tensors) : q.key = j
    BY <1>5, <2>1
  <2> QED BY <2>2, <2>3, <2>4
<1>7. cs2 = [d \in Devices |-> cs2[d]]
  OBVIOUS
<1>8. Books(cs2, Elements(tensors))
  BY <1>1, <1>3, <1>6, <1>7, BooksAlike
<1>9. \A d \in Devices : \A j \in DOMAIN cs2[d].entries : cs2[d].entries[j].ready
  BY <1>2, <1>3, <1>4, SMTT(30)
<1> QED BY <1>2, <1>3, <1>8, <1>9

LEMMA ScoreKeeps == ASSUME IInv, NEW r \in Request, Score(r) PROVE IInv'
<1> DEFINE cand == r.candidates
           first == Firsts(cand)
           found == {i \in first : Holders(cand[i]) # {}}
           hits == Filtered(cand, found)
           misses == Filtered(cand, first \ found)
<1>1. /\ pc = Idle /\ request' = r /\ scores' = [i \in DOMAIN cand |-> None] /\ pending' = misses
      /\ chunk' = [i \in DOMAIN hits |-> ResidentTensor(hits[i], Least(Holders(hits[i])), FALSE, FALSE)]
      /\ caches' = [d \in Devices |-> acquire_existing(caches[d], KeysOn(chunk', d))]
      /\ pc' = "hits" /\ arena' = arena /\ next_device' = next_device /\ todo' = todo
      /\ attempt' = attempt
  BY DEF Score
<1>2. Typed /\ Books(caches, {}) /\ Bytes(caches, arena)
  BY <1>1, NoElements DEF IInv, Placed, Held, Idle
<1>3. cand \in Seq(Keys) /\ r # NoRequest
  BY RequestIs
<1> HIDE DEF cand
<1>4. /\ first \subseteq DOMAIN cand /\ (\A i, j \in first : cand[i] = cand[j] => i = j)
      /\ {cand[i] : i \in first} = Elements(cand)
  BY <1>3, FirstsCover
<1> HIDE DEF first
<1>5. /\ hits \in Seq(Keys) /\ Distinct(hits) /\ Elements(hits) = {cand[i] : i \in found}
  <2>1. found \subseteq DOMAIN cand /\ \A i, j \in found : cand[i] = cand[j] => i = j
    BY <1>4
  <2> HIDE DEF found
  <2> QED BY <1>3, <2>1, FilteredIs
<1>6. /\ misses \in Seq(Keys) /\ Distinct(misses) /\ Elements(misses) = {cand[i] : i \in first \ found}
  <2> DEFINE rest == first \ found
  <2>1. rest \subseteq DOMAIN cand /\ \A i, j \in rest : cand[i] = cand[j] => i = j
    BY <1>4
  <2> HIDE DEF rest
  <2>2. /\ Filtered(cand, rest) \in Seq(Keys) /\ Distinct(Filtered(cand, rest))
        /\ Elements(Filtered(cand, rest)) = {cand[i] : i \in rest}
    BY <1>3, <2>1, FilteredIs
  <2> QED BY <2>2 DEF rest
<1>7. \A i \in DOMAIN hits : Holders(hits[i]) # {}
  <2>1. \A k \in Elements(hits) : Holders(k) # {}
    BY <1>5
  <2> HIDE DEF hits
  <2> QED BY <2>1 DEF Elements
<1> HIDE DEF hits, misses
<1>8. /\ chunk' \in Seq(TensorType) /\ DOMAIN chunk' = DOMAIN hits
      /\ \A i \in DOMAIN hits : /\ chunk'[i].key = hits[i] /\ ~chunk'[i].newly_admitted
                                /\ ~chunk'[i].transient
      /\ \A i, j \in DOMAIN chunk' : chunk'[i].key = chunk'[j].key => i = j
      /\ Taken(caches, Elements(chunk'))
  <2> DEFINE t == chunk'
  <2>1. t = TensorsOf(hits)
    BY <1>1 DEF TensorsOf
  <2> HIDE DEF t
  <2>2. /\ t \in Seq(TensorType) /\ DOMAIN t = DOMAIN hits
        /\ \A i \in DOMAIN hits : t[i].key = hits[i] /\ ~t[i].newly_admitted /\ ~t[i].transient
        /\ \A i, j \in DOMAIN t : t[i].key = t[j].key => i = j
        /\ Taken(caches, Elements(t))
    BY <1>2, <1>5, <1>7, <2>1, HitsTaken, SMTT(30)
  <2> QED BY <2>2 DEF t
<1>9. /\ Books(caches', Elements(chunk'))
      /\ \A d \in Devices :
           /\ Alike(caches[d], caches'[d])
           /\ \A j \in DOMAIN caches'[d].entries : caches'[d].entries[j].ready
           /\ \A j \in DOMAIN caches[d].entries : caches[d].entries[j].ready
  <2> DEFINE t == chunk'
             cs2 == caches'
  <2>1. cs2 = [d \in Devices |-> acquire_existing(caches[d], KeysOn(t, d))] /\ Taken(caches, Elements(t))
    BY <1>1, <1>8
  <2> HIDE DEF t, cs2
  <2>2. /\ Books(cs2, Elements(t))
        /\ \A d \in Devices :
             /\ Alike(caches[d], cs2[d])
             /\ \A j \in DOMAIN cs2[d].entries : cs2[d].entries[j].ready
             /\ \A j \in DOMAIN caches[d].entries : caches[d].entries[j].ready
    BY <1>2, <2>1, HitsReferenced
  <2> QED BY <2>2 DEF t, cs2
<1>10. ~prewarming' /\ request'.candidates = cand
  BY <1>1, <1>3 DEF prewarming, cand
<1>11. Typed'
  <2>1. scores' \in [DOMAIN cand -> Keys \cup {None, NoKey}]
    BY <1>1
  <2>2. request' \in Request \cup {NoRequest}
    BY <1>1
  <2> QED BY <1>1, <1>2, <1>6, <1>8, <1>10, <2>1, <2>2 DEF Typed, Places
<1>12. Placed'
  BY <1>1, <1>8, <1>10 DEF Placed, Idle
<1>13. Held'
  <2>1. Bytes(caches', arena')
    <3>1. \A d \in Devices : \A k \in DOMAIN caches'[d].entries : caches'[d].entries[k].ready =>
             /\ k \in DOMAIN caches[d].entries /\ caches[d].entries[k].ready
             /\ caches'[d].entries[k].start = caches[d].entries[k].start
      BY <1>9 DEF Alike
    <3> DEFINE cs2 == caches'
    <3> HIDE DEF cs2
    <3>2. Bytes(cs2, arena)
      BY <1>2, <3>1, BytesKept, SMTT(30) DEF cs2
    <3> QED BY <1>1, <3>2 DEF cs2
  <2>2. ASSUME NEW i \in DOMAIN chunk' PROVE Handled(chunk[i])'
    <3> DEFINE q == chunk'[i]
    <3>1. q \in Elements(chunk') /\ ~q.newly_admitted /\ ~q.transient
      BY <1>8 DEF Elements
    <3> HIDE DEF q
    <3>2. q.device \in Devices /\ q.key \in DOMAIN caches'[q.device].entries
      BY <1>9, <3>1 DEF Books, Taken, TensorType, Holds
    <3>3. EntryOf(caches', q).ready
      BY <1>9, <3>2 DEF EntryOf
    <3> QED BY <1>1, <3>1, <3>3 DEF Handled, q
  <2> QED BY <1>1, <1>9, <2>1, <2>2 DEF Held
<1>14. Scored'
  <2>1. \A k : Waiting(k)' <=> k \in Elements(misses) \/ k \in Elements(hits)
    <3>1. \A k : (\E i \in DOMAIN chunk' : chunk'[i].key = k) <=> k \in Elements(hits)
      BY <1>8, SMTT(30) DEF Elements
    <3>2. Elements(pending') = Elements(misses)
      BY <1>1
    <3> QED BY <1>1, <3>1, <3>2 DEF Waiting
  <2>2. \A k : k \in Elements(misses) \/ k \in Elements(hits) <=> k \in Elements(cand)
    <3>1. found \subseteq first
      OBVIOUS
    <3> HIDE DEF found
    <3> QED BY <1>4, <1>5, <1>6, <3>1
  <2>3. \A i \in DOMAIN scores' : scores'[i] \in {None, cand[i]}
    BY <1>1
  <2> QED BY <1>10, <2>1, <2>2, <2>3 DEF Scored
<1> QED BY <1>11, <1>12, <1>13, <1>14 DEF IInv

-----------------------------------------------------------------------------
(* A chunk is uploaded.                                                    *)

LEMMA AlikeSelf == ASSUME NEW c, Sane(c) PROVE Alike(c, c)
BY DEF Sane, Shaped, Alike

\* The tensor of the chunk that is uploaded to a block.
Into(d, b) ==
    {i \in DOMAIN chunk : chunk[i].newly_admitted /\ chunk[i].device = d /\ b \in BlocksOf(chunk[i])}

\* The arenas after the upload.
Uploaded(failed) ==
    [d \in Devices |-> [b \in Starts |->
           IF \E i \in DOMAIN chunk : /\ chunk[i].newly_admitted /\ chunk[i].device = d
                                      /\ b \in BlocksOf(chunk[i])
           THEN IF d \in failed THEN NoKey
                ELSE chunk[CHOOSE i \in DOMAIN chunk : /\ chunk[i].newly_admitted /\ chunk[i].device = d
                                                       /\ b \in BlocksOf(chunk[i])].key
           ELSE arena[d][b]]]

LEMMA UploadedAt ==
    ASSUME NEW failed, NEW d \in Devices, NEW b \in Starts
    PROVE  /\ Into(d, b) # {} /\ d \in failed => Uploaded(failed)[d][b] = NoKey
           /\ Into(d, b) # {} /\ d \notin failed => \E i \in Into(d, b) : Uploaded(failed)[d][b] = chunk[i].key
           /\ Into(d, b) = {} => Uploaded(failed)[d][b] = arena[d][b]
<1> DEFINE P(i) == chunk[i].newly_admitted /\ chunk[i].device = d /\ b \in BlocksOf(chunk[i])
           m == CHOOSE i \in DOMAIN chunk : P(i)
           v == IF \E i \in DOMAIN chunk : P(i) THEN IF d \in failed THEN NoKey ELSE chunk[m].key
                ELSE arena[d][b]
<1>1. Uploaded(failed)[d][b] = v
  BY DEF Uploaded
<1>2. Into(d, b) = {i \in DOMAIN chunk : P(i)}
  BY DEF Into
<1>3. Into(d, b) # {} => m \in Into(d, b)
  <2> HIDE DEF P
  <2> QED BY <1>2
<1> HIDE DEF P, m
<1> QED BY <1>1, <1>2, <1>3

LEMMA UploadedType ==
    ASSUME IInv, NEW failed PROVE Uploaded(failed) \in ArenaType
<1>1. arena \in ArenaType /\ chunk \in Seq(TensorType)
  BY DEF IInv, Typed, ArenaType
<1> DEFINE u == Uploaded(failed)
<1>2. ASSUME NEW d \in Devices, NEW b \in Starts PROVE u[d][b] \in Keys \cup {NoKey}
  <2>1. \A i \in Into(d, b) : chunk[i].key \in Keys
    <3>1. ASSUME NEW i \in Into(d, b) PROVE chunk[i].key \in Keys
      <4>1. chunk[i] \in TensorType
        BY <1>1, SMTT(30) DEF Into
      <4> QED BY <4>1 DEF TensorType
    <3> QED BY <3>1
  <2>2. arena[d][b] \in Keys \cup {NoKey}
    BY <1>1 DEF ArenaType
  <2> HIDE DEF u
  <2>3. /\ Into(d, b) # {} /\ d \in failed => u[d][b] = NoKey
        /\ Into(d, b) # {} /\ d \notin failed => \E i \in Into(d, b) : u[d][b] = chunk[i].key
        /\ Into(d, b) = {} => u[d][b] = arena[d][b]
    BY UploadedAt DEF u
  <2> QED BY <2>1, <2>2, <2>3
<1>3. u = [d \in Devices |-> u[d]] /\ \A d \in Devices : u[d] = [b \in Starts |-> u[d][b]]
  BY DEF Uploaded
<1> HIDE DEF u
<1>4. \A d \in Devices : u[d] \in [Starts -> Keys \cup {NoKey}]
  BY <1>2, <1>3
<1>5. u \in ArenaType
  BY <1>3, <1>4 DEF ArenaType
<1> QED BY <1>5 DEF u

\* Which entries are marked.
LEMMA MarkedIs ==
    ASSUME IInv, pc = "upload", NEW failed
    PROVE  /\ Marked(failed) = [d \in Devices |-> Marked(failed)[d]]
           /\ \A d \in Devices :
                /\ Alike(caches[d], Marked(failed)[d])
                /\ \A k \in DOMAIN caches[d].entries :
                       /\ Marked(failed)[d].entries[k].references = caches[d].entries[k].references
                       /\ Marked(failed)[d].entries[k].ready
                            <=> caches[d].entries[k].ready \/ (d \notin failed /\ k \in NewOn(chunk, d))
<1> DEFINE cs2 == Marked(failed)
<1>1. cs2 = [d \in Devices |-> cs2[d]]
  BY DEF Marked
<1>2. ASSUME NEW d \in Devices
      PROVE  /\ Alike(caches[d], cs2[d])
             /\ \A k \in DOMAIN caches[d].entries :
                       /\ cs2[d].entries[k].references = caches[d].entries[k].references
                       /\ cs2[d].entries[k].ready
                            <=> caches[d].entries[k].ready \/ (d \notin failed /\ k \in NewOn(chunk, d))
  <2>1. Sane(caches[d])
    BY DEF IInv, Held, Books, Shelves
  <2>2. cs2[d] = IF d \in failed THEN caches[d] ELSE mark_ready(caches[d], NewOn(chunk, d))
    BY DEF Marked
  <2> HIDE DEF cs2
  <2>3. CASE d \in failed
    BY <2>1, <2>2, <2>3, AlikeSelf
  <2>4. CASE d \notin failed
    <3>1. cs2[d] = mark_ready(caches[d], NewOn(chunk, d))
      BY <2>2, <2>4
    <3>2. /\ Alike(caches[d], cs2[d])
          /\ \A j \in DOMAIN caches[d].entries :
                 /\ cs2[d].entries[j].references = caches[d].entries[j].references
                 /\ cs2[d].entries[j].ready <=> j \in NewOn(chunk, d) \/ caches[d].entries[j].ready
      BY <2>1, <3>1, MarkAlike, SMTT(30)
    <3> QED BY <2>4, <3>2
  <2> QED BY <2>3, <2>4
<1> QED BY <1>1, <1>2

\* A new tensor of the chunk is loading, the others are ready.
LEMMA NewIsLoading ==
    ASSUME IInv, pc = "upload", NEW d \in Devices, NEW k \in NewOn(chunk, d)
    PROVE  k \in DOMAIN caches[d].entries /\ ~caches[d].entries[k].ready
<1>1. PICK i \in DOMAIN chunk : chunk[i].device = d /\ chunk[i].newly_admitted /\ chunk[i].key = k
  BY DEF NewOn
<1> QED BY <1>1, InChunk DEF Handled, EntryOf

\* The books and the bytes after the entries have been marked.
LEMMA MarkedBooks ==
    ASSUME IInv, pc = "upload", NEW failed
    PROVE  Books(Marked(failed), Elements(chunk)) /\ Bytes(Marked(failed), Uploaded(failed))
<1> DEFINE cs2 == Marked(failed)
           u == Uploaded(failed)
<1>1. /\ cs2 = [d \in Devices |-> cs2[d]]
      /\ \A d \in Devices :
           /\ Alike(caches[d], cs2[d])
           /\ \A k \in DOMAIN caches[d].entries :
                  /\ cs2[d].entries[k].references = caches[d].entries[k].references
                  /\ cs2[d].entries[k].ready
                       <=> caches[d].entries[k].ready \/ (d \notin failed /\ k \in NewOn(chunk, d))
  BY MarkedIs
<1>2. /\ Shelves(caches) /\ Taken(caches, Elements(chunk)) /\ Counted(caches, Elements(chunk))
      /\ Bytes(caches, arena)
  BY DEF IInv, Held, Books
<1> HIDE DEF cs2, u
<1>3. \A d \in Devices : /\ DOMAIN cs2[d].entries = DOMAIN caches[d].entries
                         /\ \A k \in DOMAIN caches[d].entries :
                                cs2[d].entries[k].start = caches[d].entries[k].start
  BY <1>1 DEF Alike
<1>4. Counted(cs2, Elements(chunk))
  <2> SUFFICES ASSUME NEW d \in Devices, NEW k \in DOMAIN cs2[d].entries
               PROVE  /\ cs2[d].entries[k].references
                           = IF \E r \in Elements(chunk) : r.key = k THEN 1 ELSE 0
                      /\ ~cs2[d].entries[k].ready
                           => \E r \in Elements(chunk) : r.key = k /\ r.newly_admitted
    BY DEF Counted
  <2>1. k \in DOMAIN caches[d].entries
    BY <1>3
  <2>2. /\ caches[d].entries[k].references = IF \E r \in Elements(chunk) : r.key = k THEN 1 ELSE 0
        /\ ~caches[d].entries[k].ready => \E r \in Elements(chunk) : r.key = k /\ r.newly_admitted
    BY <1>2, <2>1 DEF Counted
  <2> QED BY <1>1, <2>1, <2>2
<1>5. Books(cs2, Elements(chunk))
  BY <1>1, <1>2, <1>4, BooksAlike
<1>6. Bytes(cs2, u)
  <2> SUFFICES ASSUME NEW d \in Devices, NEW k \in DOMAIN cs2[d].entries, cs2[d].entries[k].ready,
                      NEW b \in cs2[d].entries[k].start .. cs2[d].entries[k].start + Blocks[k] - 1
               PROVE  u[d][b] = k
    BY DEF Bytes
  <2> DEFINE e == caches[d].entries[k]
  <2>1. /\ k \in DOMAIN caches[d].entries /\ b \in e.start .. e.start + Blocks[k] - 1
        /\ e.ready \/ (d \notin failed /\ k \in NewOn(chunk, d))
    BY <1>1, <1>3
  <2>2. Sane(caches[d])
    BY <1>2 DEF Shelves
  <2>3. b \in Starts
    BY <2>1, <2>2, PagesApart
  <2>4. ASSUME NEW i \in Into(d, b) PROVE chunk[i].key = k /\ ~e.ready
    <3>1. i \in DOMAIN chunk /\ chunk[i].newly_admitted /\ chunk[i].device = d /\ b \in BlocksOf(chunk[i])
      BY DEF Into
    <3> DEFINE j == chunk[i].key
    <3>2. /\ j \in DOMAIN caches[d].entries /\ caches[d].entries[j].start = chunk[i].start
          /\ ~caches[d].entries[j].ready
      BY <3>1, InChunk DEF Handled, EntryOf
    <3>3. b \in caches[d].entries[j].start .. caches[d].entries[j].start + Blocks[j] - 1
      BY <3>1, <3>2 DEF BlocksOf
    <3> HIDE DEF j
    <3>4. j = k
      BY <2>1, <2>2, <2>3, <3>2, <3>3, PagesApart
    <3> QED BY <3>2, <3>4 DEF j
  <2>5. /\ Into(d, b) # {} /\ d \notin failed => \E i \in Into(d, b) : u[d][b] = chunk[i].key
        /\ Into(d, b) = {} => u[d][b] = arena[d][b]
    BY <2>3, UploadedAt DEF u
  <2>6. CASE e.ready
    <3>1. arena[d][b] = k
      BY <1>2, <2>1, <2>6 DEF Bytes
    <3> QED BY <2>4, <2>5, <2>6, <3>1
  <2>7. CASE ~e.ready
    <3>1. d \notin failed /\ k \in NewOn(chunk, d)
      BY <2>1, <2>7
    <3>2. PICK i \in DOMAIN chunk : chunk[i].device = d /\ chunk[i].newly_admitted /\ chunk[i].key = k
      BY <3>1 DEF NewOn
    <3>3. chunk[i].start = e.start
      BY <3>2, InChunk DEF EntryOf
    <3>4. b \in BlocksOf(chunk[i])
      BY <2>1, <3>2, <3>3 DEF BlocksOf
    <3>5. i \in Into(d, b)
      BY <3>2, <3>4 DEF Into
    <3> QED BY <2>4, <2>5, <3>1, <3>5
  <2> QED BY <2>6, <2>7
<1> QED BY <1>5, <1>6 DEF cs2, u

\* The cleanup after a failed upload, and the end of a prewarm batch.
LEMMA CleanedBooks ==
    ASSUME IInv, pc = "upload", NEW failed
    PROVE  LET gone == Doomed(chunk, failed)
               cs2 == Marked(failed)
               cs3 == ReleaseAll(cs2, chunk, gone)
           IN  /\ Books(cs3, {}) /\ Bytes(cs3, Uploaded(failed))
               /\ Shrunk(cs2, cs3, gone, Owner)
<1> DEFINE gone == Doomed(chunk, failed)
           cs2 == Marked(failed)
           cs3 == ReleaseAll(cs2, chunk, gone)
<1>1. /\ chunk \in Seq(TensorType) /\ \A i, j \in DOMAIN chunk : chunk[i].key = chunk[j].key => i = j
  BY DEF IInv, Typed, Placed
<1>2. Books(cs2, Elements(chunk)) /\ Bytes(cs2, Uploaded(failed))
  BY MarkedBooks
<1>3. ASSUME NEW i \in DOMAIN chunk
      PROVE  /\ chunk[i] \in gone => EntryOf(cs2, chunk[i]).owner = Owner
             /\ chunk[i] \notin gone => EntryOf(cs2, chunk[i]).ready
  <2> DEFINE r == chunk[i]
             e == EntryOf(caches, r)
             e2 == EntryOf(cs2, r)
  <2>1. /\ r \in Elements(chunk) /\ r.device \in Devices /\ r.key \in DOMAIN caches[r.device].entries
        /\ (r.newly_admitted <=> ~e.ready) /\ (r.newly_admitted => e.owner = Owner)
    BY InChunk DEF Handled
  <2>2. Alike(caches[r.device], cs2[r.device])
    BY <2>1, MarkedIs
  <2>3. e2.owner = e.owner
    BY <2>1, <2>2 DEF Alike, EntryOf
  <2>4. e2.ready <=> e.ready \/ (r.device \notin failed /\ r.key \in NewOn(chunk, r.device))
    BY <2>1, MarkedIs, SMTT(30) DEF EntryOf
  <2>5. r.newly_admitted => r.key \in NewOn(chunk, r.device)
    BY DEF NewOn
  <2>6. r \in gone <=> r.newly_admitted /\ (r.device \in failed \/ r.transient)
    BY <2>1 DEF Doomed
  <2> HIDE DEF r, e, e2, gone
  <2>7. (r \in gone => e2.owner = Owner) /\ (r \notin gone => e2.ready)
    BY <2>1, <2>3, <2>4, <2>5, <2>6
  <2> QED BY <2>7 DEF r, e2
<1> HIDE DEF gone, cs2
<1>4. Books(cs3, {}) /\ Shrunk(cs2, cs3, gone, Owner)
  BY <1>1, <1>2, <1>3, Released
<1> HIDE DEF cs3
<1>5. Bytes(cs3, Uploaded(failed))
  BY <1>2, <1>4, ShrunkBytes
<1> QED BY <1>4, <1>5 DEF gone, cs2, cs3

\* What Upload does.
LEMMA UploadIs ==
    ASSUME NEW failed, Upload(failed)
    PROVE  LET marked == Marked(failed)
               cleaned == ReleaseAll(marked, chunk, Doomed(chunk, failed))
           IN  /\ pc = "upload" /\ arena' = Uploaded(failed) /\ next_device' = next_device /\ todo' = todo
               /\ \/ caches' = cleaned /\ Fail
                  \/ /\ caches' = cleaned /\ prewarming
                     /\ pc' = "prewarm" /\ pending' = <<>> /\ chunk' = <<>>
                     /\ request' = request /\ scores' = scores /\ attempt' = attempt
                  \/ /\ caches' = marked /\ failed = {} /\ ~prewarming
                     /\ pc' = "score" /\ request' = request /\ scores' = scores
                     /\ pending' = pending /\ chunk' = chunk /\ attempt' = attempt
<1> DEFINE marked == Marked(failed)
           cleaned == ReleaseAll(marked, chunk, Doomed(chunk, failed))
<1>1. pc = "upload" /\ arena' = Uploaded(failed) /\ next_device' = next_device /\ todo' = todo
  BY DEF Upload, Uploaded
<1>2. (CASE failed # {} -> caches' = cleaned /\ Fail
         [] failed = {} /\ prewarming ->
                /\ caches' = cleaned
                /\ pc' = "prewarm" /\ pending' = <<>> /\ chunk' = <<>>
                /\ UNCHANGED <<request, scores, attempt>>
         [] OTHER -> caches' = marked /\ pc' = "score"
                     /\ UNCHANGED <<request, scores, pending, chunk, attempt>>)
  BY DEF Upload
<1> HIDE DEF cleaned, marked
<1>3. CASE failed # {}
  <2>1. caches' = cleaned /\ Fail
    BY <1>2, <1>3
  <2> QED BY <1>1, <2>1 DEF cleaned, marked
<1>4. CASE failed = {} /\ prewarming
  <2>1. /\ caches' = cleaned
        /\ pc' = "prewarm" /\ pending' = <<>> /\ chunk' = <<>>
        /\ request' = request /\ scores' = scores /\ attempt' = attempt
    BY <1>2, <1>4
  <2> QED BY <1>1, <1>4, <2>1 DEF cleaned, marked
<1>5. CASE failed = {} /\ ~prewarming
  <2>1. /\ caches' = marked /\ pc' = "score" /\ request' = request /\ scores' = scores
        /\ pending' = pending /\ chunk' = chunk /\ attempt' = attempt
    BY <1>2, <1>5
  <2> QED BY <1>1, <1>5, <2>1 DEF cleaned, marked
<1> QED BY <1>3, <1>4, <1>5

LEMMA UploadKeeps == ASSUME IInv, NEW failed, Upload(failed) PROVE IInv'
<1> DEFINE marked == Marked(failed)
           cleaned == ReleaseAll(marked, chunk, Doomed(chunk, failed))
<1>1. /\ pc = "upload" /\ arena' = Uploaded(failed) /\ next_device' = next_device /\ todo' = todo
      /\ \/ caches' = cleaned /\ Fail
         \/ /\ caches' = cleaned /\ prewarming
            /\ pc' = "prewarm" /\ pending' = <<>> /\ chunk' = <<>>
            /\ request' = request /\ scores' = scores /\ attempt' = attempt
         \/ /\ caches' = marked /\ failed = {} /\ ~prewarming
            /\ pc' = "score" /\ request' = request /\ scores' = scores
            /\ pending' = pending /\ chunk' = chunk /\ attempt' = attempt
  BY UploadIs
<1>2. Typed /\ Placed /\ Scored /\ arena' \in ArenaType
  BY <1>1, UploadedType DEF IInv
<1>3. Books(cleaned, {}) /\ Bytes(cleaned, arena')
  BY <1>1, CleanedBooks
<1> HIDE DEF cleaned
<1>4. CASE caches' = cleaned /\ Fail
  <2>1. CASE prewarming
    <3>1. Stop
      BY <1>4, <2>1 DEF Fail
    <3> QED BY <1>1, <1>2, <1>3, <1>4, <2>1, <3>1, StoppedThere DEF Books
  <2>2. CASE ~prewarming
    <3>1. Finish
      BY <1>4, <2>2 DEF Fail
    <3> QED BY <1>1, <1>2, <1>3, <1>4, <3>1, Finished
  <2> QED BY <2>1, <2>2
<1>5. CASE /\ caches' = cleaned /\ prewarming
           /\ pc' = "prewarm" /\ pending' = <<>> /\ chunk' = <<>>
           /\ request' = request /\ scores' = scores /\ attempt' = attempt
  <2>1. Typed'
    <3>1. pending' \in Seq(Keys) /\ chunk' \in Seq(TensorType) /\ Distinct(pending')
      BY <1>5, NoElements, SMTT(30)
    <3> QED BY <1>1, <1>2, <1>5, <3>1 DEF Typed, Places, ArenaType
  <2>2. prewarming'
    BY <1>5 DEF prewarming
  <2>3. Placed'
    BY <1>5, <2>2, NoElements, SMTT(30) DEF Placed, Idle
  <2>4. Held'
    BY <1>3, <1>5, NoElements DEF Held
  <2> QED BY <2>1, <2>2, <2>3, <2>4 DEF IInv, Scored
<1>6. CASE /\ caches' = marked /\ failed = {} /\ ~prewarming
           /\ pc' = "score" /\ request' = request /\ scores' = scores
           /\ pending' = pending /\ chunk' = chunk /\ attempt' = attempt
  <2>1. Typed'
    BY <1>1, <1>2, <1>6 DEF Typed, Places, ArenaType
  <2>2. ~prewarming' /\ Owner' = Owner
    BY <1>6 DEF prewarming, Owner
  <2>3. Placed'
    BY <1>1, <1>2, <1>6, <2>2 DEF Placed, Idle
  <2>4. Books(caches', Elements(chunk')) /\ Bytes(caches', arena')
    BY <1>1, <1>6, MarkedBooks
  <2>5. ASSUME NEW i \in DOMAIN chunk' PROVE Handled(chunk[i])'
    <3> DEFINE r == chunk[i]
               e == EntryOf(caches, r)
               e2 == EntryOf(caches', r)
    <3>1. i \in DOMAIN chunk /\ chunk'[i] = r
      BY <1>6
    <3>2. /\ r.device \in Devices /\ r.key \in DOMAIN caches[r.device].entries
          /\ (r.newly_admitted <=> ~e.ready) /\ (r.newly_admitted => ~e.pinned /\ e.owner = Owner)
          /\ (r.transient => r.newly_admitted)
      BY <1>1, <1>6, <3>1, InChunk DEF Handled
    <3>3. Alike(caches[r.device], caches'[r.device])
      BY <1>1, <1>6, <3>2, MarkedIs
    <3>4. e2.owner = e.owner /\ e2.pinned = e.pinned
      BY <3>2, <3>3 DEF Alike, EntryOf
    <3>5. e2.ready <=> e.ready \/ (r.device \notin failed /\ r.key \in NewOn(chunk, r.device))
      BY <1>1, <1>6, <3>2, MarkedIs, SMTT(30) DEF EntryOf
    <3>6. r.newly_admitted => r.key \in NewOn(chunk, r.device)
      BY <3>1 DEF NewOn
    <3> HIDE DEF r, e, e2
    <3>7. e2.ready
      BY <1>6, <3>2, <3>5, <3>6
    <3> QED BY <1>6, <2>2, <3>1, <3>2, <3>4, <3>7 DEF Handled, e2
  <2>6. Held'
    BY <1>6, <2>4, <2>5 DEF Held
  <2>7. Scored'
    BY <1>1, <1>2, <1>6 DEF Scored, Waiting, FirstIndex, prewarming
  <2> QED BY <2>1, <2>3, <2>6, <2>7 DEF IInv
<1> QED BY <1>1, <1>4, <1>5, <1>6

\* Every step of the engine keeps the invariant.
LEMMA Kept == ASSUME IInv, [Next]_vars PROVE IInv'
<1>1. CASE UNCHANGED vars
  <2>1. /\ caches' = caches /\ arena' = arena /\ next_device' = next_device /\ pc' = pc /\ todo' = todo
        /\ request' = request /\ scores' = scores /\ pending' = pending /\ chunk' = chunk
        /\ attempt' = attempt
    BY <1>1 DEF vars
  <2>2. Typed'
    BY <2>1 DEF IInv, Typed
  <2>3. Placed'
    BY <2>1 DEF IInv, Placed, prewarming, Tensor
  <2>4. Held'
    BY <2>1 DEF IInv, Held, Handled, EntryOf, Owner, prewarming
  <2>5. Scored'
    BY <2>1 DEF IInv, Scored, Waiting, FirstIndex, prewarming
  <2> QED BY <2>2, <2>3, <2>4, <2>5 DEF IInv
<1>2. ASSUME NEW r \in Request, Score(r) PROVE IInv'
  BY <1>2, ScoreKeeps
<1>3. ASSUME NEW failed, Upload(failed) PROVE IInv'
  BY <1>3, UploadKeeps
<1>4. CASE Step
  BY <1>3, <1>4, PrewarmBatchKeeps, PrewarmUnreadableKeeps, PrewarmDoneKeeps, ScoreHitsKeeps,
     ScoreHitsFailsKeeps, NextItemKeeps, EndItemsKeeps, EvictOwnKeeps, EvictAnyKeeps, DeferKeeps,
     RejectKeeps, PlaceKeeps, ScoreChunkKeeps, ScoreChunkFailsKeeps, CollectKeeps, AnswerKeeps
     DEF Step
<1> QED BY <1>1, <1>2, <1>4 DEF Next, Stopped

\* What the engine, its caches and its arenas look like between any two steps: an entry
\* is referenced exactly when the chunk holds it and loading only when the chunk admitted
\* it, ready entries have their tensor's bytes, and every candidate has a score or waits.
THEOREM Invariance == Spec => []IInv
<1>1. Init => IInv
  BY Initially
<1>2. IInv /\ [Next]_vars => IInv'
  BY Kept
<1> QED BY <1>1, <1>2, PTL DEF Spec

-----------------------------------------------------------------------------
(* What eviction spares.                                                   *)

\* What work for who spares in a cache.
Spares(c, cc, who) == PinnedKept(c, cc) /\ \A t \in Tenants \ {who} : ReservationKept(c, cc, t)

\* Nothing is lost from a cache in which entries stay and no tenant has less.
LEMMA SparesMore ==
    ASSUME NEW c, NEW cc, NEW who, Shaped(c), cc.tenant_allocated \in [Owners -> Int],
           \A k \in DOMAIN c.entries :
               /\ k \in DOMAIN cc.entries /\ cc.entries[k].pinned = c.entries[k].pinned
               /\ cc.entries[k].start = c.entries[k].start,
           \A t \in Owners : cc.tenant_allocated[t] >= c.tenant_allocated[t]
    PROVE  Spares(c, cc, who)
<1>1. PinnedKept(c, cc)
  BY DEF PinnedKept
<1>2. ASSUME NEW t \in Tenants PROVE ReservationKept(c, cc, t)
  <2>1. t \in Owners /\ c.tenant_allocated[t] \in Nat /\ cc.tenant_allocated[t] \in Int
    BY DEF Owners, Shaped
  <2>2. cc.tenant_allocated[t] >= c.tenant_allocated[t]
    BY <2>1
  <2> QED BY <2>1, <2>2, SMTT(30) DEF ReservationKept
<1> QED BY <1>1, <1>2 DEF Spares

LEMMA SparesSame == ASSUME NEW c, NEW who, Shaped(c) PROVE Spares(c, c, who)
<1>1. c.tenant_allocated \in [Owners -> Int] /\ \A t \in Owners : c.tenant_allocated[t] \in Nat
  BY SMTT(30) DEF Shaped
<1> QED BY <1>1, SparesMore, SMTT(30)

LEMMA SparesAlike == ASSUME NEW c, NEW cc, NEW who, Shaped(c), Alike(c, cc) PROVE Spares(c, cc, who)
<1>1. /\ DOMAIN cc.entries = DOMAIN c.entries
      /\ \A k \in DOMAIN c.entries : /\ cc.entries[k].pinned = c.entries[k].pinned
                                     /\ cc.entries[k].start = c.entries[k].start
  BY DEF Alike
<1>2. cc.tenant_allocated = c.tenant_allocated
  <2>1. cc = CacheOf(c.allocator, cc.entries, c.tenant_allocated, c.pinned)
    BY DEF Alike
  <2> QED BY <2>1, Fields, SMTT(30)
<1>3. c.tenant_allocated \in [Owners -> Int] /\ \A t \in Owners : c.tenant_allocated[t] \in Nat
  BY SMTT(30) DEF Shaped
<1> QED BY <1>1, <1>2, <1>3, SparesMore, SMTT(30)

\* acquire_existing of entries that nobody holds.
LEMMA SparesAcquire ==
    ASSUME NEW c, NEW who, Shaped(c), NEW hits PROVE Spares(c, acquire_existing(c, hits), who)
<1> DEFINE cc == acquire_existing(c, hits)
<1>1. /\ cc.entries = Acquired(c, hits) /\ cc.tenant_allocated = c.tenant_allocated
  BY AcquireFields, Fields, SMTT(30)
<1> HIDE DEF cc
<1>2. ASSUME NEW k \in DOMAIN c.entries
      PROVE  /\ k \in DOMAIN cc.entries /\ cc.entries[k].pinned = c.entries[k].pinned
             /\ cc.entries[k].start = c.entries[k].start
  <2>1. c.entries[k] \in EntryType
    BY DEF Shaped
  <2>2. cc.entries[k] = IF k \in hits THEN [c.entries[k] EXCEPT !.references = @ + 1] ELSE c.entries[k]
    BY <1>1 DEF Acquired
  <2>3. k \in DOMAIN cc.entries
    BY <1>1 DEF Acquired
  <2> DEFINE e == c.entries[k]
  <2> HIDE DEF e
  <2>4. [e EXCEPT !.references = @ + 1].pinned = e.pinned /\ [e EXCEPT !.references = @ + 1].start = e.start
    BY <2>1 DEF EntryType, e
  <2> QED BY <2>2, <2>3, <2>4 DEF e
<1>3. c.tenant_allocated \in [Owners -> Int] /\ \A t \in Owners : c.tenant_allocated[t] \in Nat
  BY SMTT(30) DEF Shaped
<1>4. Spares(c, cc, who)
  BY <1>1, <1>2, <1>3, SparesMore, SMTT(30)
<1> QED BY <1>4 DEF cc

\* An entry that is neither pinned nor of another tenant's reservation is removed.
LEMMA SparesRemove ==
    ASSUME NEW c, NEW who, Sane(c), NEW k \in DOMAIN c.entries, ~c.entries[k].pinned,
           c.entries[k].owner = who \/ can_evict(c, k)
    PROVE  Spares(c, remove_entry(c, k), who)
<1> DEFINE cc == remove_entry(c, k)
           o == c.entries[k].owner
<1>1. /\ cc.entries = [j \in DOMAIN c.entries \ {k} |-> c.entries[j]]
      /\ cc.tenant_allocated = [c.tenant_allocated EXCEPT ![o] = @ - Blocks[k]]
      /\ o \in Owners /\ Blocks[k] \in Nat
  BY RemoveSane
<1>2. c.tenant_allocated \in [Owners -> Nat] /\ c.entries[k].blocks = Blocks[k]
  BY DEF Sane, Shaped
<1>3. can_evict(c, k) => c.tenant_allocated[o] - Blocks[k] >= Reserved(o)
  BY <1>2 DEF can_evict
<1> HIDE DEF cc, o
<1>4. PinnedKept(c, cc)
  BY <1>1 DEF PinnedKept
<1>5. ASSUME NEW t \in Tenants \ {who} PROVE ReservationKept(c, cc, t)
  <2>1. t \in Owners /\ t # Resident
    BY CacheAssumption DEF Owners
  <2>2. CASE t = o
    <3>1. cc.tenant_allocated[t] = c.tenant_allocated[o] - Blocks[k]
      BY <1>1, <1>2, <2>1, <2>2
    <3>2. can_evict(c, k) /\ Reserved(o) = Reservation[t]
      BY <2>1, <2>2 DEF Reserved, o
    <3> QED BY <1>3, <3>1, <3>2 DEF ReservationKept
  <2>3. CASE t # o
    <3>1. cc.tenant_allocated[t] = c.tenant_allocated[t] /\ c.tenant_allocated[t] \in Nat
      BY <1>1, <1>2, <2>1, <2>3
    <3> QED BY <3>1, SMTT(30) DEF ReservationKept
  <2> QED BY <2>2, <2>3
<1> QED BY <1>4, <1>5 DEF Spares, cc

\* The caches that are left when some tensors have gone that were not both pinned and ready.
LEMMA SparesShrunk ==
    ASSUME NEW cs, NEW cs2, NEW gone, NEW who, Shrunk(cs, cs2, gone, who),
           NEW d \in Devices, Shaped(cs[d]),
           \A r \in gone : r.device = d /\ r.key \in DOMAIN cs[d].entries =>
               ~(cs[d].entries[r.key].pinned /\ cs[d].entries[r.key].ready)
    PROVE  Spares(cs[d], cs2[d], who)
<1> DEFINE c == cs[d]
           cc == cs2[d]
<1>1. /\ \A k \in DOMAIN cc.entries : /\ cc.entries[k].start = c.entries[k].start
                                      /\ cc.entries[k].pinned = c.entries[k].pinned
      /\ \A k \in DOMAIN c.entries \ DOMAIN cc.entries : \E r \in gone : r.key = k /\ r.device = d
      /\ \A t \in Owners \ {who} : cc.tenant_allocated[t] = c.tenant_allocated[t]
  BY SMTT(30) DEF Shrunk
<1>2. /\ \A r \in gone : r.device = d /\ r.key \in DOMAIN c.entries =>
             ~(c.entries[r.key].pinned /\ c.entries[r.key].ready)
      /\ \A t \in Owners : c.tenant_allocated[t] \in Nat
  BY DEF Shaped
<1> HIDE DEF c, cc
<1>3. PinnedKept(c, cc)
  <2>1. SUFFICES ASSUME NEW k \in DOMAIN c.entries, c.entries[k].pinned, c.entries[k].ready
        PROVE  k \in DOMAIN cc.entries
    BY <1>1 DEF PinnedKept
  <2>2. SUFFICES ASSUME k \notin DOMAIN cc.entries PROVE FALSE
    OBVIOUS
  <2>3. PICK r \in gone : r.key = k /\ r.device = d
    BY <1>1, <2>2
  <2> QED BY <1>2, <2>1, <2>3
<1>4. ASSUME NEW t \in Tenants \ {who} PROVE ReservationKept(c, cc, t)
  <2>1. t \in Owners \ {who}
    BY DEF Owners
  <2>2. cc.tenant_allocated[t] = c.tenant_allocated[t] /\ c.tenant_allocated[t] \in Nat
    BY <1>1, <1>2, <2>1
  <2> QED BY <2>2, SMTT(30) DEF ReservationKept
<1> QED BY <1>3, <1>4 DEF Spares, c, cc

\* The entries of a chunk that has been scored are released, the transient ones removed.
LEMMA SparesChunk ==
    ASSUME IInv, pc \in {"hits", "score"}, NEW d \in Devices
    PROVE  Spares(caches[d], release_chunks(chunk)[d], Owner)
<1> DEFINE gone == {r \in Elements(chunk) : r.transient}
           cs2 == release_chunks(chunk)
<1>1. Shrunk(caches, cs2, gone, Owner)
  BY ChunkReleased
<1>2. ASSUME NEW r \in gone, r.device = d
      PROVE  ~caches[d].entries[r.key].pinned
  <2>1. PICK i \in DOMAIN chunk : chunk[i] = r
    BY DEF Elements
  <2>2. Handled(r) /\ r.transient
    BY <2>1, InChunk
  <2> QED BY <1>2, <2>2 DEF Handled, EntryOf
<1>3. Shaped(caches[d])
  BY DEF IInv, Held, Books, Shelves, Sane
<1> HIDE DEF gone, cs2
<1>4. Spares(caches[d], cs2[d], Owner)
  BY <1>1, <1>2, <1>3, SparesShrunk
<1> QED BY <1>4 DEF cs2

\* What the upload marks, and what it removes after a failure or at the end of a batch.
LEMMA SparesUpload ==
    ASSUME IInv, NEW failed, Upload(failed), NEW d \in Devices
    PROVE  Spares(caches[d], caches'[d], Owner)
<1> DEFINE marked == Marked(failed)
           cleaned == ReleaseAll(marked, chunk, Doomed(chunk, failed))
<1>1. pc = "upload" /\ (caches' = cleaned \/ caches' = marked)
  BY UploadIs
<1>2. Sane(caches[d]) /\ Shaped(caches[d])
  BY <1>1 DEF IInv, Held, Books, Shelves, Sane
<1>3. /\ Alike(caches[d], marked[d])
      /\ \A k \in DOMAIN caches[d].entries :
             marked[d].entries[k].ready <=>
                 caches[d].entries[k].ready \/ (d \notin failed /\ k \in NewOn(chunk, d))
  BY <1>1, MarkedIs
<1>4. CASE caches' = marked
  BY <1>2, <1>3, <1>4, SparesAlike
<1>5. CASE caches' = cleaned
  <2> DEFINE c == caches[d]
             m == marked[d]
             cc == cleaned[d]
  <2>1. Shrunk(marked, cleaned, Doomed(chunk, failed), Owner)
    BY <1>1, CleanedBooks
  <2>2. /\ \A k \in DOMAIN cc.entries : /\ cc.entries[k].start = m.entries[k].start
                                        /\ cc.entries[k].pinned = m.entries[k].pinned
        /\ \A k \in DOMAIN m.entries \ DOMAIN cc.entries :
               \E r \in Doomed(chunk, failed) : r.key = k /\ r.device = d
        /\ \A t \in Owners \ {Owner} : cc.tenant_allocated[t] = m.tenant_allocated[t]
    BY <2>1 DEF Shrunk
  <2>3. /\ DOMAIN m.entries = DOMAIN c.entries
        /\ \A k \in DOMAIN c.entries : /\ m.entries[k].pinned = c.entries[k].pinned
                                       /\ m.entries[k].start = c.entries[k].start
    <3>1. Alike(c, m)
      BY <1>3
    <3> HIDE DEF c, m
    <3> QED BY <3>1 DEF Alike
  <2>4. m.tenant_allocated = c.tenant_allocated
    BY <1>2, <1>3, AlikeSane
  <2>5. \A t \in Owners : c.tenant_allocated[t] \in Nat
    BY <1>2 DEF Shaped
  <2>6. ASSUME NEW k \in DOMAIN c.entries, c.entries[k].ready, k \notin DOMAIN cc.entries PROVE FALSE
    <3> HIDE DEF marked, cleaned
    <3>1. PICK r \in Doomed(chunk, failed) : r.key = k /\ r.device = d
      BY <2>2, <2>3, <2>6
    <3>2. k \in NewOn(chunk, d)
      BY <3>1 DEF Doomed, NewOn, Elements
    <3> QED BY <1>1, <2>6, <3>2, NewIsLoading
  <2> HIDE DEF c, m, cc
  <2>7. PinnedKept(c, cc)
    BY <2>2, <2>3, <2>6 DEF PinnedKept
  <2>8. ASSUME NEW t \in Tenants \ {Owner} PROVE ReservationKept(c, cc, t)
    <3>1. t \in Owners \ {Owner}
      BY DEF Owners
    <3>2. cc.tenant_allocated[t] = c.tenant_allocated[t] /\ c.tenant_allocated[t] \in Nat
      BY <2>2, <2>4, <2>5, <3>1
    <3> QED BY <3>2, SMTT(30) DEF ReservationKept
  <2> QED BY <1>5, <2>7, <2>8 DEF Spares, c, cc
<1> QED BY <1>1, <1>4, <1>5

LEMMA SparesEvict ==
    ASSUME IInv, EvictOwn \/ EvictAny, NEW d \in Devices
    PROVE  Spares(caches[d], caches'[d], Owner)
<1>1. /\ pc = "admit"
      /\ \E k \in TenantVictims(caches[Device], Owner) \cup Victims(caches[Device]) : EvictFrom(k)
  BY DEF EvictOwn, EvictAny, Admitting
<1>2. PICK k \in TenantVictims(caches[Device], Owner) \cup Victims(caches[Device]) : EvictFrom(k)
  BY <1>1
<1>3. /\ k \in DOMAIN caches[Device].entries /\ ~caches[Device].entries[k].pinned
      /\ caches[Device].entries[k].owner = Owner \/ can_evict(caches[Device], k)
  BY DEF TenantVictims, Victims, can_evict
<1>4. caches' = [caches EXCEPT ![Device] = remove_entry(caches[Device], k)]
  BY <1>2 DEF EvictFrom
<1>5. /\ caches = [e \in Devices |-> caches[e]] /\ \A e \in Devices : Sane(caches[e]) /\ Shaped(caches[e])
      /\ Device \in Devices
  BY <1>1, DeviceIs DEF IInv, Held, Books, Shelves, Sane
<1> DEFINE x == Device
           cc == remove_entry(caches[x], k)
<1>6. Spares(caches[x], cc, Owner)
  BY <1>3, <1>5, SparesRemove
<1>7. caches' = [caches EXCEPT ![x] = cc]
  BY <1>4
<1> HIDE DEF x, cc
<1>8. CASE d = x
  <2>1. caches'[d] = cc
    BY <1>5, <1>7, <1>8
  <2> QED BY <1>6, <1>8, <2>1
<1>9. CASE d # x
  <2>1. caches'[d] = caches[d]
    BY <1>5, <1>7, <1>9
  <2> QED BY <1>5, <2>1, SparesSame
<1> QED BY <1>8, <1>9

LEMMA SparesPlace ==
    ASSUME IInv, Place, NEW d \in Devices PROVE Spares(caches[d], caches'[d], Owner)
<1>1. Joined(caches, caches', Device, Tensor) /\ Shelves(caches')
  BY PlaceIs DEF Books
<1>2. pc = "admit"
  BY DEF Place, Admitting
<1>3. Shaped(caches[d]) /\ Shaped(caches'[d])
  BY <1>1, <1>2 DEF IInv, Held, Books, Shelves, Sane
<1>4. /\ DOMAIN caches[d].entries \subseteq DOMAIN caches'[d].entries
      /\ \A j \in DOMAIN caches[d].entries : caches'[d].entries[j] = caches[d].entries[j]
      /\ \A t \in Owners : caches'[d].tenant_allocated[t] >= caches[d].tenant_allocated[t]
  BY <1>1 DEF Joined
<1>5. caches'[d].tenant_allocated \in [Owners -> Int]
  BY <1>3, SMTT(30) DEF Shaped
<1> QED BY <1>3, <1>4, <1>5, SparesMore

LEMMA SparesNextItem ==
    ASSUME IInv, NextItem, NEW d \in Devices PROVE Spares(caches[d], caches'[d], Owner)
<1>1. pc = "items"
  BY DEF NextItem
<1>2. caches = [e \in Devices |-> caches[e]] /\ \A e \in Devices : Shaped(caches[e])
  BY <1>1 DEF IInv, Held, Books, Shelves, Sane
<1>3. CASE Holders(Tensor) # {}
  <2> DEFINE x == Least(Holders(Tensor))
             cc == acquire_existing(caches[x], {Tensor})
  <2>1. caches' = [caches EXCEPT ![x] = cc]
    BY <1>3 DEF NextItem
  <2>2. caches[d] = caches[x] => Spares(caches[d], cc, Owner)
    BY <1>2, SparesAcquire
  <2> HIDE DEF x, cc
  <2>3. (caches'[d] = cc /\ caches[d] = caches[x]) \/ caches'[d] = caches[d]
    BY <1>2, <2>1
  <2> QED BY <1>2, <2>2, <2>3, SparesSame
<1>4. CASE Holders(Tensor) = {}
  <2>1. caches' = caches
    BY <1>4 DEF NextItem
  <2> QED BY <1>2, <2>1, SparesSame
<1> QED BY <1>3, <1>4

LEMMA SparesScore ==
    ASSUME IInv, NEW r \in Request, Score(r), NEW d \in Devices
    PROVE  Spares(caches[d], caches'[d], Owner)
<1>1. pc = Idle /\ caches' = [e \in Devices |-> acquire_existing(caches[e], KeysOn(chunk', e))]
  BY DEF Score
<1>2. Shaped(caches[d])
  BY <1>1 DEF IInv, Held, Books, Shelves, Sane, Idle
<1>3. caches'[d] = acquire_existing(caches[d], KeysOn(chunk', d))
  BY <1>1
<1> DEFINE S == KeysOn(chunk', d)
<1> HIDE DEF S
<1>4. Spares(caches[d], acquire_existing(caches[d], S), Owner)
  BY <1>2, SparesAcquire
<1> QED BY <1>3, <1>4 DEF S

\* The steps that leave the caches alone.
LEMMA CachesStay ==
    ASSUME \/ PrewarmBatch \/ PrewarmUnreadable \/ PrewarmDone \/ EndItems \/ Defer \/ Reject
           \/ Collect \/ Answer \/ UNCHANGED vars
    PROVE  caches' = caches
BY DEF PrewarmBatch, PrewarmUnreadable, PrewarmDone, EndItems, Defer, Reject, NextAttempt,
   Collect, Answer, vars

\* Every step spares what is pinned and what is reserved to others.
LEMMA Spared ==
    ASSUME IInv, [Next]_vars, NEW d \in Devices PROVE Spares(caches[d], caches'[d], Owner)
<1>1. ASSUME caches' = caches PROVE Spares(caches[d], caches'[d], Owner)
  <2>1. Shaped(caches[d])
    BY DEF IInv, Held, Books, Shelves, Sane
  <2> QED BY <1>1, <2>1, SparesSame
<1>2. ASSUME NEW r \in Request, Score(r) PROVE Spares(caches[d], caches'[d], Owner)
  BY <1>2, SparesScore
<1>3. ASSUME NEW failed, Upload(failed) PROVE Spares(caches[d], caches'[d], Owner)
  BY <1>3, SparesUpload
<1>4. ASSUME ScoreHits \/ ScoreHitsFails \/ ScoreChunk \/ ScoreChunkFails
      PROVE  Spares(caches[d], caches'[d], Owner)
  <2>1. pc \in {"hits", "score"} /\ caches' = release_chunks(chunk)
    BY <1>4 DEF ScoreHits, ScoreHitsFails, ScoreChunk, ScoreChunkFails
  <2> QED BY <2>1, SparesChunk
<1>5. CASE Step
  BY <1>1, <1>3, <1>4, <1>5, CachesStay, SparesEvict, SparesPlace, SparesNextItem DEF Step
<1> QED BY <1>1, <1>2, <1>5, CachesStay DEF Next, Stopped

-----------------------------------------------------------------------------
(* The properties.                                                         *)

\* A score is computed from the bytes of the candidate's own tensor, and all candidates
\* have one when the answer is put together, whatever is evicted, admitted or fails
\* between the reference and the kernel (TensorDaemon::score, score_devices).
THEOREM ScoresOwnHolds == Spec => []ScoresOwn
<1>1. IInv => ScoresOwn
  <2> SUFFICES ASSUME IInv PROVE ScoresOwn
    OBVIOUS
  <2>1. Typed /\ Placed /\ Scored /\ request.candidates \in Seq(Keys) /\ DOMAIN scores = DOMAIN request.candidates
    BY OwnerIs DEF IInv, Typed
  <2>2. CASE prewarming
    <3>1. request.candidates = <<>>
      BY <2>2 DEF prewarming, NoRequest
    <3>2. DOMAIN scores = {}
      BY <2>1, <3>1, SMTT(30)
    <3> QED BY <3>2 DEF ScoresOwn
  <2>3. CASE ~prewarming
    <3>1. \A i \in DOMAIN scores : scores[i] \in {None, request.candidates[i]}
      BY <2>1, <2>3 DEF Scored
    <3>2. ASSUME pc = "collect", NEW i \in DOMAIN scores
          PROVE  scores[FirstIndex(request.candidates[i])] # None
      <4> DEFINE k == request.candidates[i]
      <4>1. k \in Elements(request.candidates)
        BY <2>1 DEF Elements
      <4>2. ~Waiting(k)
        BY <2>1, <3>2, NoElements DEF Placed, Waiting
      <4> QED BY <2>1, <2>3, <4>1, <4>2 DEF Scored
    <3> QED BY <3>1, <3>2 DEF ScoresOwn
  <2> QED BY <2>2, <2>3
<1> QED BY <1>1, Invariance, PTL

\* Between requests no entry is referenced or loading, whichever read, upload or kernel
\* has failed: every unpinned page can be evicted again (release_chunks,
\* cleanup_after_upload_failure).
THEOREM QuietWhenIdleHolds == Spec => []QuietWhenIdle
<1>1. IInv => QuietWhenIdle
  <2> SUFFICES ASSUME IInv, pc \in {Idle, "prewarm"} PROVE QuietWhenIdle
    BY DEF QuietWhenIdle
  <2>1. Counted(caches, {})
    BY NoElements DEF IInv, Placed, Held, Books, Idle
  <2> QED BY <2>1 DEF Counted, QuietWhenIdle
<1> QED BY <1>1, Invariance, PTL

\* No page of an arena is leaked or shared, no reference is released twice, the counters
\* agree with the entries, a tensor is cached on one device at most and no tenant exceeds
\* its share (admit_for_tenant, remove_entry, release), even after a failed prewarm.
THEOREM CachesSoundHolds == Spec => []CachesSound
<1>1. IInv => CachesSound
  <2> SUFFICES ASSUME IInv PROVE CachesSound
    OBVIOUS
  <2>1. Typed /\ Placed /\ Shelves(caches)
    BY DEF IInv, Held, Books
  <2>2. \A d \in Devices : Sane(caches[d]) /\ Limited(caches[d])
    BY <2>1 DEF Shelves
  <2>3. TypeOK
    <3>1. ASSUME NEW d \in Devices, NEW k \in DOMAIN caches[d].entries
          PROVE  caches[d].entries[k].references \in 0 .. 1 /\ caches[d].entries[k].owner \in Owners
      <4>1. caches[d].entries[k] \in EntryType
        BY <2>2 DEF Sane, Shaped
      <4> QED BY <4>1 DEF EntryType
    <3>2. scores \in Seq(Keys \cup {None, NoKey})
      <4>1. request.candidates \in Seq(Keys) /\ scores \in [DOMAIN request.candidates -> Keys \cup {None, NoKey}]
        BY <2>1, OwnerIs DEF Typed
      <4>2. DOMAIN request.candidates = 1 .. Len(request.candidates) /\ Len(request.candidates) \in Nat
        BY <4>1, SMTT(30)
      <4> QED BY <4>1, <4>2, SeqFrom
    <3> QED BY <2>1, <3>1, <3>2 DEF TypeOK, Typed, Places, Placed
  <2>4. Bookkeeping
    BY <2>2 DEF Bookkeeping, Sane, AtRest, Sound
  <2>5. OneCopy
    BY <2>1 DEF Shelves, OneCopy
  <2>6. WithinLimit
    <3>1. ASSUME NEW d \in Devices, NEW t \in Tenants
          PROVE  \/ caches[d].tenant_allocated[t] <= TenantMax
                 \/ caches[d].tenant_allocated[t] <= Reservation[t]
      <4>1. caches[d].tenant_allocated[t] <= Limit(t) /\ t # Resident
        BY <2>2, CacheAssumption DEF Limited
      <4> QED BY <4>1 DEF Limit, Reserved
    <3> QED BY <3>1 DEF WithinLimit
  <2> QED BY <2>3, <2>4, <2>5, <2>6 DEF CachesSound
<1> QED BY <1>1, Invariance, PTL

\* No step moves or evicts what prewarm has pinned, and work for one tenant takes nothing
\* from the reservation of another (can_evict, and the removal of transient and failed
\* tensors).
THEOREM SparedByEvictionHolds == Spec => SparedByEviction
<1> DEFINE Sparing == \A d \in Devices :
               /\ PinnedKept(caches[d], caches'[d])
               /\ \A t \in Tenants \ {request.tenant} : ReservationKept(caches[d], caches'[d], t)
<1>1. IInv /\ [Next]_vars => Sparing
  <2> SUFFICES ASSUME IInv, [Next]_vars, NEW d \in Devices
      PROVE  /\ PinnedKept(caches[d], caches'[d])
             /\ \A t \in Tenants \ {request.tenant} : ReservationKept(caches[d], caches'[d], t)
    OBVIOUS
  <2>1. Owner = request.tenant
    BY OwnerIs DEF IInv
  <2>2. Spares(caches[d], caches'[d], Owner)
    BY Spared
  <2> QED BY <2>1, <2>2 DEF Spares
<1>2. Spec => [][Sparing]_vars
  <2> HIDE DEF Sparing
  <2> QED BY <1>1, Invariance, PTL DEF Spec
<1> QED BY <1>2 DEF SparedByEviction
=============================================================================
