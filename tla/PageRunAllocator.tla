-------------------------- MODULE PageRunAllocator --------------------------
(***************************************************************************)
(* The life of one allocator of page runs under any sequence of calls, and *)
(* the proof that it keeps its arena partitioned, for every size of the    *)
(* arena.  What a single call does is proved in PageRunsProofs.            *)
(***************************************************************************)
EXTENDS PageRunsProofs

CONSTANTS
    BlockBytes,     \* bytes of a block
    PayloadBytes    \* the payload sizes that are asked for
ASSUME PayloadAssumption == BlockBytes \in Nat \ {0} /\ PayloadBytes \subseteq Nat

VARIABLE runs

\* Whole blocks that hold the payload.
allocation_blocks(payload) == (payload + BlockBytes - 1) \div BlockBytes

Init == runs = new

\* An empty payload, or one that no free run holds, changes nothing.
Allocate(payload) ==
    LET n == allocation_blocks(payload)
    IN  /\ payload # 0
        /\ Fitting(runs, n) # {}
        /\ runs' = allocate(runs, n)

Release(start) == runs.allocated[start] # 0 /\ runs' = release(runs, start)

Next ==
    \/ \E payload \in PayloadBytes : Allocate(payload)
    \/ \E start \in Starts : Release(start)

Spec == Init /\ [][Next]_runs

-----------------------------------------------------------------------------
\* The allocator's value has its type.
TypeOK ==
    /\ runs.free_by_start \in [Starts -> 0 .. BlockCount]
    /\ runs.free_by_size \in [Sizes -> SUBSET Starts]
    /\ runs.allocated \in [Starts -> 0 .. BlockCount]
    /\ runs.free_blocks \in 0 .. BlockCount

\* Two live allocations never share a block and no block is lost: the runs of
\* free_by_start and allocated partition the arena after any allocate and release.
Partition == IsPartition(runs)

\* Free runs that touch have been merged, so that fragmentation only comes from what
\* is allocated: release merges on both sides.
Coalesced == IsCoalesced(runs)

\* The indexes by start and by size agree, so the errors about inconsistent indexes are
\* never returned; free_blocks, which the free bytes of the status are computed from and
\* which remove_free_run guards with checked_sub, is the number of blocks in free runs.
\* (What the test helper validate looks at.)
Consistent ==
    /\ IndexesAgree(runs) /\ ~runs.fault
    /\ runs.free_blocks = Cardinality(FreeBlocks(runs.free_by_start))

\* When everything has been released the arena is one free run again.
WholeWhenEmpty ==
    (\A s \in Starts : runs.allocated[s] = 0) => runs.free_by_start[0] = BlockCount

-----------------------------------------------------------------------------
(* Proofs.                                                                 *)

\* A payload that is not empty needs a block at least.
LEMMA PayloadBlocks ==
    ASSUME NEW payload \in PayloadBytes, payload # 0
    PROVE  allocation_blocks(payload) \in Nat \ {0}
<1>1. payload \in Nat /\ payload >= 1 /\ BlockBytes \in Nat /\ BlockBytes >= 1
  BY PayloadAssumption
<1>2. ASSUME NEW p \in Nat, NEW d \in Nat, d >= 1, p >= d PROVE p \div d \in Nat /\ p \div d >= 1
  BY <1>2
<1>3. payload + BlockBytes - 1 \in Nat /\ payload + BlockBytes - 1 >= BlockBytes
  BY <1>1
<1>4. (payload + BlockBytes - 1) \div BlockBytes \in Nat
  BY <1>1, <1>2, <1>3
<1>5. (payload + BlockBytes - 1) \div BlockBytes >= 1
  BY <1>1, <1>2, <1>3
<1> QED BY <1>4, <1>5 DEF allocation_blocks

\* Whatever was allocated and released before (PageRunAllocator::allocate, release), the
\* allocator is at rest between two calls: the inductive invariant of this module.
THEOREM RestsBetweenCalls == Spec => []AtRest(runs)
<1>1. Init => AtRest(runs)
  BY NewRests DEF Init
<1>2. AtRest(runs) /\ [Next]_runs => AtRest(runs)'
  <2>1. SUFFICES ASSUME AtRest(runs), [Next]_runs PROVE AtRest(runs')
    OBVIOUS
  <2>2. ASSUME NEW payload \in PayloadBytes, Allocate(payload) PROVE AtRest(runs')
    <3> DEFINE n == allocation_blocks(payload)
    <3>1. n \in Nat \ {0} /\ Fitting(runs, n) # {} /\ runs' = allocate(runs, n)
      BY <2>2, PayloadBlocks DEF Allocate
    <3> HIDE DEF n
    <3>2. n \in Sizes
      BY <3>1, BlockCountAssumption DEF Fitting, Sizes
    <3> QED BY <2>1, <3>1, <3>2, AllocateRests, Zenon
  <2>3. ASSUME NEW start \in Starts, Release(start) PROVE AtRest(runs')
    BY <2>1, <2>3, ReleaseRests, Zenon DEF Release
  <2>4. CASE UNCHANGED runs
    BY <2>1, <2>4
  <2> QED BY <2>1, <2>2, <2>3, <2>4 DEF Next
<1> QED BY <1>1, <1>2, PTL DEF Spec

\* What a caller relies on follows of any value at rest.
LEMMA RestTyped == AtRest(runs) => TypeOK
  BY FreeFinite DEF AtRest, Sound, Values, TypeOK

LEMMA RestPartition == AtRest(runs) => Partition
<1> SUFFICES ASSUME AtRest(runs) PROVE IsPartition(runs)
  BY DEF Partition
<1> DEFINE f == runs.free_by_start
           g == runs.allocated
<1>1. Apart(f, g) /\ Covered(f, g)
  BY DEF AtRest, Sound
<1>2. \A s \in Starts : s \in Int /\ f[s] \in Int /\ f[s] >= 0 /\ g[s] \in Int /\ g[s] >= 0
  <2>1. ASSUME NEW s \in Starts
        PROVE  s \in Int /\ f[s] \in Int /\ f[s] >= 0 /\ g[s] \in Int /\ g[s] >= 0
    <3>1. f[s] \in 0 .. BlockCount /\ g[s] \in 0 .. BlockCount
      BY DEF AtRest, Sound, Values
    <3> QED BY <3>1, BlockCountAssumption DEF Starts
  <2> QED BY <2>1
<1>3. \A s \in Starts : RunAt(runs, s) = IF f[s] # 0 THEN f[s] ELSE g[s]
  BY DEF RunAt
<1> HIDE DEF f, g
<1>4. \A s \in Starts : f[s] = 0 \/ g[s] = 0
  BY <1>1, <1>2 DEF Apart
<1>5. \A s \in Starts : s + RunAt(runs, s) <= BlockCount
  BY <1>1, <1>3 DEF Apart
<1>6. \A s, t \in Starts : s < t /\ RunAt(runs, s) # 0 /\ RunAt(runs, t) # 0 => s + RunAt(runs, s) <= t
  BY <1>1, <1>2, <1>3 DEF Apart
<1>7. \A b \in Starts : \E s \in Starts : Covers(runs, s, b)
  BY <1>1, <1>3, <1>4 DEF Covered, Covers
<1> QED BY <1>4, <1>5, <1>6, <1>7 DEF IsPartition, f, g

\* An arena of which nothing is allocated is one run: the run at block 0 cannot stop
\* early, for the run behind it would be free and would touch it.
LEMMA RestWhole == AtRest(runs) => WholeWhenEmpty
<1> SUFFICES ASSUME AtRest(runs), \A s \in Starts : runs.allocated[s] = 0
             PROVE  runs.free_by_start[0] = BlockCount
  BY DEF WholeWhenEmpty
<1> DEFINE f == runs.free_by_start
           g == runs.allocated
<1>1. Apart(f, g) /\ Covered(f, g) /\ Merged(f)
  BY DEF AtRest, Sound
<1>2. \A s \in Starts : s \in Int /\ s >= 0 /\ f[s] \in Int /\ f[s] >= 0
  <2>1. ASSUME NEW s \in Starts PROVE s \in Int /\ s >= 0 /\ f[s] \in Int /\ f[s] >= 0
    <3>1. f[s] \in 0 .. BlockCount
      BY DEF AtRest, Sound, Values
    <3> QED BY <3>1, BlockCountAssumption DEF Starts
  <2> QED BY <2>1
<1>3. \A b \in Starts : \E s \in Starts : f[s] # 0 /\ s <= b /\ b < s + f[s]
  BY <1>1 DEF Covered
<1> HIDE DEF f
<1>4. 0 \in Starts
  BY BlockCountAssumption DEF Starts
<1>5. f[0] # 0 /\ f[0] <= BlockCount
  <2>1. PICK s \in Starts : f[s] # 0 /\ s <= 0 /\ 0 < s + f[s]
    BY <1>3, <1>4
  <2>2. s = 0
    BY <1>2, <2>1
  <2>3. 0 + f[0] <= BlockCount
    BY <1>1, <1>4 DEF Apart
  <2> QED BY <1>2, <1>4, <2>1, <2>2, <2>3
<1>6. ASSUME f[0] < BlockCount PROVE FALSE
  <2>1. f[0] \in Starts /\ f[0] > 0
    BY <1>2, <1>4, <1>5, <1>6, BlockCountAssumption DEF Starts
  <2>2. PICK s \in Starts : f[s] # 0 /\ s <= f[0] /\ f[0] < s + f[s]
    BY <1>3, <2>1
  <2>3. s # 0
    BY <1>2, <2>2
  <2>4. 0 + f[0] <= s
    BY <1>1, <1>2, <1>4, <1>5, <2>2, <2>3 DEF Apart
  <2>5. s = f[0]
    BY <1>2, <1>4, <2>2, <2>4
  <2> QED BY <1>1, <1>2, <1>4, <1>5, <2>1, <2>2, <2>5 DEF Merged
<1> QED BY <1>2, <1>4, <1>5, <1>6, BlockCountAssumption DEF f

\* The allocator's value keeps its type.
THEOREM TypeCorrect == Spec => []TypeOK
  BY RestsBetweenCalls, RestTyped, PTL

\* Two live allocations never share a block and no block is lost, whatever sequence of
\* allocate and release an arena of any size has seen.
THEOREM ArenaPartitioned == Spec => []Partition
  BY RestsBetweenCalls, RestPartition, PTL

\* Free runs that touch are always merged by release.
THEOREM FreeRunsCoalesced == Spec => []Coalesced
<1>1. AtRest(runs) => Coalesced
  BY DEF AtRest, Merged, Coalesced, IsCoalesced
<1> QED BY <1>1, RestsBetweenCalls, PTL

\* free_by_start and free_by_size agree, none of the errors that report an inconsistent
\* index is ever returned by add_free_run and remove_free_run, and the count of free
\* blocks never drifts from the free runs.
THEOREM IndexesConsistent == Spec => []Consistent
<1>1. AtRest(runs) => Consistent
  BY DEF AtRest, Sound, Consistent
<1> QED BY <1>1, RestsBetweenCalls, PTL

\* Once everything has been released the arena is one run again.
THEOREM ArenaWholeAgain == Spec => []WholeWhenEmpty
  BY RestsBetweenCalls, RestWhole, PTL
=============================================================================
