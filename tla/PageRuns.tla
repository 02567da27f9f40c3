------------------------------ MODULE PageRuns ------------------------------
(***************************************************************************)
(* The allocator of page runs in a GPU arena (PageRunAllocator of          *)
(* tilemaxsimd) as operations on its value.  A run is named by its first   *)
(* block; the free runs are kept in two indexes, by start and by size.     *)
(* Addresses and lengths are counted in blocks.                            *)
(***************************************************************************)
EXTENDS Integers, FiniteSets

CONSTANT BlockCount     \* blocks of the arena
ASSUME BlockCountAssumption == BlockCount \in Nat \ {0}

Starts == 0 .. BlockCount - 1
Sizes == 1 .. BlockCount

Least(S) == CHOOSE x \in S : \A y \in S : x <= y
Greatest(S) == CHOOSE x \in S : \A y \in S : y <= x

\* 0 in free_by_start or allocated: no run starts here.  `fault`: one of the errors
\* that report an inconsistent index has been returned.
NoRuns ==
    [free_by_start |-> [s \in Starts |-> 0],
     free_by_size |-> [n \in Sizes |-> {}],
     allocated |-> [s \in Starts |-> 0],
     free_blocks |-> 0,
     fault |-> FALSE]

Fault(a) == [a EXCEPT !.fault = TRUE]

add_free_run(a, start, blocks) ==
    IF blocks = 0 \/ start + blocks > BlockCount THEN Fault(a)
    ELSE IF a.free_by_start[start] # 0
    THEN Fault([a EXCEPT !.free_by_start[start] = blocks])
    ELSE [a EXCEPT !.free_by_start[start] = blocks,
                   !.free_by_size[blocks] = @ \cup {start},
                   !.free_blocks = @ + blocks]

\* Mutant: the removed run is still counted.
RemoveUncounted(a, start, blocks) ==
    [a EXCEPT !.free_by_start[start] = 0,
              !.free_by_size[blocks] = @ \ {start}]

\* Mutant: the run stays in the index by size.
RemoveStale(a, start, blocks) ==
    [a EXCEPT !.free_by_start[start] = 0,
              !.free_blocks = @ - blocks]

remove_free_run(a, start, blocks) ==
    IF \/ a.free_by_start[start] # blocks
       \/ start \notin a.free_by_size[blocks]
       \/ a.free_blocks < blocks
    THEN Fault([a EXCEPT !.free_by_start[start] = 0])
    ELSE [a EXCEPT !.free_by_start[start] = 0,
                   !.free_by_size[blocks] = @ \ {start},
                   !.free_blocks = @ - blocks]

new == add_free_run(NoRuns, 0, BlockCount)

\* The sizes of free runs that hold n blocks, and the run allocate takes.
Fitting(a, n) == {size \in Sizes : size >= n /\ a.free_by_size[size] # {}}
FitStart(a, n) == Least(a.free_by_size[Least(Fitting(a, n))])

\* Mutant: what is left of the run that was cut is forgotten.
AllocateDropRemainder(a, n) ==
    LET available == Least(Fitting(a, n))
        start == FitStart(a, n)
        cut == remove_free_run(a, start, available)
    IN  [cut EXCEPT !.allocated[start] = n]

\* Take n blocks from the smallest run that holds them; defined when one does.
allocate(a, n) ==
    LET available == Least(Fitting(a, n))
        start == FitStart(a, n)
        cut == remove_free_run(a, start, available)
        rest == IF available > n THEN add_free_run(cut, start + n, available - n) ELSE cut
    IN  [rest EXCEPT !.allocated[start] = n]

Before(a, start) == {s \in Starts : s < start /\ a.free_by_start[s] # 0}

\* Mutant: only the run after the released one is merged with it.
ReleaseMergesNext(a, start0) ==
    IF a.allocated[start0] = 0 THEN a
    ELSE LET blocks0 == a.allocated[start0]
             a0 == [a EXCEPT !.allocated[start0] = 0]
             next == start0 + blocks0
             after == next < BlockCount /\ a0.free_by_start[next] # 0
             a1 == IF after THEN remove_free_run(a0, next, a0.free_by_start[next]) ELSE a0
             blocks1 == IF after THEN blocks0 + a0.free_by_start[next] ELSE blocks0
         IN  add_free_run(a1, start0, blocks1)

\* Give a run back, merged with the free runs on both sides.  Of a run that is not
\* allocated the code reports a double release and changes nothing.
release(a, start0) ==
    IF a.allocated[start0] = 0 THEN a
    ELSE LET blocks0 == a.allocated[start0]
             a0 == [a EXCEPT !.allocated[start0] = 0]
             prev == Greatest(Before(a0, start0))
             joins == Before(a0, start0) # {} /\ prev + a0.free_by_start[prev] = start0
             a1 == IF joins THEN remove_free_run(a0, prev, a0.free_by_start[prev]) ELSE a0
             start == IF joins THEN prev ELSE start0
             blocks == IF joins THEN blocks0 + a0.free_by_start[prev] ELSE blocks0
             next == start + blocks
             after == next < BlockCount /\ a1.free_by_start[next] # 0
             a2 == IF after THEN remove_free_run(a1, next, a1.free_by_start[next]) ELSE a1
         IN  add_free_run(a2, start, IF after THEN blocks + a1.free_by_start[next] ELSE blocks)

-----------------------------------------------------------------------------
(* What the callers rely on, of an allocator value a.                      *)

RunAt(a, s) == IF a.free_by_start[s] # 0 THEN a.free_by_start[s] ELSE a.allocated[s]
Covers(a, s, b) == RunAt(a, s) # 0 /\ s <= b /\ b < s + RunAt(a, s)

\* Every block lies in exactly one run, free or allocated.
IsPartition(a) ==
    /\ \A s \in Starts : a.free_by_start[s] = 0 \/ a.allocated[s] = 0
    /\ \A s \in Starts : s + RunAt(a, s) <= BlockCount
    /\ \A s, t \in Starts : s < t /\ RunAt(a, s) # 0 /\ RunAt(a, t) # 0 => s + RunAt(a, s) <= t
    /\ \A b \in Starts : \E s \in Starts : Covers(a, s, b)

\* No two free runs touch.
IsCoalesced(a) ==
    \A s, t \in Starts :
        a.free_by_start[s] # 0 /\ t = s + a.free_by_start[s] => a.free_by_start[t] = 0

\* The blocks of the free runs of a table by start.
FreeBlocks(f) == {b \in Starts : \E s \in Starts : f[s] # 0 /\ s <= b /\ b < s + f[s]}

\* The two indexes of free runs hold the same runs.
IndexesAgree(a) ==
    \A n \in Sizes, s \in Starts : s \in a.free_by_size[n] <=> a.free_by_start[s] = n

=============================================================================
