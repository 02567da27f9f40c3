--------------------------- MODULE PageRunsProofs ---------------------------
(***************************************************************************)
(* What allocate and release do to the value of an allocator of page runs, *)
(* for every size of the arena.                                            *)
(*                                                                         *)
(* Sound holds of every value the allocator goes through, also between the *)
(* removal of a free run and the insertion of what replaces it.  The       *)
(* lemmas on add_free_run and remove_free_run keep Sound and say which     *)
(* entries change; the proofs about allocate and release then only look at *)
(* the two tables of runs.  AtRest is what holds between two calls.        *)
(***************************************************************************)
EXTENDS PageRuns, FiniteSetTheorems, WellFoundedInduction, TLAPS

Values ==
    [free_by_start : [Starts -> 0 .. BlockCount],
     free_by_size : [Sizes -> SUBSET Starts],
     allocated : [Starts -> 0 .. BlockCount],
     free_blocks : Nat,
     fault : BOOLEAN]

\* The runs of two tables, free and allocated, are inside the arena and apart.
Apart(f, g) ==
    /\ \A s \in Starts : s + f[s] <= BlockCount /\ s + g[s] <= BlockCount
    /\ \A s, t \in Starts : s < t /\ f[s] # 0 /\ f[t] # 0 => s + f[s] <= t
    /\ \A s, t \in Starts : s < t /\ g[s] # 0 /\ g[t] # 0 => s + g[s] <= t
    /\ \A s, t \in Starts : f[s] # 0 /\ g[t] # 0 => s + f[s] <= t \/ t + g[t] <= s

Sound(a) ==
    /\ a \in Values
    /\ Apart(a.free_by_start, a.allocated)
    /\ IndexesAgree(a)
    /\ a.free_blocks = Cardinality(FreeBlocks(a.free_by_start))
    /\ a.fault = FALSE

\* The blocks start .. start + n - 1 are in no run.
Hole(f, g, start, n) ==
    \A s \in Starts :
        /\ f[s] # 0 => s + f[s] <= start \/ start + n <= s
        /\ g[s] # 0 => s + g[s] <= start \/ start + n <= s

-----------------------------------------------------------------------------
(* The count of free blocks.                                               *)

LEMMA FreeFinite ==
    ASSUME NEW f PROVE IsFiniteSet(FreeBlocks(f)) /\ Cardinality(FreeBlocks(f)) \in 0 .. BlockCount
<1>1. IsFiniteSet(Starts) /\ Cardinality(Starts) = BlockCount
  BY FS_Interval, BlockCountAssumption DEF Starts
<1>2. FreeBlocks(f) \subseteq Starts
  BY DEF FreeBlocks
<1>3. IsFiniteSet(FreeBlocks(f)) /\ Cardinality(FreeBlocks(f)) <= Cardinality(Starts)
  BY <1>1, <1>2, FS_Subset
<1>4. Cardinality(FreeBlocks(f)) \in Nat
  BY <1>3, FS_CardinalityType
<1> QED BY <1>1, <1>3, <1>4, BlockCountAssumption

LEMMA IntervalSize ==
    ASSUME NEW start \in Starts, NEW n \in Sizes
    PROVE  IsFiniteSet(start .. start + n - 1) /\ Cardinality(start .. start + n - 1) = n
<1>1. start \in Int /\ start + n - 1 \in Int /\ start <= start + n - 1
  BY BlockCountAssumption DEF Starts, Sizes
<1>2. Cardinality(start .. start + n - 1) = (start + n - 1) - start + 1
  BY <1>1, FS_Interval
<1> QED BY <1>1, <1>2, FS_Interval, BlockCountAssumption DEF Sizes, Starts

\* Disjoint sets add up.
LEMMA AddSize ==
    ASSUME NEW S, NEW T, IsFiniteSet(S), IsFiniteSet(T), S \cap T = {}
    PROVE  Cardinality(S \cup T) = Cardinality(S) + Cardinality(T)
<1>1. Cardinality(S \cup T) = Cardinality(S) + Cardinality(T) - Cardinality(S \cap T)
  BY FS_Union
<1>2. Cardinality(S \cap T) = 0
  BY FS_EmptySet
<1>3. Cardinality(S) \in Nat /\ Cardinality(T) \in Nat
  BY FS_CardinalityType
<1> QED BY <1>1, <1>2, <1>3

LEMMA CountAdd ==
    ASSUME NEW f \in [Starts -> 0 .. BlockCount], NEW start \in Starts, NEW n \in Sizes,
           start + n <= BlockCount, f[start] = 0,
           \A s \in Starts : f[s] # 0 => s + f[s] <= start \/ start + n <= s
    PROVE  Cardinality(FreeBlocks([f EXCEPT ![start] = n])) = Cardinality(FreeBlocks(f)) + n
<1> DEFINE h == [f EXCEPT ![start] = n]
           I == start .. start + n - 1
<1>1. h \in [Starts -> 0 .. BlockCount] /\ h[start] = n /\ \A s \in Starts : s # start => h[s] = f[s]
  BY DEF Sizes
<1>2. FreeBlocks(h) = FreeBlocks(f) \cup I
  <2>1. ASSUME NEW b \in FreeBlocks(h) PROVE b \in FreeBlocks(f) \cup I
    BY <1>1, BlockCountAssumption DEF FreeBlocks, Starts, Sizes
  <2>2. ASSUME NEW b \in I PROVE b \in FreeBlocks(h)
    BY <1>1, BlockCountAssumption DEF FreeBlocks, Starts, Sizes
  <2>3. ASSUME NEW b \in FreeBlocks(f) PROVE b \in FreeBlocks(h)
    BY <1>1, BlockCountAssumption DEF FreeBlocks, Starts, Sizes
  <2> QED BY <2>1, <2>2, <2>3, Zenon
<1>3. FreeBlocks(f) \cap I = {}
  BY BlockCountAssumption DEF FreeBlocks, Starts, Sizes
<1>4. IsFiniteSet(FreeBlocks(f)) /\ IsFiniteSet(I) /\ Cardinality(I) = n
  BY FreeFinite, IntervalSize
<1> HIDE DEF h, I
<1>5. Cardinality(FreeBlocks(f) \cup I) = Cardinality(FreeBlocks(f)) + Cardinality(I)
  BY <1>3, <1>4, AddSize
<1> QED BY <1>2, <1>4, <1>5, Zenon DEF h

LEMMA CountRemove ==
    ASSUME NEW f \in [Starts -> 0 .. BlockCount], NEW start \in Starts, f[start] # 0,
           start + f[start] <= BlockCount,
           \A s, t \in Starts : s < t /\ f[s] # 0 /\ f[t] # 0 => s + f[s] <= t
    PROVE  /\ f[start] <= Cardinality(FreeBlocks(f))
           /\ Cardinality(FreeBlocks([f EXCEPT ![start] = 0])) = Cardinality(FreeBlocks(f)) - f[start]
<1> DEFINE h == [f EXCEPT ![start] = 0]
           n == f[start]
<1>1. h \in [Starts -> 0 .. BlockCount] /\ h[start] = 0 /\ \A s \in Starts : s # start => h[s] = f[s]
  BY BlockCountAssumption
<1>2. n \in Sizes /\ [h EXCEPT ![start] = n] = f
  <2>1. n \in Sizes
    BY BlockCountAssumption DEF Sizes
  <2>2. [h EXCEPT ![start] = n] = f
    BY Zenon
  <2> QED BY <2>1, <2>2
<1>3. \A s \in Starts : h[s] # 0 => s + h[s] <= start \/ start + n <= s
  BY <1>1, BlockCountAssumption DEF Starts
<1>4. Cardinality(FreeBlocks(f)) = Cardinality(FreeBlocks(h)) + n
  <2> HIDE DEF h, n
  <2>1. start + n <= BlockCount
    BY DEF n
  <2> QED BY <1>1, <1>2, <1>3, <2>1, CountAdd
<1>5. Cardinality(FreeBlocks(h)) \in 0 .. BlockCount /\ n \in Nat
  BY FreeFinite, <1>2, BlockCountAssumption DEF Sizes
<1> HIDE DEF h
<1>6. Cardinality(FreeBlocks(h)) = Cardinality(FreeBlocks(f)) - n /\ n <= Cardinality(FreeBlocks(f))
  BY <1>4, <1>5, BlockCountAssumption
<1> QED BY <1>6 DEF h

-----------------------------------------------------------------------------
(* The two tables under add_free_run and remove_free_run.                  *)

LEMMA ApartAdd ==
    ASSUME NEW f \in [Starts -> 0 .. BlockCount], NEW g \in [Starts -> 0 .. BlockCount],
           NEW start \in Starts, NEW n \in Sizes, start + n <= BlockCount,
           Apart(f, g), Hole(f, g, start, n)
    PROVE  /\ Apart([f EXCEPT ![start] = n], g)
           /\ Apart(f, [g EXCEPT ![start] = n])
           /\ f[start] = 0 /\ g[start] = 0
<1>1. start \in Int /\ n \in Int /\ n > 0 /\ \A s \in Starts : s \in Int /\ f[s] \in Int /\ g[s] \in Int
  BY BlockCountAssumption DEF Starts, Sizes
<1>2. f[start] = 0 /\ g[start] = 0
  BY <1>1, BlockCountAssumption DEF Hole
<1>3. ASSUME NEW h \in [Starts -> 0 .. BlockCount], h = [f EXCEPT ![start] = n]
      PROVE  Apart(h, g)
  <2>1. h[start] = n /\ \A s \in Starts : s # start => h[s] = f[s]
    BY <1>3
  <2> QED BY <1>1, <2>1 DEF Apart, Hole
<1>4. ASSUME NEW h \in [Starts -> 0 .. BlockCount], h = [g EXCEPT ![start] = n]
      PROVE  Apart(f, h)
  <2>1. h[start] = n /\ \A s \in Starts : s # start => h[s] = g[s]
    BY <1>4
  <2> QED BY <1>1, <2>1 DEF Apart, Hole
<1>5. /\ [f EXCEPT ![start] = n] \in [Starts -> 0 .. BlockCount]
      /\ [g EXCEPT ![start] = n] \in [Starts -> 0 .. BlockCount]
  BY DEF Sizes
<1> QED BY <1>2, <1>3, <1>4, <1>5, Zenon

LEMMA ApartRemove ==
    ASSUME NEW f \in [Starts -> 0 .. BlockCount], NEW g \in [Starts -> 0 .. BlockCount],
           NEW start \in Starts, Apart(f, g)
    PROVE  /\ Apart([f EXCEPT ![start] = 0], g)
           /\ Apart(f, [g EXCEPT ![start] = 0])
<1>1. start \in Int /\ start <= BlockCount /\ \A s \in Starts : s \in Int /\ f[s] \in Int /\ g[s] \in Int
  BY BlockCountAssumption DEF Starts
<1>3. ASSUME NEW h \in [Starts -> 0 .. BlockCount], h = [f EXCEPT ![start] = 0]
      PROVE  Apart(h, g)
  <2>1. h[start] = 0 /\ \A s \in Starts : s # start => h[s] = f[s]
    BY <1>3
  <2> QED BY <1>1, <2>1, BlockCountAssumption DEF Apart
<1>4. ASSUME NEW h \in [Starts -> 0 .. BlockCount], h = [g EXCEPT ![start] = 0]
      PROVE  Apart(f, h)
  <2>1. h[start] = 0 /\ \A s \in Starts : s # start => h[s] = g[s]
    BY <1>4
  <2> QED BY <1>1, <2>1, BlockCountAssumption DEF Apart
<1>5. /\ [f EXCEPT ![start] = 0] \in [Starts -> 0 .. BlockCount]
      /\ [g EXCEPT ![start] = 0] \in [Starts -> 0 .. BlockCount]
  BY BlockCountAssumption
<1> QED BY <1>3, <1>4, <1>5, Zenon

LEMMA AddSound ==
    ASSUME NEW a, Sound(a), NEW start \in Starts, NEW n \in Sizes, start + n <= BlockCount,
           Hole(a.free_by_start, a.allocated, start, n)
    PROVE  /\ Sound(add_free_run(a, start, n))
           /\ add_free_run(a, start, n).free_by_start = [a.free_by_start EXCEPT ![start] = n]
           /\ add_free_run(a, start, n).allocated = a.allocated
<1> DEFINE f == a.free_by_start
           c == add_free_run(a, start, n)
<1>1. /\ a \in Values /\ f \in [Starts -> 0 .. BlockCount]
      /\ a.allocated \in [Starts -> 0 .. BlockCount]
      /\ a.free_by_size \in [Sizes -> SUBSET Starts] /\ a.free_blocks \in Nat
      /\ start \in Int /\ n \in Int /\ n > 0
  <2>1. a \in Values
    BY Zenon DEF Sound
  <2>2. start \in Int /\ n \in Int /\ n > 0
    BY BlockCountAssumption DEF Starts, Sizes
  <2> QED BY <2>1, <2>2 DEF Values
<1>2. f[start] = 0 /\ n # 0
  <2>1. f[start] \in Int /\ f[start] >= 0
    BY <1>1, BlockCountAssumption
  <2>2. f[start] # 0 => start + f[start] <= start \/ start + n <= start
    BY DEF Hole
  <2> QED BY <1>1, <2>1, <2>2
<1>3. c = [a EXCEPT !.free_by_start[start] = n, !.free_by_size[n] = @ \cup {start},
                    !.free_blocks = @ + n]
  BY <1>1, <1>2, BlockCountAssumption DEF add_free_run
<1> HIDE DEF c
<1>4. /\ c.free_by_start = [f EXCEPT ![start] = n]
      /\ c.free_by_size = [a.free_by_size EXCEPT ![n] = @ \cup {start}]
      /\ c.allocated = a.allocated /\ c.free_blocks = a.free_blocks + n
      /\ c.fault = a.fault /\ c \in Values
  <2>1. c = [free_by_start |-> [f EXCEPT ![start] = n],
             free_by_size |-> [a.free_by_size EXCEPT ![n] = @ \cup {start}],
             allocated |-> a.allocated, free_blocks |-> a.free_blocks + n, fault |-> a.fault]
    BY <1>1, <1>3, Zenon DEF Values
  <2>2. [f EXCEPT ![start] = n] \in [Starts -> 0 .. BlockCount]
    BY <1>1 DEF Sizes
  <2>3. [a.free_by_size EXCEPT ![n] = @ \cup {start}] \in [Sizes -> SUBSET Starts]
    BY <1>1
  <2>4. a.free_blocks + n \in Nat /\ a.fault \in BOOLEAN
    BY <1>1 DEF Values
  <2> QED BY <1>1, <2>1, <2>2, <2>3, <2>4 DEF Values
<1>5. Apart(c.free_by_start, c.allocated)
  <2>1. Apart(f, a.allocated)
    BY DEF Sound
  <2>2. Apart([f EXCEPT ![start] = n], a.allocated)
    <3>1. Hole(f, a.allocated, start, n)
      OBVIOUS
    <3> HIDE DEF f
    <3> QED BY <1>1, <2>1, <3>1, ApartAdd, Zenon
  <2> QED BY <1>4, <2>2
<1>6. IndexesAgree(c)
  <2>1. ASSUME NEW k \in Sizes, NEW s \in Starts
        PROVE  s \in c.free_by_size[k] <=> c.free_by_start[s] = k
    <3>1. s \in a.free_by_size[k] <=> f[s] = k
      BY DEF Sound, IndexesAgree
    <3>2. c.free_by_size[k] = IF k = n THEN a.free_by_size[k] \cup {start} ELSE a.free_by_size[k]
      BY <1>1, <1>4, Zenon
    <3>3. c.free_by_start[s] = IF s = start THEN n ELSE f[s]
      BY <1>1, <1>4
    <3>4. k # 0
      BY DEF Sizes
    <3> HIDE DEF f
    <3> QED BY <1>2, <3>1, <3>2, <3>3, <3>4
  <2> QED BY <2>1 DEF IndexesAgree
<1>7. c.free_blocks = Cardinality(FreeBlocks(c.free_by_start))
  <2>1. Cardinality(FreeBlocks([f EXCEPT ![start] = n])) = Cardinality(FreeBlocks(f)) + n
    <3> HIDE DEF f
    <3>1. \A s \in Starts : f[s] # 0 => s + f[s] <= start \/ start + n <= s
      BY DEF Hole, f
    <3> QED BY <1>1, <1>2, <3>1, CountAdd, Zenon
  <2> QED BY <1>4, <2>1 DEF Sound
<1>8. c.fault = FALSE
  BY <1>4 DEF Sound
<1>9. Sound(c)
  BY <1>4, <1>5, <1>6, <1>7, <1>8 DEF Sound
<1> QED BY <1>4, <1>9 DEF c

LEMMA RemoveSound ==
    ASSUME NEW a, Sound(a), NEW start \in Starts, a.free_by_start[start] # 0
    PROVE  LET c == remove_free_run(a, start, a.free_by_start[start])
           IN  /\ Sound(c)
               /\ c.free_by_start = [a.free_by_start EXCEPT ![start] = 0]
               /\ c.allocated = a.allocated
<1> DEFINE f == a.free_by_start
           n == f[start]
           c == remove_free_run(a, start, n)
<1>1. /\ a \in Values /\ f \in [Starts -> 0 .. BlockCount]
      /\ a.allocated \in [Starts -> 0 .. BlockCount]
      /\ a.free_by_size \in [Sizes -> SUBSET Starts] /\ a.free_blocks \in Nat
  BY DEF Sound, Values
<1>2. n \in Sizes
  BY <1>1, BlockCountAssumption DEF Sizes
<1>3. /\ n <= Cardinality(FreeBlocks(f))
      /\ Cardinality(FreeBlocks([f EXCEPT ![start] = 0])) = Cardinality(FreeBlocks(f)) - n
  <2> HIDE DEF f
  <2>1. start + f[start] <= BlockCount
    BY <1>1 DEF Sound, Apart, f
  <2>2. \A s, t \in Starts : s < t /\ f[s] # 0 /\ f[t] # 0 => s + f[s] <= t
    BY DEF Sound, Apart, f
  <2> QED BY <1>1, <2>1, <2>2, CountRemove DEF f
<1>4. start \in a.free_by_size[n] /\ n <= a.free_blocks
  BY <1>2, <1>3 DEF Sound, IndexesAgree
<1>5. c = [a EXCEPT !.free_by_start[start] = 0, !.free_by_size[n] = @ \ {start},
                    !.free_blocks = @ - n]
  BY <1>1, <1>2, <1>4, BlockCountAssumption DEF remove_free_run, Sizes
<1> HIDE DEF c
<1>6. /\ c.free_by_start = [f EXCEPT ![start] = 0]
      /\ c.free_by_size = [a.free_by_size EXCEPT ![n] = @ \ {start}]
      /\ c.allocated = a.allocated /\ c.free_blocks = a.free_blocks - n
      /\ c.fault = a.fault /\ c \in Values
  <2>1. c = [free_by_start |-> [f EXCEPT ![start] = 0],
             free_by_size |-> [a.free_by_size EXCEPT ![n] = @ \ {start}],
             allocated |-> a.allocated, free_blocks |-> a.free_blocks - n, fault |-> a.fault]
    BY <1>1, <1>5, Zenon DEF Values
  <2>2. [f EXCEPT ![start] = 0] \in [Starts -> 0 .. BlockCount]
    BY <1>1, BlockCountAssumption
  <2>3. [a.free_by_size EXCEPT ![n] = @ \ {start}] \in [Sizes -> SUBSET Starts]
    BY <1>1, Zenon
  <2>4. a.free_blocks - n \in Nat /\ a.fault \in BOOLEAN
    BY <1>1, <1>2, <1>4, BlockCountAssumption DEF Values, Sizes
  <2> QED BY <1>1, <2>1, <2>2, <2>3, <2>4 DEF Values
<1>7. Apart(c.free_by_start, c.allocated)
  <2>1. Apart(f, a.allocated)
    BY DEF Sound
  <2>2. Apart([f EXCEPT ![start] = 0], a.allocated)
    <3> HIDE DEF f
    <3> QED BY <1>1, <2>1, ApartRemove, Zenon
  <2> QED BY <1>6, <2>2
<1>8. IndexesAgree(c)
  <2>1. ASSUME NEW k \in Sizes, NEW s \in Starts
        PROVE  s \in c.free_by_size[k] <=> c.free_by_start[s] = k
    <3>1. (s \in a.free_by_size[k] <=> f[s] = k) /\ f[start] = n
      BY DEF Sound, IndexesAgree
    <3>2. c.free_by_size[k] = IF k = n THEN a.free_by_size[k] \ {start} ELSE a.free_by_size[k]
      BY <1>1, <1>6
    <3>3. c.free_by_start[s] = IF s = start THEN 0 ELSE f[s]
      BY <1>1, <1>6
    <3>4. k # 0
      BY DEF Sizes
    <3> HIDE DEF f, n
    <3> QED BY <3>1, <3>2, <3>3, <3>4
  <2> QED BY <2>1 DEF IndexesAgree
<1>9. c.free_blocks = Cardinality(FreeBlocks(c.free_by_start)) /\ c.fault = FALSE
  BY <1>3, <1>6 DEF Sound
<1>10. Sound(c)
  BY <1>6, <1>7, <1>8, <1>9 DEF Sound
<1> QED BY <1>6, <1>10 DEF c

\* Marking a hole as allocated, and an allocated run as a hole.
LEMMA AllocatedSound ==
    ASSUME NEW a, Sound(a), NEW start \in Starts, NEW n \in 0 .. BlockCount,
           Apart(a.free_by_start, [a.allocated EXCEPT ![start] = n])
    PROVE  LET c == [a EXCEPT !.allocated[start] = n]
           IN  /\ Sound(c)
               /\ c.free_by_start = a.free_by_start
               /\ c.allocated = [a.allocated EXCEPT ![start] = n]
<1> DEFINE c == [a EXCEPT !.allocated[start] = n]
<1>1. a \in Values /\ a.allocated \in [Starts -> 0 .. BlockCount]
  BY DEF Sound, Values
<1>2. c = [free_by_start |-> a.free_by_start, free_by_size |-> a.free_by_size,
           allocated |-> [a.allocated EXCEPT ![start] = n],
           free_blocks |-> a.free_blocks, fault |-> a.fault]
  BY <1>1 DEF Values
<1> HIDE DEF c
<1>3. /\ c.free_by_start = a.free_by_start /\ c.free_by_size = a.free_by_size
      /\ c.allocated = [a.allocated EXCEPT ![start] = n]
      /\ c.free_blocks = a.free_blocks /\ c.fault = a.fault
  BY <1>2
<1>4. c \in Values
  <2>1. [a.allocated EXCEPT ![start] = n] \in [Starts -> 0 .. BlockCount]
    BY <1>1
  <2> QED BY <1>1, <1>2, <2>1 DEF Values
<1>5. Sound(c)
  BY <1>3, <1>4 DEF Sound, IndexesAgree
<1> QED BY <1>3, <1>5 DEF c

-----------------------------------------------------------------------------
(* Least and greatest elements.                                            *)

LEMMA LeastIn ==
    ASSUME NEW S, S \subseteq Nat, S # {}
    PROVE  Least(S) \in S /\ \A y \in S : Least(S) <= y
<1>1. \E x \in S : \A y \in S : ~(<<y, x>> \in OpToRel(<, Nat))
  BY NatLessThanWellFounded, WFMin, Zenon
<1>2. \E x \in S : \A y \in S : x <= y
  <2>1. PICK x \in S : \A y \in S : ~(<<y, x>> \in OpToRel(<, Nat))
    BY <1>1, Zenon
  <2>2. ASSUME NEW y \in S PROVE x <= y
    <3>1. x \in Nat /\ y \in Nat
      OBVIOUS
    <3>2. ~(y < x)
      BY <2>1, <3>1, Zenon DEF OpToRel
    <3> QED BY <3>1, <3>2
  <2> QED BY <2>2
<1> QED BY <1>2, Zenon DEF Least

\* A statement about the turns of a loop: if it holds first and each turn keeps it, it
\* holds of all turns.  The statement is the set of the turns it holds of.
LEMMA EveryTurn ==
    ASSUME NEW L \in Nat, NEW first \in 0 .. L, NEW Good,
           first \in Good,
           \A n \in first .. L : n # first /\ n - 1 \in Good => n \in Good
    PROVE  \A n \in first .. L : n \in Good
<1> DEFINE Bad == {n \in first .. L : n \notin Good}
<1> SUFFICES ASSUME Bad # {} PROVE FALSE
  OBVIOUS
<1>1. Bad \subseteq Nat
  OBVIOUS
<1>2. PICK n \in Bad : \A m \in Bad : n <= m
  BY <1>1, LeastIn, Zenon
<1>3. n # first /\ n - 1 \in first .. L /\ n - 1 \notin Bad
  BY <1>2
<1> QED BY <1>3

LEMMA GreatestIn ==
    ASSUME NEW S, S \subseteq Starts, S # {}
    PROVE  Greatest(S) \in S /\ \A y \in S : y <= Greatest(S)
<1> DEFINE T == {BlockCount - x : x \in S}
<1>1. T \subseteq Nat /\ T # {}
  <2>1. \A x \in S : BlockCount - x \in Nat
    BY BlockCountAssumption DEF Starts
  <2>2. PICK x \in S : TRUE
    OBVIOUS
  <2>3. BlockCount - x \in T
    OBVIOUS
  <2> QED BY <2>1, <2>3
<1>2. Least(T) \in T /\ \A y \in T : Least(T) <= y
  BY <1>1, LeastIn, Zenon
<1>3. PICK x \in S : Least(T) = BlockCount - x
  BY <1>2, Zenon
<1>4. \A y \in S : y <= x
  <2>1. ASSUME NEW y \in S PROVE y <= x
    <3>1. BlockCount - x <= BlockCount - y
      BY <1>2, <1>3, Zenon
    <3> QED BY <3>1, BlockCountAssumption DEF Starts
  <2> QED BY <2>1
<1> QED BY <1>4 DEF Greatest

-----------------------------------------------------------------------------
(* The tables of a value at rest.                                          *)

\* Every block is in a run.
Covered(f, g) ==
    \A b \in Starts : \E s \in Starts :
        \/ f[s] # 0 /\ s <= b /\ b < s + f[s]
        \/ g[s] # 0 /\ s <= b /\ b < s + g[s]

\* No two free runs touch.
Merged(f) == \A s, t \in Starts : f[s] # 0 /\ t = s + f[s] => f[t] = 0

AtRest(a) ==
    /\ Sound(a)
    /\ Covered(a.free_by_start, a.allocated)
    /\ Merged(a.free_by_start)

\* What allocate does to the tables: a free run of v blocks is cut after n blocks.
LEMMA CutTables ==
    ASSUME NEW f \in [Starts -> 0 .. BlockCount], NEW g \in [Starts -> 0 .. BlockCount],
           Apart(f, g), Covered(f, g), Merged(f),
           NEW start \in Starts, NEW n \in Sizes, n < f[start]
    PROVE  LET cf == [f EXCEPT ![start] = 0]
               rf == [cf EXCEPT ![start + n] = f[start] - n]
           IN  /\ start + n \in Starts /\ f[start] - n \in Sizes
               /\ start + n + (f[start] - n) <= BlockCount
               /\ Hole(cf, g, start + n, f[start] - n)
               /\ Hole(rf, g, start, n)
               /\ Covered(rf, [g EXCEPT ![start] = n])
               /\ Merged(rf)
<1> DEFINE v == f[start]
           cf == [f EXCEPT ![start] = 0]
           rf == [cf EXCEPT ![start + n] = v - n]
           h == [g EXCEPT ![start] = n]
<1>1. /\ start \in Int /\ n \in Int /\ n > 0 /\ v \in Int /\ v > n /\ start + v <= BlockCount
      /\ \A s \in Starts : s \in Int /\ s >= 0 /\ f[s] \in Int /\ g[s] \in Int /\ f[s] >= 0 /\ g[s] >= 0
  <2>1. ASSUME NEW s \in Starts
        PROVE  s \in Int /\ s >= 0 /\ f[s] \in Int /\ g[s] \in Int /\ f[s] >= 0 /\ g[s] >= 0
    <3>1. f[s] \in 0 .. BlockCount /\ g[s] \in 0 .. BlockCount
      OBVIOUS
    <3> QED BY <3>1, BlockCountAssumption DEF Starts
  <2>2. n \in Int /\ n > 0
    BY BlockCountAssumption DEF Sizes
  <2> QED BY <2>1, <2>2 DEF Apart
<1>2. start + n \in Starts /\ v - n \in Sizes /\ start + n # start
  BY <1>1, BlockCountAssumption DEF Starts, Sizes
<1>3. /\ cf[start] = 0 /\ \A s \in Starts : s # start => cf[s] = f[s]
      /\ rf[start] = 0 /\ rf[start + n] = v - n
      /\ \A s \in Starts : s # start /\ s # start + n => rf[s] = f[s]
      /\ h[start] = n /\ \A s \in Starts : s # start => h[s] = g[s]
  BY <1>2
<1> HIDE DEF v, cf, rf, h
<1>4. Hole(cf, g, start + n, v - n)
  BY <1>1, <1>2, <1>3 DEF Hole, Apart, v
<1>5. Hole(rf, g, start, n)
  BY <1>1, <1>2, <1>3 DEF Hole, Apart, v
<1>6. Covered(rf, h)
  <2>1. ASSUME NEW b \in Starts
        PROVE  \E s \in Starts : \/ rf[s] # 0 /\ s <= b /\ b < s + rf[s]
                                 \/ h[s] # 0 /\ s <= b /\ b < s + h[s]
    <3>1. PICK s \in Starts : \/ f[s] # 0 /\ s <= b /\ b < s + f[s]
                              \/ g[s] # 0 /\ s <= b /\ b < s + g[s]
      BY DEF Covered
    <3>2. f[start + n] = 0 /\ g[start] = 0
      BY <1>1, <1>2 DEF Apart, v
    <3>3. b \in Int
      BY <1>1
    <3>4. CASE f[s] # 0 /\ s <= b /\ b < s + f[s]
      <4>1. CASE s = start
        <5>1. CASE b < start + n
          BY <1>1, <1>3, <3>3, <3>4, <4>1, <5>1
        <5>2. CASE b >= start + n
          BY <1>1, <1>2, <1>3, <3>3, <3>4, <4>1, <5>2 DEF v
        <5> QED BY <1>1, <3>3, <5>1, <5>2
      <4>2. CASE s # start
        BY <1>3, <3>2, <3>4, <4>2
      <4> QED BY <4>1, <4>2
    <3>5. CASE g[s] # 0 /\ s <= b /\ b < s + g[s]
      BY <1>3, <3>2, <3>5
    <3> QED BY <3>1, <3>4, <3>5
  <2> QED BY <2>1 DEF Covered
<1>7. Merged(rf)
  <2>1. ASSUME NEW s \in Starts, NEW t \in Starts, rf[s] # 0, t = s + rf[s] PROVE rf[t] = 0
    <3>1. CASE s = start + n
      <4>1. t = start + v
        BY <1>1, <1>3, <2>1, <3>1
      <4>2. f[t] = 0
        BY <1>1, <4>1 DEF Merged, v
      <4> QED BY <1>1, <1>3, <4>1, <4>2
    <3>2. CASE s # start + n
      <4>1. s # start /\ rf[s] = f[s] /\ f[t] = 0
        BY <1>3, <2>1, <3>2 DEF Merged
      <4>2. t # start + n
        BY <1>1, <2>1, <4>1 DEF Apart, v
      <4> QED BY <1>3, <4>1, <4>2
    <3> QED BY <3>1, <3>2
  <2> QED BY <2>1 DEF Merged
<1> QED BY <1>1, <1>2, <1>4, <1>5, <1>6, <1>7 DEF v, cf, rf, h

\* A free run that is taken whole.
LEMMA TakeTables ==
    ASSUME NEW f \in [Starts -> 0 .. BlockCount], NEW g \in [Starts -> 0 .. BlockCount],
           Apart(f, g), Covered(f, g), Merged(f),
           NEW start \in Starts, f[start] # 0
    PROVE  LET cf == [f EXCEPT ![start] = 0]
           IN  /\ start + f[start] <= BlockCount
               /\ Hole(cf, g, start, f[start])
               /\ Covered(cf, [g EXCEPT ![start] = f[start]])
               /\ Merged(cf)
<1> DEFINE n == f[start]
           cf == [f EXCEPT ![start] = 0]
           h == [g EXCEPT ![start] = n]
<1>1. \A s \in Starts : s \in Int /\ s >= 0 /\ f[s] \in Int /\ g[s] \in Int /\ f[s] >= 0 /\ g[s] >= 0
  <2>1. ASSUME NEW s \in Starts
        PROVE  s \in Int /\ s >= 0 /\ f[s] \in Int /\ g[s] \in Int /\ f[s] >= 0 /\ g[s] >= 0
    <3>1. f[s] \in 0 .. BlockCount /\ g[s] \in 0 .. BlockCount
      OBVIOUS
    <3> QED BY <3>1, BlockCountAssumption DEF Starts
  <2> QED BY <2>1
<1>2. start + n <= BlockCount /\ g[start] = 0
  BY <1>1 DEF Apart
<1>3. /\ cf[start] = 0 /\ \A s \in Starts : s # start => cf[s] = f[s]
      /\ h[start] = n /\ \A s \in Starts : s # start => h[s] = g[s]
  OBVIOUS
<1> HIDE DEF cf, h
<1>4. Hole(cf, g, start, n)
  BY <1>1, <1>3 DEF Hole, Apart
<1>5. Covered(cf, h)
  BY <1>2, <1>3 DEF Covered
<1>6. Merged(cf)
  BY <1>1, <1>3 DEF Merged
<1> QED BY <1>2, <1>4, <1>5, <1>6 DEF cf, h

\* allocate leaves the allocator at rest; the one run it adds to the allocated ones
\* begins where none did.
LEMMA AllocateRests ==
    ASSUME NEW a, AtRest(a), NEW n \in Sizes, Fitting(a, n) # {}
    PROVE  /\ AtRest(allocate(a, n))
           /\ FitStart(a, n) \in Starts
           /\ a.allocated[FitStart(a, n)] = 0
           /\ allocate(a, n).allocated = [a.allocated EXCEPT ![FitStart(a, n)] = n]
<1> DEFINE v == Least(Fitting(a, n))
           start == FitStart(a, n)
           cut == remove_free_run(a, start, v)
           rest == IF v > n THEN add_free_run(cut, start + n, v - n) ELSE cut
           f == a.free_by_start
           g == a.allocated
<1>1. /\ f \in [Starts -> 0 .. BlockCount] /\ g \in [Starts -> 0 .. BlockCount]
      /\ a.free_by_size \in [Sizes -> SUBSET Starts]
      /\ Apart(f, g) /\ Covered(f, g) /\ Merged(f) /\ Sound(a)
  BY DEF AtRest, Sound, Values
<1>2. v \in Sizes /\ v >= n /\ a.free_by_size[v] # {}
  <2>1. Fitting(a, n) \subseteq Nat
    BY BlockCountAssumption DEF Fitting, Sizes
  <2>2. v \in Fitting(a, n)
    BY <2>1, LeastIn
  <2> QED BY <2>2, Zenon DEF Fitting
<1>3. start \in Starts /\ f[start] = v
  <2>1. a.free_by_size[v] \subseteq Starts /\ Starts \subseteq Nat
    BY <1>1, <1>2, BlockCountAssumption DEF Starts
  <2>2. start \in a.free_by_size[v]
    <3> HIDE DEF v
    <3>1. Least(a.free_by_size[v]) \in a.free_by_size[v]
      BY <1>2, <2>1, LeastIn, Zenon
    <3> QED BY <3>1 DEF FitStart, v
  <2>3. start \in Starts
    BY <2>1, <2>2
  <2> HIDE DEF v, start
  <2> QED BY <1>1, <1>2, <2>2, <2>3 DEF Sound, IndexesAgree, f
<1>4. allocate(a, n) = [rest EXCEPT !.allocated[start] = n]
  BY DEF allocate
<1> HIDE DEF v, start
<1>5. v \in Int /\ n \in Int /\ n > 0 /\ v # 0 /\ n \in 0 .. BlockCount
  BY <1>2, BlockCountAssumption DEF Sizes
<1>6. /\ Sound(cut) /\ cut.free_by_start = [f EXCEPT ![start] = 0] /\ cut.allocated = g
  BY <1>1, <1>3, <1>5, RemoveSound
<1> HIDE DEF cut
<1>7. /\ Sound(rest) /\ rest.allocated = g
      /\ Hole(rest.free_by_start, g, start, n) /\ start + n <= BlockCount
      /\ Covered(rest.free_by_start, [g EXCEPT ![start] = n])
      /\ Merged(rest.free_by_start)
  <2>1. CASE v > n
    <3> DEFINE rf == [[f EXCEPT ![start] = 0] EXCEPT ![start + n] = v - n]
    <3>1. /\ start + n \in Starts /\ v - n \in Sizes
          /\ start + n + (v - n) <= BlockCount
          /\ Hole([f EXCEPT ![start] = 0], g, start + n, v - n)
          /\ Hole(rf, g, start, n)
          /\ Covered(rf, [g EXCEPT ![start] = n])
          /\ Merged(rf)
      <4> HIDE DEF f, g
      <4>1. n < f[start]
        BY <1>3, <1>5, <2>1
      <4> QED BY <1>1, <1>3, <4>1, CutTables, Zenon
    <3> HIDE DEF f, g
    <3>2. /\ Sound(rest) /\ rest.free_by_start = rf /\ rest.allocated = g
      <4>1. rest = add_free_run(cut, start + n, v - n)
        BY <2>1
      <4> HIDE DEF rest
      <4>2. Hole(cut.free_by_start, cut.allocated, start + n, v - n)
        BY <1>6, <3>1
      <4>3. /\ Sound(add_free_run(cut, start + n, v - n))
            /\ add_free_run(cut, start + n, v - n).free_by_start
                 = [cut.free_by_start EXCEPT ![start + n] = v - n]
            /\ add_free_run(cut, start + n, v - n).allocated = cut.allocated
        <5>1. /\ Sound(cut) /\ start + n \in Starts /\ v - n \in Sizes
              /\ (start + n) + (v - n) <= BlockCount
          BY <1>6, <3>1
        <5> QED BY <4>2, <5>1, AddSound, Zenon
      <4> QED BY <1>6, <4>1, <4>3
    <3>3. start + n <= BlockCount
      BY <1>3, <3>1, <1>5, BlockCountAssumption DEF Starts
    <3> QED BY <3>1, <3>2, <3>3
  <2>2. CASE ~(v > n)
    <3>1. v = n /\ rest = cut
      BY <1>2, <1>5, <2>2
    <3> HIDE DEF rest, f, g
    <3>2. /\ start + f[start] <= BlockCount
          /\ Hole([f EXCEPT ![start] = 0], g, start, f[start])
          /\ Covered([f EXCEPT ![start] = 0], [g EXCEPT ![start] = f[start]])
          /\ Merged([f EXCEPT ![start] = 0])
      BY <1>1, <1>3, <1>5, TakeTables, Zenon
    <3> QED BY <1>3, <1>6, <3>1, <3>2
  <2> QED BY <2>1, <2>2
<1> HIDE DEF rest, f, g
<1>8. Apart(rest.free_by_start, [g EXCEPT ![start] = n])
  <2>1. /\ rest.free_by_start \in [Starts -> 0 .. BlockCount]
        /\ Apart(rest.free_by_start, g)
    BY <1>7 DEF Sound, Values
  <2> QED BY <1>1, <1>3, <1>7, <2>1, ApartAdd, Zenon
<1>9. LET c == [rest EXCEPT !.allocated[start] = n]
      IN  /\ Sound(c)
          /\ c.free_by_start = rest.free_by_start
          /\ c.allocated = [rest.allocated EXCEPT ![start] = n]
  BY <1>3, <1>5, <1>7, <1>8, AllocatedSound
<1>10. /\ Sound(allocate(a, n))
       /\ allocate(a, n).free_by_start = rest.free_by_start
       /\ allocate(a, n).allocated = [g EXCEPT ![start] = n]
  BY <1>4, <1>7, <1>9
<1>11. AtRest(allocate(a, n))
  BY <1>7, <1>10 DEF AtRest
<1>12. g[start] = 0
  <2>1. start \in Int /\ f[start] \in Int /\ f[start] > 0 /\ g[start] \in Int /\ g[start] >= 0
    BY <1>1, <1>2, <1>3, BlockCountAssumption DEF Starts, Sizes
  <2>2. f[start] # 0 /\ g[start] # 0 => start + f[start] <= start \/ start + g[start] <= start
    BY <1>1, <1>3, Zenon DEF Apart
  <2> QED BY <2>1, <2>2
<1> QED BY <1>3, <1>10, <1>11, <1>12 DEF start, g

\* The free run that is merged from the left with a run at start, if any, begins at
\* left; the one merged at its end, if any, stops at right.
MergesFrom(f, start, left) ==
    \/ left = start /\ \A s \in Starts : f[s] # 0 => s + f[s] # start
    \/ f[left] # 0 /\ left + f[left] = start
MergesTo(f, end, right) ==
    \/ right = end /\ (end \in Starts => f[end] = 0)
    \/ end \in Starts /\ f[end] # 0 /\ right = end + f[end]

\* r is f without the runs at left and end.
Without(f, left, end, r) ==
    /\ r[left] = 0
    /\ end \in Starts => r[end] = 0
    /\ \A s \in Starts : s # left /\ s # end => r[s] = f[s]

\* What release does to the tables: the run at start0 and the free runs that touch it
\* become one free run from left to right; r is the table without its parts.
LEMMA MergeTables ==
    ASSUME NEW f \in [Starts -> 0 .. BlockCount], NEW g \in [Starts -> 0 .. BlockCount],
           Apart(f, g), Covered(f, g), Merged(f),
           NEW start0 \in Starts, g[start0] # 0,
           NEW left \in Starts, NEW right \in Int, NEW end, end = start0 + g[start0],
           MergesFrom(f, start0, left), MergesTo(f, end, right),
           NEW r \in [Starts -> 0 .. BlockCount], Without(f, left, end, r)
    PROVE  LET k == [g EXCEPT ![start0] = 0]
               h == [r EXCEPT ![left] = right - left]
           IN  /\ right - left \in Sizes /\ left + (right - left) <= BlockCount
               /\ Hole(r, k, left, right - left)
               /\ Covered(h, k)
               /\ Merged(h)
<1> DEFINE k == [g EXCEPT ![start0] = 0]
           h == [r EXCEPT ![left] = right - left]
<1> USE DEF MergesFrom, MergesTo, Without
<1>1. \A s \in Starts : s \in Int /\ s >= 0 /\ f[s] \in Int /\ g[s] \in Int /\ f[s] >= 0 /\ g[s] >= 0
  <2>1. ASSUME NEW s \in Starts
        PROVE  s \in Int /\ s >= 0 /\ f[s] \in Int /\ g[s] \in Int /\ f[s] >= 0 /\ g[s] >= 0
    <3>1. f[s] \in 0 .. BlockCount /\ g[s] \in 0 .. BlockCount
      OBVIOUS
    <3> QED BY <3>1, BlockCountAssumption DEF Starts
  <2> QED BY <2>1
<1>2. /\ k[start0] = 0 /\ \A s \in Starts : s # start0 => k[s] = g[s]
      /\ h[left] = right - left /\ \A s \in Starts : s # left => h[s] = r[s]
  OBVIOUS
<1> HIDE DEF k, h
<1>3. f[start0] = 0 /\ end \in Int /\ end > start0
  BY <1>1 DEF Apart
<1>4. left <= start0 /\ end <= right /\ right <= BlockCount /\ left < right /\ left >= 0
  BY <1>1, <1>3 DEF Apart
<1>5. right - left \in Sizes /\ left + (right - left) <= BlockCount
  BY <1>1, <1>4, BlockCountAssumption DEF Sizes
<1>6. \A s \in Starts : r[s] # 0 => r[s] = f[s] /\ s # left /\ s # end
  OBVIOUS
<1>7. Hole(r, k, left, right - left)
  <2>1. ASSUME NEW s \in Starts, r[s] # 0 PROVE s + r[s] <= left \/ right <= s
    <3>1. r[s] = f[s] /\ s # left /\ s # end /\ f[s] # 0
      BY <1>6, <2>1
    <3>2. s + f[s] <= start0 \/ end <= s
      BY <1>1, <3>1 DEF Apart
    <3>3. CASE s + f[s] <= start0
      BY <1>1, <3>1, <3>3 DEF Apart
    <3>4. CASE end <= s
      BY <1>1, <1>3, <3>1, <3>4 DEF Apart
    <3> QED BY <3>2, <3>3, <3>4
  <2>2. ASSUME NEW s \in Starts, k[s] # 0 PROVE s + k[s] <= left \/ right <= s
    <3>1. k[s] = g[s] /\ s # start0 /\ g[s] # 0
      BY <1>2, <2>2
    <3>2. s + g[s] <= start0 \/ end <= s
      BY <1>1, <3>1 DEF Apart
    <3>3. CASE s + g[s] <= start0
      BY <1>1, <3>1, <3>3 DEF Apart
    <3>4. CASE end <= s
      BY <1>1, <1>3, <3>1, <3>4 DEF Apart
    <3> QED BY <3>2, <3>3, <3>4
  <2>3. left + (right - left) = right
    BY <1>1
  <2> QED BY <2>1, <2>2, <2>3, <1>2, <1>3 DEF Hole
<1>8. Covered(h, k)
  <2>1. ASSUME NEW b \in Starts
        PROVE  \E s \in Starts : \/ h[s] # 0 /\ s <= b /\ b < s + h[s]
                                 \/ k[s] # 0 /\ s <= b /\ b < s + k[s]
    <3>1. CASE left <= b /\ b < right
      <4>1. b < left + h[left] /\ h[left] # 0
        BY <1>1, <1>2, <1>4, <3>1
      <4> QED BY <3>1, <4>1
    <3>2. CASE ~(left <= b /\ b < right)
      <4>1. PICK s \in Starts : \/ f[s] # 0 /\ s <= b /\ b < s + f[s]
                                \/ g[s] # 0 /\ s <= b /\ b < s + g[s]
        BY DEF Covered
      <4>2. CASE f[s] # 0 /\ s <= b /\ b < s + f[s]
        <5>1. s # left
          BY <1>1, <1>3, <1>4, <3>2, <4>2
        <5>2. s # end
          BY <1>1, <1>3, <1>4, <3>2, <4>2
        <5>3. h[s] = f[s]
          BY <1>2, <5>1, <5>2
        <5> QED BY <4>2, <5>3
      <4>3. CASE g[s] # 0 /\ s <= b /\ b < s + g[s]
        <5>1. s # start0
          BY <1>1, <1>3, <1>4, <3>2, <4>3
        <5> QED BY <1>2, <4>3, <5>1
      <4> QED BY <4>1, <4>2, <4>3
    <3> QED BY <3>1, <3>2
  <2> QED BY <2>1 DEF Covered
<1>9. Merged(h)
  <2>1. ASSUME NEW s \in Starts, NEW t \in Starts, h[s] # 0, t = s + h[s] PROVE h[t] = 0
    <3>1. CASE s = left
      <4>1. t = right /\ t # left /\ t >= end
        BY <1>1, <1>2, <1>3, <1>4, <2>1, <3>1
      <4>2. t # end => h[t] = f[t]
        BY <1>2, <4>1
      <4>3. t # end => f[t] = 0
        BY <1>1, <4>1 DEF Merged
      <4>4. t = end => h[t] = 0
        BY <1>2, <4>1
      <4> QED BY <4>2, <4>3, <4>4
    <3>2. CASE s # left
      <4>1. h[s] = f[s] /\ f[s] # 0 /\ s # end /\ h[s] = r[s]
        BY <1>2, <1>6, <2>1, <3>2
      <4>2. f[t] = 0
        BY <2>1, <4>1 DEF Merged
      <4>3. t # left
        BY <1>1, <2>1, <4>1, <4>2
      <4> QED BY <1>2, <1>6, <4>2, <4>3
    <3> QED BY <3>1, <3>2
  <2> QED BY <2>1 DEF Merged
<1> QED BY <1>5, <1>7, <1>8, <1>9 DEF k, h

\* release leaves the allocator at rest and takes one run from the allocated ones.
LEMMA ReleaseRests ==
    ASSUME NEW a, AtRest(a), NEW start0 \in Starts, a.allocated[start0] # 0
    PROVE  /\ AtRest(release(a, start0))
           /\ release(a, start0).allocated = [a.allocated EXCEPT ![start0] = 0]
<1> DEFINE f == a.free_by_start
           g == a.allocated
           blocks0 == a.allocated[start0]
           a0 == [a EXCEPT !.allocated[start0] = 0]
           before == Before(a0, start0)
           prev == Greatest(before)
           joins == before # {} /\ prev + a0.free_by_start[prev] = start0
           a1 == IF joins THEN remove_free_run(a0, prev, a0.free_by_start[prev]) ELSE a0
           start == IF joins THEN prev ELSE start0
           blocks == IF joins THEN blocks0 + a0.free_by_start[prev] ELSE blocks0
           next == start + blocks
           after == next < BlockCount /\ a1.free_by_start[next] # 0
           a2 == IF after THEN remove_free_run(a1, next, a1.free_by_start[next]) ELSE a1
           total == IF after THEN blocks + a1.free_by_start[next] ELSE blocks
           k == [g EXCEPT ![start0] = 0]
<1>1. release(a, start0) = add_free_run(a2, start, total)
  BY DEF release
<1>2. /\ f \in [Starts -> 0 .. BlockCount] /\ g \in [Starts -> 0 .. BlockCount]
      /\ Apart(f, g) /\ Covered(f, g) /\ Merged(f) /\ Sound(a)
  BY DEF AtRest, Sound, Values
<1>3. Sound(a0) /\ a0.free_by_start = f /\ a0.allocated = k
  <2>1. Apart(f, k)
    <3> HIDE DEF f, g
    <3> QED BY <1>2, ApartRemove, Zenon
  <2>2. 0 \in 0 .. BlockCount
    BY BlockCountAssumption
  <2> QED BY <1>2, <2>1, <2>2, AllocatedSound
<1> HIDE DEF a0
<1>4. \A s \in Starts : s \in Int /\ s >= 0 /\ s < BlockCount /\ f[s] \in Int /\ f[s] >= 0
                         /\ g[s] \in Int /\ g[s] >= 0
  <2>1. ASSUME NEW s \in Starts
        PROVE  s \in Int /\ s >= 0 /\ s < BlockCount /\ f[s] \in Int /\ f[s] >= 0
               /\ g[s] \in Int /\ g[s] >= 0
    <3>1. f[s] \in 0 .. BlockCount /\ g[s] \in 0 .. BlockCount
      BY <1>2
    <3> QED BY <3>1, BlockCountAssumption DEF Starts
  <2> QED BY <2>1
<1> HIDE DEF f, g
<1>5. before = {s \in Starts : s < start0 /\ f[s] # 0}
  BY <1>3 DEF Before
<1> HIDE DEF before
<1>6. before # {} => prev \in before /\ \A y \in before : y <= prev
  <2>1. before \subseteq Starts
    BY <1>5, Zenon
  <2> QED BY <2>1, GreatestIn, Zenon
<1> HIDE DEF prev
\* Either the run before ends at start0, or no free run does.
<1>7. /\ start \in Starts /\ blocks \in Int /\ next = start0 + g[start0]
      /\ \/ start = start0 /\ \A s \in Starts : f[s] # 0 => s + f[s] # start0
         \/ f[start] # 0 /\ start + f[start] = start0
      /\ Sound(a1) /\ a1.allocated = k /\ a1.free_by_start = [f EXCEPT ![start] = 0]
  <2>1. CASE joins
    <3>1. prev \in Starts /\ f[prev] # 0 /\ prev + f[prev] = start0
      BY <1>3, <1>5, <1>6, <2>1
    <3>2. start = prev /\ blocks = g[start0] + f[prev] /\ a1 = remove_free_run(a0, prev, f[prev])
      BY <1>3, <2>1 DEF g
    <3> HIDE DEF start, blocks, a1
    <3>3. next = start0 + g[start0] /\ blocks \in Int
      BY <1>4, <3>1, <3>2
    <3>4. Sound(a1) /\ a1.allocated = k /\ a1.free_by_start = [f EXCEPT ![prev] = 0]
      BY <1>3, <3>1, <3>2, RemoveSound
    <3> QED BY <3>1, <3>2, <3>3, <3>4
  <2>2. CASE ~joins
    <3>1. start = start0 /\ blocks = g[start0] /\ a1 = a0
      BY <2>2 DEF g
    <3>2. ASSUME NEW s \in Starts, f[s] # 0, s + f[s] = start0 PROVE FALSE
      <4>1. s \in before
        BY <1>4, <1>5, <3>2
      <4>2. prev \in Starts /\ prev < start0 /\ f[prev] # 0 /\ s <= prev
        BY <1>5, <1>6, <4>1
      <4>3. s = prev
        BY <1>2, <1>4, <3>2, <4>2 DEF Apart
      <4> QED BY <1>3, <2>2, <3>2, <4>1, <4>3
    <3>3. f[start0] = 0
      BY <1>2, <1>4 DEF Apart, g
    <3>4. f = [f EXCEPT ![start0] = 0]
      BY <1>2, <3>3
    <3> HIDE DEF start, blocks, a1
    <3> QED BY <1>3, <1>4, <3>1, <3>2, <3>4
  <2> QED BY <2>1, <2>2
<1> HIDE DEF start, blocks, a1, next, k
<1>8. start < next /\ next \in Int /\ next >= 0
  BY <1>4, <1>7 DEF g
<1>9. next < BlockCount <=> next \in Starts
  BY <1>8, BlockCountAssumption DEF Starts
<1>10. next \in Starts => a1.free_by_start[next] = f[next]
  BY <1>2, <1>7, <1>8
\* The same on the other side.
<1>11. /\ \/ start + total = next /\ (next \in Starts => f[next] = 0)
          \/ next \in Starts /\ f[next] # 0 /\ start + total = next + f[next]
       /\ total \in Int /\ Sound(a2) /\ a2.allocated = k
       /\ a2.free_by_start[start] = 0 /\ (next \in Starts => a2.free_by_start[next] = 0)
       /\ \A s \in Starts : s # start /\ s # next => a2.free_by_start[s] = f[s]
  <2>1. CASE after
    <3>1. /\ next \in Starts /\ f[next] # 0 /\ total = blocks + f[next]
          /\ a2 = remove_free_run(a1, next, a1.free_by_start[next])
      BY <1>9, <1>10, <2>1
    <3> HIDE DEF total, a2
    <3>2. /\ Sound(a2) /\ a2.allocated = k
          /\ a2.free_by_start = [a1.free_by_start EXCEPT ![next] = 0]
      BY <1>7, <1>10, <3>1, RemoveSound, Zenon
    <3>3. start + total = next + f[next] /\ total \in Int
      BY <1>4, <1>7, <3>1 DEF next
    <3> QED BY <1>2, <1>7, <1>8, <3>1, <3>2, <3>3, Zenon
  <2>2. CASE ~after
    <3>1. total = blocks /\ a2 = a1 /\ (next \in Starts => f[next] = 0)
      BY <1>9, <1>10, <2>2
    <3> HIDE DEF total, a2
    <3>2. start + total = next
      BY <3>1 DEF next
    <3> QED BY <1>2, <1>7, <1>10, <3>1, <3>2, Zenon
  <2> QED BY <2>1, <2>2
<1> HIDE DEF total, a2
<1>12. a2.free_by_start \in [Starts -> 0 .. BlockCount]
  BY <1>11 DEF Sound, Values
<1>13. /\ total \in Sizes /\ start + total <= BlockCount
       /\ Hole(a2.free_by_start, k, start, total)
       /\ Covered([a2.free_by_start EXCEPT ![start] = total], k)
       /\ Merged([a2.free_by_start EXCEPT ![start] = total])
  <2> DEFINE right == start + total
  <2>1. right \in Int /\ right - start = total /\ start + (right - start) = right
    BY <1>4, <1>7, <1>11
  <2>2. /\ right - start \in Sizes /\ start + (right - start) <= BlockCount
        /\ Hole(a2.free_by_start, [g EXCEPT ![start0] = 0], start, right - start)
        /\ Covered([a2.free_by_start EXCEPT ![start] = right - start], [g EXCEPT ![start0] = 0])
        /\ Merged([a2.free_by_start EXCEPT ![start] = right - start])
    <3>1. g[start0] # 0 /\ MergesFrom(f, start0, start)
      BY <1>7 DEF g, MergesFrom
    <3>2. MergesTo(f, next, right) /\ Without(f, start, next, a2.free_by_start)
      BY <1>11 DEF MergesTo, Without
    <3> HIDE DEF right
    <3> QED BY <1>2, <1>7, <1>12, <2>1, <3>1, <3>2, MergeTables, Zenon
  <2> HIDE DEF right
  <2> QED BY <2>1, <2>2 DEF k
<1>14. /\ Sound(add_free_run(a2, start, total))
       /\ add_free_run(a2, start, total).free_by_start = [a2.free_by_start EXCEPT ![start] = total]
       /\ add_free_run(a2, start, total).allocated = k
  <2>1. Hole(a2.free_by_start, a2.allocated, start, total)
    BY <1>11, <1>13
  <2>2. Sound(a2) /\ start \in Starts /\ total \in Sizes /\ start + total <= BlockCount
    BY <1>7, <1>11, <1>13
  <2>3. /\ Sound(add_free_run(a2, start, total))
        /\ add_free_run(a2, start, total).free_by_start
             = [a2.free_by_start EXCEPT ![start] = total]
        /\ add_free_run(a2, start, total).allocated = a2.allocated
    BY <2>1, <2>2, AddSound, Zenon
  <2> QED BY <1>11, <2>3
<1>15. AtRest(release(a, start0))
  BY <1>1, <1>13, <1>14 DEF AtRest
<1> QED BY <1>1, <1>14, <1>15 DEF k, g

\* A new allocator is at rest: one free run is the whole arena.
LEMMA NewRests == AtRest(new) /\ \A s \in Starts : new.allocated[s] = 0
<1>1. 0 \in Starts /\ BlockCount \in Sizes /\ 0 \in 0 .. BlockCount
  BY BlockCountAssumption DEF Starts, Sizes
<1>2. /\ NoRuns.free_by_start = [s \in Starts |-> 0] /\ NoRuns.allocated = [s \in Starts |-> 0]
      /\ NoRuns.free_by_size = [n \in Sizes |-> {}] /\ NoRuns.free_blocks = 0
      /\ NoRuns.fault = FALSE
  BY DEF NoRuns
<1>3. NoRuns \in Values
  <2>1. [s \in Starts |-> 0] \in [Starts -> 0 .. BlockCount]
    BY <1>1
  <2>2. [n \in Sizes |-> {}] \in [Sizes -> SUBSET Starts]
    OBVIOUS
  <2> QED BY <2>1, <2>2 DEF NoRuns, Values
<1>4. Apart(NoRuns.free_by_start, NoRuns.allocated)
  BY <1>2, BlockCountAssumption DEF Apart, Starts
<1>5. IndexesAgree(NoRuns)
  BY <1>2 DEF IndexesAgree, Sizes
<1>6. NoRuns.free_blocks = Cardinality(FreeBlocks(NoRuns.free_by_start))
  <2>1. FreeBlocks(NoRuns.free_by_start) = {}
    BY <1>2 DEF FreeBlocks
  <2> QED BY <1>2, <2>1, FS_EmptySet
<1>7. Sound(NoRuns)
  BY <1>2, <1>3, <1>4, <1>5, <1>6 DEF Sound
<1>8. Hole(NoRuns.free_by_start, NoRuns.allocated, 0, BlockCount)
  BY <1>2 DEF Hole
<1>9. /\ Sound(new) /\ new.allocated = NoRuns.allocated
      /\ new.free_by_start = [NoRuns.free_by_start EXCEPT ![0] = BlockCount]
  <2>1. 0 + BlockCount <= BlockCount
    BY BlockCountAssumption
  <2> QED BY <1>1, <1>7, <1>8, <2>1, AddSound DEF new
<1>10. /\ new.free_by_start[0] = BlockCount
       /\ \A s \in Starts : s # 0 => new.free_by_start[s] = 0
  BY <1>1, <1>2, <1>9
<1>11. Covered(new.free_by_start, new.allocated)
  BY <1>1, <1>10, BlockCountAssumption DEF Covered, Starts
<1>12. Merged(new.free_by_start)
  BY <1>1, <1>10, BlockCountAssumption DEF Merged, Starts
<1> QED BY <1>2, <1>9, <1>11, <1>12 DEF AtRest
=============================================================================
