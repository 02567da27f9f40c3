---------------------------- MODULE KernelCalls ----------------------------
(* Calls of the numeric kernels on enumerated inputs: every specialised      *)
(* version next to the plain one it replaces, and every coding next to what  *)
(* it codes.                                                                 *)
EXTENDS RabitqCode, Calls

CONSTANTS BlockLanes,       \* lanes of a sparse block
          FhtBlock,         \* log2 of half the transform's block
          Patterns,         \* input patterns: element type -> set of names
          SparseIndices,    \* indices of the sparse vectors
          MaxDim            \* the longest vector that is rotated

F32 == INSTANCE FloatingF32
F16 == INSTANCE FloatingF16
U8 == INSTANCE Byte
Packs == INSTANCE Packed
Sparse == INSTANCE SparseKernels WITH Lanes <- BlockLanes
Rot == INSTANCE Rotation WITH Blocked <- FhtBlock

----------------------------------------------------------------------------
\* Element i of the two operands of a pattern.
Mixed(i) == <<((7 * i + 3) % 13) - 6, ((5 * i + 1) % 11) - 5>>
Bits2(n) == {b \in {0, 63} : (IF b = 0 THEN n % 2 ELSE (n \div 2) % 2) = 1}
Element(p, i) ==
    CASE p = "mixed" -> Mixed(i)
      [] p = "positive" -> <<2 + (i % 5), 1 + (i % 3)>>
      [] p = "negative" -> <<-(2 + (i % 7)), -(1 + (i % 3))>>
      [] p = "large" -> <<40000 + i, 40000 + i>>
      [] p = "bytes" -> <<(37 * i + 5) % 256, (91 * i) % 256>>
      [] p = "ones" -> <<255, 255>>
      [] p = "words" -> <<Bits2((3 * i + 1) % 4), Bits2((i \div 2) % 4)>>
Operand(p, n, side) == [i \in 1..n |-> Element(p, i)[side]]

LaneFunctions == F32!Kernels \cup F16!Kernels \cup U8!Kernels \cup Packs!Kernels

\* The minimum of no element is the start value, which is no number of its type.
Shortest(f) == IF f.fallback.fold = "minmax" THEN 1 ELSE 0

CallLanes ==
    call = Idle /\
    \E f \in LaneFunctions :
        \E n \in Shortest(f)..(2 * Widest(f)), p \in Patterns[f.type] :
            LET x == Operand(p, n, 1)
                y == Operand(p, n, 2)
            IN  Returns([kind |-> "lanes", f |-> f, n |-> n, p |-> p],
                        {Result(k, f.type, x, y, n) : k \in f.specialised},
                        Result(f.fallback, f.type, x, y, n))

CallStores ==
    call = Idle /\
    \E n \in 0..40 :
        Returns([kind |-> "stores", n |-> n],
                {<<Len(Walk(k, n).place), Written(k, n) <= Capacity(k, n)>> : k \in MulAddRound},
                <<n, TRUE>>)

----------------------------------------------------------------------------
Sorted(S) == SetToSortSeq(S, <)
SparseVector(S, side) ==
    [idx |-> Sorted(S), val |-> [i \in 1..Cardinality(S) |-> Mixed(Sorted(S)[i])[side]]]

CallSparse ==
    call = Idle /\
    \E S, T \in SUBSET SparseIndices :
        LET l == SparseVector(S, 1)
            r == SparseVector(T, 2)
        IN  Returns([kind |-> "sparse", l |-> l, r |-> r],
                    {<<Sparse!reduce_sum_of_xy_sparse_v4(l, r),
                       Sparse!reduce_sum_of_d2_sparse_v4(l, r)>>},
                    <<Sparse!reduce_sum_of_xy_sparse(l, r), Sparse!reduce_sum_of_d2_sparse(l, r)>>)

\* Sorted lanes with any one index in common, and unused lanes at their ends.
CallIntersect ==
    call = Idle /\
    \E i, j \in Sparse!Lane16, used \in {9, 16} :
        LET a == [k \in Sparse!Lane16 |-> IF k < used THEN k ELSE Sparse!Unused]
            b == [k \in Sparse!Lane16 |-> IF k = j THEN i ELSE IF k < 12 THEN 100 + k ELSE Sparse!Unused]
        IN  Returns([kind |-> "sparse", a |-> a, b |-> b],
                    {Sparse!emulate_mm512_2intersect_epi32(a, b)},
                    <<{k \in Sparse!Lane16 : a[k] \in {b[m] : m \in Sparse!Lane16}},
                      {k \in Sparse!Lane16 : b[k] \in {a[m] : m \in Sparse!Lane16}}>>)

----------------------------------------------------------------------------
\* Codes of 32 vectors, n codes each, and a table of bytes; full has only the
\* largest bytes.
CodesOf(n, seed) == [v \in Vector |-> [i \in 1..n |-> (i * 5 + v * 3 + seed) % 16]]
TableOf(n, full) == [i \in 1..n |-> [m \in 0..15 |-> IF full THEN 255 ELSE (i * 91 + m * 53) % 256]]
LookedUp(x, lut) == [v \in Vector |-> SumOfSeq([i \in 1..Len(lut) |-> lut[i][x[v][i]]])]

CallScan ==
    call = Idle /\
    \E n \in 0..9, seed \in {0, 7}, full \in BOOLEAN :
        LET x == CodesOf(n, seed)
            lut == TableOf(n, full)
        IN  Returns([kind |-> "fastscan", n |-> n, seed |-> seed, full |-> full],
                    {<<unpack(pack(x)), ScanBy(k, pack(x), lut)>> : k \in ScanVersions}
                        \cup {<<x, scan(pack(x), lut)>>, <<x, accumulate(pack(x), lut)>>},
                    <<x, LookedUp(x, lut)>>)

\* At the number of rows where a 16-bit sum is full, and one more.
CallScanLimit ==
    call = Idle /\
    \E n \in {STEP, STEP + 1} :
        LET x == CodesOf(n, 0)
            lut == TableOf(n, TRUE)
        IN  Returns([kind |-> "fastscan", n |-> n, seed |-> 0, full |-> TRUE],
                    {accumulate(pack(x), lut)}
                        \cup (IF n = STEP THEN {ScanBy(scan_v4, pack(x), lut)} ELSE {}),
                    LookedUp(x, lut))

----------------------------------------------------------------------------
\* How far estimates are from what they estimate, in units of half a step: at
\* most one per table row, or per element.
Signs(n) == [1..n -> {-1, 1}]
Within(estimate, exact, unit, count) == 2 * Abs(estimate - exact) <= unit * count

CallEstimate ==
    call = Idle /\
    \E n \in 1..5 :
        \E u \in Signs(n), v \in (IF n <= 3 THEN [1..n -> {-3, 0, 1, 2}]
                                  ELSE {[i \in 1..n |-> Mixed(i)[1]], [i \in 1..n |-> 3]}) :
            LET block == BlockLut(v)
                binary == BinaryLut(v)
                minus == [i \in 1..n |-> -u[i]]
                e == BlockEstimates(<<u, minus>>, block)
            IN  Returns([kind |-> "estimate", u |-> u, v |-> v],
                        {<<Within(e[1], 255 * SignedSum(u, v), block.knum, Chunks(n, 4)),
                           Within(e[2], 255 * SignedSum(minus, v), block.knum, Chunks(n, 4)),
                           Within(BinaryEstimate(u, binary), 63 * SignedSum(u, v), binary.knum, n)>>},
                        <<TRUE, TRUE, TRUE>>)

CallExtended ==
    call = Idle /\
    \E n \in 1..6, bx \in {1, 2, 4}, p \in {"mixed", "positive", "negative"} :
        LET x == ugly_code(bx, Operand(p, n, 1))
            y == ugly_code(4, Operand(p, n, 2))
            sum == extended_accumulate(bx, Planes(bx, x), 4, Planes(4, y))
            half == IF bx = 4 THEN {halfbyte_accumulate(halfbyte_pack_code(x), halfbyte_pack_code(y))}
                    ELSE {}
        IN  Returns([kind |-> "estimate", x |-> x, y |-> y],
                    {<<HalfProcessIp(n, s, bx, x, 4, y), Range(x) \subseteq 0..(2^bx - 1)>> :
                        s \in {sum} \cup half},
                    <<LatticeIp(bx, x, 4, y), TRUE>>)

----------------------------------------------------------------------------
Exact(n, p) == [i \in 1..n |-> <<Element(p, i)[1], 0>>]
Flips(n, seed) == [r \in 0..3 |-> [j \in 1..n |-> (j * (r + 1) + seed) % 3 = 0]]

CallFht ==
    call = Idle /\
    \E i \in 0..(FhtBlock + 2), p \in {"mixed", "positive"} :
        LET x == Exact(2^i, p)
        IN  Returns([kind |-> "rotate", x |-> x, seed |-> 0], {Rot!fht(x)}, Rot!Hadamard(x))

CallRotate ==
    call = Idle /\
    \E n \in 1..MaxDim, p \in {"mixed", "positive"}, seed \in 0..2 :
        LET v == [e |-> 0, x |-> Exact(n, p)]
            w == Rot!rotate_reversed_inplace(Flips(n, seed), Rot!rotate_inplace(Flips(n, seed), v))
        IN  Returns([kind |-> "rotate", x |-> v.x, seed |-> seed], {w.x},
                    [j \in 1..n |-> <<2^w.e * v.x[j][1], 0>>])

NextKernel ==
    CallLanes \/ CallStores \/ CallSparse \/ CallIntersect \/ CallScan \/ CallScanLimit
        \/ CallEstimate \/ CallExtended \/ CallFht \/ CallRotate

----------------------------------------------------------------------------
\* For every slice length around the widths of its vectors, every specialised
\* function of the simd crate returns what the plain one returns: no element is
\* skipped or taken twice at the end, padding is neutral, no accumulator is
\* forgotten, and the byte stores of mul_add_round stay within the capacity;
\* the block kernels for sparse vectors agree with the plain merge and the
\* emulated VP2INTERSECT finds a common index in every pair of lanes; and the
\* scan of 32 packed codes adds exactly the looked-up bytes, also in chunks past
\* the limit of a 16-bit sum.
VersionsAgree == Agrees({"lanes", "stores", "sparse", "fastscan"})

\* The blocked transform is the Hadamard matrix, and rotate_reversed_inplace
\* undoes rotate_inplace for every dimension, powers of two or not.
RotationReversible == Agrees({"rotate"})
=============================================================================
