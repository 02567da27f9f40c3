--------------------------- MODULE SparseKernels ---------------------------
(* The sparse kernels of crates/simd/src/floating_f32.rs: dot product and    *)
(* squared distance of two sparse vectors given by sorted indices, by blocks *)
(* of lanes whose common indices come from an emulated VP2INTERSECT, next to *)
(* the plain merge they are tested against.                                  *)
EXTENDS Integers, Sequences, FiniteSets, SequencesExt, FiniteSetsExt

CONSTANT Lanes      \* lanes of a block; 16 in the code

\* The index that fills the lanes past the end of a list: -1, as a u32.
Unused == 1000

----------------------------------------------------------------------------
(* emulate_mm512_2intersect_epi32 on 16 lanes; a mask is a set of lanes.     *)
Lane16 == 0..15
alignr(a, k) == [i \in Lane16 |-> a[(i + k) % 16]]
shuffle(b, k) == [i \in Lane16 |-> b[4 * (i \div 4) + ((i + k) % 4)]]
rotate_left(m, k) == {(i + k) % 16 : i \in m}
ShiftUp(m, k) == {i + k : i \in {j \in m : j % 4 < 4 - k}}
ShiftDown(m, k) == {i - k : i \in {j \in m : j % 4 >= k}}

emulate_mm512_2intersect_epi32(a, b) ==
    LET m(p, q) == {i \in Lane16 : alignr(a, 4 * p)[i] = shuffle(b, q)[i]}
        row(p) == UNION {m(p, q) : q \in 0..3}
        column(q) == UNION {m(p, q) : p \in 0..3}
        res_a == row(0) \cup rotate_left(row(1), 4) \cup rotate_left(row(2), 8)
                 \cup rotate_left(row(3), 12)
        res_b == column(0) \cup UNION {ShiftUp(column(q), q) \cup ShiftDown(column(q), 4 - q) :
                                       q \in 1..3}
    IN  <<res_a, res_b>>

----------------------------------------------------------------------------
Dot(l, r) == FoldLeft(LAMBDA s, i : s + l[i] * r[i], 0, [i \in 1..Lanes |-> i])
Squares(v) == FoldLeft(LAMBDA s, x : s + x * x, 0, v)

\* The block at p: w lanes of the list, the rest unused with value zero.
Block(v, p) ==
    LET w == IF Len(v.idx) - p < Lanes THEN Len(v.idx) - p ELSE Lanes
    IN  [idx |-> [i \in 1..Lanes |-> IF i <= w THEN v.idx[p + i] ELSE Unused],
         val |-> [i \in 1..Lanes |-> IF i <= w THEN v.val[p + i] ELSE 0],
         w |-> w, last |-> v.idx[p + w]]

\* maskz_compress: the lanes whose index the other block has, moved to the front.
Compress(block, other) ==
    LET k == SelectSeq([i \in 1..Lanes |-> i], LAMBDA i : block.idx[i] \in Range(other.idx))
    IN  [i \in 1..Lanes |-> IF i <= Len(k) THEN block.val[k[i]] ELSE 0]

\* Both loops of the kernels: add up a pair of blocks, then pass the block that
\* ends first, or both.
RECURSIVE Blocks(_, _, _, _, _)
Blocks(term, l, r, lp, rp) ==
    IF lp >= Len(l.idx) \/ rp >= Len(r.idx) THEN 0
    ELSE LET lb == Block(l, lp)
             rb == Block(r, rp)
             lv == Compress(lb, rb)
             rv == Compress(rb, lb)
             d == [i \in 1..Lanes |-> lv[i] - rv[i]]
         IN  (IF term = "xy" THEN Dot(lv, rv) ELSE Dot(d, d) - Dot(lv, lv) - Dot(rv, rv))
             + Blocks(term, l, r, lp + (IF lb.last <= rb.last THEN lb.w ELSE 0),
                                  rp + (IF lb.last >= rb.last THEN rb.w ELSE 0))

reduce_sum_of_xy_sparse_v4(l, r) == Blocks("xy", l, r, 0, 0)
reduce_sum_of_d2_sparse_v4(l, r) == Blocks("d2", l, r, 0, 0) + Squares(l.val) + Squares(r.val)

\* The plain merge; own is what an index of one side only adds.
RECURSIVE Merge(_, _, _, _, _)
Merge(term, l, r, lp, rp) ==
    LET own(x) == IF term = "d2" THEN x * x ELSE 0
        both(x, y) == IF term = "d2" THEN (x - y) * (x - y) ELSE x * y
    IN  CASE lp > Len(l.idx) /\ rp > Len(r.idx) -> 0
          [] rp > Len(r.idx) -> own(l.val[lp]) + Merge(term, l, r, lp + 1, rp)
          [] lp > Len(l.idx) -> own(r.val[rp]) + Merge(term, l, r, lp, rp + 1)
          [] l.idx[lp] = r.idx[rp] -> both(l.val[lp], r.val[rp]) + Merge(term, l, r, lp + 1, rp + 1)
          [] l.idx[lp] < r.idx[rp] -> own(l.val[lp]) + Merge(term, l, r, lp + 1, rp)
          [] OTHER -> own(r.val[rp]) + Merge(term, l, r, lp, rp + 1)

reduce_sum_of_xy_sparse(l, r) == Merge("xy", l, r, 1, 1)
reduce_sum_of_d2_sparse(l, r) == Merge("d2", l, r, 1, 1)
=============================================================================
