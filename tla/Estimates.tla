----------------------------- MODULE Estimates -----------------------------
(* Distances estimated from codes: the factors of crates/rabitq/src/bit.rs   *)
(* and extended.rs around the sums of RabitqCode, and the operators of       *)
(* crates/vchordrq and crates/vchordg that choose among them.  Everything is *)
(* exact: an estimate is kept times sum_of_abs_x of the coded vector and the *)
(* levels of the query's table, an error term as its square.  Rounding of    *)
(* floating-point numbers is not modelled.                                   *)
EXTENDS RabitqCode
----------------------------------------------------------------------------
(* crates/vector: the vector types and the operators that the SQL types call *)
(* on them.  A dense vector is a sequence of numbers, a sparse one two       *)
(* sequences, a binary one a sequence of words (sets of bit positions), a    *)
(* rabitq vector packed codes; a checked constructor's None is a missing     *)
(* answer.                                                                   *)

Order(x, y) == IF x < y THEN "less" ELSE IF x > y THEN "greater" ELSE "equal"
Incomparable == "none"

\* The first difference of two sequences of pairs, or equality.
FirstOf(orders) ==
    LET differ == {i \in DOMAIN orders : orders[i] # "equal"}
    IN  IF differ = {} THEN "equal" ELSE orders[Min(differ)]

----------------------------------------------------------------------------
(* vect.rs                                                                   *)
vect_new_checked(x) == Len(x) \in 1..65535
vect_dot(x, y) == -SumOfSeq([i \in DOMAIN x |-> x[i] * y[i]])
vect_l2s(x, y) == SumOfSeq([i \in DOMAIN x |-> (x[i] - y[i]) * (x[i] - y[i])])
vect_add(x, y) == [i \in DOMAIN x |-> x[i] + y[i]]
vect_sub(x, y) == [i \in DOMAIN x |-> x[i] - y[i]]
vect_mul(x, y) == [i \in DOMAIN x |-> x[i] * y[i]]
vect_eq(x, y) == Len(x) = Len(y) /\ \A i \in DOMAIN x : x[i] = y[i]
vect_partial_cmp(x, y) ==
    IF Len(x) # Len(y) THEN Incomparable
    ELSE FirstOf([i \in DOMAIN x |-> Order(x[i], y[i])])

----------------------------------------------------------------------------
(* svect.rs                                                                  *)
svect_new_checked(v) ==
    /\ v.dim \in 1..1048575
    /\ Len(v.idx) = Len(v.val)
    /\ \A i \in 2..Len(v.idx) : v.idx[i - 1] < v.idx[i]
    /\ Len(v.idx) # 0 => v.idx[Len(v.idx)] < v.dim
    /\ \A i \in DOMAIN v.val : v.val[i] # 0

\* Writing a pair at pos, which moves on only when the value is kept.
PutAt(o, i, x) == IF x = 0 THEN o ELSE [o EXCEPT !.idx = Append(@, i), !.val = Append(@, x)]
\* Mutant: what remains of the subtrahend is added.
RestUnsigned(o, v, p, sign) ==
    [o EXCEPT !.idx = @ \o SubSeq(v.idx, p, Len(v.idx)),
              !.val = @ \o SubSeq(v.val, p, Len(v.val))]
Rest(o, v, p, sign) ==
    [o EXCEPT !.idx = @ \o SubSeq(v.idx, p, Len(v.idx)),
              !.val = @ \o [i \in 1..(Len(v.val) - p + 1) |-> sign * v.val[p + i - 1]]]

RECURSIVE SparseMerge(_, _, _, _, _, _)
SparseMerge(sign, l, r, p1, p2, o) ==
    IF p1 > Len(l.idx) \/ p2 > Len(r.idx) THEN Rest(Rest(o, l, p1, 1), r, p2, sign)
    ELSE LET i == l.idx[p1]
             j == r.idx[p2]
             x == (IF i <= j THEN l.val[p1] ELSE 0) + sign * (IF i >= j THEN r.val[p2] ELSE 0)
         IN  SparseMerge(sign, l, r, p1 + (IF i <= j THEN 1 ELSE 0), p2 + (IF i >= j THEN 1 ELSE 0),
                         PutAt(o, IF i <= j THEN i ELSE j, x))

Nothing(dim) == [dim |-> dim, idx |-> <<>>, val |-> <<>>]
svect_add(l, r) == SparseMerge(1, l, r, 1, 1, Nothing(l.dim))
svect_sub(l, r) == SparseMerge(-1, l, r, 1, 1, Nothing(l.dim))

RECURSIVE SparseProduct(_, _, _, _, _)
SparseProduct(l, r, p1, p2, o) ==
    IF p1 > Len(l.idx) \/ p2 > Len(r.idx) THEN o
    ELSE CASE l.idx[p1] < r.idx[p2] -> SparseProduct(l, r, p1 + 1, p2, o)
           [] l.idx[p1] > r.idx[p2] -> SparseProduct(l, r, p1, p2 + 1, o)
           [] l.idx[p1] = r.idx[p2] ->
                SparseProduct(l, r, p1 + 1, p2 + 1, PutAt(o, l.idx[p1], l.val[p1] * r.val[p2]))
svect_mul(l, r) == SparseProduct(l, r, 1, 1, Nothing(l.dim))

svect_eq(l, r) == l.dim = r.dim /\ vect_eq(l.idx, r.idx) /\ vect_eq(l.val, r.val)

\* The pairs are taken in step until an index or a value differs.
svect_partial_cmp(l, r) ==
    IF l.dim # r.dim THEN Incomparable
    ELSE LET differs(k) == k > Len(l.idx) \/ k > Len(r.idx)
                           \/ l.idx[k] # r.idx[k] \/ l.val[k] # r.val[k]
             k == Min({k \in 1..(Len(l.idx) + Len(r.idx) + 1) : differs(k)})
         IN  CASE k > Len(l.idx) /\ k > Len(r.idx) -> "equal"
               [] k <= Len(l.idx) /\ k > Len(r.idx) -> Order(l.val[k], 0)
               [] k > Len(l.idx) /\ k <= Len(r.idx) -> Order(0, r.val[k])
               [] k <= Len(l.idx) /\ k <= Len(r.idx) ->
                    IF l.idx[k] = r.idx[k] THEN Order(l.val[k], r.val[k])
                    ELSE IF l.idx[k] < r.idx[k] THEN IF l.val[k] < 0 THEN "less" ELSE "greater"
                    ELSE IF 0 < r.val[k] THEN "less" ELSE "greater"

\* function_normalize scales by a number that underflows some values to zero
\* and keeps the pairs that are not zero.
svect_function_normalize(v, underflows) ==
    LET kept == SelectSeq([i \in DOMAIN v.idx |-> i], LAMBDA i : v.val[i] \notin underflows)
    IN  [v EXCEPT !.idx = [i \in DOMAIN kept |-> v.idx[kept[i]]],
                  !.val = [i \in DOMAIN kept |-> v.val[kept[i]]]]

----------------------------------------------------------------------------
(* bvect.rs, with words of Word bits.                                        *)
bvect_new_checked(b) ==
    /\ b.dim \in 1..65535
    /\ Len(b.data) = Chunks(b.dim, Word)
    /\ (b.dim % Word # 0 => \A i \in b.data[Len(b.data)] : i < b.dim % Word)
bvect_get(b, i) == i % Word \in b.data[i \div Word + 1]
bvect_iter(b) == [i \in 1..b.dim |-> IF bvect_get(b, i - 1) THEN 1 ELSE 0]
bvect_and(l, r) == [l EXCEPT !.data = [w \in DOMAIN @ |-> @[w] \cap r.data[w]]]
bvect_or(l, r) == [l EXCEPT !.data = [w \in DOMAIN @ |-> @[w] \cup r.data[w]]]
bvect_xor(l, r) == [l EXCEPT !.data = [w \in DOMAIN @ |-> (@[w] \cup r.data[w]) \ (@[w] \cap r.data[w])]]
bvect_hamming(l, r) == SumOfSeq([w \in DOMAIN l.data |-> Popcount(bvect_xor(l, r).data[w])])

\* A word with its bits reversed, as a number: the first bit weighs most.
reverse_bits(w) == SumOfSeq([i \in 1..Word |-> IF i - 1 \in w THEN 2^(Word - i) ELSE 0])
bvect_partial_cmp(l, r) ==
    IF l.dim # r.dim THEN Incomparable
    ELSE FirstOf([w \in DOMAIN l.data |-> Order(reverse_bits(l.data[w]), reverse_bits(r.data[w]))])

----------------------------------------------------------------------------
(* rabitq4.rs and rabitq8.rs: packed codes with the metadata of the coded    *)
(* vector.  sum_of_x2 and sum_of_abs_x are the vector's, the rest the code's.*)
High(byte) == byte \div 16
Low(byte) == byte % 16

rabitq4_owned_new_checked(v) ==
    /\ v.dim \in 1..65535
    /\ Chunks(v.dim, 2) = Len(v.packed)
    /\ (v.dim % 2 = 1 => High(v.packed[Len(v.packed)]) = 0)
rabitq4_new_checked(v) ==
    /\ Len(v.packed) \in 1..65535
    /\ Chunks(v.dim, 2) = Len(v.packed)
    /\ (v.dim % 2 = 1 => High(v.packed[Len(v.packed)]) = 0)
rabitq8_owned_new_checked(v) == v.dim \in 1..65535 /\ v.dim = Len(v.packed)
rabitq8_new_checked(v) == v.dim \in 1..65535 /\ v.dim = Len(v.packed)

rabitq4_unpacked_code(v) ==
    [i \in 1..v.dim |-> LET byte == v.packed[(i - 1) \div 2 + 1]
                        IN  IF i % 2 = 1 THEN Low(byte) ELSE High(byte)]
rabitq8_unpacked_code(v) == v.packed

\* operator_dot, operator_l2s and operator_cos use one sum over packed codes;
\* half_process makes the lattice product of it.
rabitq4_ip(x, y) ==
    HalfProcessIp(x.dim, halfbyte_accumulate(x.packed, y.packed),
                  4, rabitq4_unpacked_code(x), 4, rabitq4_unpacked_code(y))
rabitq8_ip(x, y) ==
    HalfProcessIp(x.dim, SumOfSeq([i \in DOMAIN x.packed |-> x.packed[i] * y.packed[i]]),
                  8, x.packed, 8, y.packed)

----------------------------------------------------------------------------
(* bit.rs.  factor_ip is dis_u_2 / abs, factor_err the root of               *)
(* err2 / (n - 1), over abs.                                                 *)
Metadata(signs, sum_of_x_2, sum_of_abs_x) ==
    [signs |-> signs,
     dis_u_2 |-> sum_of_x_2,
     factor_cnt |-> SumOfSeq([i \in DOMAIN signs |-> 2 * signs[i] - 1]),
     abs |-> sum_of_abs_x,
     err2 |-> sum_of_x_2 * (Len(signs) * sum_of_x_2 - sum_of_abs_x * sum_of_abs_x)]

SumOfX2(v) == SumOfSeq([i \in DOMAIN v |-> v[i] * v[i]])
SumOfAbs(v) == SumOfSeq(AbsOf(v))
code(v) == Metadata(code_elements(v), SumOfX2(v), SumOfAbs(v))

\* A table and the sum that a code looks up in it: by blocks and by bit planes.
BlockSum(c, v) ==
    LET lut == BlockLut(v)
    IN  [levels |-> 255, k |-> lut.knum, c |-> lut.c, dis_v_2 |-> SumOfX2(v),
         sum |-> accumulate(padding_pack(<<pack_to_u4(c.signs)>>), lut.lut)[0]]
BinarySum(c, v) ==
    LET lut == BinaryLut(v)
    IN  [levels |-> 63, k |-> lut.knum, b |-> lut.b, qvector_sum |-> lut.qvector_sum,
         dis_v_2 |-> SumOfX2(v), sum |-> binary_accumulate(pack_code(c.signs), lut.planes)]

\* The same without quantization.
ExactSum(c, v) ==
    LET s == SumOfSeq([i \in DOMAIN v |-> (2 * c.signs[i] - 1) * v[i]])
    IN  [levels |-> 1, k |-> 1, c |-> 0, b |-> 0, qvector_sum |-> s, dis_v_2 |-> SumOfX2(v), sum |-> s]

\* rough is times abs * levels; err2, the square, times abs^2 * (n - 1).
l2s(e, t, c, dis, delta) ==
    [rough |-> t.levels * ((c.dis_u_2 + dis) * c.abs + delta) - 2 * e * c.dis_u_2,
     err2 |-> 4 * c.err2 * dis]
dot(e, t, c, dis, offset) ==
    [rough |-> t.levels * offset - e * c.dis_u_2, err2 |-> c.err2 * dis]

block_e(t) == t.k * t.sum + t.levels * t.c
block_half_process_l2s(t, c) == l2s(block_e(t), t, c, t.dis_v_2, 0)
block_half_process_l2s_residual(t, c, dis_f, delta) == l2s(block_e(t), t, c, dis_f, delta)
block_half_process_dot(t, c) == dot(block_e(t), t, c, t.dis_v_2, 0)
block_half_process_dot_residual(t, c, dis_f, delta, norm2) ==
    dot(block_e(t), t, c, t.dis_v_2 + norm2 + 2 * dis_f, dis_f * c.abs + delta)

binary_e(t, c) == t.k * (2 * t.sum - t.qvector_sum) + t.levels * t.b * c.factor_cnt
binary_half_process_l2s(t, c) == l2s(binary_e(t, c), t, c, t.dis_v_2, 0)
binary_half_process_l2s_residual(t, c, dis_f, delta) == l2s(binary_e(t, c), t, c, dis_f, delta)
binary_half_process_dot(t, c) == dot(binary_e(t, c), t, c, t.dis_v_2, 0)
binary_half_process_dot_residual(t, c, dis_f, delta, norm2) ==
    dot(binary_e(t, c), t, c, t.dis_v_2 + norm2 + 2 * dis_f, dis_f * c.abs + delta)

----------------------------------------------------------------------------
(* crates/vchordrq/src/operator.rs.  build codes a vector, relative to its   *)
(* centroid when the index keeps residuals (centroid = <<>> otherwise);      *)
(* block_access and binary_access choose the process for the query.          *)
NoCentroid == <<>>
vect_build(metric, x, centroid) ==
    IF centroid = NoCentroid THEN [code |-> code(x), delta |-> 0]
    ELSE LET residual == vect_sub(x, centroid)
             c == code(residual)
             t == c.dis_u_2 * SumOfSeq([i \in DOMAIN x |-> (2 * c.signs[i] - 1) * centroid[i]])
         IN  [code |-> c,
              delta |-> IF metric = "l2s" THEN 2 * t ELSE t + c.abs * vect_dot(residual, centroid)]

\* What a scan passes of the cell: the distance of the query to the centroid
\* and the centroid's squared norm.
Cell(metric, q, centroid) ==
    IF centroid = NoCentroid THEN [is_residual |-> FALSE, dis_f |-> 0, norm2 |-> 0]
    ELSE [is_residual |-> TRUE, norm2 |-> SumOfX2(centroid),
          dis_f |-> IF metric = "l2s" THEN vect_l2s(q, centroid) ELSE vect_dot(q, centroid)]

l2s_block_access(cell, b, t) ==
    IF ~cell.is_residual THEN block_half_process_l2s(t, b.code)
    ELSE block_half_process_l2s_residual(t, b.code, cell.dis_f, b.delta)
l2s_binary_access(cell, b, t) ==
    IF ~cell.is_residual THEN binary_half_process_l2s(t, b.code)
    ELSE binary_half_process_l2s_residual(t, b.code, cell.dis_f, b.delta)
dot_block_access(cell, b, t) ==
    IF ~cell.is_residual THEN block_half_process_dot(t, b.code)
    ELSE block_half_process_dot_residual(t, b.code, cell.dis_f, b.delta, cell.norm2)
dot_binary_access(cell, b, t) ==
    IF ~cell.is_residual THEN binary_half_process_dot(t, b.code)
    ELSE binary_half_process_dot_residual(t, b.code, cell.dis_f, b.delta, cell.norm2)

\* Each operator, as the two estimates a scan makes of row x for query q: from
\* a block of codes and from one code.  Halves are exact on these inputs.
Two(block, binary) == <<block, binary>>
vecf32_l2s(x, centroid, q, block, binary) ==
    LET b == vect_build("l2s", x, centroid)
        cell == Cell("l2s", q, centroid)
    IN  Two(l2s_block_access(cell, b, block), l2s_binary_access(cell, b, binary))
vecf32_dot(x, centroid, q, block, binary) ==
    LET b == vect_build("dot", x, centroid)
        cell == Cell("dot", q, centroid)
    IN  Two(dot_block_access(cell, b, block), dot_binary_access(cell, b, binary))
vecf16_l2s(x, centroid, q, block, binary) == vecf32_l2s(x, centroid, q, block, binary)
vecf16_dot(x, centroid, q, block, binary) == vecf32_dot(x, centroid, q, block, binary)

\* quantize_to_rabitq8 and quantize_to_rabitq4, after the rotation: the code
\* with the sums of the vector itself.
quantize_to_rabitq8(v) ==
    [dim |-> Len(v), packed |-> ugly_code(8, v), sum_of_x2 |-> SumOfX2(v), sum_of_abs_x |-> SumOfAbs(v)]
quantize_to_rabitq4(v) ==
    [dim |-> Len(v), packed |-> halfbyte_pack_code(ugly_code(4, v)),
     sum_of_x2 |-> SumOfX2(v), sum_of_abs_x |-> SumOfAbs(v)]

rabitq8_code(v) ==
    Metadata([i \in 1..v.dim |-> IF rabitq8_unpacked_code(v)[i] >= 128 THEN 1 ELSE 0],
             v.sum_of_x2, v.sum_of_abs_x)
rabitq4_code(v) ==
    Metadata([i \in 1..v.dim |-> IF rabitq4_unpacked_code(v)[i] >= 8 THEN 1 ELSE 0],
             v.sum_of_x2, v.sum_of_abs_x)

\* Residuals of coded vectors are not implemented: the index keeps none.
Coded_build(c) == [code |-> c, delta |-> 0]
Whole == [is_residual |-> FALSE, dis_f |-> 0, norm2 |-> 0]
rabitq8_l2s(v, block, binary) ==
    LET b == Coded_build(rabitq8_code(v))
    IN  Two(l2s_block_access(Whole, b, block), l2s_binary_access(Whole, b, binary))
rabitq8_dot(v, block, binary) ==
    LET b == Coded_build(rabitq8_code(v))
    IN  Two(dot_block_access(Whole, b, block), dot_binary_access(Whole, b, binary))
rabitq4_l2s(v, block, binary) ==
    LET b == Coded_build(rabitq4_code(v))
    IN  Two(l2s_block_access(Whole, b, block), l2s_binary_access(Whole, b, binary))
rabitq4_dot(v, block, binary) ==
    LET b == Coded_build(rabitq4_code(v))
    IN  Two(dot_block_access(Whole, b, block), dot_binary_access(Whole, b, binary))

----------------------------------------------------------------------------
(* extended.rs: code searches the scale whose lattice point is closest in    *)
(* direction.  Scales are kept as c / o[i]; the added f32::EPSILON makes an  *)
(* element that is exactly on a step fall on the side away from zero.        *)
CodedUp(bits, v, s) ==
    [i \in DOMAIN v |->
        LET up == (Abs(v[i]) * s.num) \div s.den
        IN  Clamp(IF v[i] < 0 THEN -up - 1 ELSE up, -(2^(bits - 1)), 2^(bits - 1) - 1) + 2^(bits - 1)]

\* y = numerator / sqrt(sqr_denominator), both doubled: which y is larger.
Exceeds(a, b) == a.numerator * a.numerator * b.sqr > b.numerator * b.numerator * a.sqr

\* The steps at which one element's code grows, in the order of the scale;
\* steps of elements that are zero are at infinity and never improve.
Events(bits, o) ==
    LET mask == 2^(bits - 1) - 1
        all == [k \in 1..(Len(o) * mask) |-> [c |-> ((k - 1) % mask) + 1, i |-> (k - 1) \div mask + 1]]
    IN  SortSeq(SelectSeq(all, LAMBDA e : o[e.i] # 0), LAMBDA a, b : a.c * o[b.i] < b.c * o[a.i])
RECURSIVE Improve(_, _, _, _, _)
\* Mutant: a step is compared with the one before and not with the best.
ImproveOnLast(o, events, now, best, scale) ==
    IF events = <<>> THEN scale
    ELSE LET e == Head(events)
             next == [numerator |-> now.numerator + 2 * o[e.i], sqr |-> now.sqr + 8 * e.c]
         IN  IF Exceeds(next, now)
             THEN Improve(o, Tail(events), next, next, [num |-> e.c, den |-> o[e.i]])
             ELSE Improve(o, Tail(events), next, best, scale)
Improve(o, events, now, best, scale) ==
    IF events = <<>> THEN scale
    ELSE LET e == Head(events)
             next == [numerator |-> now.numerator + 2 * o[e.i], sqr |-> now.sqr + 8 * e.c]
         IN  IF Exceeds(next, best)
             THEN Improve(o, Tail(events), next, next, [num |-> e.c, den |-> o[e.i]])
             ELSE Improve(o, Tail(events), next, best, scale)
find_scale(bits, o) ==
    LET start == [numerator |-> SumOfSeq(o), sqr |-> Len(o)]
    IN  Improve(o, Events(bits, o), start, start, [num |-> 0, den |-> 1])

extended_code(bits, v) == Evaluated(CodedUp(bits, v, find_scale(bits, Evaluated(AbsOf(v)))))

\* A code as a point around zero, doubled, and how well it points along v.
Point(bits, c) == Evaluated([i \in DOMAIN c |-> 2 * c[i] - (2^bits - 1)])
Direction(bits, c, v) ==
    LET p == Point(bits, c)
    IN  [numerator |-> SumOfSeq([i \in DOMAIN v |-> p[i] * v[i]]), sqr |-> SumOfX2(p)]

----------------------------------------------------------------------------
(* half_process of extended.rs, on metadata [dis_u_2, unit], where unit is   *)
(* norm_of_lattice / sqrt(dis_u_2): a whole number for vectors of signs,     *)
(* which are the ones the calls make.  A distance is [num, den]; products of *)
(* points come times four and units doubled.                                 *)
Root(x) == CHOOSE r \in 0..255 : r * r = x
Lattice(bits, c, dis_u_2) ==
    [bits |-> bits, code |-> c, dis_u_2 |-> dis_u_2,
     unit |-> Root(SumOfX2(Point(bits, c)) \div dis_u_2)]

half_process_l2s(ip, x, y) ==
    [num |-> (x.dis_u_2 + y.dis_u_2) * x.unit * y.unit - 2 * ip, den |-> x.unit * y.unit]
half_process_dot(ip, x, y) == [num |-> -ip, den |-> x.unit * y.unit]
half_process_cos(ip, x, y) ==
    [num |-> -ip, den |-> x.unit * y.unit * Root(x.dis_u_2 * y.dis_u_2)]

\* The operators of crates/vector on stored codes.
rabitq8_lattice(v) == Lattice(8, rabitq8_unpacked_code(v), v.sum_of_x2)
rabitq4_lattice(v) == Lattice(4, rabitq4_unpacked_code(v), v.sum_of_x2)
rabitq8_operator_dot(x, y) ==
    half_process_dot(rabitq8_ip(x, y), rabitq8_lattice(x), rabitq8_lattice(y))
rabitq8_operator_l2s(x, y) ==
    half_process_l2s(rabitq8_ip(x, y), rabitq8_lattice(x), rabitq8_lattice(y))
rabitq8_operator_cos(x, y) ==
    half_process_cos(rabitq8_ip(x, y), rabitq8_lattice(x), rabitq8_lattice(y))
rabitq4_operator_dot(x, y) ==
    half_process_dot(rabitq4_ip(x, y), rabitq4_lattice(x), rabitq4_lattice(y))
rabitq4_operator_l2s(x, y) ==
    half_process_l2s(rabitq4_ip(x, y), rabitq4_lattice(x), rabitq4_lattice(y))
rabitq4_operator_cos(x, y) ==
    half_process_cos(rabitq4_ip(x, y), rabitq4_lattice(x), rabitq4_lattice(y))

----------------------------------------------------------------------------
(* bits.rs and crates/vchordg/src/operator.rs: a vertex is coded by one or   *)
(* two bits, the query by four.                                              *)
bits_code(bits, v, dis_u_2) == Lattice(bits, extended_code(bits, v), dis_u_2)
bits_preprocess(v, dis_u_2) == Lattice(4, extended_code(4, v), dis_u_2)
bits_accumulate(x, y) == extended_accumulate(x.bits, Planes(x.bits, x.code), 4, Planes(4, y.code))
bits_ip(x, y) == HalfProcessIp(Len(x.code), bits_accumulate(x, y), x.bits, x.code, 4, y.code)

vecf32_code(bits, v) == bits_code(bits, v, SumOfX2(v))
vecf32_preprocess(v) == bits_preprocess(v, SumOfX2(v))
vecf16_code(bits, v) == bits_code(bits, v, SumOfX2(v))
vecf16_preprocess(v) == bits_preprocess(v, SumOfX2(v))

\* Coded vectors are coded again from their lattice points, scaled to the norm
\* of the vector; the scale of a point does not change its code, so the common
\* factor is left out.
Primitive(v) ==
    LET d == Max({k \in 1..Max(Range(AbsOf(v))) : \A i \in DOMAIN v : v[i] % k = 0})
    IN  Evaluated([i \in DOMAIN v |-> v[i] \div d])
rabitq8_point(v) == Primitive(Point(8, rabitq8_unpacked_code(v)))
rabitq4_point(v) == Primitive(Point(4, rabitq4_unpacked_code(v)))
graph_rabitq8_code(bits, v) == bits_code(bits, rabitq8_point(v), v.sum_of_x2)
graph_rabitq8_preprocess(v) == bits_preprocess(rabitq8_point(v), v.sum_of_x2)
graph_rabitq4_code(bits, v) == bits_code(bits, rabitq4_point(v), v.sum_of_x2)
graph_rabitq4_preprocess(v) == bits_preprocess(rabitq4_point(v), v.sum_of_x2)

\* process of the eight operators.
process_l2s(x, y) == half_process_l2s(bits_ip(x, y), x, y)
process_dot(x, y) == half_process_dot(bits_ip(x, y), x, y)
graph_vecf32_l2s(bits, v, q) == process_l2s(vecf32_code(bits, v), vecf32_preprocess(q))
graph_vecf32_dot(bits, v, q) == process_dot(vecf32_code(bits, v), vecf32_preprocess(q))
graph_vecf16_l2s(bits, v, q) == process_l2s(vecf16_code(bits, v), vecf16_preprocess(q))
graph_vecf16_dot(bits, v, q) == process_dot(vecf16_code(bits, v), vecf16_preprocess(q))
graph_rabitq8_l2s(bits, v, q) == process_l2s(graph_rabitq8_code(bits, v), graph_rabitq8_preprocess(q))
graph_rabitq8_dot(bits, v, q) == process_dot(graph_rabitq8_code(bits, v), graph_rabitq8_preprocess(q))
graph_rabitq4_l2s(bits, v, q) == process_l2s(graph_rabitq4_code(bits, v), graph_rabitq4_preprocess(q))
graph_rabitq4_dot(bits, v, q) == process_dot(graph_rabitq4_code(bits, v), graph_rabitq4_preprocess(q))
=============================================================================
