---------------------------- MODULE RabitqCode ----------------------------
(* crates/rabitq: vectors coded by the signs of their elements (bit.rs) or   *)
(* by a few bits each (extended.rs, bits.rs, halfbyte.rs), and the sums over *)
(* such codes that stand for inner products.  The real factors around the    *)
(* sums (norms, error terms) are not modelled.                               *)
EXTENDS LaneKernels

CONSTANT Word       \* bits of a word of packed code; 64 in the code

----------------------------------------------------------------------------
(* crates/simd/src/quantize.rs: a vector scaled to integers 0..levels and    *)
(* stored as bytes.  The versions write whole vectors of bytes, so a vector  *)
(* padded at the end is written past the length, into the spare capacity.    *)

\* Vec::with_capacity(len.next_multiple_of(multiple)).
Stores(multiple, stages) == [multiple |-> multiple, stages |-> stages]

mul_add_round_v4 == Stores(1, <<Full(16, <<0>>), Masked(16, 0)>>)
mul_add_round_v3 == Stores(8, <<Full(8, <<0>>), partial_load(8, <<0>>, "zero")>>)
mul_add_round_v2_fma == Stores(4, <<Full(4, <<0>>), partial_load(4, <<0>>, "zero")>>)
mul_add_round_a2 == Stores(4, <<Full(4, <<0>>), partial_load(4, <<0>>, "zero")>>)
mul_add_round == Stores(1, Scalar)

MulAddRound == {mul_add_round_v4, mul_add_round_v3, mul_add_round_v2_fma, mul_add_round_a2,
                mul_add_round}

Capacity(k, n) == ((n + k.multiple - 1) \div k.multiple) * k.multiple

\* The end of the last store: masked stores stop at the length, padded ones
\* fill their vector.
Written(k, n) ==
    LET last == k.stages[Len(k.stages)]
        rest == n % last.w
    IN  IF last.loop = "padded" /\ rest > 0 THEN n - rest + last.w ELSE n

----------------------------------------------------------------------------
\* num / den to the nearest integer, ties to the even one (den > 0).
round_ties_even(num, den) ==
    LET q == num \div den
        r == 2 * (num % den)
    IN  CASE r < den -> q
          [] r > den -> q + 1
          [] OTHER -> IF q % 2 = 0 THEN q ELSE q + 1

\* quantize: k = (max - min) / levels is the step, kept as its numerator, and b
\* the offset.  A constant vector has step zero; its products are NaN, which
\* convert to zero.
quantize(v, levels) ==
    LET min == Min(Range(v))
        max == Max(Range(v))
    IN  [knum |-> max - min, b |-> min,
         code |-> [i \in DOMAIN v |->
                      IF max = min THEN 0 ELSE round_ties_even((v[i] - min) * levels, max - min)]]

----------------------------------------------------------------------------
(* 32 vectors of four-bit codes packed side by side (crates/rabitq/src/      *)
(* packing.rs), and the scan that looks up every code in a table of bytes    *)
(* and adds the bytes of each vector in 16-bit lanes (crates/simd/src/       *)
(* fast_scan.rs), chunk by chunk (crates/rabitq/src/bit.rs).                 *)
(* Vectors are numbered 0..31 and bytes 0..15 as in the code; the codes of   *)
(* a vector, and the rows of the packed code and of the table, from 1.       *)

Vector == 0..31
U16(x) == x % 65536

\* The byte that holds vector v's code, in its low bits for v < 16.
ByteOf(v) == IF v % 16 < 8 THEN 2 * (v % 8) ELSE 2 * (v % 8) + 1
Slot(b) == IF b % 2 = 0 THEN b \div 2 ELSE 8 + b \div 2

pack(x) ==
    [i \in 1..Len(x[0]) |-> [b \in 0..15 |-> x[Slot(b)][i] + 16 * x[Slot(b) + 16][i]]]

unpack(y) ==
    [v \in Vector |-> [i \in 1..Len(y) |->
        IF v < 16 THEN y[i][ByteOf(v)] % 16 ELSE y[i][ByteOf(v)] \div 16]]

\* Fewer than 32 vectors are padded with zero codes.
padding_pack(xs) ==
    pack([v \in Vector |-> IF v < Len(xs) THEN xs[v + 1] ELSE [i \in 1..Len(xs[1]) |-> 0]])

----------------------------------------------------------------------------
(* The scan.  A row of 16 bytes is one 128-bit lane of a wider register; the *)
(* versions differ in how many rows a step takes and so in which lane a row  *)
(* is accumulated.                                                           *)
scan_v4 == SumOf("row", 0..3, <<Full(4, <<0, 1, 2, 3>>), Once(2, <<0, 1>>), Once(1, <<0>>)>>)
scan_v3 == SumOf("row", 0..1, <<Full(2, <<0, 1>>), Once(1, <<0>>)>>)
scan_v2 == SumOf("row", {0}, <<Full(1, <<0>>)>>)
scan_a2 == SumOf("row", {0}, <<Full(1, <<0>>)>>)
scan_z13 == SumOf("row", {0}, <<Full(1, <<0>>)>>)
scan_powerpc64 == SumOf("row", {0}, <<Full(1, <<0>>)>>)
ScanVersions == {scan_v4, scan_v3, scan_v2, scan_a2, scan_z13, scan_powerpc64}

\* The byte a table row gives for byte b of a code row; nibble 0 is the low one.
LookUp(lut, code, nibble, b) ==
    lut[IF nibble = 0 THEN code[b] % 16 ELSE code[b] \div 16]

\* A 16-bit lane holds the sum of an even byte and 256 times the odd byte next
\* to it, and a second one the sum of the odd bytes, all modulo 2^16; the even
\* sum is recovered by subtraction at the end, and the 128-bit lanes added.
ScanBy(k, code, lut) ==
    LET walk == Walk(k, Len(code))
        accu(g, nibble, b, pair) ==
            LET term(i) ==
                    LET even == LookUp(lut[i], code[i], nibble, 2 * (b \div 2))
                        odd == LookUp(lut[i], code[i], nibble, 2 * (b \div 2) + 1)
                    IN  IF pair THEN even + 256 * odd ELSE odd
            IN  U16(SumOfSeq([i \in DOMAIN walk.place |->
                                IF walk.place[i] = g THEN term(i) ELSE 0]))
        byte(g, nibble, b) ==
            IF b % 2 = 1 THEN accu(g, nibble, b, FALSE)
            ELSE U16(accu(g, nibble, b, TRUE) - 256 * accu(g, nibble, b, FALSE))
    IN  [v \in Vector |-> U16(FoldSet(LAMBDA g, s : s + byte(g, v \div 16, ByteOf(v)),
                                      0, k.reduced))]

\* The plain version: one 16-bit sum per vector.
scan(code, lut) ==
    [v \in Vector |-> U16(SumOfSeq([i \in 1..Len(code) |->
                                      LookUp(lut[i], code[i], v \div 16, ByteOf(v))]))]

\* Rows a 16-bit sum can take without overflowing.
\* Mutant: one row too many.
StepTooLong == 65535 \div 255 + 1
STEP == 65535 \div 255

\* accumulate and accu: chunks of STEP rows, added as u32.
RECURSIVE accumulate(_, _)
accumulate(code, lut) ==
    IF code = <<>> THEN [v \in Vector |-> 0]
    ELSE LET w == IF Len(code) < STEP THEN Len(code) ELSE STEP
             delta == scan(SubSeq(code, 1, w), SubSeq(lut, 1, w))
             rest == accumulate(SubSeq(code, w + 1, Len(code)), SubSeq(lut, w + 1, Len(lut)))
         IN  [v \in Vector |-> delta[v] + rest[v]]

----------------------------------------------------------------------------
(* The codes.                                                                *)

Chunks(n, w) == (n + w - 1) \div w

\* The sequence with its elements computed, rather than on every use.
Evaluated(x) == SubSeq(x, 1, Len(x))

\* Element i of v, or zero past its end.
At(v, i) == IF i <= Len(v) THEN v[i] ELSE 0

----------------------------------------------------------------------------
(* bit.rs: the code of a vector is its signs.                                *)
code_elements(v) == [i \in DOMAIN v |-> IF v[i] >= 0 THEN 1 ELSE 0]
factor_cnt(v) == SumOfSeq([i \in DOMAIN v |-> IF v[i] >= 0 THEN 1 ELSE -1])

pack_to_u4(bits) ==
    [c \in 1..Chunks(Len(bits), 4) |->
        At(bits, 4*c - 3) + 2 * At(bits, 4*c - 2) + 4 * At(bits, 4*c - 1) + 8 * At(bits, 4*c)]

\* block: for each four elements of the query, what each of the 16 sign
\* patterns makes of their sum.
compress(v) ==
    [c \in 1..Chunks(Len(v), 4) |-> [m \in 0..15 |->
        SumOfSeq([j \in 1..4 |-> LET t == At(v, 4*c - 4 + j)
                                 IN  IF (m \div 2^(j - 1)) % 2 = 1 THEN t ELSE -t])]]

Flatten16(rows) == [i \in 1..(16 * Len(rows)) |-> rows[(i - 1) \div 16 + 1][(i - 1) % 16]]
Rows16(bytes) == [c \in 1..(Len(bytes) \div 16) |-> [m \in 0..15 |-> bytes[16 * (c - 1) + m + 1]]]

\* preprocess_with_distance: the table of bytes, its step and the offset c.
BlockLut(v) ==
    LET q == quantize(Evaluated(Flatten16(compress(v))), 255)
    IN  [knum |-> q.knum, c |-> q.b * Chunks(Len(v), 4), lut |-> Rows16(Evaluated(q.code))]

\* binary: the query as bit planes of 6-bit numbers, the code as words.
BITS == 6
WordOf(bits, w) == {i \in 0..(Word - 1) : At(bits, Word * (w - 1) + i + 1) = 1}
pack_code(bits) == [w \in 1..Chunks(Len(bits), Word) |-> WordOf(bits, w)]
Plane(q, i) == [j \in DOMAIN q |-> (q[j] \div 2^i) % 2]
binarize(q) == [i \in 0..(BITS - 1) |-> pack_code(Plane(q, i))]
BinaryLut(v) ==
    LET q == quantize(v, 2^BITS - 1)
    IN  [knum |-> q.knum, b |-> q.b, qvector_sum |-> SumOfSeq(q.code), planes |-> binarize(q.code)]

reduce_sum_of_and(x, y) == SumOfSeq([w \in DOMAIN x |-> Popcount(x[w] \cap y[w])])
binary_accumulate(x, planes) ==
    SumOfSeq([i \in 1..BITS |-> 2^(i - 1) * reduce_sum_of_and(x, planes[i - 1])])

\* half_process: the estimate e, times the number of levels.
BinaryEstimate(u, lut) ==
    lut.knum * (2 * binary_accumulate(pack_code(code_elements(u)), lut.planes) - lut.qvector_sum)
    + (2^BITS - 1) * lut.b * factor_cnt(u)

BlockEstimates(us, lut) ==
    LET t == padding_pack([v \in DOMAIN us |-> pack_to_u4(code_elements(us[v]))])
        sum == accumulate(t, lut.lut)
    IN  [v \in DOMAIN us |-> lut.knum * sum[v - 1] + 255 * lut.c]

\* What both estimate: the query with the signs of the coded vector.
SignedSum(u, v) == SumOfSeq([i \in DOMAIN v |-> IF u[i] >= 0 THEN v[i] ELSE -v[i]])

----------------------------------------------------------------------------
(* extended.rs: codes of 1 to 8 bits.                                        *)
Clamp(x, lo, hi) == IF x < lo THEN lo ELSE IF x > hi THEN hi ELSE x

\* code and ugly_code, for a scale num / den of the elements.
Coded(bits, v, num, den) ==
    [i \in DOMAIN v |->
        Clamp((v[i] * num) \div den, -(2^(bits - 1)), 2^(bits - 1) - 1) + 2^(bits - 1)]

AbsOf(v) == [i \in DOMAIN v |-> Abs(v[i])]
ugly_code(bits, v) == Coded(bits, v, 2^(bits - 1), Max(Range(AbsOf(v))))

\* pack_code::<X>: one plane per bit; accumulate::<X, Y> adds the planes' common
\* bits, weighted.  halfbyte.rs packs two codes into a byte instead.
Planes(bits, code) == [i \in 0..(bits - 1) |-> pack_code(Plane(code, i))]
extended_accumulate(bx, x, by, y) ==
    SumOfSeq([i \in 1..bx |-> SumOfSeq([j \in 1..by |->
        2^(i + j - 2) * reduce_sum_of_and(x[i - 1], y[j - 1])])])
halfbyte_pack_code(code) ==
    [c \in 1..Chunks(Len(code), 2) |-> At(code, 2*c - 1) + 16 * At(code, 2*c)]
halfbyte_accumulate(x, y) ==
    SumOfSeq([c \in DOMAIN x |-> Term("lo", x[c], y[c]) + Term("hi", x[c], y[c])])

\* half_process: the inner product of the codes taken as points of a lattice
\* around zero, times four.
HalfProcessIp(dim, sum, bx, x, by, y) ==
    4 * sum - 2 * ((2^by - 1) * SumOfSeq(x) + (2^bx - 1) * SumOfSeq(y))
    + dim * (2^bx - 1) * (2^by - 1)

LatticeIp(bx, x, by, y) ==
    SumOfSeq([i \in DOMAIN x |-> (2 * x[i] - (2^bx - 1)) * (2 * y[i] - (2^by - 1))])
=============================================================================
