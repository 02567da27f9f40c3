----------------------------- MODULE CodeCalls -----------------------------
(* Calls of the distance estimates, of the search for a code's scale and of  *)
(* the operators on the vector types, on enumerated inputs.                  *)
EXTENDS Estimates, Calls

NonZero(n, S) == {v \in [1..n -> S] : \E i \in 1..n : v[i] # 0}

----------------------------------------------------------------------------
\* An estimate of a distance d, exact sums first: what is between them is at
\* most err * sqrt(n - 1); quantized sums add at most half a step for every
\* table row or element.
Covers(estimate, d, c) ==
    (estimate.rough - d * c.abs) * (estimate.rough - d * c.abs) <= estimate.err2
Near(estimate, exact, t, c, count, halves) ==
    2 * Abs(estimate.rough - t.levels * exact.rough) <= halves * c.dis_u_2 * t.k * count

Centroids(n) == {NoCentroid, [i \in 1..n |-> i - 2], [i \in 1..n |-> 3 - 2 * i]}

CallDistance ==
    call = Idle /\
    \E n \in 2..3, metric \in {"l2s", "dot"} :
        \E x, q \in [1..n -> IF n = 2 THEN {-2, 0, 1} ELSE {-1, 2}], centroid \in Centroids(n) :
            LET c == vect_build(metric, x, centroid).code
                f32(s, t) == IF metric = "l2s" THEN vecf32_l2s(x, centroid, q, s, t)
                             ELSE vecf32_dot(x, centroid, q, s, t)
                f16(s, t) == IF metric = "l2s" THEN vecf16_l2s(x, centroid, q, s, t)
                             ELSE vecf16_dot(x, centroid, q, s, t)
                block == BlockSum(c, q)
                binary == BinarySum(c, q)
                sum == ExactSum(c, q)
                exact == f32(sum, sum)
                d == IF metric = "l2s" THEN vect_l2s(x, q) ELSE vect_dot(x, q)
                halves == IF metric = "l2s" THEN 2 ELSE 1
            IN  /\ c.dis_u_2 # 0
                /\ Returns([kind |-> "estimate", metric |-> metric, x |-> x, q |-> q,
                            centroid |-> centroid],
                           {<<exact[1] = exact[2], Covers(exact[1], d, c),
                              Near(rough[1], exact[1], block, c, Chunks(n, 4), halves),
                              Near(rough[2], exact[2], binary, c, n, halves)>> :
                                rough \in {f32(block, binary), f16(block, binary)}},
                           <<TRUE, TRUE, TRUE, TRUE>>)

\* A column of coded vectors gives the estimates of a column of the vectors.
CallCoded ==
    call = Idle /\
    \E n \in 2..3 : \E x \in NonZero(n, -1..2), q \in NonZero(n, {-1, 2}) :
        LET c == code(x)
            block == BlockSum(c, q)
            binary == BinarySum(c, q)
            v8 == quantize_to_rabitq8(x)
            v4 == quantize_to_rabitq4(x)
        IN  Returns([kind |-> "estimate", x |-> x, q |-> q],
                    {<<rabitq8_l2s(v8, block, binary), rabitq8_dot(v8, block, binary)>>,
                     <<rabitq4_l2s(v4, block, binary), rabitq4_dot(v4, block, binary)>>},
                    <<vecf32_l2s(x, NoCentroid, q, block, binary),
                      vecf32_dot(x, NoCentroid, q, block, binary)>>)

----------------------------------------------------------------------------
\* No code of as many bits points more along the vector than the one found.
CallScale ==
    call = Idle /\
    \E n \in 1..3 : \E bits \in 1..(IF n = 3 THEN 3 ELSE 4), v \in NonZero(n, -3..3) :
        LET c == extended_code(bits, v)
            best == Direction(bits, c, v)
        IN  Returns([kind |-> "code", v |-> v, bits |-> bits],
                    {<<best.numerator > 0,
                       \E other \in [1..n -> 0..(2^bits - 1)] :
                            /\ Direction(bits, other, v).numerator > 0
                            /\ Exceeds(Direction(bits, other, v), best)>>},
                    <<TRUE, FALSE>>)

\* Vectors of signs lie on the lattice, so that their estimates are distances,
\* however they are stored; the operators on stored codes are exact as well.
Is(estimate, d) == estimate.num = d * estimate.den
Distances(bits, x, q, x8, q8, x4, q4) ==
    {<<graph_vecf32_l2s(bits, x, q), graph_vecf32_dot(bits, x, q)>>,
     <<graph_vecf16_l2s(bits, x, q), graph_vecf16_dot(bits, x, q)>>,
     <<graph_rabitq8_l2s(bits, x8, q8), graph_rabitq8_dot(bits, x8, q8)>>,
     <<graph_rabitq4_l2s(bits, x4, q4), graph_rabitq4_dot(bits, x4, q4)>>,
     <<rabitq8_operator_l2s(x8, q8), rabitq8_operator_dot(x8, q8)>>,
     <<rabitq4_operator_l2s(x4, q4), rabitq4_operator_dot(x4, q4)>>}
Cosines(x8, q8, x4, q4) == {rabitq8_operator_cos(x8, q8), rabitq4_operator_cos(x4, q4)}
CallVertex ==
    call = Idle /\
    \E n \in 1..5, bits \in 1..2 : \E x, q \in [1..n -> {-1, 1}] :
        Returns([kind |-> "code", x |-> x, q |-> q, bits |-> bits],
                {<<Is(d[1], vect_l2s(x, q)), Is(d[2], vect_dot(x, q))>> :
                    d \in Distances(bits, x, q, quantize_to_rabitq8(x), quantize_to_rabitq8(q),
                                    quantize_to_rabitq4(x), quantize_to_rabitq4(q))}
                \cup {<<n * d.num = vect_dot(x, q) * d.den, TRUE>> :
                    d \in Cosines(quantize_to_rabitq8(x), quantize_to_rabitq8(q),
                                  quantize_to_rabitq4(x), quantize_to_rabitq4(q))},
                <<TRUE, TRUE>>)

----------------------------------------------------------------------------
Dense(v) == [i \in 1..v.dim |->
                IF i - 1 \in Range(v.idx)
                THEN v.val[CHOOSE k \in DOMAIN v.idx : v.idx[k] = i - 1] ELSE 0]
ToSparse(x) ==
    LET kept == SelectSeq([i \in DOMAIN x |-> i], LAMBDA i : x[i] # 0)
    IN  [dim |-> Len(x), idx |-> [k \in DOMAIN kept |-> kept[k] - 1],
         val |-> [k \in DOMAIN kept |-> x[kept[k]]]]

CallSparseOps ==
    call = Idle /\
    \E n \in 2..3 : \E x, y \in [1..n -> -1..1], underflows \in {{}, {1}} :
        LET l == ToSparse(x)
            r == ToSparse(y)
            results == <<svect_add(l, r), svect_sub(l, r), svect_mul(l, r),
                         svect_function_normalize(l, underflows)>>
        IN  Returns([kind |-> "vector", l |-> l, r |-> r, u |-> underflows],
                    {<<[i \in 1..4 |-> Dense(results[i])],
                       \A i \in 1..4 : svect_new_checked(results[i]),
                       svect_partial_cmp(l, r), svect_eq(l, r)>>},
                    <<<<vect_add(x, y), vect_sub(x, y), vect_mul(x, y),
                        [i \in 1..n |-> IF x[i] \in underflows THEN 0 ELSE x[i]]>>,
                      TRUE, vect_partial_cmp(x, y), vect_eq(x, y)>>)

Differ(x, y) == IF x = y THEN 0 ELSE 1
CallBinaryOps ==
    call = Idle /\
    \E n \in 1..5 : \E x, y \in [1..n -> {0, 1}] :
        LET l == [dim |-> n, data |-> pack_code(x)]
            r == [dim |-> n, data |-> pack_code(y)]
            results == <<bvect_and(l, r), bvect_or(l, r), bvect_xor(l, r)>>
        IN  Returns([kind |-> "vector", l |-> l, r |-> r, u |-> {}],
                    {<<[i \in 1..3 |-> bvect_iter(results[i])],
                       \A i \in 1..3 : bvect_new_checked(results[i]),
                       bvect_partial_cmp(l, r), bvect_hamming(l, r)>>},
                    <<<<vect_mul(x, y), [i \in 1..n |-> IF x[i] + y[i] > 0 THEN 1 ELSE 0],
                        [i \in 1..n |-> Differ(x[i], y[i])]>>,
                      TRUE, vect_partial_cmp(x, y),
                      SumOfSeq([i \in 1..n |-> Differ(x[i], y[i])])>>)

\* Bytes are accepted as a vector exactly when they are the packing of codes,
\* and the operators see those codes.
CallPacked ==
    call = Idle /\
    \E n \in 1..3, len \in 1..2 : \E bytes \in [1..len -> {0, 5, 16, 93, 255}] :
        LET v4 == [dim |-> n, packed |-> bytes]
            v8 == [dim |-> n, packed |-> bytes]
            fits4 == Chunks(n, 2) = len
        IN  Returns([kind |-> "vector", l |-> v4, r |-> v4, u |-> {}],
                    {<<rabitq4_owned_new_checked(v4), rabitq4_new_checked(v4),
                       rabitq8_owned_new_checked(v8), rabitq8_new_checked(v8),
                       rabitq4_new_checked(v4) =>
                            rabitq4_ip(v4, v4) = LatticeIp(4, rabitq4_unpacked_code(v4),
                                                           4, rabitq4_unpacked_code(v4)),
                       rabitq8_new_checked(v8) => rabitq8_ip(v8, v8) = LatticeIp(8, bytes, 8, bytes)>>},
                    LET packs == fits4 /\ halfbyte_pack_code(rabitq4_unpacked_code(v4)) = bytes
                    IN  <<packs, packs, n = len, n = len, TRUE, TRUE>>)

NextCode ==
    CallDistance \/ CallCoded \/ CallScale \/ CallVertex \/ CallSparseOps \/ CallBinaryOps \/ CallPacked

----------------------------------------------------------------------------
\* Codes stand for the vectors they replace.  The code that code::<BITS> chooses
\* points along the vector at least as well as every other code of that many
\* bits; for vectors on the lattice the estimates of the graph and the operators
\* on stored codes are the distances, in all four storage types.  The block and
\* the binary estimate of an inner product are within half a quantization step
\* per table row or element, the bit-plane sums give the lattice product
\* exactly, and a distance computed from exact sums, for a vector or for the
\* residual to its centroid, is off by at most the error term that rules out a
\* candidate.
CodesClosest == Agrees({"code", "estimate"})

\* Sums, differences, products, normalization and order of sparse vectors are
\* those of the dense ones and keep the type's invariant (sorted, no zero);
\* binary vectors behave as their bits and keep the padding zero; a packed
\* vector is accepted exactly when it is a packing of its codes.
VectorsAgree == Agrees({"vector"})
=============================================================================
