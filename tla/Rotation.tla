----------------------------- MODULE Rotation -----------------------------
(* The random rotation of crates/rabitq/src/rotate.rs and its inverse, over  *)
(* the Walsh-Hadamard transform of crates/simd/src/fht.rs and the sign flips *)
(* and Givens rotations of crates/simd/src/rotate.rs.  Every factor is a     *)
(* power of the square root of two, so numbers are exact: [a, b] is          *)
(* a + b * sqrt(2), and a vector carries the exponent e of a common          *)
(* denominator 2^e.                                                          *)
EXTENDS Integers, Sequences, FiniteSets, SequencesExt

CONSTANT Blocked        \* the transform's block is 2^(Blocked+1) long; 8 in the code

Add(x, y) == <<x[1] + y[1], x[2] + y[2]>>
Sub(x, y) == <<x[1] - y[1], x[2] - y[2]>>
Twice(x) == <<2 * x[1], 2 * x[2]>>
TimesRoot(x) == <<2 * x[2], x[1]>>

----------------------------------------------------------------------------
(* SubSeq of a whole sequence is the sequence, with its elements evaluated.  *)
Evaluated(x) == SubSeq(x, 1, Len(x))

(* Butterflies with distance 2^q on the 2^(q+1) elements after position at.  *)
basic_2(q, x, at) ==
    Evaluated([j \in DOMAIN x |->
        LET k == j - at - 1
        IN  IF k \notin 0..(2^(q + 1) - 1) THEN x[j]
            ELSE IF k < 2^q THEN Add(x[j], x[j + 2^q]) ELSE Sub(x[j - 2^q], x[j])])

Starts(n, step) == [i \in 1..((n + step - 1) \div step) |-> (i - 1) * step]

basic_1(q, x, at) ==
    FoldLeft(LAMBDA y, s : basic_2(q, y, at + s), x, Starts(2^(Blocked + 1), 2^(q + 1)))

\* fht!(p, 0) and fht!(p, 1): the second one works in blocks that fit a cache
\* line for the short distances.
Direct(p, x) ==
    FoldLeft(LAMBDA y, q : FoldLeft(LAMBDA z, s : basic_2(q, z, s), y, Starts(Len(x), 2^(q + 1))),
             x, [i \in 1..p |-> i - 1])
ByBlocks(p, x) ==
    LET short == FoldLeft(LAMBDA y, q : FoldLeft(LAMBDA z, s : basic_1(q, z, s), y,
                                                 Starts(Len(x), 2^(Blocked + 1))),
                          x, [i \in 1..Blocked |-> i - 1])
    IN  FoldLeft(LAMBDA y, q : FoldLeft(LAMBDA z, s : basic_2(q, z, s), y, Starts(Len(x), 2^(q + 1))),
                 short, [i \in 1..(p - Blocked) |-> Blocked + i - 1])

ilog2(n) == CHOOSE p \in 0..16 : 2^p <= n /\ n < 2^(p + 1)

fht(x) == LET p == ilog2(Len(x)) IN IF p <= Blocked THEN Direct(p, x) ELSE ByBlocks(p, x)

\* The matrix the transform stands for: entry (i, j) is negative when i and j
\* have an odd number of one bits in common.
BitsOf(n) == {b \in 0..15 : (n \div 2^b) % 2 = 1}
Hadamard(x) ==
    [i \in DOMAIN x |->
        FoldLeft(LAMBDA s, j : IF Cardinality(BitsOf(i - 1) \cap BitsOf(j - 1)) % 2 = 0
                               THEN Add(s, x[j]) ELSE Sub(s, x[j]),
                 <<0, 0>>, [j \in DOMAIN x |-> j])]

----------------------------------------------------------------------------
flip(bits, v) ==
    [v EXCEPT !.x = Evaluated([j \in DOMAIN @ |-> IF bits[j] THEN Sub(<<0, 0>>, @[j]) ELSE @[j]])]

\* fht of the elements in range, scaled by 1 / sqrt(2^base); the denominator
\* grows for all elements.
Transform(v, range, base) ==
    LET from == range[1]
        y == fht(SubSeq(v.x, range[1] + 1, range[2]))
        scaled(z) == IF base % 2 = 0 THEN z ELSE TimesRoot(z)
        exp == (base + 1) \div 2
    IN  [e |-> v.e + exp,
         x |-> Evaluated([j \in DOMAIN v.x |->
                    IF j \in (range[1] + 1)..range[2] THEN scaled(y[j - from])
                    ELSE <<2^exp * v.x[j][1], 2^exp * v.x[j][2]>>])]

\* givens on the first and the last n / 2 elements; the middle one of an odd
\* number is left alone.
kacs_walk(v) ==
    LET n == Len(v.x)
        m == n \div 2
    IN  [e |-> v.e + 1,
         x |-> Evaluated([j \in 1..n |->
                  CASE j <= m -> TimesRoot(Add(v.x[j], v.x[j + n - m]))
                    [] j > n - m -> TimesRoot(Sub(v.x[j - (n - m)], v.x[j]))
                    [] OTHER -> Twice(v.x[j])])]

Walked(v) == IF Len(v.x) = 2^ilog2(Len(v.x)) THEN v ELSE kacs_walk(v)

\* The rounds work on the first 2^base elements and on the last, in turns.
Range_(n, round) == IF round % 2 = 0 THEN <<0, 2^ilog2(n)>> ELSE <<n - 2^ilog2(n), n>>

rotate_inplace(bits, v) ==
    LET n == Len(v.x)
        round(w, r) == Walked(Transform(flip(bits[r], w), Range_(n, r), ilog2(n)))
    IN  FoldLeft(round, v, <<0, 1, 2, 3>>)

\* Mutant: the rounds are undone in the order in which they were made.
ReversedForward(bits, v) ==
    LET n == Len(v.x)
        round(w, r) == flip(bits[r], Transform(Walked(w), Range_(n, r), ilog2(n)))
    IN  FoldLeft(round, v, <<0, 1, 2, 3>>)
rotate_reversed_inplace(bits, v) ==
    LET n == Len(v.x)
        round(w, r) == flip(bits[r], Transform(Walked(w), Range_(n, r), ilog2(n)))
    IN  FoldLeft(round, v, <<3, 2, 1, 0>>)
=============================================================================
