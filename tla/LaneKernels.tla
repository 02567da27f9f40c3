---------------------------- MODULE LaneKernels ----------------------------
(* The loops of the simd crate's vector kernels.  A kernel walks a slice    *)
(* with vectors of several widths: unrolled while loops over whole vectors, *)
(* then if statements over narrower ones, then one masked or padded load of *)
(* what is left.  Each load feeds accumulators that the end of the kernel   *)
(* adds up.  A kernel is a record: its stages, what a lane contributes      *)
(* (parts), how the parts are combined, and the accumulators it reduces.    *)
(* The modules FloatingF32, FloatingF16, Byte and Packed give one           *)
(* such record per specialised function of the source file of that name.   *)
(* Accumulators that every load updates together (even and odd bytes of one *)
(* vector) are one accumulator here.                                        *)
EXTENDS Integers, Sequences, FiniteSets, FiniteSetsExt, SequencesExt

\* while n >= w { .. }: w / Len(accs) consecutive lanes into each accumulator.
Full(w, accs) == [loop |-> "while", w |-> w, accs |-> accs, pad |-> "none"]

\* if n >= w { .. }
Once(w, accs) == [loop |-> "if", w |-> w, accs |-> accs, pad |-> "none"]

\* if n > 0, with the mask _bzhi(ones, n): the other lanes load as zero, or
\* leave the accumulator alone in the minima and maxima.
Masked(w, acc) == [loop |-> "masked", w |-> w, accs |-> <<acc>>, pad |-> "zero"]
MaskedKeep(w, acc) == [loop |-> "masked", w |-> w, accs |-> <<acc>>, pad |-> "keep"]

\* if n > 0, through the stack copy partial_load!(w, n, ..), which tells the
\* compiler that n < w and fills the rest with the padding value.
partial_load(w, accs, pad) == [loop |-> "padded", w |-> w, accs |-> accs, pad |-> pad]

\* for i in 0..n, the plain version every kernel is compared with.
Scalar == <<Full(1, <<0>>)>>

Inf == 100000
Unbounded == [min |-> Inf, max |-> -Inf]

\* Kernels that add up one term per lane, several terms into accumulators of
\* their own, or that keep the smallest and the largest lane.
SumOf(term, reduced, stages) ==
    [fold |-> "sum", parts |-> <<term>>, weights |-> <<1>>, reduced |-> reduced,
     start |-> Unbounded, stages |-> stages]
SumsOf(parts, weights, stages) ==
    [fold |-> "sum", parts |-> parts, weights |-> weights, reduced |-> {0, 1},
     start |-> Unbounded, stages |-> stages]
MinMaxOf(start, stages) ==
    [fold |-> "minmax", parts |-> <<"x">>, weights |-> <<1>>, reduced |-> {0},
     start |-> start, stages |-> stages]

\* A public function: the versions compiled for a processor, the plain one,
\* and the element type.
Versions(type, specialised, fallback) ==
    [type |-> type, specialised |-> specialised, fallback |-> fallback]

----------------------------------------------------------------------------
\* The sum of a sequence, halved rather than walked to keep recursion shallow.
SumOfSeq(s) ==
    LET part[i \in 1..Len(s), n \in 0..Len(s)] ==      \* n elements from s[i] on
            IF n < 2 THEN (IF n = 0 THEN 0 ELSE s[i])
            ELSE part[i, n \div 2] + part[i + (n \div 2), n - (n \div 2)]
    IN  IF Len(s) = 0 THEN 0 ELSE part[1, Len(s)]

Popcount(bits) == Cardinality(bits)
Abs(x) == IF x < 0 THEN -x ELSE x

\* What one lane adds.  A u64 is the set of its one bits.
Term(t, x, y) ==
    CASE t = "x" -> x
      [] t = "abs" -> Abs(x)
      [] t = "x2" -> x * x
      [] t = "xy" -> x * y
      [] t = "d2" -> (x - y) * (x - y)
      [] t = "x_signed" -> x * (y - 128)
      [] t = "lo" -> (x % 16) * (y % 16)
      [] t = "hi" -> (x \div 16) * (y \div 16)
      [] t = "ones" -> Popcount(x)
      [] t = "and" -> Popcount(x \cap y)
      [] t = "or" -> Popcount(x \cup y)
      [] t = "xor" -> Popcount((x \cup y) \ (x \cap y))

\* One stage: how many of the n remaining elements it takes and where they go.
Stage(st, s) ==
    LET took == CASE s.loop = "while" -> st.n - (st.n % s.w)
                  [] s.loop = "if" -> IF st.n >= s.w THEN s.w ELSE 0
                  [] OTHER -> IF st.n > s.w THEN s.w ELSE st.n
        lanes == s.w \div Len(s.accs)
        acc(i) == s.accs[((i - 1) % s.w) \div lanes + 1]
    IN  [n |-> st.n - took,
         place |-> st.place \o [i \in 1..took |-> acc(i)],
         pads |-> st.pads \cup (IF s.loop \in {"masked", "padded"} /\ took > 0
                                  THEN {s.pad} ELSE {}),
         defined |-> st.defined /\ (s.loop = "padded" => st.n < s.w)]

\* The whole loop over a slice of n elements: place[i] is the accumulator of
\* element i; elements past Len(place) were never loaded.
Walk(k, n) ==
    FoldLeft(Stage, [n |-> n, place |-> <<>>, pads |-> {}, defined |-> TRUE], k.stages)

\* What padding lanes add to a sum: both operands of the term are zero.
PadTerm(t, pads, type) == IF pads = {} THEN 0
                          ELSE IF type = "u64" THEN Term(t, {}, {}) ELSE Term(t, 0, 0)

\* The value a kernel returns for x and y of length n, one component per part
\* unless the parts are combined.  In the minima and maxima a NaN lane loses
\* against the accumulator and a zero lane does not.
Result(k, type, x, y, n) ==
    LET walk == Walk(k, n)
        kept(i) == walk.place[i] \in k.reduced
        sum(t) ==
            PadTerm(t, walk.pads, type)
              + SumOfSeq([i \in DOMAIN walk.place |-> IF kept(i) THEN Term(t, x[i], y[i]) ELSE 0])
        seen == {x[i] : i \in {j \in DOMAIN walk.place : kept(j)}}
                  \cup (IF "zero" \in walk.pads THEN {0} ELSE {})
    IN  IF ~walk.defined THEN <<"undefined">>
        ELSE IF k.fold = "minmax"
        THEN <<Min({k.start.min} \cup seen), Max({k.start.max} \cup seen)>>
        ELSE IF Len(k.weights) = 0 THEN [p \in DOMAIN k.parts |-> sum(k.parts[p])]
        ELSE <<FoldSet(LAMBDA p, s : s + k.weights[p] * sum(k.parts[p]), 0, DOMAIN k.parts)>>

Widest(f) == Max({s.w : s \in UNION {Range(k.stages) : k \in f.specialised}})
=============================================================================
