---------------------------- MODULE StorageCalls ----------------------------
(* Vectors, codes and headers of every size written to pages and read back.  *)
EXTENDS VectorPages, Calls

CONSTANTS Dims,             \* dimensions: both sides of every limit of split
          Degrees,          \* values of m
          DirectorySizes    \* numbers of frozen pages of a list

VDims == Dims \cap 1..60000     \* VectorOptions of vchordrq
GDims == Dims \cap 1..30000     \* and of vchordg

\* Two vectors on a tape, one after the other: each reads back whole.
CallVectors ==
    call = Idle /\
    \E tuple \in {"vector", "centroid"}, v \in VectorKinds, dim \in VDims :
        LET a == append(tuple, create, v, dim)
            b == append(tuple, a.tape, v, dim)
            Got(x) == IF b.tape = Broken THEN <<-1, 0>>
                      ELSE <<read(tuple, b.tape, x.prefetch, x.head), Len(x.prefetch)>>
        IN  Returns([kind |-> "stored", tuple |-> tuple, v |-> v, dim |-> dim],
                    {Got(a), Got(b)}, <<Elements(v, dim), count(v, dim)>>)

\* A vertex of vchordg: every tuple fits on a cleared page and reads back, also
\* through the mutable views.
CallVertexTuple ==
    call = Idle /\
    \E v \in VectorKinds, dim \in GDims, bits \in {1, 2}, m \in Degrees :
        LET ts == G_tuples(v, dim, bits, m)
            Ref(i) == IF i = 1 THEN G!VertexTuple_deserialize_ref(ts[i])
                      ELSE G!VectorTuple_deserialize_ref(ts[i])
            Mut(i) == IF i = 1 THEN G!VertexTuple_deserialize_mut(ts[i])
                      ELSE G!VectorTuple_deserialize_mut(ts[i])
            s == G_split(v, dim, m)
        IN  Returns([kind |-> "stored", v |-> v, dim |-> dim, bits |-> bits, m |-> m],
                    {<<CanAlloc(clear, ts[i]), ReadBack(ts[i], Ref(i)), ReadBack(ts[i], Mut(i)),
                       s.right + (IF s.left = <<>> THEN 0
                                  ELSE s.left[1] * (Len(s.left) - 1) + Last(s.left))>> :
                        i \in 1..Len(ts)},
                    <<TRUE, TRUE, TRUE, Elements(v, dim)>>)

\* One full block and a rest of r branches, each with the page ids split gives
\* it, on a tape that already holds a block.
Chunk(base, r, k) ==
    [i \in 1..r |-> [prefetch |-> [j \in 1..k |-> base + 100 * i + j], extra |-> base + i]]
CallBlocks ==
    call = Idle /\
    \E b \in {"h1", "frozen"}, v \in VectorKinds, dim \in VDims, r \in {0, 1, 31} :
        LET n == div_ceil(dim, 4)
            k == Len(split(v, dim))
            p == count(v, dim)
            c1 == Chunk(0, 32, k)
            c2 == Chunk(5000, 32, k)
            c3 == Chunk(9000, r, k)
            t == IF b = "h1" THEN H1_flush(H1_push(H1_push(create, p, n, c1), p, n, c2), p, n, c3)
                 ELSE Frozen_push(Frozen_push(create, p, n, c1), p, n, c2)
        IN  Returns([kind |-> "stored", b |-> b, v |-> v, dim |-> dim, r |-> r],
                    {IF t = Broken THEN <<>> ELSE ReadTape(t, b)},
                    <<<<n, c1>>, <<n, c2>>>>
                        \o (IF b = "h1" /\ r > 0 THEN <<<<n, c3>>>> ELSE <<>>))

CallDirectory ==
    call = Idle /\
    \E n \in DirectorySizes :
        LET t == Directory_push(create, n)
        IN  Returns([kind |-> "stored", b |-> "directory", n |-> n],
                    {IF t = Broken THEN <<>> ELSE ReadTape(t, "directory")}, <<<<n, <<>>>>>>)

\* The single tuples: with the counts a build gives them they fit on a cleared
\* page and read back through both views.
Single(cells, threads, v, dim) ==
    LET k == count(v, dim)
        meta == MetaTuple(cells, threads, k)
        jump == JumpTuple(k)
        appendable == AppendableTuple(k, div_ceil(dim, 64))
        frozen == FrozenTuple(0, k, 1)
    IN  {<<meta, MetaTuple_deserialize_ref(meta), MetaTuple_deserialize_mut(meta)>>,
         <<FreepagesTuple, FreepagesTuple_deserialize_mut(FreepagesTuple), <<>>>>,
         <<jump, JumpTuple_deserialize_ref(jump), JumpTuple_deserialize_mut(jump)>>,
         <<appendable, AppendableTuple_deserialize_ref(appendable),
           AppendableTuple_deserialize_mut(appendable)>>,
         <<frozen, FrozenTuple_deserialize_ref(frozen), FrozenTuple_deserialize_mut(frozen)>>,
         LET g == G!MetaTuple(cells) IN <<g, G!MetaTuple_deserialize_ref(g), G!MetaTuple_deserialize_mut(g)>>}
CallTuples ==
    call = Idle /\
    \E cells \in {1, 8}, threads \in {1, 256}, v \in VectorKinds, dim \in VDims :
        Returns([kind |-> "stored", b |-> "single", cells |-> cells, threads |-> threads, v |-> v, dim |-> dim],
                {<<CanAlloc(clear, x[1]), ReadBack(x[1], x[2]), ReadBack(x[1], x[3])>> :
                    x \in Single(cells, threads, v, dim)},
                <<TRUE, TRUE, TRUE>>)

\* The statistic reads back, in the place old indexes left zero, and moves no
\* other field.
CallStatistic ==
    call = Idle /\
    \E n \in {0, 1, LowBase - 1, LowBase, LowBase + 1, MAX_INDEXED_VECTORS} :
        Returns([kind |-> "stored", b |-> "statistic", n |-> n],
                {<<indexed_vectors(set_indexed_vectors(n)),
                   indexed_vectors([set_indexed_vectors(n) EXCEPT !.statistics_version = 0]),
                   SizeOf(MetaTupleHeader),
                   [i \in {8, 9, 13, 14, 15} |-> OffsetOf(MetaTupleHeader, i)]>>},
                <<n, -1, 56, [i \in {8, 9, 13, 14, 15} |->
                    CASE i = 8 -> 22 [] i = 9 -> 24 [] i = 13 -> 36 [] i = 14 -> 40 [] i = 15 -> 42]>>)

NextStorage ==
    CallVectors \/ CallVertexTuple \/ CallBlocks \/ CallDirectory \/ CallTuples \/ CallStatistic

----------------------------------------------------------------------------
\* A vector of any type and any dimension the options admit is cut into as many
\* pieces as count announces, every piece fits on a cleared page next to its
\* header (and, in vchordg, its neighbours), and following the chain returns all
\* elements in order; no u16 offset is truncated. The tape writers never meet a
\* cleared page that cannot take a tuple; blocks that span pages read back whole,
\* each branch with its own page ids; mutable views never overlap; the statistic
\* fits in the header's old padding.
StoredReadBack == Agrees({"stored"})
=============================================================================
