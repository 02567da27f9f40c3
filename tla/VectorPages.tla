---------------------------- MODULE VectorPages ----------------------------
(* How vectors and their codes are cut into tuples and laid on pages of     *)
(* 8192 bytes, and how they are read back.  A page is its free bytes and    *)
(* its items; a tape is a sequence of pages whose last is its head.  Pages  *)
(* are numbered by their place on the tape.                                 *)
EXTENDS TupleLayout, SequencesExt

G == INSTANCE VchordgTuples

----------------------------------------------------------------------------
(* The tuples of vchordrq: headers, sections, readers and writers.  f32 is 4 *)
(* bytes wide; arguments are element counts; element is the width of an      *)
(* element of the vector type and meta the size of its metadata.             *)

MAGIC == "vchordrq"
Lanes32(width) == Field(width, 32)

MetaTupleHeader ==
    <<W64, W32, W32, W8, W8, W16, W16, W16, W32, W16, W16, W32, W32, W16, W16, W16, W16, W32, W32>>
MetaTuple(cells, vectors_first, centroid_prefetch) ==
    serialize(MAGIC, Tag + SizeOf(MetaTupleHeader),
              <<Section("cells", 4, cells), Section("vectors_first", 4, vectors_first),
                Section("centroid_prefetch", 4, centroid_prefetch)>>)
MetaTuple_deserialize_ref(t) ==
    Reads(t, Tag, MetaTupleHeader, <<"cells", "vectors_first", "centroid_prefetch">>)
MetaTuple_deserialize_mut(t) == Takes(t, Tag, MetaTupleHeader, <<>>)

\* The statistic that replaced padding of the header: a low and a high part of
\* LowBase and HighBase values, and version 0 where an old index left zeros.
CONSTANTS LowBase, HighBase
MAX_INDEXED_VECTORS == LowBase * HighBase - 1
STATISTICS_VERSION == 1
set_indexed_vectors(n) ==
    [statistics_version |-> STATISTICS_VERSION,
     indexed_vectors_low |-> n % LowBase,
     indexed_vectors_high |-> (n \div LowBase) % HighBase]
\* No statistic is -1.
indexed_vectors(h) ==
    IF h.statistics_version = 0 THEN -1
    ELSE h.indexed_vectors_low + LowBase * h.indexed_vectors_high

FreepagesTupleHeader == <<W32, Pad(4)>>
FreepagesTuple == serialize(0, SizeOf(FreepagesTupleHeader), <<>>)
FreepagesTuple_deserialize_mut(t) == Takes(t, 0, FreepagesTupleHeader, <<>>)

----------------------------------------------------------------------------
\* Tuple _0 ends a chain of pieces of a vector, _1 points to the next piece.
CentroidTupleHeader0 == <<W16, W16, W16, Pad(2)>>
CentroidTupleHeader1 == <<W16, W16, W16, Pad(2)>>
CentroidTuple(kind, element, meta, elements) ==
    IF kind = 0
    THEN serialize(0, Tag + SizeOf(CentroidTupleHeader0),
                   <<Section("metadata", 1, meta), Section("elements", element, elements)>>)
    ELSE serialize(1, Tag + SizeOf(CentroidTupleHeader1), <<Section("elements", element, elements)>>)
CentroidTuple_deserialize_ref(t) ==
    IF t.tag = 0 THEN Reads(t, Tag, CentroidTupleHeader0, <<"metadata", "elements">>)
    ELSE Reads(t, Tag, CentroidTupleHeader1, <<"elements">>)

VectorTupleHeader0 == <<W64, W16, W16, W16, Pad(2)>>
VectorTupleHeader1 == <<W64, W16, W16, W16, Pad(2)>>
VectorTuple(kind, element, meta, elements) ==
    IF kind = 0
    THEN serialize(0, Tag + SizeOf(VectorTupleHeader0),
                   <<Section("metadata", 1, meta), Section("elements", element, elements)>>)
    ELSE serialize(1, Tag + SizeOf(VectorTupleHeader1), <<Section("elements", element, elements)>>)
VectorTuple_deserialize_ref(t) ==
    IF t.tag = 0 THEN Reads(t, Tag, VectorTupleHeader0, <<"metadata", "elements">>)
    ELSE Reads(t, Tag, VectorTupleHeader1, <<"elements">>)

----------------------------------------------------------------------------
\* In the block tuples _1 carries elements ahead of the _0 that completes them.
\* fit_1 says how many elements still fit, -1 for none.
Fit(freespace, header, others, width) ==
    LET Down(n) == (n \div ALIGN) * ALIGN
        left == Down(Down(Down(Down(freespace) - Tag) - SizeOf(header)) - others)
    IN  IF left >= 0 THEN left \div width ELSE -1

DirectoryTupleHeader0 == <<W16, W16, Pad(4)>>
DirectoryTupleHeader1 == <<W16, W16, Pad(4)>>
Directory_estimate_size_0(elements) ==
    Tag + SizeOf(DirectoryTupleHeader0) + next_multiple_of(elements * 4, ALIGN)
Directory_fit_1(freespace) == Fit(freespace, DirectoryTupleHeader1, 0, 4)
DirectoryTuple(kind, elements) ==
    serialize(kind, Tag + SizeOf(IF kind = 0 THEN DirectoryTupleHeader0 ELSE DirectoryTupleHeader1),
              <<Section("elements", 4, elements)>>)
DirectoryTuple_deserialize_ref(t) ==
    Reads(t, Tag, IF t.tag = 0 THEN DirectoryTupleHeader0 ELSE DirectoryTupleHeader1, <<"elements">>)

H1TupleHeader0 ==
    <<Field(4, 128), Lanes32(4), W16, W16, Lanes32(2), Lanes32(4), Lanes32(4), W32, W16, W16, Pad(4)>>
H1TupleHeader1 == <<W16, W16, Pad(4)>>
H1_estimate_size_0(prefetch, elements) ==
    Tag + SizeOf(H1TupleHeader0) + next_multiple_of(prefetch * 128, ALIGN)
        + next_multiple_of(elements * 16, ALIGN)
H1_fit_1(prefetch, freespace) ==
    Fit(freespace, H1TupleHeader1, next_multiple_of(prefetch * 128, ALIGN), 16)
H1Tuple(kind, prefetch, elements) ==
    IF kind = 0
    THEN serialize(0, Tag + SizeOf(H1TupleHeader0),
                   <<Section("prefetch", 128, prefetch), Section("elements", 16, elements)>>)
    ELSE serialize(1, Tag + SizeOf(H1TupleHeader1), <<Section("elements", 16, elements)>>)
H1Tuple_deserialize_ref(t) ==
    IF t.tag = 0 THEN Reads(t, Tag, H1TupleHeader0, <<"prefetch", "elements">>)
    ELSE Reads(t, Tag, H1TupleHeader1, <<"elements">>)

FrozenTupleHeader0 == <<Field(4, 128), Lanes32(4), Lanes32(8), W16, W16, Lanes32(2), W16, W16>>
FrozenTupleHeader1 == <<W16, W16, Pad(4)>>
Frozen_estimate_size_0(prefetch, elements) ==
    Tag + SizeOf(FrozenTupleHeader0) + next_multiple_of(prefetch * 128, ALIGN)
        + next_multiple_of(elements * 16, ALIGN)
Frozen_fit_1(prefetch, freespace) ==
    Fit(freespace, FrozenTupleHeader1, next_multiple_of(prefetch * 128, ALIGN), 16)
FrozenTuple(kind, prefetch, elements) ==
    IF kind = 0
    THEN serialize(0, Tag + SizeOf(FrozenTupleHeader0),
                   <<Section("prefetch", 128, prefetch), Section("elements", 16, elements)>>)
    ELSE serialize(1, Tag + SizeOf(FrozenTupleHeader1), <<Section("elements", 16, elements)>>)
FrozenTuple_deserialize_ref(t) ==
    IF t.tag = 0 THEN Reads(t, Tag, FrozenTupleHeader0, <<"prefetch", "elements">>)
    ELSE Reads(t, Tag, FrozenTupleHeader1, <<"elements">>)
FrozenTuple_deserialize_mut(t) ==
    Takes(t, Tag, IF t.tag = 0 THEN FrozenTupleHeader0 ELSE FrozenTupleHeader1, <<"elements">>)

----------------------------------------------------------------------------
JumpTupleHeader == <<W16, W16, W16, Pad(6), W32, W32, W32, W64>>
JumpTuple(centroid_prefetch) ==
    serialize(0, SizeOf(JumpTupleHeader), <<Section("centroid_prefetch", 4, centroid_prefetch)>>)
JumpTuple_deserialize_ref(t) == Reads(t, 0, JumpTupleHeader, <<"centroid_prefetch">>)
JumpTuple_deserialize_mut(t) == Takes(t, 0, JumpTupleHeader, <<>>)

AppendableTupleHeader == <<Field(4, 4), W32, W16, W16, W16, Pad(2), W16, W16, W64>>
AppendableTuple(prefetch, elements) ==
    serialize(0, SizeOf(AppendableTupleHeader),
              <<Section("prefetch", 4, prefetch), Section("elements", 8, elements)>>)
AppendableTuple_deserialize_ref(t) == Reads(t, 0, AppendableTupleHeader, <<"prefetch", "elements">>)
AppendableTuple_deserialize_mut(t) == Takes(t, 0, AppendableTupleHeader, <<"elements">>)


----------------------------------------------------------------------------
\* A cleared page has a header of 24 bytes and an opaque of 8; an item takes a
\* line pointer of 4 bytes and its length up to the alignment.
clear == [free |-> 8192 - 24 - 8, items |-> <<>>]
freespace(p) == IF p.free < 4 THEN 0 ELSE p.free - 4
CanAlloc(p, t) == next_multiple_of(t.len, 8) + 4 <= p.free
alloc(p, item) ==
    [free |-> p.free - 4 - next_multiple_of(item.t.len, 8), items |-> Append(p.items, item)]

create == <<clear>>
Broken == <<>>      \* a writer that panicked
OnHead(tape, item) == [tape EXCEPT ![Len(tape)] = alloc(@, item)]
tape_move(tape) == IF tape = Broken \/ Last(tape).items = <<>> THEN Broken ELSE Append(tape, clear)
tape_put(tape, item) ==
    IF tape = Broken \/ ~CanAlloc(Last(tape), item.t) THEN Broken ELSE OnHead(tape, item)
push(tape, item) ==
    IF tape = Broken THEN Broken
    ELSE IF CanAlloc(Last(tape), item.t) THEN OnHead(tape, item)
    ELSE tape_put(Append(tape, clear), item)

----------------------------------------------------------------------------
\* The vector types: bytes of an element and of the metadata, and how many
\* elements code a vector.
VectorKinds == {"vecf32", "vecf16", "rabitq8", "rabitq4"}
ElementSize(v) == CASE v = "vecf32" -> 4 [] v = "vecf16" -> 2 [] OTHER -> 1
MetadataSize(v) == IF v \in {"rabitq8", "rabitq4"} THEN 16 ELSE 0
Elements(v, dim) == IF v = "rabitq4" THEN (dim + 1) \div 2 ELSE dim

\* The lengths of the pieces of n elements in pieces of k.
chunks(n, k) ==
    [i \in 1..((n + k - 1) \div k) |-> IF i * k <= n THEN k ELSE n - (i - 1) * k]

split_vecf32(n) ==
    IF n <= 960 THEN <<n>> ELSE IF n <= 1280 THEN <<640, n - 640>> ELSE chunks(n, 1920)
split_vecf16(n) ==
    IF n <= 1920 THEN <<n>> ELSE IF n <= 2560 THEN <<1280, n - 1280>> ELSE chunks(n, 3840)
split_rabitq8(n) ==
    IF n <= 3840 THEN <<n>> ELSE IF n <= 5120 THEN <<1280, n - 1280>> ELSE chunks(n, 7680)
split_rabitq4(n) ==
    IF n <= 3840 THEN <<n>> ELSE IF n <= 5120 THEN <<1280, n - 1280>> ELSE chunks(n, 7680)
split(v, dim) ==
    LET n == Elements(v, dim)
    IN  CASE v = "vecf32" -> split_vecf32(n) [] v = "vecf16" -> split_vecf16(n)
          [] v = "rabitq8" -> split_rabitq8(n) [] OTHER -> split_rabitq4(n)

div_ceil(n, k) == (n + k - 1) \div k
\* Mutant: the sizes between one and two thirds of a page are forgotten.
CountWithoutThirds(dim) == IF dim <= 960 THEN 1 ELSE div_ceil(dim, 1920)
count_vecf32(dim) == IF dim <= 960 THEN 1 ELSE IF dim <= 1280 THEN 2 ELSE div_ceil(dim, 1920)
count_vecf16(dim) == IF dim <= 1920 THEN 1 ELSE IF dim <= 2560 THEN 2 ELSE div_ceil(dim, 3840)
count_rabitq8(dim) == IF dim <= 3840 THEN 1 ELSE IF dim <= 5120 THEN 2 ELSE div_ceil(dim, 7680)
count_rabitq4(dim) == IF dim <= 7680 THEN 1 ELSE IF dim <= 10240 THEN 2 ELSE div_ceil(dim, 15360)
count(v, dim) ==
    CASE v = "vecf32" -> count_vecf32(dim) [] v = "vecf16" -> count_vecf16(dim)
      [] v = "rabitq8" -> count_rabitq8(dim) [] OTHER -> count_rabitq4(dim)

----------------------------------------------------------------------------
\* The pieces of a vector go onto the tape last piece first; each piece but the
\* last notes the slot of the next one, and prefetch the pages in reading order.
Piece(tuple, v, kind, n, from, head) ==
    [t |-> IF tuple = "vector" THEN VectorTuple(kind, ElementSize(v), MetadataSize(v), n)
           ELSE CentroidTuple(kind, ElementSize(v), MetadataSize(v), n),
     from |-> from, n |-> n, head |-> head]

Put(st, tape, from) ==
    IF tape = Broken THEN [st EXCEPT !.tape = Broken]
    ELSE [tape |-> tape, head |-> Len(Last(tape).items), from |-> from,
          prefetch |-> <<Len(tape)>> \o st.prefetch]
RECURSIVE AppendPieces(_, _, _, _, _)
AppendPieces(tuple, v, slices, k, st) ==
    IF k = 0 \/ st.tape = Broken THEN st
    ELSE LET from == st.from - slices[k]
             kind == IF k = Len(slices) THEN 0 ELSE 1
         IN  AppendPieces(tuple, v, slices, k - 1,
                          Put(st, push(st.tape, Piece(tuple, v, kind, slices[k], from, st.head)), from))
append(tuple, tape, v, dim) ==
    AppendPieces(tuple, v, split(v, dim), Len(split(v, dim)),
                 [tape |-> tape, head |-> 0, from |-> Elements(v, dim), prefetch |-> <<>>])

\* Reading follows head from page to page of prefetch, and must meet the last
\* piece on its last page; the elements come in order.
GoodPiece(tuple, x, got) ==
    /\ x.from = got
    /\ ReadBack(x.t, IF tuple = "vector" THEN VectorTuple_deserialize_ref(x.t)
                     ELSE CentroidTuple_deserialize_ref(x.t))
RECURSIVE ReadPieces(_, _, _, _, _)
ReadPieces(tuple, tape, prefetch, head, got) ==
    IF prefetch = <<>> THEN (IF head = 0 THEN got ELSE -1)
    ELSE LET items == tape[Head(prefetch)].items
         IN  IF head = 0 \/ head > Len(items) \/ ~GoodPiece(tuple, items[head], got) THEN -1
             ELSE ReadPieces(tuple, tape, Tail(prefetch),
                             IF items[head].t.tag = 0 THEN 0 ELSE items[head].head,
                             items[head].from + items[head].n)
read(tuple, tape, prefetch, head) == ReadPieces(tuple, tape, prefetch, head, 0)

----------------------------------------------------------------------------
\* The tapes whose blocks may span pages: a directory of n page ids, or blocks
\* of 32 codes of n elements each with prefetch page ids.
estimate_size_0(b, prefetch, n) ==
    CASE b = "directory" -> Directory_estimate_size_0(n)
      [] b = "h1" -> H1_estimate_size_0(prefetch, n)
      [] b = "frozen" -> Frozen_estimate_size_0(prefetch, n)
fit_1(b, prefetch, f) ==
    CASE b = "directory" -> Directory_fit_1(f)
      [] b = "h1" -> H1_fit_1(prefetch, f)
      [] b = "frozen" -> Frozen_fit_1(prefetch, f)
BlockTuple(b, kind, prefetch, n) ==
    CASE b = "directory" -> DirectoryTuple(kind, n)
      [] b = "h1" -> H1Tuple(kind, prefetch, n)
      [] b = "frozen" -> FrozenTuple(kind, prefetch, n)

\* Elements from..n remain: all of them in a _0 when that fits, else as many as
\* fit in a _1 on this page, else on to the next page.
RECURSIVE WriteBlock(_, _, _, _, _, _)
WriteBlock(tape, b, prefetch, from, n, data) ==
    IF tape = Broken THEN Broken
    ELSE LET f == freespace(Last(tape))
             w == fit_1(b, prefetch, f)
             take == IF w < n - from THEN w ELSE n - from
             Part(kind, to) == [t |-> BlockTuple(b, kind, prefetch, to - from),
                                from |-> from, to |-> to, data |-> data]
         IN  IF estimate_size_0(b, prefetch, n - from) <= f THEN tape_put(tape, Part(0, n))
             ELSE IF w >= 0
                  THEN WriteBlock(tape_put(tape, Part(1, from + take)), b, prefetch, from + take, n, data)
                  ELSE WriteBlock(tape_move(tape), b, prefetch, from, n, data)

Directory_push(tape, n) == WriteBlock(tape, "directory", 0, 0, n, <<>>)

\* The page ids of 32 branches, one branch after the other, as arrays of 32; a
\* short block is filled up with u32::MAX.
MAX32 == -1
fix_good(slices) ==
    LET k == Len(slices[1])
    IN  [i \in 1..(32 * k) |-> slices[(i - 1) \div k + 1][((i - 1) % k) + 1]]
fix_bad(slices) ==
    fix_good([i \in 1..32 |->
        IF i <= Len(slices) THEN slices[i] ELSE [j \in 1..Len(slices[1]) |-> MAX32]])

\* A branch is its code of n elements, its page ids and what it leads to.
H1_push(tape, prefetch, n, chunk) ==
    WriteBlock(tape, "h1", prefetch, 0, n,
               [prefetch |-> fix_good([i \in 1..32 |-> chunk[i].prefetch]),
                first |-> [i \in 1..32 |-> chunk[i].extra], len |-> 32])
H1_flush(tape, prefetch, n, chunk) ==
    IF chunk = <<>> THEN tape
    ELSE WriteBlock(tape, "h1", prefetch, 0, n,
                    [prefetch |-> fix_bad([i \in 1..Len(chunk) |-> chunk[i].prefetch]),
                     first |-> [i \in 1..32 |-> IF i <= Len(chunk) THEN chunk[i].extra ELSE 0],
                     len |-> Len(chunk)])
Frozen_push(tape, prefetch, n, chunk) ==
    WriteBlock(tape, "frozen", prefetch, 0, n,
               [prefetch |-> fix_good([i \in 1..32 |-> chunk[i].prefetch]),
                first |-> [i \in 1..32 |-> chunk[i].extra], len |-> 32])

\* Reading a tape: _1 adds elements to the block under way, _0 completes it and
\* hands out its branches with their own page ids.
Branches(x) ==
    LET step == Len(x.data.prefetch) \div 32
    IN  [j \in 1..x.data.len |->
            [prefetch |-> SubSeq(x.data.prefetch, (j - 1) * step + 1, j * step),
             extra |-> x.data.first[j]]]
DeserializeBlock(b, t) ==
    CASE b = "directory" -> DirectoryTuple_deserialize_ref(t)
      [] b = "h1" -> H1Tuple_deserialize_ref(t)
      [] b = "frozen" -> FrozenTuple_deserialize_ref(t)
RECURSIVE ReadItems(_, _, _, _)
ReadItems(b, items, got, out) ==
    IF items = <<>> THEN out
    ELSE LET x == Head(items)
         IN  IF ~ReadBack(x.t, DeserializeBlock(b, x.t)) \/ x.from # got THEN <<-1>>
             ELSE IF x.t.tag # 0 THEN ReadItems(b, Tail(items), x.to, out)
             ELSE ReadItems(b, Tail(items), 0,
                      Append(out, <<x.to, IF b = "directory" THEN <<>> ELSE Branches(x)>>))
ReadTape(tape, b) == ReadItems(b, FlattenSeq([i \in 1..Len(tape) |-> tape[i].items]), 0, <<>>)

----------------------------------------------------------------------------
\* vchordg keeps room for m neighbours in the last piece of a vector.
G_split(v, dim, m) ==
    LET n == Elements(v, dim)
        tailing == next_multiple_of(G!OptionNeighbour * m, 8)
        room == (8000 - tailing) \div ElementSize(v)
    IN  IF n <= room THEN [left |-> <<>>, right |-> n]
        ELSE [left |-> chunks(n - room, 8000 \div ElementSize(v)), right |-> room]

\* The tuples of one vertex: its code of bits planes of 64-bit words, pointers
\* to all pieces of its vector, and the pieces.
G_tuples(v, dim, bits, m) ==
    LET s == G_split(v, dim, m)
        k == Len(s.left)
    IN  <<G!VertexTuple(bits * div_ceil(dim, 64), k + 1)>>
        \o [i \in 1..k |-> G!VectorTuple(1, ElementSize(v), 0, s.left[i], 0)]
        \o <<G!VectorTuple(0, ElementSize(v), MetadataSize(v), s.right, m)>>
=============================================================================
