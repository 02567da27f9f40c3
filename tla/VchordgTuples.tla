--------------------------- MODULE VchordgTuples ---------------------------
(* The tuples of vchordg; the conventions are those of VectorPages.         *)
EXTENDS TupleLayout

MAGIC == "vchordg"

\* A pointer is 8 bytes, present or not; a neighbour adds its distance.
Pointer == <<W32, W16, Pad(2)>>
OptionPointer == <<W32, W16, Pad(1), W8>>
OptionNeighbour == 8 + 4

MetaTupleHeader == <<W64, W32, W8, Pad(7), W32, W16, W16, W32, W32, W32, W16, Pad(1), W8, W32>>
MetaTuple(alpha) == serialize(MAGIC, Tag + SizeOf(MetaTupleHeader), <<Section("alpha", 4, alpha)>>)
MetaTuple_deserialize_ref(t) == Reads(t, Tag, MetaTupleHeader, <<"alpha">>)
MetaTuple_deserialize_mut(t) == Takes(t, Tag, MetaTupleHeader, <<>>)

VertexTupleHeader == <<Field(4, 3), W16, W16, W64, W16, W16, Pad(4)>>
VertexTuple(elements, pointers) ==
    serialize(0, SizeOf(VertexTupleHeader),
              <<Section("elements", 8, elements), Section("pointers", 8, pointers)>>)
VertexTuple_deserialize_ref(t) == Reads(t, 0, VertexTupleHeader, <<"elements", "pointers">>)
VertexTuple_deserialize_mut(t) == Takes(t, 0, VertexTupleHeader, <<"elements", "pointers">>)

\* _0 is the last piece of a vector and holds the neighbours; _1 reserves the
\* larger header of _0 and fills the smaller one.
VectorTupleHeader0 == <<W64, W16, W16, W16, W16, W16, Pad(2), W32>>
VectorTupleHeader1 == <<W64, W16, W16, W32>>
VectorTuple(kind, element, meta, elements, neighbours) ==
    IF kind = 0
    THEN serialize(0, Tag + SizeOf(VectorTupleHeader0),
                   <<Section("elements", element, elements), Section("metadata", 1, meta),
                     Section("neighbours", OptionNeighbour, neighbours)>>)
    ELSE serialize(1, Tag + SizeOf(VectorTupleHeader0), <<Section("elements", element, elements)>>)
VectorTuple_deserialize_ref(t) ==
    IF t.tag = 0 THEN Reads(t, Tag, VectorTupleHeader0, <<"elements", "metadata", "neighbours">>)
    ELSE Reads(t, Tag, VectorTupleHeader1, <<"elements">>)
VectorTuple_deserialize_mut(t) ==
    IF t.tag = 0 THEN Takes(t, Tag, VectorTupleHeader0, <<"elements", "metadata", "neighbours">>)
    ELSE Takes(t, Tag, VectorTupleHeader1, <<"elements">>)
=============================================================================
