---------------------------- MODULE TupleLayout ----------------------------
(* Bytes of the tuples an index keeps on its pages.  A tuple is a tag, a C  *)
(* struct whose u16 fields say where the sections lie, and the sections,    *)
(* each padded to 8 bytes.  What a section holds is not modelled: a reader  *)
(* gets back what was written when it is handed the same bytes.             *)
EXTENDS Integers, Sequences

ALIGN == 8
Tag == 8
u16(n) == n % 65536
next_multiple_of(n, k) == ((n + k - 1) \div k) * k

\* A field of a struct: the width of its type and how many of them.
Field(width, count) == <<width, count>>
W8 == Field(1, 1)
W16 == Field(2, 1)
W32 == Field(4, 1)
W64 == Field(8, 1)
Pad(n) == Field(1, n)

\* Where field i of a struct ends: C order, every field at its own alignment.
EndOf(fields) ==
    LET end[i \in 0..Len(fields)] ==
            IF i = 0 THEN 0
            ELSE next_multiple_of(end[i - 1], fields[i][1]) + fields[i][1] * fields[i][2]
    IN  end
\* All headers are repr(C, align(8)).
SizeOf(fields) == next_multiple_of(EndOf(fields)[Len(fields)], ALIGN)
OffsetOf(fields, i) == EndOf(fields)[i] - fields[i][1] * fields[i][2]

Section(name, width, count) == [name |-> name, width |-> width, count |-> count]

\* The buffer grows section by section; each start and end is cast to u16 as it
\* is noted for the header, and zeros fill up to the alignment.
serialize(tag, prefix, sections) ==
    LET end[i \in 0..Len(sections)] ==
            IF i = 0 THEN prefix
            ELSE next_multiple_of(end[i - 1] + sections[i].width * sections[i].count, ALIGN)
        Of(name) == CHOOSE i \in 1..Len(sections) : sections[i].name = name
        names == {sections[i].name : i \in 1..Len(sections)}
        Bytes(name) == sections[Of(name)].width * sections[Of(name)].count
    IN  [tag |-> tag,
         len |-> end[Len(sections)],
         s |-> [n \in names |-> u16(end[Of(n) - 1])],
         e |-> [n \in names |-> u16(end[Of(n) - 1] + Bytes(n))],
         width |-> [n \in names |-> sections[Of(n)].width],
         written |-> [n \in names |-> <<end[Of(n) - 1], end[Of(n) - 1] + Bytes(n)>>]]

----------------------------------------------------------------------------
\* RefChecker: a slice must lie inside the tuple and hold whole elements.
RefChecker(t, s, e, width) == s <= e /\ e <= t.len /\ (e - s) % width = 0

\* What a reader hands out for the header at start and the named sections, or
\* Panic; nothing else can be reached through it.
Panic == [panic |-> <<0, 0>>]
Reads(t, start, header, names) ==
    IF /\ RefChecker(t, start, start + SizeOf(header), 1)
       /\ \A i \in 1..Len(names) : RefChecker(t, t.s[names[i]], t.e[names[i]], t.width[names[i]])
    THEN [n \in {names[i] : i \in 1..Len(names)} |-> <<t.s[n], t.e[n]>>]
    ELSE Panic

\* MutChecker: as above, and no slice may start before the end of the last one
\* that was handed out, for they are all mutable at once.
Takes(t, start, header, names) ==
    LET from[i \in 1..Len(names)] == t.s[names[i]]
        flag[i \in 0..Len(names)] == IF i = 0 THEN start + SizeOf(header) ELSE t.e[names[i]]
    IN  IF \A i \in 1..Len(names) : flag[i - 1] <= from[i]
        THEN Reads(t, start, header, names)
        ELSE Panic

\* The reader got the sections it names as they were written.
ReadBack(t, read) == read # Panic /\ \A n \in DOMAIN read : read[n] = t.written[n]
=============================================================================
