-------------------------- MODULE VchordrqSearch --------------------------
(* crates/vchordrq: search.rs descends the levels of centroids and returns   *)
(* the rows of the chosen lists with lower bounds of their distances;        *)
(* rerank.rs yields them by exact distance, reading a row only when its      *)
(* bound says it may come first.  fast_heap.rs and linked_vec.rs are the     *)
(* containers underneath.  Distances are numbers given with the index; what  *)
(* reads them from pages is in VectorPages and Scanners.                     *)
EXTENDS Integers, Sequences, FiniteSets, SequencesExt, FiniteSetsExt, TLC

CONSTANTS HeapShare,    \* one element in so many is sorted at once; 384
          FirstChunk    \* capacity of a list's first chunk; 4096

Missing == -1           \* the distance of a row that is gone

----------------------------------------------------------------------------
(* linked_vec.rs                                                             *)
LinkedVec_new == [inner |-> <<>>, last |-> <<>>, capacity |-> FirstChunk]
LinkedVec_reserve(v) ==
    [inner |-> Append(v.inner, v.last), last |-> <<>>, capacity |-> 4 * v.capacity]
LinkedVec_push(v, x) ==
    LET w == IF Len(v.last) = v.capacity THEN LinkedVec_reserve(v) ELSE v
    IN  [w EXCEPT !.last = Append(@, x)]
LinkedVec_into_vec(v) ==
    LET upTo[i \in 0..Len(v.inner)] == IF i = 0 THEN v.last ELSE upTo[i - 1] \o v.inner[i]
    IN  upTo[Len(v.inner)]
Collected(s) ==
    LET upTo[i \in 0..Len(s)] == IF i = 0 THEN LinkedVec_new ELSE LinkedVec_push(upTo[i - 1], s[i])
    IN  LinkedVec_into_vec(upTo[Len(s)])

----------------------------------------------------------------------------
(* fast_heap.rs: the nearest t elements sorted, the others a heap once these *)
(* are gone.  inner ends with the nearest.                                   *)
Farther(a, b) == a.lower > b.lower
FastHeap_from_vec(vec) ==
    LET n == Len(vec)
        t == n \div HeapShare
        selected == SortSeq(vec, Farther)
    IN  IF t > 0
        THEN [sorted |-> TRUE, t |-> t,
              inner |-> Reverse(SubSeq(selected, 1, n - t)) \o SubSeq(selected, n - t + 1, n)]
        ELSE [sorted |-> FALSE, t |-> 0, inner |-> vec]

\* Where the next element of a heap is.
Top(h) ==
    IF h.sorted THEN Len(h.inner)
    ELSE CHOOSE i \in DOMAIN h.inner : \A j \in DOMAIN h.inner : ~Farther(h.inner[i], h.inner[j])
FastHeap_peek(h) == h.inner[Top(h)]
FastHeap_pop(h) ==
    LET rest == [h EXCEPT !.inner = RemoveAt(@, Top(h))]
    IN  IF ~h.sorted THEN rest
        ELSE IF h.t > 1 THEN [rest EXCEPT !.t = @ - 1]
        ELSE [rest EXCEPT !.sorted = FALSE, !.t = 0]

----------------------------------------------------------------------------
(* rerank.rs, and the closure step of search.rs, which is the same loop over *)
(* centroids.  A reranker takes its elements from a prefetcher that holds up *)
(* to ahead of them in its window; skip are the rows the filter of           *)
(* src/index/vchordrq/filter.rs refuses.  cache holds what has been read;    *)
(* equal distances leave it in any order.                                    *)
Reranker_new(vec) ==
    [heap |-> FastHeap_from_vec(vec), window |-> <<>>, ahead |-> 1, skip |-> {}, cache |-> <<>>]
Nearest(s) == CHOOSE i \in DOMAIN s : \A j \in DOMAIN s : s[i].exact <= s[j].exact

\* filter.rs: what is refused leaves the heap when the next one is looked for.
RECURSIVE Filter_peek(_, _)
Filter_peek(h, skip) ==
    IF h.inner = <<>> \/ FastHeap_peek(h).id \notin skip THEN h
    ELSE Filter_peek(FastHeap_pop(h), skip)

RECURSIVE Windowed(_, _)
Windowed(r, h) ==
    IF Len(r.window) >= r.ahead THEN r
    ELSE IF h.inner = <<>> THEN [r EXCEPT !.heap = h]
    ELSE Windowed([r EXCEPT !.heap = FastHeap_pop(h), !.window = Append(@, FastHeap_peek(h))],
                  Filter_peek(FastHeap_pop(h), r.skip))

\* Mutant: one vector that has been read is enough.
NextIfNone(r) == r.window # <<>> /\ r.cache = <<>>
next_if(r) ==
    /\ r.window # <<>>
    /\ \A i \in DOMAIN r.cache : Head(r.window).lower < r.cache[i].exact

RECURSIVE Read(_)
ReadOn(r) ==
    IF ~next_if(r) THEN r
    ELSE Read([r EXCEPT !.window = Tail(@),
                        !.cache = IF Head(r.window).exact = Missing THEN @
                                  ELSE Append(@, Head(r.window))])
Read(r) == ReadOn(Windowed(r, Filter_peek(r.heap, r.skip)))

\* The first k elements that next yields, and what is left.
RECURSIVE Take(_, _, _)
TakeOn(read, k, out) ==
    IF k = 0 \/ read.cache = <<>> THEN [out |-> out, r |-> read]
    ELSE Take([read EXCEPT !.cache = RemoveAt(@, Nearest(@))], k - 1,
              Append(out, read.cache[Nearest(read.cache)]))
Take(r, k, out) == TakeOn(IF k = 0 THEN r ELSE Read(r), k, out)

Reranked(vec) == Take(Reranker_new(vec), Len(vec) + 1, <<>>).out
\* What has not been read, and what has been read and not yielded.
finish(r) == [rough |-> r.window \o r.heap.inner, accurate |-> r.cache]

----------------------------------------------------------------------------
(* search.rs over an index [height_of_root, cells, is_residual, children,    *)
(* rows]: the children of a node and the rows of a list carry the bound and  *)
(* the distance from the query.                                              *)
Flat(index, state) ==
    LET upTo[i \in 0..Len(state)] ==
            IF i = 0 THEN <<>> ELSE upTo[i - 1] \o index.children[state[i].node]
    IN  upTo[Len(state)]
step(index, state) == Reranker_new(Collected(Flat(index, state)))
Partial(index, probes, i) == probes[i] < index.cells[index.height_of_root - i]

Usage == <<"usage">>
Descend(index, probes, sorts) ==
    LET upTo[i \in 0..(index.height_of_root - 1)] ==
            IF i = 0 THEN [state |-> <<index.root>>, it |-> <<>>]
            ELSE LET state == upTo[i - 1].state
                 IN  IF Partial(index, probes, i) \/ index.is_residual
                        \/ (sorts /\ i + 1 = index.height_of_root)
                     THEN LET taken == Take(step(index, state), probes[i], <<>>)
                          IN  [state |-> taken.out, it |-> <<taken.r>>]
                     ELSE [state |-> Collected(Flat(index, state)), it |-> upTo[i - 1].it]
    IN  upTo[index.height_of_root - 1]

\* The rows of a list: its frozen tape, then its appendable tape.
Rows(index, state) ==
    LET upTo[i \in 0..Len(state)] ==
            IF i = 0 THEN <<>>
            ELSE upTo[i - 1] \o index.frozen[state[i].node] \o index.appendable[state[i].node]
    IN  Collected(upTo[Len(state)])

default_search(index, probes) ==
    IF index.height_of_root # 1 + Len(probes) THEN Usage
    ELSE Rows(index, Descend(index, probes, FALSE).state)

SaturatingSub(x, y) == IF x > y THEN x - y ELSE 0
NegInfinity == -1000

\* After the rows of the probed lists, the further lists only count against
\* the threshold; the estimation is the distance of the one that reaches it.
RECURSIVE Estimation(_, _, _, _)
Estimation(index, threshold, r, last) ==
    LET one == Take(r, 1, <<>>)
    IN  IF one.out = <<>> \/ threshold = 0 THEN last
        ELSE Estimation(index, SaturatingSub(threshold, index.tuples[one.out[1].node]), one.r,
                        one.out[1].exact)

maxsim_search(index, probes, threshold) ==
    IF index.height_of_root # 1 + Len(probes) THEN [rows |-> Usage, estimation |-> NegInfinity]
    ELSE LET d == Descend(index, probes, threshold # 0)
             rest == LET upTo[i \in 0..Len(d.state)] ==
                             IF i = 0 THEN threshold
                             ELSE SaturatingSub(upTo[i - 1], index.tuples[d.state[i].node])
                     IN  upTo[Len(d.state)]
         IN  [rows |-> Rows(index, d.state),
              estimation |-> IF d.it = <<>> THEN NegInfinity
                             ELSE Estimation(index, rest, d.it[1], NegInfinity)]
=============================================================================
