------------------------------ MODULE Scanners ------------------------------
(* src/index/vchordrq/scanners/default.rs and                                *)
(* src/index/vchordg/scanners/default.rs: what an index scan returns for the *)
(* ORDER BY vectors and the spheres of a query.  A row is [id, at, gap, gone,*)
(* visible, passes]: its place on a line, how far its bound is below its     *)
(* distance, whether its vector left the index, whether the heap shows it,   *)
(* and whether it passes the other conditions of the query.                  *)
EXTENDS Integers, Sequences, FiniteSets, SequencesExt, Folds, TLC

CONSTANTS HeapShare, FirstChunk, WINDOW_SIZE

Rq == INSTANCE VchordrqSearch
Gr == INSTANCE VchordgSearch

----------------------------------------------------------------------------
(* crates/index/src/prefetcher.rs and the read stream of                     *)
(* src/index/storage.rs: three ways to walk a sequence of items and hand out *)
(* the pages each one fetches.  An item is [id, pages].  The plain way reads *)
(* a page when it is asked for; the simple one asks for the pages of a       *)
(* window of items beforehand; the stream passes page numbers to PostgreSQL, *)
(* which calls back for as many as it wants to read ahead and hands out its  *)
(* buffers in that order, whatever item they are for.                        *)


Nobody == [id |-> 0, pages |-> <<>>]
Start(items) == [iter |-> items, window |-> <<>>, tail |-> <<>>, ahead |-> <<>>]

----------------------------------------------------------------------------
\* The answer of next_if: an item, or nobody, and what is left.
Answer(item, p) == [item |-> item, p |-> p]

PlainPrefetcher_next_if(p, accepts) ==
    IF p.iter = <<>> \/ ~accepts THEN Answer(Nobody, p)
    ELSE Answer(Head(p.iter), [p EXCEPT !.iter = Tail(@)])

\* The window is filled before the predicate is asked.
Filled(p) ==
    LET k == IF WINDOW_SIZE - Len(p.window) < Len(p.iter) THEN WINDOW_SIZE - Len(p.window)
             ELSE Len(p.iter)
    IN  [p EXCEPT !.window = @ \o SubSeq(p.iter, 1, k), !.iter = SubSeq(@, k + 1, Len(@))]
SimplePrefetcher_next_if(p, accepts) ==
    LET f == Filled(p)
    IN  IF f.window = <<>> \/ ~accepts THEN Answer(Nobody, f)
        ELSE Answer(Head(f.window), [f EXCEPT !.window = Tail(@)])

----------------------------------------------------------------------------
(* Cache: items leave by the window, page numbers by the tail; either side   *)
(* pulls an item from the iterator when it has none.                         *)
Pull(p) ==
    [p EXCEPT !.iter = Tail(@), !.window = Append(@, Head(p.iter)), !.tail = @ \o Head(p.iter).pages]

RECURSIVE pop_id(_)
pop_id(p) ==
    IF p.tail # <<>> THEN [id |-> <<Head(p.tail)>>, p |-> [p EXCEPT !.tail = Tail(@)]]
    ELSE IF p.iter = <<>> THEN [id |-> <<>>, p |-> p]
    ELSE pop_id(Pull(p))

pop_item_if(p, accepts) ==
    LET f == IF p.window = <<>> /\ p.iter # <<>> THEN Pull(p) ELSE p
    IN  IF f.window = <<>> \/ ~accepts THEN Answer(Nobody, f)
        ELSE Answer(Head(f.window), [f EXCEPT !.window = Tail(@)])

\* PostgreSQL (external): reads until n pages are ahead or there are no more.
RECURSIVE ReadAhead(_, _)
ReadAhead(p, n) ==
    LET popped == pop_id(p)
    IN  IF Len(p.ahead) >= n \/ popped.id = <<>> THEN p
        ELSE ReadAhead([popped.p EXCEPT !.ahead = Append(@, popped.id[1])], n)

\* The guards of an item of len pages: the next buffers of the stream, with
\* depth pages read ahead of each.
RECURSIVE StreamGuards(_, _, _, _)
StreamGuards(p, len, depth, out) ==
    IF len = 0 THEN [pages |-> out, p |-> p]
    ELSE LET r == ReadAhead(p, depth)
         IN  StreamGuards([r EXCEPT !.ahead = Tail(@)], len - 1, depth, Append(out, Head(r.ahead)))

\* into_iter: the items not yielded, those in the window first.
into_iter(p) == p.window \o p.iter

----------------------------------------------------------------------------
\* A caller: for each entry of accepts one next_if; every item's guards are
\* read to the end.  The answer lists the items with the pages they were given.
RECURSIVE Walked(_, _, _, _, _)
Walked(kind, p, accepts, depth, out) ==
    IF accepts = <<>> THEN [out |-> out, rest |-> into_iter(p)]
    ELSE LET a == CASE kind = "plain" -> PlainPrefetcher_next_if(p, Head(accepts))
                    [] kind = "simple" -> SimplePrefetcher_next_if(p, Head(accepts))
                    [] kind = "stream" -> pop_item_if(p, Head(accepts))
             g == IF kind = "stream" THEN StreamGuards(a.p, Len(a.item.pages), depth, <<>>)
                  ELSE [pages |-> a.item.pages, p |-> a.p]
         IN  Walked(kind, g.p, Tail(accepts), depth,
                    IF a.item = Nobody THEN out
                    ELSE Append(out, [id |-> a.item.id, pages |-> g.pages]))

----------------------------------------------------------------------------
(* The query: an optional value is a sequence of at most one.                *)
Refused == [refused |-> TRUE, vector |-> <<>>, threshold |-> <<>>, recheck |-> FALSE]

\* An ORDER BY vector is searched for and the spheres are left to PostgreSQL to
\* check again; without one the first sphere is, within its radius.
Chosen(orderbys, spheres) ==
    LET vectors == FlattenSeq(orderbys)
        balls == FlattenSeq(spheres)
    IN  IF Len(vectors) > 1 THEN Refused
        ELSE [refused |-> FALSE,
              vector |-> IF vectors # <<>> THEN vectors
                         ELSE [i \in 1..(IF balls = <<>> THEN 0 ELSE 1) |-> balls[1].center],
              threshold |-> [i \in 1..(IF vectors = <<>> /\ balls # <<>> THEN 1 ELSE 0) |->
                                balls[1].radius],
              recheck |-> balls # <<>> /\ Len(vectors) + Len(balls) > 1]
rq_chosen(orderbys, spheres) == Chosen(orderbys, spheres)
graph_chosen(orderbys, spheres) == Chosen(orderbys, spheres)

----------------------------------------------------------------------------
(* Distances.  Lists hold codes of projected vectors, and a graph projected  *)
(* vectors; rabitq8 and rabitq4 values are given and stored projected.  A    *)
(* query in the other space is just another point.                           *)
Query(op, at, projected) == [op |-> op, at |-> at, projected |-> projected]
Project(q) == [q EXCEPT !.projected = TRUE]
Seen(q, projected) == IF q.projected = projected THEN q ELSE [q EXCEPT !.at = 9]
Stored(kind) == kind \in {"rabitq8", "rabitq4"}
Root(d) == CHOOSE r \in 0..d : r * r <= d /\ (r + 1) * (r + 1) > d

Dist(row, q, projected) == Gr!QueryDistance(Seen(q, projected), row.at)
Bound(row, q) == Dist(row, q, TRUE) - row.gap

\* opclass.rs: the value of the SQL operator; cosine distances of the graph are
\* squared distances of unit vectors, those of the lists negated products.
rq_output(family, d) ==
    CASE family = "l2" -> Root(d) [] family = "ip" -> d [] family = "cosine" -> d + 1
graph_output(family, d) ==
    CASE family = "l2" -> Root(d) [] family = "ip" -> d [] family = "cosine" -> d \div 2

----------------------------------------------------------------------------
(* vchordrq.  Frozen pages are handed out by the prefetcher of io_search,    *)
(* which the plain one reads by the chain and the others by the directory.   *)
ListPages(index, state, io) ==
    LET items == [i \in DOMAIN state |-> [id |-> i, pages |-> index.frozen[state[i].node]]]
    IN  Walked(io, Start(items), [i \in DOMAIN state |-> TRUE], 2, <<>>).out
Joined(index, state, walked) ==
    FoldLeft(LAMBDA rows, i : rows \o walked[i].pages \o index.appendable[state[i].node],
             <<>>, [i \in DOMAIN state |-> i])
Searched(index, state, io) == Rq!Collected(Joined(index, state, ListPages(index, state, io)))

Filtered(row) == row.visible /\ row.passes
\* What reading a row for its distance gives: rerank_index reads the vector of
\* the index, rerank_heap that of the table, if the table shows it.
RerankRead(row, q, o) ==
    [exact |-> IF IF o.method = "index" THEN row.gone
                  ELSE ~row.visible \/ (o.prefilter /\ ~row.passes)
               THEN Rq!Missing ELSE Dist(row, q, Stored(o.kind))] @@ row
Ahead(io) == CASE io = "plain" -> 1 [] io = "simple" -> WINDOW_SIZE [] io = "stream" -> 2
Reranker(rows, q, o) ==
    [Rq!Reranker_new([i \in DOMAIN rows |-> RerankRead(rows[i], q, o)]) EXCEPT
        !.ahead = IF o.method = "index" THEN Ahead(o.io_rerank) ELSE 1,
        !.skip = IF o.method = "index" /\ o.prefilter
                 THEN {rows[i].id : i \in {i \in DOMAIN rows : ~Filtered(rows[i])}} ELSE {}]
Bounded(rows, q) == [i \in DOMAIN rows |-> [lower |-> Bound(rows[i], q)] @@ rows[i]]
Taken(found, projected, unprojected, o) ==
    Rq!Take(Reranker(Bounded(found, projected), unprojected, o), Len(found) + 1, <<>>).out
Scan(index, projected, unprojected, o) ==
    Taken(Searched(index, Rq!Descend(index, o.probes, FALSE).state, o.io_search),
          projected, unprojected, o)

rq_vecf32_l2s(index, v, o) == Scan(index, Project(v), v, o)
rq_vecf32_dot(index, v, o) == Scan(index, Project(v), v, o)
rq_vecf16_l2s(index, v, o) == Scan(index, Project(v), v, o)
rq_vecf16_dot(index, v, o) == Scan(index, Project(v), v, o)
rq_rabitq8_l2s(index, v, o) == Scan(index, v, v, o)
rq_rabitq8_dot(index, v, o) == Scan(index, v, v, o)
rq_rabitq4_l2s(index, v, o) == Scan(index, v, v, o)
rq_rabitq4_dot(index, v, o) == Scan(index, v, v, o)

Arm(index, v, o) ==
    CASE v.op = "l2s" /\ o.kind = "vecf32" -> rq_vecf32_l2s(index, v, o)
      [] v.op = "dot" /\ o.kind = "vecf32" -> rq_vecf32_dot(index, v, o)
      [] v.op = "l2s" /\ o.kind = "vecf16" -> rq_vecf16_l2s(index, v, o)
      [] v.op = "dot" /\ o.kind = "vecf16" -> rq_vecf16_dot(index, v, o)
      [] v.op = "l2s" /\ o.kind = "rabitq8" -> rq_rabitq8_l2s(index, v, o)
      [] v.op = "dot" /\ o.kind = "rabitq8" -> rq_rabitq8_dot(index, v, o)
      [] v.op = "l2s" /\ o.kind = "rabitq4" -> rq_rabitq4_l2s(index, v, o)
      [] v.op = "dot" /\ o.kind = "rabitq4" -> rq_rabitq4_dot(index, v, o)

TakeWhile(s, T) ==
    LET stops == {i \in DOMAIN s : i \notin T}
    IN  IF stops = {} THEN s ELSE SubSeq(s, 1, (CHOOSE i \in stops : \A j \in stops : i <= j) - 1)
Limited(s, max) == IF max = <<>> \/ Len(s) <= max[1] THEN s ELSE SubSeq(s, 1, max[1])

\* The threshold is compared with the value of the operator.
Within(out, threshold) == {i \in DOMAIN out : threshold = <<>> \/ out[i].distance < threshold[1]}
Output(s, family) ==
    [i \in DOMAIN s |-> [id |-> s[i].id, distance |-> rq_output(family, s[i].exact)]]
\* Mutant: the radius of a sphere does not end the scan.
ReturnedBeyond(out, c, o) ==
    [rows |-> Limited(out, o.max_scan_tuples), recheck |-> c.recheck]
rq_returned(out, c, o) ==
    [rows |-> Limited(TakeWhile(out, Within(out, c.threshold)), o.max_scan_tuples),
     recheck |-> c.recheck]
Nothing == [rows |-> <<>>, recheck |-> FALSE]
rq_answer(index, family, c, o) ==
    IF c.refused \/ c.vector = <<>> THEN Nothing
    ELSE rq_returned(Output(Arm(index, c.vector[1], o), family), c, o)
rq_scan(index, family, orderbys, spheres, o) ==
    rq_answer(index, family, rq_chosen(orderbys, spheres), o)

----------------------------------------------------------------------------
(* vchordg.  The setting io_rerank chooses the prefetcher of the vertices    *)
(* and io_search that of the vectors; either hands out what it is asked for. *)
Vertices(g, io) ==
    [g EXCEPT !.outs = [v \in DOMAIN g.outs |->
        LET items == [i \in DOMAIN g.outs[v] |-> [id |-> i, pages |-> <<g.outs[v][i]>>]]
            walked == Walked(io, Start(items), [i \in DOMAIN items |-> TRUE], 2, <<>>).out
        IN  [i \in DOMAIN items |-> walked[i].pages[1]]]]
GraphScan(g, projected, o) ==
    Gr!search(Vertices(g, o.io_rerank), Seen(projected, TRUE), o.ef_search, o.beam_search)

graph_vecf32_l2s_scan(g, v, o) == GraphScan(g, Project(v), o)
graph_vecf32_dot_scan(g, v, o) == GraphScan(g, Project(v), o)
graph_vecf16_l2s_scan(g, v, o) == GraphScan(g, Project(v), o)
graph_vecf16_dot_scan(g, v, o) == GraphScan(g, Project(v), o)
graph_rabitq8_l2s_scan(g, v, o) == GraphScan(g, v, o)
graph_rabitq8_dot_scan(g, v, o) == GraphScan(g, v, o)
graph_rabitq4_l2s_scan(g, v, o) == GraphScan(g, v, o)
graph_rabitq4_dot_scan(g, v, o) == GraphScan(g, v, o)

GraphArm(g, v, o) ==
    CASE v.op = "l2s" /\ o.kind = "vecf32" -> graph_vecf32_l2s_scan(g, v, o)
      [] v.op = "dot" /\ o.kind = "vecf32" -> graph_vecf32_dot_scan(g, v, o)
      [] v.op = "l2s" /\ o.kind = "vecf16" -> graph_vecf16_l2s_scan(g, v, o)
      [] v.op = "dot" /\ o.kind = "vecf16" -> graph_vecf16_dot_scan(g, v, o)
      [] v.op = "l2s" /\ o.kind = "rabitq8" -> graph_rabitq8_l2s_scan(g, v, o)
      [] v.op = "dot" /\ o.kind = "rabitq8" -> graph_rabitq8_dot_scan(g, v, o)
      [] v.op = "l2s" /\ o.kind = "rabitq4" -> graph_rabitq4_l2s_scan(g, v, o)
      [] v.op = "dot" /\ o.kind = "rabitq4" -> graph_rabitq4_dot_scan(g, v, o)

\* The threshold is compared with the distance inside the index, and only what
\* is returned becomes a value of the operator.
Inside(s, g, v) ==
    [i \in DOMAIN s |-> [id |-> g.payload[s[i]], distance |-> Gr!QueryDistance(v, g.vec[s[i]])]]
graph_shown(kept, family, c) ==
    [rows |-> [i \in DOMAIN kept |-> [id |-> kept[i].id,
                                      distance |-> graph_output(family, kept[i].distance)]],
     recheck |-> c.recheck]
graph_returned(s, family, g, v, c, o) ==
    graph_shown(Limited(TakeWhile(Inside(s, g, v), Within(Inside(s, g, v), c.threshold)),
                        o.max_scan_tuples), family, c)
graph_answer(g, family, c, o) ==
    IF c.refused \/ c.vector = <<>> THEN Nothing
    ELSE graph_returned(GraphArm(g, c.vector[1], o), family, g, c.vector[1], c, o)
graph_scan(g, family, orderbys, spheres, o) ==
    graph_answer(g, family, graph_chosen(orderbys, spheres), o)

----------------------------------------------------------------------------
(* src/index/vchordrq/scanners/maxsim.rs with maxsim/candidate.rs and        *)
(* maxsim/rerank.rs: the scan of a query of several vectors over pages (rows *)
(* of the table) of several vectors each.  Every vector of a page is a row   *)
(* of the index, as above, with its page and its rough distance.             *)

(* One search per vector of the query.                                       *)
Hit(distance, row) == [distance |-> distance, page |-> row.page]
Accurate(rows) == [i \in DOMAIN rows |-> Hit(rows[i].exact, rows[i])]
Rough(rows) == [i \in DOMAIN rows |-> Hit(rows[i].rough, rows[i])]

\* The first vectors of the reranker, those it has read ahead of its answers,
\* and all others with their rough distance, filtered out or not.
Refined(taken, left, estimation) ==
    [accurate |-> Accurate(taken.out \o left.accurate), rough |-> Rough(left.rough),
     estimation |-> estimation]
Refine(rows, unprojected, o, estimation) ==
    IF o.refine = 0 \/ rows = <<>>
    THEN [accurate |-> <<>>, rough |-> Rough(rows), estimation |-> estimation]
    ELSE LET taken == Rq!Take(Reranker(rows, unprojected, o), o.refine, <<>>)
         IN  Refined(taken, Rq!finish(taken.r), estimation)
WithRough(rows) == [i \in DOMAIN rows |-> [rough |-> rows[i].lower + rows[i].err] @@ rows[i]]
TokenSearch(index, projected, unprojected, o) ==
    Refine(WithRough(Bounded(
               Searched(index, Rq!Descend(index, o.probes, o.threshold # 0).state, o.io_search),
               projected)),
           unprojected, o, Rq!maxsim_search(index, o.probes, o.threshold).estimation)

maxsim_vecf32(index, v, o) == TokenSearch(index, Project(v), v, o)
maxsim_vecf16(index, v, o) == TokenSearch(index, Project(v), v, o)
maxsim_rabitq8(index, v, o) == TokenSearch(index, v, v, o)
maxsim_rabitq4(index, v, o) == TokenSearch(index, v, v, o)
TokenArm(index, v, o) ==
    CASE o.kind = "vecf32" -> maxsim_vecf32(index, v, o)
      [] o.kind = "vecf16" -> maxsim_vecf16(index, v, o)
      [] o.kind = "rabitq8" -> maxsim_rabitq8(index, v, o)
      [] o.kind = "rabitq4" -> maxsim_rabitq4(index, v, o)

----------------------------------------------------------------------------
(* candidate.rs: one array holds the best distance of every page and vector  *)
(* of the query, the slots of a page side by side.                           *)
record_page_token_distance(st, query_count, query_id, hit) ==
    LET known == hit.page \in ToSet(st.keys)
        page == IF known THEN CHOOSE i \in DOMAIN st.keys : st.keys[i] = hit.page
                ELSE Len(st.keys) + 1
        best == IF known THEN st.best ELSE st.best \o [k \in 1..query_count |-> <<>>]
        slot == (page - 1) * query_count + query_id
    IN  [keys |-> IF known THEN st.keys ELSE Append(st.keys, hit.page),
         best |-> [best EXCEPT ![slot] =
                      IF @ = <<>> \/ hit.distance < @[1] THEN <<hit.distance>> ELSE @]]

Larger(a, b) == IF a < b THEN b ELSE a
\* What a page without a hit is given: nothing nearer than the farthest vector
\* that was measured, or than the list where the threshold was reached.
EstimationOf(search) ==
    IF search.accurate = <<>> /\ search.rough = <<>> THEN 0
    ELSE FoldLeft(LAMBDA e, hit : Larger(e, hit.distance), search.estimation, search.accurate)

Recorded(st, searches, i) ==
    FoldLeft(LAMBDA s, hit : record_page_token_distance(s, Len(searches), i, hit),
             st, searches[i].accurate \o searches[i].rough)
PageDistance(st, searches, p) ==
    FoldLeft(LAMBDA sum, i : LET best == st.best[(p - 1) * Len(searches) + i]
                             IN  sum + IF best = <<>> THEN EstimationOf(searches[i]) ELSE best[1],
             0, [i \in DOMAIN searches |-> i])
Aggregated(st, searches) ==
    [p \in DOMAIN st.keys |-> [page |-> st.keys[p], distance |-> PageDistance(st, searches, p)]]
generate(searches) ==
    Aggregated(FoldLeft(LAMBDA st, i : Recorded(st, searches, i),
                        [keys |-> <<>>, best |-> <<>>], [i \in DOMAIN searches |-> i]), searches)

ByDistance(a, b) == a.distance < b.distance \/ (a.distance = b.distance /\ a.page < b.page)
\* The nearest candidates, at most `limit` of them if there is one; which of
\* several at the same distance the heap pops first is of no account.
PageCandidates_next(candidates, limit) == Limited(SortSeq(candidates, ByDistance), limit)

----------------------------------------------------------------------------
(* rerank.rs, over the table: page -> [visible, passes, vectors].            *)
HeapArrayTensorSource_fetch(table, page) ==
    IF table[page].visible /\ table[page].passes THEN <<table[page].vectors>> ELSE <<>>
Nearest(q, vectors) ==
    FoldLeft(LAMBDA best, at : IF -(q.at * at) < best THEN -(q.at * at) ELSE best,
             -(q.at * vectors[1]), vectors)
exact_maxsim_distance(query, vectors) ==
    FoldLeft(LAMBDA sum, q : sum + Nearest(q, vectors), 0, query)
CpuExact_rerank(query, candidates, table) ==
    FlattenSeq([i \in DOMAIN candidates |->
        LET tensor == HeapArrayTensorSource_fetch(table, candidates[i].page)
        IN  [k \in DOMAIN tensor |-> [page |-> candidates[i].page,
                                      distance |-> exact_maxsim_distance(query, tensor[k])]]])
\* By distance, and by page where distances are equal.
RerankResults_next(results) == SortSeq(results, ByDistance)

----------------------------------------------------------------------------
\* The index carries distances from a vector of the query: indexes[i] is the
\* index as seen from query[i].  An exact backend needs a candidate limit.
maxsim_refused(query, o) ==
    o.max_scan_tuples # <<>> \/ o.method # "index"
        \/ (o.backend # "coarse_only" /\ (o.limit = <<>> \/ o.limit[1] = 0))
maxsim_searches(indexes, query, o) == [i \in DOMAIN query |-> TokenArm(indexes[i], query[i], o)]
maxsim_answer(candidates, query, table, o) ==
    IF o.backend = "coarse_only" THEN candidates
    ELSE RerankResults_next(CpuExact_rerank(query, candidates, table))
maxsim_scan(indexes, query, table, o) ==
    IF maxsim_refused(query, o) \/ query = <<>> THEN <<>>
    ELSE maxsim_answer(PageCandidates_next(generate(maxsim_searches(indexes, query, o)), o.limit),
                       query, table, o)
=============================================================================
