---------------------------- MODULE SearchCalls ----------------------------
(* Calls of the searches of both index types, of the reranker and of the     *)
(* prefetchers, on enumerated small indexes.                                 *)
EXTENDS Integers, Sequences, FiniteSets, SequencesExt, FiniteSetsExt, Calls

CONSTANTS HeapShare, FirstChunk, WINDOW_SIZE

Rq == INSTANCE VchordrqSearch
Gr == INSTANCE VchordgSearch
Sc == INSTANCE Scanners

----------------------------------------------------------------------------
Exacts(rows) == [i \in DOMAIN rows |-> rows[i].exact]
Ids(rows) == {rows[i].id : i \in DOMAIN rows}
Ascending(S) == SortSeq(SetToSeq(S), LAMBDA a, b : a.exact < b.exact)

\* Rows with a lower bound of their distance, or gone.
BoundedRows(n) ==
    [1..n -> {r \in [lower : 0..2, exact : {Rq!Missing, 0, 1, 2}] :
                r.exact = Rq!Missing \/ r.lower <= r.exact}]

CallRerank ==
    call = Idle /\
    \E n \in 1..3 : \E given \in BoundedRows(n), k \in 0..n :
        LET rows == [i \in 1..n |-> [id |-> i, lower |-> given[i].lower, exact |-> given[i].exact]]
            there == {i \in 1..n : given[i].exact # Rq!Missing}
            some == Rq!Take(Rq!Reranker_new(Rq!Collected(rows)), k, <<>>)
            left == Rq!finish(some.r).rough \o Rq!finish(some.r).accurate
            all == Rq!Reranked(Rq!Collected(rows))
        IN  Returns([kind |-> "search", rows |-> rows, k |-> k],
                    {<<Exacts(all), Ids(all), Ids(some.out) \cap Ids(left),
                       there \subseteq Ids(some.out) \cup Ids(left)>>},
                    <<Exacts(Ascending({rows[i] : i \in there})), there, {}, TRUE>>)

----------------------------------------------------------------------------
\* An index with cells 1 to n under the root, or with two levels of them; row
\* number 10 * c + 1 is in the frozen tape of list c, 10 * c + 2 appended.
Node(c, d, gap) == [node |-> c, id |-> c, lower |-> IF d < gap THEN 0 ELSE d - gap, exact |-> d]
List(c, frozen) ==
    [i \in 1..(IF frozen THEN 1 ELSE c % 2) |-> [id |-> 10 * c + (IF frozen THEN 1 ELSE 2)]]
IndexOf(order, gaps, residual) ==
    [height_of_root |-> 2, cells |-> <<Len(order), 1>>, is_residual |-> residual,
     root |-> [node |-> 0, id |-> 0, lower |-> 0, exact |-> 0],
     children |-> [c \in 0..0 |-> [i \in DOMAIN order |-> Node(i, order[i], gaps[i])]],
     frozen |-> [c \in 1..Len(order) |-> List(c, TRUE)],
     appendable |-> [c \in 1..Len(order) |-> List(c, FALSE)],
     tuples |-> [c \in 1..Len(order) |-> 1 + (c % 2)]]
Orders(n) == {o \in [1..n -> 1..n] : \A i, j \in 1..n : i # j => o[i] # o[j]}

\* The cells by distance, and how many of them a search takes.
ByDistance(order) == SortSeq([i \in DOMAIN order |-> i], LAMBDA a, b : order[a] < order[b])
RowsOf(index, cells) ==
    UNION {Ids(index.frozen[c]) \cup Ids(index.appendable[c]) : c \in cells}
TuplesOf(index, cells) == FoldSet(LAMBDA c, s : s + index.tuples[c], 0, cells)

CallProbe ==
    call = Idle /\
    \E n \in 1..3 : \E order \in Orders(n), gaps \in [1..n -> 0..2], residual \in BOOLEAN,
                       probe \in 1..(n + 1), threshold \in 0..5 :
        LET index == IndexOf(order, gaps, residual)
            near == ByDistance(order)
            taken == {near[i] : i \in 1..(IF probe < n THEN probe ELSE n)}
            found == Rq!maxsim_search(index, <<probe>>, threshold)
            \* The nearest cells that together reach the threshold.
            reach == {i \in 1..n : TuplesOf(index, {near[j] : j \in 1..i}) >= threshold}
            upTo == IF reach = {} THEN n ELSE Min(reach)
            sorted == probe < n \/ residual \/ threshold # 0
        IN  Returns([kind |-> "search", order |-> order, gaps |-> gaps, residual |-> residual,
                     probe |-> probe, threshold |-> threshold],
                    {<<Ids(Rq!default_search(index, <<probe>>)), Ids(found.rows), found.estimation>>},
                    <<RowsOf(index, taken), RowsOf(index, taken),
                      IF sorted /\ upTo > Cardinality(taken) /\ threshold # 0
                      THEN order[near[upTo]] ELSE Rq!NegInfinity>>)

\* Two levels: the nearest inner cells, then the nearest of their lists only.
CallProbeTwice ==
    call = Idle /\
    \E order \in Orders(4), gap \in 0..2, p \in 1..2, q \in 1..4, flip \in BOOLEAN :
        LET base == IndexOf(order, <<gap, gap, gap, gap>>, FALSE)
            inner(i) == LET d == IF flip THEN 3 - i ELSE i IN Node(10 + i, d, gap)
            index == [base EXCEPT !.height_of_root = 3, !.cells = <<4, 2, 1>>,
                        !.children = [c \in {0, 11, 12} |->
                            CASE c = 0 -> <<inner(1), inner(2)>>
                              [] c = 11 -> <<Node(1, order[1], gap), Node(2, order[2], gap)>>
                              [] c = 12 -> <<Node(3, order[3], gap), Node(4, order[4], gap)>>]]
            first == IF flip THEN 2 ELSE 1
            under == {2 * first - 1, 2 * first} \cup (IF p = 2 THEN 1..4 ELSE {})
            k == IF q < Cardinality(under) THEN q ELSE Cardinality(under)
            taken == {c \in under : Cardinality({d \in under : order[d] < order[c]}) < k}
        IN  Returns([kind |-> "search", order |-> order, gap |-> gap, p |-> p, q |-> q, flip |-> flip],
                    {Ids(Rq!default_search(index, <<p, q>>))}, RowsOf(index, taken))

----------------------------------------------------------------------------
CallPrefetch ==
    call = Idle /\
    \E lens \in [1..3 -> 0..2], accepts \in [1..4 -> BOOLEAN], depth \in 1..3 :
        LET items == [i \in 1..3 |-> [id |-> i, pages |-> [k \in 1..lens[i] |-> 10 * i + k]]]
            k == Cardinality({i \in 1..4 : accepts[i]})
            yielded == IF k < 3 THEN k ELSE 3
        IN  Returns([kind |-> "search", lens |-> lens, accepts |-> accepts, depth |-> depth],
                    {Sc!Walked(kind, Sc!Start(items), accepts, depth, <<>>) :
                        kind \in {"plain", "simple", "stream"}},
                    [out |-> SubSeq(items, 1, yielded), rest |-> SubSeq(items, yielded + 1, 3)])

----------------------------------------------------------------------------
\* Graphs of three vertices at 0, 2 and 5, with any neighbours, some vectors
\* gone, one payload cleared and estimates in one of two orders.
V3 == {<<1, 1>>, <<1, 2>>, <<1, 3>>}
GraphOf(outs, gone, cleared, up) ==
    [start |-> <<1, 1>>, outs |-> [v \in V3 |-> SetToSeq(outs[v] \ {v})],
     vec |-> [v \in V3 |-> (<<0, 2, 5>>)[v[2]]],
     score |-> [v \in V3 |-> IF up THEN v[2] ELSE 4 - v[2]],
     payload |-> [v \in V3 |-> IF v = cleared THEN 0 ELSE v[2]],
     vertex |-> [v \in V3 |-> TRUE], vector |-> [v \in V3 |-> v \notin gone]]
Step(g, R) == R \cup UNION {ToSet(g.outs[u]) : u \in {u \in R : g.vector[u]}}
Returned(g) ==
    LET reached == Step(g, Step(g, {g.start}))
    IN  {u \in reached : g.vector[u] /\ g.payload[u] # 0}

CallGraph ==
    call = Idle /\
    \E outs \in [V3 -> SUBSET V3], gone \in {{}, {<<1, 2>>}}, cleared \in {<<1, 1>>, <<1, 3>>},
       up \in BOOLEAN, ef \in 1..3, beam \in 1..2 :
        LET g == GraphOf(outs, gone, cleared, up)
            found == Gr!search(g, [op |-> "l2s", at |-> 3], ef, beam)
            dis(u) == (g.vec[u] - 3) * (g.vec[u] - 3)
        IN  /\ \A v \in V3 : v \notin outs[v]
            /\ Returns([kind |-> "search", g |-> g, ef |-> ef, beam |-> beam],
                       {<<ToSet(found), Len(found),
                          ef = 3 => \A i \in 2..Len(found) : dis(found[i - 1]) <= dis(found[i])>>},
                       <<Returned(g), Cardinality(Returned(g)), TRUE>>)

NextSearch == CallGraph \/ CallRerank \/ CallProbe \/ CallProbeTwice \/ CallPrefetch

----------------------------------------------------------------------------
\* Searches return what the exact distances say although they read as few rows
\* as the bounds allow: a scan takes the nearest cells of each level and every
\* row of their lists; the reranker yields the rows that are there by distance,
\* each once, and what it has not yielded is left; the threshold of a MaxSim
\* search is met at the distance it reports; every prefetcher yields the same
\* items and gives each the pages it fetches.  A graph search yields every row
\* that is reachable and there exactly once, by distance if ef covers them all.
SearchesExact == Agrees({"search"})

----------------------------------------------------------------------------
(* Calls of the index scans of both index types, and of the MaxSim scan's    *)
(* choice of candidates, with the conditions PostgreSQL checks afterwards.   *)


----------------------------------------------------------------------------
(* Rows 1, 2, 3 at 0, 2, 4; row 1 is in the frozen tape of list 1, row 2     *)
(* appended to it, row 3 in the frozen tape of list 2.                       *)
RowOf(i, gap, defect) ==
    [id |-> i, at |-> 2 * i - 2, gap |-> IF i = 2 THEN 0 ELSE gap, gone |-> defect = <<i, "gone">>,
     visible |-> defect # <<i, "invisible">>, passes |-> defect # <<i, "fails">>]
Defects == {<<0, "none">>} \cup ((1..3) \X {"gone", "invisible", "fails"})
ScanIndex(rows) ==
    [height_of_root |-> 2, cells |-> <<2, 1>>, is_residual |-> FALSE,
     root |-> [node |-> 0, id |-> 0, lower |-> 0, exact |-> 0],
     children |-> [c \in 0..0 |-> [i \in 1..2 |-> [node |-> i, id |-> i, lower |-> 0, exact |-> i]]],
     frozen |-> <<<<rows[1]>>, <<rows[3]>>>>, appendable |-> <<<<rows[2]>>, <<>>>>,
     tuples |-> <<2, 1>>]

Ops == [l2 |-> "l2s", ip |-> "dot", cosine |-> "dot"]
GraphOps == [l2 |-> "l2s", ip |-> "dot", cosine |-> "l2s"]
PointAt(op, at, kind) == Sc!Query(op, at, Sc!Stored(kind))
Ball(op, at, radius, kind) == [center |-> PointAt(op, at, kind), radius |-> radius]

Kinds == {"vecf32", "vecf16", "rabitq8", "rabitq4"}
Families == {"l2", "ip", "cosine"}
Ios == {"plain", "simple", "stream"}

\* ORDER BY vectors with spheres; a NULL vector is passed over, a NULL sphere
\* alone finds nothing.
OrderBys(op, kind) ==
    <<<<<<PointAt(op, 0, kind)>>>>, <<<<PointAt(op, 2, kind)>>>>, <<>>, <<<<>>>>>>
Spheres(op, kind) ==
    <<<<>>, <<<<Ball(op, 0, 3, kind)>>>>, <<<<Ball(op, 2, 1, kind)>>, <<Ball(op, 0, 5, kind)>>>>,
      <<<<Ball(op, 2, -3, kind)>>>>>>
NQueries == 18
Queries(op, kind) ==
    [i \in 1..16 |-> <<OrderBys(op, kind)[1 + ((i - 1) % 4)], Spheres(op, kind)[1 + ((i - 1) \div 4)]>>]
        \o <<<<<<>>, <<<<>>>>>>, <<<<<<>>>>, <<<<>>>>>>>>
Plain(kind) ==
    [kind |-> kind, probes |-> <<2>>, method |-> "index", prefilter |-> FALSE, io_search |-> "plain",
     io_rerank |-> "plain", max_scan_tuples |-> <<>>, ef_search |-> 3, beam_search |-> 1]

\* PostgreSQL (external): the conditions are checked again if the scan says so.
Inside(value, spheres) ==
    \A i \in DOMAIN spheres : spheres[i] # <<>> /\ value[i] < spheres[i][1].radius
Executed(returned, values, spheres) ==
    SelectSeq(returned.rows, LAMBDA r : ~returned.recheck \/ Inside(values[r.id], spheres))
InOrder(rows) == \A i \in 2..Len(rows) : rows[i - 1].distance <= rows[i].distance
Asked(q) == FlattenSeq(q[1]) # <<>> \/ FlattenSeq(q[2]) # <<>>

\* Every query with every kind of vector, and one query with every way of
\* reading, on rows that are gone from the index, hidden or filtered out.
AskedScans ==
    {[family |-> family, q |-> q, gap |-> 4, defect |-> <<0, "none">>,
      o |-> [Plain(kind) EXCEPT !.max_scan_tuples = max]] :
        kind \in Kinds, family \in Families, q \in 1..NQueries, max \in {<<>>, <<1>>}}
ReadScans ==
    {[family |-> "l2", q |-> q, gap |-> gap, defect |-> defect,
      o |-> [Plain(kind) EXCEPT !.method = method, !.prefilter = prefilter,
                                !.io_search = search, !.io_rerank = rerank]] :
        kind \in {"vecf32", "rabitq8"}, defect \in Defects, gap \in {0, 4}, q \in {1, 2},
        method \in {"index", "heap"}, prefilter \in BOOLEAN, search \in Ios, rerank \in Ios}

ScanValues(rows, family, kind, spheres) ==
    [i \in 1..3 |-> [k \in DOMAIN spheres |->
        IF spheres[k] = <<>> THEN 0
        ELSE Sc!rq_output(family, Sc!Dist(rows[i], spheres[k][1].center, Sc!Stored(kind)))]]
Left(row, o) ==
    /\ IF o.method = "index" THEN ~row.gone ELSE row.visible
    /\ o.prefilter => Sc!Filtered(row)
Judged(answer, values, wanted, q, o) ==
    LET shown == Executed(answer, values, q[2])
    IN  <<{r.id : r \in ToSet(shown)} \subseteq wanted,
          o.max_scan_tuples = <<>> => Len(shown) = Cardinality(wanted), InOrder(answer.rows)>>
ScanJudged(rows, values, q, family, o) ==
    Judged(Sc!rq_scan(ScanIndex(rows), family, q[1], q[2], o), values,
           {i \in 1..3 : Asked(q) /\ Inside(values[i], q[2]) /\ Left(rows[i], o)}, q, o)
CallRowScan ==
    call = Idle /\
    \E c \in AskedScans \cup ReadScans :
        LET rows == [i \in 1..3 |-> RowOf(i, c.gap, c.defect)]
            q == Queries(Ops[c.family], c.o.kind)[c.q]
        IN  Returns([kind |-> "scan"] @@ c,
                    {ScanJudged(rows, ScanValues(rows, c.family, c.o.kind, q[2]), q, c.family, c.o)},
                    <<TRUE, TRUE, TRUE>>)

----------------------------------------------------------------------------
ScanGraph(up) ==
    LET V == {<<1, 1>>, <<1, 2>>, <<1, 3>>}
    IN  [start |-> <<1, 1>>,
         outs |-> [v \in V |-> IF v = <<1, 1>> THEN <<<<1, 2>>, <<1, 3>>>> ELSE <<<<1, 1>>>>],
         vec |-> [v \in V |-> 2 * v[2] - 2], score |-> [v \in V |-> IF up THEN v[2] ELSE 4 - v[2]],
         payload |-> [v \in V |-> v[2]], vertex |-> [v \in V |-> TRUE], vector |-> [v \in V |-> TRUE]]
GraphAnswer(family, kind, q, o, up) == Sc!graph_scan(ScanGraph(up), family, q[1], q[2], o)
GraphValues(family, q) ==
    [i \in 1..3 |-> [k \in DOMAIN q[2] |->
        IF q[2][k] = <<>> THEN 0
        ELSE Sc!graph_output(family, Sc!Gr!QueryDistance(q[2][k][1].center, 2 * i - 2))]]
GraphJudged(family, kind, q, o, up, values) ==
    Judged(GraphAnswer(family, kind, q, o, up), values,
           {i \in 1..3 : Asked(q) /\ Inside(values[i], q[2])}, q, o)

\* Spheres of the inner product alone, whose value is the distance of the index;
\* for the others see CallGraphSphere.
CallGraphScan ==
    call = Idle /\
    \E kind \in Kinds, family \in Families, n \in 1..NQueries, max \in {<<>>, <<1>>},
       up \in BOOLEAN, io \in Ios :
        LET o == [Plain(kind) EXCEPT !.max_scan_tuples = max, !.io_rerank = io]
            q == Queries(GraphOps[family], kind)[n]
        IN  /\ family = "ip" \/ FlattenSeq(q[1]) # <<>> \/ FlattenSeq(q[2]) = <<>>
            /\ Returns([kind |-> "scan", q |-> n, family |-> family, o |-> o, up |-> up],
                       {GraphJudged(family, kind, q, o, up, GraphValues(family, q))},
                       <<TRUE, TRUE, TRUE>>)

CallGraphSphere ==
    call = Idle /\
    \E family \in {"l2", "cosine"}, center \in {0, 2}, radius \in 1..5 :
        LET q == <<<<>>, <<<<Ball("l2s", center, radius, "vecf32")>>>>>>
        IN  Returns([kind |-> "sphere", q |-> q, family |-> family],
                    {GraphJudged(family, "vecf32", q, Plain("vecf32"), TRUE, GraphValues(family, q))},
                    <<TRUE, TRUE, TRUE>>)

----------------------------------------------------------------------------
(* MaxSim: four vectors of two or three pages; vectors 1 and 2 are in list 1 *)
(* of the index, 3 and 4 in list 2, which is the nearer list of the second   *)
(* vector of the query.                                                      *)
VectorAt == <<2, -4, 6, -2>>
VectorOf(i, pages, defect) ==
    [id |-> i, at |-> VectorAt[i], gap |-> IF i % 2 = 0 THEN 4 ELSE 0, err |-> IF i = 4 THEN 6 ELSE 2,
     page |-> pages[i], gone |-> defect = <<pages[i], "gone">>,
     visible |-> defect # <<pages[i], "invisible">>, passes |-> defect # <<pages[i], "fails">>]
IndexFrom(vs, near) ==
    [ScanIndex(vs) EXCEPT !.children = [c \in 0..0 |-> [i \in 1..2 |->
        LET d == IF i = near THEN -8 ELSE -4 IN [node |-> i, id |-> i, lower |-> d, exact |-> d]]],
        !.frozen = <<<<vs[1]>>, <<vs[3]>>>>, !.appendable = <<<<vs[2]>>, <<vs[4]>>>>,
        !.tuples = <<2, 2>>]
Table(vs) ==
    [p \in {v.page : v \in ToSet(vs)} |->
        LET own == SelectSeq(vs, LAMBDA v : v.page = p)
        IN  [visible |-> own[1].visible, passes |-> own[1].passes,
             vectors |-> [k \in DOMAIN own |-> own[k].at]]]

\* By definition: the vectors each search may see, the distances a page may be
\* given for one vector of the query, and its distance if all were measured.
Reached(vs, i, o) == {v \in ToSet(vs) : o.probes[1] = 2 \/ (v.id > 2) = (i = 2)}
Measured(v, q) == -(v.at * q.at)
Values(v, q, o) ==
    (IF o.refine < 9 THEN {Measured(v, q) - v.gap + v.err} ELSE {}) \cup
    (IF o.refine > 0 THEN {Measured(v, q)} ELSE {})
Estimates(vs, q, i, o, estimation) ==
    IF o.refine = 0 THEN {estimation}
    ELSE LET reached == {Measured(v, q) : v \in Reached(vs, i, o)}
         IN  {Max({e, estimation}) : e \in IF o.refine = 9 THEN {Max(reached)} ELSE reached}
Possible(vs, p, q, i, o, estimation) ==
    LET own == {v \in Reached(vs, i, o) : v.page = p}
    IN  IF own = {} THEN Estimates(vs, q, i, o, estimation)
        ELSE UNION {Values(v, q, o) : v \in own}
Nearest(vs, p, q, i, o, estimation) ==
    LET own == {v \in Reached(vs, i, o) : v.page = p}
    IN  IF own = {} THEN Max(Estimates(vs, q, i, o, estimation))
        ELSE Min({Max(Values(v, q, o)) : v \in own})
Between(vs, r, query, o, es) ==
    /\ Min(Possible(vs, r.page, query[1], 1, o, es[1]))
         + Min(Possible(vs, r.page, query[2], 2, o, es[2])) <= r.distance
    /\ r.distance <= Nearest(vs, r.page, query[1], 1, o, es[1])
                       + Nearest(vs, r.page, query[2], 2, o, es[2])
MaxSim(own, query) ==
    Min({Measured(v, query[1]) : v \in own}) + Min({Measured(v, query[2]) : v \in own})

PagesJudged(vs, query, o, es, defect, runs) ==
    LET all == runs[1]
        few == runs[2]
        best == runs[3]
        pages == {r.page : r \in ToSet(all)}
        reached == {v.page : v \in Reached(vs, 1, o) \cup Reached(vs, 2, o)}
        allowed == {r.page : r \in ToSet(few)} \ (IF defect[2] = "gone" THEN {} ELSE {defect[1]})
    IN  <<pages \subseteq reached /\ reached \ {defect[1]} \subseteq pages,
          InOrder(all) /\ few = SubSeq(all, 1, Len(few)),
          defect[1] = 0 => \A r \in ToSet(all) : Between(vs, r, query, o, es),
          {r.page : r \in ToSet(best)} = allowed /\ Len(best) = Cardinality(allowed),
          InOrder(best),
          \A r \in ToSet(best) : r.distance = MaxSim({v \in ToSet(vs) : v.page = r.page}, query)>>
Forced(s) == SubSeq(s, 1, Len(s))
\* All pages by the index alone, the nearest of them, and these measured.
Runs(indexes, query, table, o) ==
    Forced([k \in 1..3 |-> Sc!maxsim_scan(indexes, query, table,
                                             [o EXCEPT !.limit = IF k = 1 THEN <<>> ELSE @,
                                                       !.backend = IF k = 3 THEN "cpu_exact" ELSE @])])
Estimations(indexes, o) ==
    Forced([i \in 1..2 |-> Sc!Rq!maxsim_search(indexes[i], o.probes, o.threshold).estimation])
MaxsimJudged(vs, indexes, query, o, defect) ==
    PagesJudged(vs, query, o, Estimations(indexes, o), defect, Runs(indexes, query, Table(vs), o))
MaxsimOptions(kind, refine, probe, threshold, prefilter, limit, io) ==
    [refine |-> refine, threshold |-> threshold, limit |-> <<limit>>, backend |-> "coarse_only"]
        @@ [Plain(kind) EXCEPT !.probes = <<probe>>, !.prefilter = prefilter,
                               !.io_search = io, !.io_rerank = io]
CallMaxsim ==
    call = Idle /\
    \E kind \in {"vecf32", "vecf16", "rabitq8", "rabitq4"}, refine \in {0, 1, 9},
       search \in {<<1, 0>>, <<1, 4>>, <<2, 0>>}, prefilter \in BOOLEAN,
       defect \in {<<0, "none">>, <<1, "gone">>, <<1, "invisible">>, <<2, "fails">>},
       io \in {"plain", "stream"} :
        LET pages == IF kind \in {"vecf32", "rabitq4"} THEN <<1, 2, 1, 3>> ELSE <<2, 1, 1, 2>>
            ats == IF kind \in {"vecf32", "rabitq8"} THEN <<1, -1>> ELSE <<2, 1>>
            limit == IF io = "plain" THEN 1 ELSE 2
            vs == [i \in 1..4 |-> VectorOf(i, pages, defect)]
            o == MaxsimOptions(kind, refine, search[1], search[2], prefilter, limit, io)
        IN  Returns([kind |-> "scan", ats |-> ats, o |-> o, defect |-> defect],
                    {MaxsimJudged(vs, [i \in 1..2 |-> IndexFrom(vs, i)],
                                  [i \in 1..2 |-> PointAt("dot", ats[i], kind)], o, defect)},
                    <<TRUE, TRUE, TRUE, TRUE, TRUE, TRUE>>)

NextScan == CallRowScan \/ CallGraphScan \/ CallMaxsim

----------------------------------------------------------------------------
\* A scan answers its query: after PostgreSQL has checked again what the scan
\* tells it to, the rows are those inside every sphere, all of them unless
\* max_scan_tuples cuts the scan short, and they come by the value of the
\* operator; this for every kind of vector, way of reading pages and of
\* reranking, and with rows gone from the index, hidden or filtered out.  A
\* MaxSim scan gives every page a distance between what its rough and its
\* measured vectors allow, keeps the nearest, and an exact backend returns the
\* candidates the table shows by their true distance.
ScansAnswer == Agrees({"scan"})

\* tests/vchordrq/pushdown_range.slt, "original style" and "sphere style": a row
\* is inside a sphere if the value of the operator is less than the radius.  A
\* graph scan compares the radius with the squared distance instead.
SpheresAnswered == Agrees({"sphere"})
=============================================================================
