---------------------------- MODULE VchordgSearch ----------------------------
(* The pure parts of the graph index: which neighbours a vertex keeps, and    *)
(* the order in which a search takes candidates and returns results.  Vectors *)
(* are integers on a line, distances are squared; alpha is in tenths.  Ties   *)
(* go by the key of an item, where the heaps of the code leave them open.     *)
EXTENDS Integers, Sequences, FiniteSets, SequencesExt, TLC

distance(x, y) == (x - y) * (x - y)
\* The distance of a row from a query [op, at].
QueryDistance(q, x) == IF q.op = "l2s" THEN distance(x, q.at) ELSE -(x * q.at)

\* Pages come before slots.
KeyLess(a, b) == a[1] < b[1] \/ (a[1] = b[1] /\ a[2] < b[2])
Nearer(a, b) == a.dis < b.dis \/ (a.dis = b.dis /\ KeyLess(a.key, b.key))

----------------------------------------------------------------------------
\* Items that are nearer, times alpha, to a kept one are set aside; what comes
\* after the last kept item is neither kept nor set aside.
robust_prune(m, alpha, result, trace) ==
    LET step(st, u) ==
            IF Len(st.result) = m THEN st
            ELSE IF \A i \in 1..Len(st.result) :
                        10 * u.dis < alpha * distance(u.vec, st.result[i].vec)
                 THEN [st EXCEPT !.result = Append(@, u)]
                 ELSE [st EXCEPT !.pruned = Append(@, u)]
    IN  FoldLeft(step, [result |-> result, pruned |-> <<>>], trace)

\* The first item of each key, without u, by distance.
Distinct(u, outs) ==
    LET kept == {outs[i] : i \in {i \in 1..Len(outs) :
                     outs[i].key # u /\ \A j \in 1..(i - 1) : outs[j].key # outs[i].key}}
    IN  SetToSortSeq(kept, Nearer)

prune(u, outs, m, alphas, is_l2s) ==
    LET step(st, alpha) ==
            IF Len(st.result) = m THEN st ELSE robust_prune(m, alpha, st.result, st.pruned)
        end == FoldLeft(step, [result |-> <<>>, pruned |-> Distinct(u, outs)],
                        IF is_l2s THEN alphas ELSE <<10>>)
    IN  IF Len(end.result) = m THEN end.result
        ELSE LET all == end.result \o end.pruned
             IN  SubSeq(all, 1, IF Len(all) < m THEN Len(all) ELSE m)

----------------------------------------------------------------------------
\* Results: front holds the ef nearest, back the rest.
Least(S) == CHOOSE x \in S : \A y \in S : y = x \/ Nearer(x, y)
Greatest(S) == CHOOSE x \in S : \A y \in S : y = x \/ Nearer(y, x)

Results_new == [front |-> {}, back |-> {}]
Results_push(r, ef, x) ==
    IF Cardinality(r.front) < ef THEN [r EXCEPT !.front = @ \cup {x}]
    ELSE LET out == Greatest(r.front \cup {x})
         IN  [front |-> (r.front \cup {x}) \ {out}, back |-> r.back \cup {out}]
\* Whether the ef-th result is nearer than dis.
peek_ef_th_below(r, ef, dis) == Cardinality(r.front) >= ef /\ Greatest(r.front).dis < dis
\* The item that goes out and the results without it.
pop_min(r, ef) ==
    IF Cardinality(r.front) < ef \/ r.back = {}
    THEN [out |-> Least(r.front), results |-> [r EXCEPT !.front = @ \ {Least(r.front)}]]
    ELSE LET item == Least(r.back)
             out == Least(r.front \cup {item})
         IN  [out |-> out, results |-> [front |-> (r.front \cup {item}) \ {out},
                                        back |-> r.back \ {item}]]
into_inner(r) == SetToSortSeq(r.front, Nearer) \o SetToSortSeq(r.back, Nearer)

----------------------------------------------------------------------------
\* Candidates: the beam best of the heap are fetched together and taken in that
\* order, whatever is pushed meanwhile.
Candidates_new == [front |-> <<>>, heap |-> {}]
Candidates_push(c, items) == [c EXCEPT !.heap = @ \cup items]
Smaller(a, b) == IF a < b THEN a ELSE b
TakeFront(c, front) == [front |-> front, heap |-> c.heap \ ToSet(front)]
Candidates_refill(c, beam) ==
    IF c.front # <<>> THEN c
    ELSE TakeFront(c, SubSeq(SetToSortSeq(c.heap, Nearer), 1, Smaller(Cardinality(c.heap), beam)))

\* One element of the inner iterator: the next candidate whose vector can be
\* read, after its unvisited neighbours have been pushed.  A graph gives every
\* vertex its vector, estimate, payload, neighbours, and whether the vertex
\* (vertex) and its vector tuple (vector) are still there.
Visit(g, q, st, c, u, outs) ==
    [candidates |-> Candidates_push(c, {[dis |-> g.score[v], key |-> v] :
                                           v \in {v \in ToSet(outs) : g.vertex[v]}}),
     visited |-> st.visited \cup ToSet(outs),
     element |-> <<[dis |-> QueryDistance(q, g.vec[u]), key |-> u]>>]
Unvisited(g, st, u) == SelectSeq(g.outs[u], LAMBDA v : v \notin st.visited)
RECURSIVE Search_take(_, _, _, _, _)
Search_take(g, q, beam, st, c) ==
    IF c.front = <<>> THEN [st EXCEPT !.candidates = c, !.element = <<>>]
    ELSE IF g.vector[Head(c.front).key]
    THEN Visit(g, q, st, [c EXCEPT !.front = Tail(@)], Head(c.front).key,
               Unvisited(g, st, Head(c.front).key))
    ELSE Search_take(g, q, beam, st, Candidates_refill([c EXCEPT !.front = Tail(@)], beam))
Search_next(g, q, beam, st) ==
    Search_take(g, q, beam, st, Candidates_refill(st.candidates, beam))

\* The outer iterator draws elements until the ef-th result is nearer than the
\* last one drawn, then returns the nearest result; p holds the parameters.
RECURSIVE Search_drain(_, _, _, _)
Search_results(p, st, r, out) ==
    IF st.element # <<>> /\ ~peek_ef_th_below(r, p.ef, st.element[1].dis)
    THEN Search_drain(p, st, r, out)
    ELSE IF r.front = {} THEN out
    ELSE Search_drain(p, st, pop_min(r, p.ef).results, Append(out, pop_min(r, p.ef).out.key))
Search_drawn(p, st, r, out) ==
    Search_results(p, st, IF st.element = <<>> THEN r ELSE Results_push(r, p.ef, st.element[1]), out)
Search_drain(p, st, r, out) == Search_drawn(p, Search_next(p.g, p.q, p.beam, st), r, out)

search(g, q, ef, beam) ==
    IF g.start = <<0, 0>> \/ ~g.vertex[g.start] THEN <<>>
    ELSE SelectSeq(Search_drain([g |-> g, q |-> q, ef |-> ef, beam |-> beam],
                       [candidates |-> Candidates_push(Candidates_new,
                            {[dis |-> g.score[g.start], key |-> g.start]}),
                        visited |-> {g.start}, element |-> <<>>],
                       Results_new, <<>>),
                   LAMBDA v : g.payload[v] # 0)
=============================================================================
