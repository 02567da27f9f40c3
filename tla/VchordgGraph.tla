----------------------------- MODULE VchordgGraph -----------------------------
(* The graph index in shared pages: insertions that link themselves into the  *)
(* graph by versioned updates, VACUUM that unlinks and frees the dead, and a  *)
(* crash.  A vertex tuple points to a vector tuple, on the chain of vector    *)
(* pages linked from its vertex page; the vector tuple holds the neighbours.  *)
(* Vectors fit one tuple.  A step is what happens under one buffer lock; the  *)
(* lock of a vertex page that is kept over several steps is in lock.          *)
EXTENDS VchordgSearch

CONSTANTS Rows,          \* heap rows ever inserted, each with a vector of its own
          Tid,           \* Tid[r] is the heap position of row r: its payload
          Vector,        \* Vector[r] is its vector
          M, EF, Alpha,  \* out-degree, size of the search, pruning factors
          Versions,      \* what the random first version of a vector tuple may be
          VertexCap, VectorCap,   \* tuples of a page
          MaxPages, MaxRunning, MaxVacuums, MaxCrashes

VARIABLES pages,    \* block number -> next, link and slots
          meta,     \* start and skip
          lock,     \* the vertex pages somebody keeps locked exclusively
          heap,     \* row -> where it is in its life
          ins,      \* row -> the insertion that is running
          vac,      \* the running VACUUM
          bounds,   \* vacuums that no crash ended, and crashes
          history   \* vertices there ever were, and rows that took the place of one

vars == <<pages, meta, lock, heap, ins, vac, bounds, history>>

None == <<0, 0>>            \* no vertex
Unused == [unused |-> TRUE]   \* an unused line pointer

----------------------------------------------------------------------------
\* Pages.  A tuple takes a new line pointer.  Freeing the last one drops its
\* line pointer; freeing another leaves it unused.
Used(p) == {i \in 1..Len(pages[p].slots) : pages[p].slots[i] # Unused}
get(v) == IF v[1] \in DOMAIN pages /\ v[2] \in Used(v[1]) THEN pages[v[1]].slots[v[2]] ELSE Unused
FreeSlot(p) == Len(pages[p].slots) + 1
alloc(slots, tuple) == Append(slots, tuple)
free(slots, S) ==
    LET step(t, i) == IF i \notin S THEN t
                      ELSE IF i = Len(t) THEN Front(t) ELSE [t EXCEPT ![i] = Unused]
    IN  FoldLeft(step, slots, [i \in 1..Len(slots) |-> i])
clear(link) == [next |-> 0, link |-> link, slots |-> <<>>]

RECURSIVE ChainFrom(_)
ChainFrom(p) == IF p = 0 THEN <<>> ELSE <<p>> \o ChainFrom(pages[p].next)
VertexPages == ToSet(ChainFrom(1))

\* build: page 1 is the first vertex page, page 2 its first vector page.
build == /\ pages = <<clear(2), clear(0)>>
         /\ meta = [start |-> None, skip |-> 1]

NoInsertion == [pc |-> "none"]
NoVacuum == [pc |-> "none"]
Init == /\ build
        /\ lock = {}
        /\ heap = [r \in Rows |-> "none"]
        /\ ins = [r \in Rows |-> NoInsertion]
        /\ vac = NoVacuum
        /\ bounds = [vacuums |-> 0, crashes |-> 0]
        /\ history = [ids |-> {}, again |-> {}]

Free(p) == p \notin lock
To(r, changes) == ins' = [ins EXCEPT ![r] = changes]
Finish(r) == /\ To(r, NoInsertion)
             /\ heap' = [heap EXCEPT ![r] = "live"]

----------------------------------------------------------------------------
\* vectors.rs.  Broken links are found when a slot is unused.
read_outs(ptr) == LET x == get(ptr) IN [i \in 1..Len(x.neighbours) |-> x.neighbours[i].key]

\* What update writes, given what the writer read; "retry" when the version has
\* moved on.  Equal neighbours are not written.
Pairs(outs) == [i \in 1..Len(outs) |-> [key |-> outs[i].key, dis |-> outs[i].dis]]
\* Mutant: neighbours are written although they have changed since they were read.
UpdateUnversioned(ptr, version, neighbours, outs) ==
    IF Pairs(outs) = neighbours THEN "same" ELSE IF get(ptr) = Unused THEN "broken" ELSE "written"
update_result(ptr, version, neighbours, outs) ==
    IF Pairs(outs) = neighbours THEN "same"
    ELSE IF get(ptr) = Unused THEN "broken"
    ELSE IF get(ptr).version # version THEN "retry" ELSE "written"
update(ptr, version, neighbours, outs) ==
    pages' = IF update_result(ptr, version, neighbours, outs) = "written"
             THEN [pages EXCEPT ![ptr[1]].slots[ptr[2]].version = @ + 1,
                                ![ptr[1]].slots[ptr[2]].neighbours = Pairs(outs)]
             ELSE pages

----------------------------------------------------------------------------
\* insert.  The row is in the heap; its insertion reads the meta page.
Running == {r \in Rows : ins[r].pc # "none"}
insert(r) ==
    /\ heap[r] = "none" /\ Cardinality(Running) < MaxRunning
    /\ \A o \in Rows : (o # r /\ Tid[o] = Tid[r]) => heap[o] \in {"none", "removed", "gone"}
    /\ heap' = [heap EXCEPT ![r] = "inserting"]
    /\ To(r, [pc |-> "page", start |-> meta.start, skip |-> meta.skip])
    /\ UNCHANGED <<pages, meta, lock, vac, bounds, history>>

\* A page the free space map names or the walk from skip finds with room is
\* locked; the walk may also end at the last page and extend it.
\* Mutant: the page with room is not locked.
TakeUnlocked(r) ==
    /\ ins[r].pc = "page"
    /\ \E p \in VertexPages :
           /\ Free(p) /\ Cardinality(Used(p)) < VertexCap
           /\ To(r, [pc |-> "vector", page |-> p] @@ ins[r])
    /\ UNCHANGED <<pages, meta, lock, heap, vac, bounds, history>>
TakeVertexPage(r) ==
    /\ ins[r].pc = "page"
    /\ \E p \in VertexPages :
           /\ Free(p) /\ Cardinality(Used(p)) < VertexCap
           /\ lock' = lock \cup {p}
           /\ To(r, [pc |-> "vector", page |-> p] @@ ins[r])
    /\ UNCHANGED <<pages, meta, heap, vac, bounds, history>>
append_vertex_tuple(r) ==
    /\ ins[r].pc = "page" /\ Len(pages) + 2 <= MaxPages
    /\ LET p == Last(ChainFrom(1))
           link == Len(pages) + 1
       IN  /\ Free(p) /\ Cardinality(Used(p)) >= VertexCap
           /\ pages' = [pages EXCEPT ![p].next = link + 1] \o <<clear(0), clear(link)>>
           /\ lock' = lock \cup {link + 1}
           /\ To(r, [pc |-> "vector", page |-> link + 1] @@ ins[r])
    /\ UNCHANGED <<meta, heap, vac, bounds, history>>

\* The vector tuple goes to a page of the chain with room, or to a new page.
append_vector_tuple(r) ==
    /\ ins[r].pc = "vector"
    /\ \E version \in Versions :
       LET chain == ChainFrom(pages[ins[r].page].link)
           room == {p \in ToSet(chain) : Cardinality(Used(p)) < VectorCap}
           tuple == [payload |-> Tid[r], vec |-> Vector[r], neighbours |-> <<>>,
                     version |-> version]
       IN  \/ \E p \in room :
                  /\ pages' = [pages EXCEPT ![p].slots = alloc(@, tuple)]
                  /\ To(r, [pc |-> "vertex", ptr |-> <<p, FreeSlot(p)>>, version |-> version]
                              @@ ins[r])
           \/ /\ Last(chain) \notin room /\ Len(pages) < MaxPages
              /\ pages' = Append([pages EXCEPT ![Last(chain)].next = Len(pages) + 1],
                                 [clear(0) EXCEPT !.slots = <<tuple>>])
              /\ To(r, [pc |-> "vertex", ptr |-> <<Len(pages) + 1, 1>>, version |-> version]
                          @@ ins[r])
    /\ UNCHANGED <<meta, lock, heap, vac, bounds, history>>

AfterSkip(l) == IF l.start = None THEN "start" ELSE "enter"
AllocVertex(r) ==
    /\ ins[r].pc = "vertex"
    /\ LET p == ins[r].page
           i == FreeSlot(p)
       IN  /\ pages' = [pages EXCEPT ![p].slots =
                            alloc(@, [payload |-> Tid[r], vec |-> Vector[r],
                                      ptr |-> ins[r].ptr])]
           /\ history' = [ids |-> history.ids \cup {<<p, i>>},
                          again |-> IF <<p, i>> \in history.ids THEN history.again \cup {r}
                                    ELSE history.again]
           /\ lock' = lock \ {p}
           /\ To(r, [pc |-> IF ins[r].skip < p THEN "skip" ELSE AfterSkip(ins[r]),
                     t |-> <<p, i>>] @@ ins[r])
    /\ UNCHANGED <<meta, heap, vac, bounds>>
UpdateSkip(r) ==
    /\ ins[r].pc = "skip"
    /\ meta' = [meta EXCEPT !.skip = IF @ < ins[r].t[1] THEN ins[r].t[1] ELSE @]
    /\ To(r, [pc |-> AfterSkip(ins[r])] @@ ins[r])
    /\ UNCHANGED <<pages, lock, heap, vac, bounds, history>>
SetStart(r) ==
    /\ ins[r].pc = "start"
    /\ IF meta.start = None
       THEN meta' = [meta EXCEPT !.start = ins[r].t] /\ Finish(r)
       ELSE /\ To(r, [pc |-> "enter", start |-> meta.start] @@ ins[r])
            /\ UNCHANGED <<meta, heap>>
    /\ UNCHANGED <<pages, lock, vac, bounds, history>>

----------------------------------------------------------------------------
\* The search for the neighbours.  Candidates come in the order of estimated
\* distances, which may be any.
Enter(r) ==
    /\ ins[r].pc = "enter" /\ Free(ins[r].start[1])
    /\ LET s == ins[r].start
       IN  IF get(s) = Unused THEN Finish(r)
           ELSE /\ To(r, [pc |-> "pop", t |-> ins[r].t, ptr |-> ins[r].ptr,
                          version |-> ins[r].version, visited |-> {s}, results |-> {},
                          candidates |-> {[key |-> s, ptr |-> get(s).ptr]}, outs |-> <<>>])
                /\ UNCHANGED heap
    /\ UNCHANGED <<pages, meta, lock, vac, bounds, history>>

\* After an element: go on to the trace when there is nothing left or the ef-th
\* result is nearer than the element.
Enough(l) ==
    LET ranked == SetToSortSeq(l.results, Nearer)
    IN  Len(ranked) >= EF /\ ranked[EF].dis < l.last
AfterElement(l) ==
    IF l.candidates = {} \/ Enough(l)
    THEN [pc |-> "trace", t |-> l.t, ptr |-> l.ptr, version |-> l.version, trace |-> <<>>,
          todo |-> SetToSortSeq(l.results, Nearer)]
    ELSE [l EXCEPT !.pc = "pop"]
Pop(r) ==
    /\ ins[r].pc = "pop"
    /\ \E c \in ins[r].candidates :
       LET x == get(c.ptr)
           dis == distance(x.vec, Vector[r])
           rest == [ins[r] EXCEPT !.candidates = @ \ {c}]
           seen == [last |-> dis] @@
                   [rest EXCEPT !.results = @ \cup {[key |-> c.key, dis |-> dis, ptr |-> c.ptr]},
                                !.outs = SelectSeq(read_outs(c.ptr),
                                                   LAMBDA v : v \notin ins[r].visited)]
       IN  To(r, IF x = Unused
                 THEN IF rest.candidates = {} THEN AfterElement(rest) ELSE rest
                 ELSE IF seen.outs = <<>> THEN AfterElement(seen)
                 ELSE [seen EXCEPT !.pc = "expand"])
    /\ UNCHANGED <<pages, meta, lock, heap, vac, bounds, history>>
Expand(r) ==
    /\ ins[r].pc = "expand" /\ Free(Head(ins[r].outs)[1])
    /\ LET v == Head(ins[r].outs)
           new == IF get(v) = Unused THEN {} ELSE {[key |-> v, ptr |-> get(v).ptr]}
           l == [ins[r] EXCEPT !.visited = @ \cup {v}, !.outs = Tail(@),
                               !.candidates = @ \cup new]
       IN  To(r, IF l.outs = <<>> THEN AfterElement(l) ELSE l)
    /\ UNCHANGED <<pages, meta, lock, heap, vac, bounds, history>>

\* Each result's vector is read again; then the row's own neighbours are written.
Trace(r) ==
    /\ ins[r].pc = "trace" /\ ins[r].todo # <<>>
    /\ LET u == Head(ins[r].todo)
           x == get(u.ptr)
       IN  To(r, [ins[r] EXCEPT !.todo = Tail(@),
                                !.trace = IF x = Unused THEN @
                                          ELSE Append(@, [vec |-> x.vec] @@ u)])
    /\ UNCHANGED <<pages, meta, lock, heap, vac, bounds, history>>

Linked(l, outs) == [pc |-> "link", t |-> l.t, outs |-> outs]
UpdateOwn(r) ==
    /\ ins[r].pc = "trace" /\ ins[r].todo = <<>>
    /\ LET outs == prune(ins[r].t, ins[r].trace, M, Alpha, TRUE)
       IN  /\ update(ins[r].ptr, ins[r].version, <<>>, outs)
           /\ IF outs = <<>> THEN Finish(r)
              ELSE To(r, Linked(ins[r], outs)) /\ UNCHANGED heap
    /\ UNCHANGED <<meta, lock, vac, bounds, history>>

----------------------------------------------------------------------------
\* The links back, one neighbour at a time: read it, prune, and write if nobody
\* else has, until that succeeds or the link turns out to be broken.
NextLink(r, outs) ==
    IF outs = <<>> THEN Finish(r) ELSE To(r, Linked(ins[r], outs)) /\ UNCHANGED heap
LinkRead(r) ==
    /\ ins[r].pc = "link"
    /\ LET u == Head(ins[r].outs)
           x == get(u.ptr)
       IN  IF x = Unused THEN NextLink(r, Tail(ins[r].outs))
           ELSE /\ To(r, [pc |-> "fetch", version |-> x.version, neighbours |-> x.neighbours,
                          trace |-> <<>>,
                          todo |-> Append(x.neighbours, [key |-> ins[r].t, dis |-> u.dis])]
                            @@ ins[r])
                /\ UNCHANGED heap
    /\ UNCHANGED <<pages, meta, lock, vac, bounds, history>>

\* A vertex and its vector, for the trace; <<>> when the link is broken.
Fetched(v) == LET x == get(v.key)
                  y == get(x.ptr)
              IN  IF x = Unused \/ y = Unused THEN <<>>
                  ELSE <<[key |-> v.key, dis |-> v.dis, ptr |-> x.ptr, vec |-> y.vec]>>
LinkFetch(r) ==
    /\ ins[r].pc = "fetch" /\ ins[r].todo # <<>> /\ Free(Head(ins[r].todo).key[1])
    /\ To(r, [ins[r] EXCEPT !.todo = Tail(@), !.trace = @ \o Fetched(Head(ins[r].todo))])
    /\ UNCHANGED <<pages, meta, lock, heap, vac, bounds, history>>
LinkUpdate(r) ==
    /\ ins[r].pc = "fetch" /\ ins[r].todo = <<>>
    /\ LET u == Head(ins[r].outs)
           outs == prune(u.key, ins[r].trace, M, Alpha, TRUE)
       IN  /\ update(u.ptr, ins[r].version, ins[r].neighbours, outs)
           /\ IF update_result(u.ptr, ins[r].version, ins[r].neighbours, outs) = "retry"
              THEN To(r, Linked(ins[r], ins[r].outs)) /\ UNCHANGED heap
              ELSE NextLink(r, Tail(ins[r].outs))
    /\ UNCHANGED <<meta, lock, vac, bounds, history>>

----------------------------------------------------------------------------
\* VACUUM: bulkdelete, then the heap's positions become free, then maintain.
delete(r) ==
    /\ heap[r] = "live"
    /\ heap' = [heap EXCEPT ![r] = "dead"]
    /\ UNCHANGED <<pages, meta, lock, ins, vac, bounds, history>>

Vac(changes) == vac' = changes
bulkdelete ==
    /\ vac.pc = "none" /\ bounds.vacuums < MaxVacuums
    /\ LET dead == {r \in Rows : heap[r] = "dead"}
       IN  Vac(IF meta.start = None THEN [pc |-> "heap", dead |-> dead]
               ELSE [pc |-> "delete", dead |-> dead, page |-> 1])
    /\ bounds' = [bounds EXCEPT !.vacuums = @ + 1]
    /\ UNCHANGED <<pages, meta, lock, heap, ins, history>>
\* Mutant: only the first page is looked through.
DeleteFirstPage ==
    /\ vac.pc = "delete" /\ Free(vac.page)
    /\ LET callback(x) == \E r \in vac.dead : Tid[r] = x.payload
           slots == pages[vac.page].slots
       IN  pages' = [pages EXCEPT ![vac.page].slots =
                        [i \in 1..Len(slots) |->
                            IF i \in Used(vac.page) /\ callback(slots[i])
                            THEN [slots[i] EXCEPT !.payload = 0] ELSE slots[i]]]
    /\ Vac([pc |-> "heap", dead |-> vac.dead])
    /\ UNCHANGED <<meta, lock, heap, ins, bounds, history>>
DeletePage ==
    /\ vac.pc = "delete" /\ Free(vac.page)
    /\ LET callback(x) == \E r \in vac.dead : Tid[r] = x.payload
           slots == pages[vac.page].slots
       IN  pages' = [pages EXCEPT ![vac.page].slots =
                        [i \in 1..Len(slots) |->
                            IF i \in Used(vac.page) /\ callback(slots[i])
                            THEN [slots[i] EXCEPT !.payload = 0] ELSE slots[i]]]
    /\ Vac(IF pages[vac.page].next = 0 THEN [pc |-> "heap", dead |-> vac.dead]
           ELSE [vac EXCEPT !.page = pages[vac.page].next])
    /\ UNCHANGED <<meta, lock, heap, ins, bounds, history>>
HeapPass ==
    /\ vac.pc = "heap"
    /\ heap' = [r \in Rows |-> IF r \in vac.dead THEN "removed" ELSE heap[r]]
    /\ Vac([pc |-> "maintain"])
    /\ UNCHANGED <<pages, meta, lock, ins, bounds, history>>

\* A row is gone when a VACUUM that removed it, or a later one, is through.
VacuumEnds == /\ heap' = [r \in Rows |-> IF heap[r] = "removed" THEN "gone" ELSE heap[r]]
              /\ Vac(NoVacuum)
maintain ==
    /\ vac.pc = "maintain"
    /\ IF meta.start = None THEN VacuumEnds
       ELSE Vac([pc |-> "members", start |-> meta.start, page |-> 1]) /\ UNCHANGED heap
    /\ UNCHANGED <<pages, meta, lock, ins, bounds, history>>

\* The members of a page that are not deleted, and each one's links in turn.
NextMember(members) ==
    Vac(IF members # <<>>
        THEN [pc |-> "relink", start |-> vac.start, next |-> vac.next, members |-> members]
        ELSE IF vac.next # 0
        THEN [pc |-> "members", start |-> vac.start, page |-> vac.next]
        ELSE [pc |-> "free", start |-> vac.start, page |-> 1])
Members ==
    /\ vac.pc = "members" /\ Free(vac.page)
    /\ LET live == {i \in Used(vac.page) : pages[vac.page].slots[i].payload # 0}
           member(i) == [key |-> <<vac.page, i>>, ptr |-> pages[vac.page].slots[i].ptr]
           order == SetToSortSeq(live, LAMBDA a, b : a < b)
           next == pages[vac.page].next
       IN  Vac(IF live # {}
               THEN [pc |-> "relink", start |-> vac.start, next |-> next,
                     members |-> [i \in 1..Len(order) |-> member(order[i])]]
               ELSE IF next # 0 THEN [vac EXCEPT !.page = next]
               ELSE [pc |-> "free", start |-> vac.start, page |-> 1])
    /\ UNCHANGED <<pages, meta, lock, heap, ins, bounds, history>>
RelinkRead ==
    /\ vac.pc = "relink"
    /\ LET x == get(Head(vac.members).ptr)
       IN  IF x = Unused THEN NextMember(Tail(vac.members))
           ELSE Vac([pc |-> "around", vec |-> x.vec, neighbours |-> x.neighbours,
                     version |-> x.version, todo |-> x.neighbours, extend |-> <<>>,
                     trace |-> <<>>] @@ vac)
    /\ UNCHANGED <<pages, meta, lock, heap, ins, bounds, history>>
\* A neighbour that is not deleted stays; a deleted one brings its own neighbours.
RelinkNeighbour ==
    /\ vac.pc = "around" /\ vac.todo # <<>> /\ Free(Head(vac.todo).key[1])
    /\ LET v == Head(vac.todo)
           found == Fetched(v)
       IN  Vac([vac EXCEPT !.todo = Tail(@),
                   !.trace = IF found # <<>> /\ get(v.key).payload # 0 THEN @ \o found ELSE @,
                   !.extend = IF found # <<>> /\ get(v.key).payload = 0
                              THEN @ \o read_outs(get(v.key).ptr) ELSE @])
    /\ UNCHANGED <<pages, meta, lock, heap, ins, bounds, history>>
RelinkExtend ==
    /\ vac.pc = "around" /\ vac.todo = <<>> /\ vac.extend # <<>> /\ Free(Head(vac.extend)[1])
    /\ LET v == Head(vac.extend)
           found == Fetched([key |-> v, dis |-> 0])
       IN  Vac([vac EXCEPT !.extend = Tail(@),
                   !.trace = IF found # <<>> /\ get(v).payload # 0
                             THEN Append(@, [found[1] EXCEPT
                                                 !.dis = distance(vac.vec, found[1].vec)])
                             ELSE @])
    /\ UNCHANGED <<pages, meta, lock, heap, ins, bounds, history>>
RelinkUpdate ==
    /\ vac.pc = "around" /\ vac.todo = <<>> /\ vac.extend = <<>>
    /\ LET u == Head(vac.members)
           outs == prune(u.key, vac.trace, M, Alpha, TRUE)
       IN  /\ update(u.ptr, vac.version, vac.neighbours, outs)
           /\ IF update_result(u.ptr, vac.version, vac.neighbours, outs) = "retry"
              THEN NextMember(vac.members) ELSE NextMember(Tail(vac.members))
    /\ UNCHANGED <<meta, lock, heap, ins, bounds, history>>

\* Under the lock of a vertex page: its deleted vertices, except the start, and
\* then, page by page, the vectors that no vertex left on it points to.
FreeSlots(p, S) == [pages EXCEPT ![p].slots = free(@, S)]
FreeVertices ==
    /\ vac.pc = "free" /\ Free(vac.page)
    /\ LET slots == pages[vac.page].slots
           dead == {i \in Used(vac.page) : slots[i].payload = 0 /\ <<vac.page, i>> # vac.start}
       IN  /\ pages' = FreeSlots(vac.page, dead)
           /\ Vac([pc |-> "vectors", vpage |-> pages[vac.page].link,
                   reachable |-> {slots[i].ptr : i \in Used(vac.page) \ dead}] @@ vac)
    /\ lock' = lock \cup {vac.page}
    /\ UNCHANGED <<meta, heap, ins, bounds, history>>
FreeVectors ==
    /\ vac.pc = "vectors"
    /\ pages' = FreeSlots(vac.vpage, {i \in Used(vac.vpage) : <<vac.vpage, i>> \notin vac.reachable})
    /\ IF pages[vac.vpage].next # 0
       THEN Vac([vac EXCEPT !.vpage = pages[vac.vpage].next]) /\ UNCHANGED <<lock, heap>>
       ELSE /\ lock' = lock \ {vac.page}
            /\ IF pages[vac.page].next = 0 THEN VacuumEnds
               ELSE /\ Vac([pc |-> "free", start |-> vac.start, page |-> pages[vac.page].next])
                    /\ UNCHANGED heap
    /\ UNCHANGED <<meta, ins, bounds, history>>

----------------------------------------------------------------------------
\* A crash ends every process; what they wrote is kept, and the rows being
\* inserted are dead.  Left out is the crash after the link to a new vertex page
\* is logged and before the page is: the same sequence as in vchordrq's tape.rs,
\* which VchordrqLists has.
Unlogged(r) ==
    /\ ins[r].pc \in {"vector", "vertex"} /\ ins[r].page # 1
    /\ \A id \in history.ids : id[1] # ins[r].page
Crash ==
    /\ bounds.crashes < MaxCrashes /\ (Running # {} \/ vac.pc # "none")
    /\ \A r \in Running : ~Unlogged(r)
    /\ bounds' = [crashes |-> bounds.crashes + 1,
                  vacuums |-> IF vac.pc = "none" THEN bounds.vacuums ELSE bounds.vacuums - 1]
    /\ lock' = {}
    /\ heap' = [r \in Rows |-> IF r \in Running THEN "dead" ELSE heap[r]]
    /\ ins' = [r \in Rows |-> NoInsertion]
    /\ vac' = NoVacuum
    /\ UNCHANGED <<pages, meta, history>>

Inserting(r) ==
    \/ TakeVertexPage(r) \/ append_vertex_tuple(r) \/ append_vector_tuple(r) \/ AllocVertex(r)
    \/ UpdateSkip(r) \/ SetStart(r) \/ Enter(r) \/ Pop(r) \/ Expand(r) \/ Trace(r)
    \/ UpdateOwn(r) \/ LinkRead(r) \/ LinkFetch(r) \/ LinkUpdate(r)
Vacuuming ==
    \/ DeletePage \/ HeapPass \/ maintain \/ Members \/ RelinkRead \/ RelinkNeighbour
    \/ RelinkExtend \/ RelinkUpdate \/ FreeVertices \/ FreeVectors
\* Nobody is at work: whatever stops short of this is a deadlock.
Quiet == Running = {} /\ vac.pc = "none" /\ UNCHANGED vars
Next == \/ \E r \in Rows : insert(r) \/ Inserting(r) \/ delete(r)
        \/ bulkdelete \/ Vacuuming \/ Crash \/ Quiet

Spec == Init /\ [][Next]_vars

----------------------------------------------------------------------------
Vertices == UNION {{<<p, i>> : i \in Used(p)} : p \in VertexPages}

RECURSIVE ReachFrom(_)
ReachFrom(S) ==
    LET out == UNION {ToSet(read_outs(get(v).ptr)) :
                          v \in {v \in S : get(v) # Unused /\ get(get(v).ptr) # Unused}}
    IN  IF out \subseteq S THEN {v \in S : get(v) # Unused} ELSE ReachFrom(S \cup out)
Reachable == IF meta.start = None THEN {} ELSE ReachFrom({meta.start})

\* A vertex always leads to the vector that was inserted with it: neither a
\* VACUUM that frees vectors while others insert, nor a reused slot, nor a crash
\* leaves a vertex with another one's vector or with none.
PointersIntact ==
    \A v \in Vertices : get(get(v).ptr) # Unused /\ get(get(v).ptr).vec = get(v).vec

\* While M and EF exceed the number of vertices, a finished insertion can be
\* reached from the start vertex: no link back is lost to a concurrent update,
\* to a VACUUM or to a crash of others.  (A row whose vertex takes the line
\* pointer of a freed one may be missed: update returns early, without looking at
\* the version, when a stale link to that line pointer makes the lists equal.)
CommittedReachable ==
    \A r \in Rows \ history.again : heap[r] = "live" =>
        \E v \in Reachable : get(v).vec = Vector[r] /\ get(v).payload = Tid[r]

\* Once a VACUUM is through, a scan returns no row that it removed, except from
\* the start vertex, which stays with the payload in its vector tuple.
VacuumedGone ==
    \A v \in Reachable \ {meta.start} : \A r \in Rows :
        get(get(v).ptr).vec = Vector[r] => heap[r] # "gone"
=============================================================================
