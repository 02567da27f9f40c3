--------------------------- MODULE VchordrqLists ---------------------------
(***************************************************************************)
(* The inverted lists of a vchordrq index as pages of a PostgreSQL         *)
(* relation, and the operations that share them: insert (tape::append),    *)
(* search, bulkdelete, maintain and the free page list.                    *)
(*                                                                         *)
(* Every list has a jump page that points at three tapes (linked pages):   *)
(* the frozen tape, holding payloads in whole groups; the appendable tape, *)
(* where inserts go; and the directory tape, naming the frozen pages.      *)
(* maintain rebuilds the tapes of a list under the exclusive lock of its   *)
(* jump page; everyone else holds that lock shared while on the list.      *)
(*                                                                         *)
(* A page is read or written under its buffer content lock.  A section     *)
(* that holds only one page lock is one action; a lock that is held while  *)
(* another one is awaited is in `xlock` or `readers`.  A write guard logs  *)
(* its page as one WAL record when it is dropped, so a crash keeps the     *)
(* pages of the last flush and a prefix of the records after it.           *)
(***************************************************************************)
EXTENDS Integers, Sequences, FiniteSets, SequencesExt, FiniteSetsExt

CONSTANTS
    Inserters,      \* backends that run aminsert
    Searchers,      \* backends that run an index scan
    Vacuums,        \* VACUUM processes: ambulkdelete, then amvacuumcleanup
    Builders,       \* parallel build participants: maintain on their own lists
    Choice,         \* MaintainChooser: the lists each maintainer rebuilds
    NoProc,
    Payloads,       \* heap pointers
    Null,           \* a payload that bulkdelete has cleared
    MaxBlocks,      \* bound on the size of the relation
    GroupSize,      \* payloads in one frozen tuple (32 in the code)
    FrozenGroups,   \* frozen tuples on a page
    DirectoryCap,   \* page numbers on a page of the directory tape
    Scopes          \* the situations to look at, see the variable scope

Blocks == 0 .. MaxBlocks - 1
NIL == MaxBlocks          \* u32::MAX: above every page number
Meta == 0
Freepages == 1
Jump(l) == 1 + l
Maintainers == Vacuums \cup Builders
Procs == Inserters \cup Searchers \cup Maintainers

ASSUME BoundsAssumption ==
    /\ Scopes \subseteq [building : BOOLEAN, lists : Nat \ {0}, appendable : Nat \ {0},
                         inserts : Nat, vacuums : Nat, crashes : Nat]
    /\ GroupSize \in Nat \ {0} /\ FrozenGroups \in Nat \ {0} /\ DirectoryCap \in Nat \ {0}
    /\ MaxBlocks \in Nat /\ \A s \in Scopes : MaxBlocks >= 2 + 4 * s.lists

\* Two builders never rebuild the same list (ParallelBuild shows that the chooser
\* partitions the lists).
ASSUME ChoiceAssumption ==
    /\ Choice \in [Maintainers -> SUBSET (Nat \ {0})]
    /\ \A b, c \in Builders : b # c => Choice[b] \cap Choice[c] = {}

VARIABLES
    scope,    \* what stays the same: whether the index is being built and nobody else sees
              \* it yet, how many lists it has, the tuples on a page of an appendable tape;
              \* bounds on the number of inserts, vacuums and crashes
    block,    \* page number -> content, as the shared buffers hold it
    nblocks,  \* length of the relation
    stable,   \* the pages as of the last WAL flush
    wal,      \* the page images logged since then
    readers,  \* page -> processes holding its lock shared across steps
    xlock,    \* page -> the process holding its lock exclusively
    heap,     \* payload -> life of the heap row it points at
    st,       \* process -> its local state
    spent     \* how many inserts, vacuums and crashes have happened

vars == <<scope, block, nblocks, stable, wal, readers, xlock, heap, st, spent>>

building == scope.building
NLists == scope.lists
Lists == 1 .. NLists
AppendableCap == scope.appendable
MaxInserts == scope.inserts
MaxVacuums == scope.vacuums
MaxCrashes == scope.crashes

-----------------------------------------------------------------------------
(* Pages and tapes.                                                        *)

\* A page of the relation that no replayed record has written.
Zero == [kind |-> "zero", next |-> NIL, skip |-> NIL, tuples |-> <<>>]
TapePage(kind, next, skip, tuples) ==
    [kind |-> kind, next |-> next, skip |-> skip, tuples |-> tuples]

\* A page that append has linked and not yet filled is locked: nobody reads past it.
Unfilled == {st[p].ext : p \in {q \in Inserters : st[q].pc = "fill"}}
View(b) == IF b \in Unfilled THEN TapePage("appendable", NIL, NIL, <<>>) ELSE block[b]

\* tape::by_next: the pages from b on; longer than the relation when it loops.
RECURSIVE TapeOf(_, _)
TapeOf(b, fuel) ==
    IF b = NIL \/ fuel = 0 THEN <<>> ELSE <<b>> \o TapeOf(View(b).next, fuel - 1)
by_next(b) == TapeOf(b, MaxBlocks + 1)

Contents(pages) == FlattenSeq([i \in DOMAIN pages |-> View(pages[i]).tuples])
IsSome(x) == x # Null

\* tape::read_directory_tape: the frozen pages the directory names.
read_directory_tape(l) == Contents(by_next(block[Jump(l)].directory_first))

FrozenPages(l) == by_next(block[Jump(l)].frozen_first)
AppendablePages(l) == by_next(block[Jump(l)].appendable_first)
DirectoryPages(l) == by_next(block[Jump(l)].directory_first)
ListPages(l) == DirectoryPages(l) \o FrozenPages(l) \o AppendablePages(l)
Stored(l) == SelectSeq(Contents(FrozenPages(l) \o AppendablePages(l)), IsSome)

\* TapeWriter: split a sequence over pages of a given capacity; a tape has at least
\* its first page.  (skip of the first page is the page itself.)
Pages(n, cap) == Max({1, (n + cap - 1) \div cap})
Chunk(s, cap, i) == SubSeq(s, (i - 1) * cap + 1, Min({i * cap, Len(s)}))
TapeImages(kind, ids, s, cap) ==
    [i \in DOMAIN ids |->
        [at |-> ids[i],
         to |-> TapePage(kind, IF i = Len(ids) THEN NIL ELSE ids[i + 1],
                         IF i = 1 THEN ids[1] ELSE NIL, Chunk(s, cap, i))]]

\* build: a list starts with an empty frozen page, an empty appendable page and a
\* directory that names the frozen page.
InitBlock ==
    LET base(l) == 2 + NLists + 3 * (l - 1)
        image(b) ==
            IF b = Meta THEN [kind |-> "meta", indexed_vectors |-> 0]
            ELSE IF b = Freepages THEN [kind |-> "freepages", first |-> NIL]
            ELSE IF b <= 1 + NLists
            THEN LET l == b - 1
                 IN  [kind |-> "jump", frozen_first |-> base(l),
                      appendable_first |-> base(l) + 1,
                      directory_first |-> base(l) + 2, tuples |-> 0]
            ELSE LET l == 1 + ((b - 2 - NLists) \div 3)
                     k == (b - 2 - NLists) % 3
                 IN  IF l > NLists THEN Zero
                     ELSE IF k = 0 THEN TapePage("frozen", NIL, b, <<>>)
                     ELSE IF k = 1 THEN TapePage("appendable", NIL, b, <<>>)
                     ELSE TapePage("directory", NIL, b, <<base(l)>>)
    IN  [b \in Blocks |-> image(b)]

-----------------------------------------------------------------------------
(* Locks and the log.                                                      *)

Unlocked(b) == xlock[b] = NoProc
WriteLockable(b) == xlock[b] = NoProc /\ readers[b] = {}
ReadLock(p, b) == Unlocked(b) /\ readers' = [readers EXCEPT ![b] = @ \cup {p}]
ReadUnlock(p, b) == readers' = [readers EXCEPT ![b] = @ \ {p}]
WriteLock(p, b) == WriteLockable(b) /\ xlock' = [xlock EXCEPT ![b] = p]
WriteUnlock(b) == xlock' = [xlock EXCEPT ![b] = NoProc]

\* Dropping a write guard: the new page image becomes visible and is logged.
Image(b, c) == <<[at |-> b, to |-> c]>>
WriteAll(images) ==
    /\ block' = [b \in Blocks |->
                    LET at == {i \in DOMAIN images : images[i].at = b}
                    IN  IF at = {} THEN block[b] ELSE images[Max(at)].to]
    /\ wal' = IF spent.crashes < MaxCrashes THEN wal \o images ELSE wal
Write(b, c) == WriteAll(Image(b, c))

\* What redo rebuilds from the last flush and the first n records after it.
Replay(n) ==
    [b \in Blocks |->
        LET at == {i \in 1 .. n : wal[i].at = b}
        IN  IF at = {} THEN stable[b] ELSE wal[Max(at)].to]

\* A commit forces the log to disk up to its own record.
Flush == stable' = Replay(Len(wal)) /\ wal' = <<>>

Goto(p, pc) == st' = [st EXCEPT ![p].pc = pc]

-----------------------------------------------------------------------------
IdleInserter ==
    [pc |-> "idle", list |-> 1, payload |-> Null, cur |-> NIL, first |-> NIL, ext |-> NIL]
IdleSearcher ==
    [pc |-> "idle", list |-> 1, todo |-> <<>>, cur |-> NIL, found |-> <<>>, snapshot |-> {}]
IdleMaintainer ==
    [pc |-> "idle", list |-> 0, todo |-> <<>>, cur |-> NIL, dead |-> {}, live |-> 0,
     before |-> {}, pages |-> <<>>, fresh |-> <<>>, trace |-> <<>>, branches |-> <<>>]
Idle(p) ==
    IF p \in Inserters THEN IdleInserter
    ELSE IF p \in Searchers THEN IdleSearcher ELSE IdleMaintainer

Init ==
    /\ scope \in Scopes
    /\ block = InitBlock
    /\ nblocks = 2 + 4 * NLists
    /\ stable = InitBlock
    /\ wal = <<>>
    /\ readers = [b \in Blocks |-> {}]
    /\ xlock = [b \in Blocks |-> NoProc]
    /\ heap = [x \in Payloads |-> "absent"]
    /\ st = [p \in Procs |-> Idle(p)]
    /\ spent = [inserts |-> 0, vacuums |-> 0, crashes |-> 0]

-----------------------------------------------------------------------------
(* freepages::alloc and extend, for an inserter that holds the last page   *)
(* of a tape and for a maintainer that gathers pages for new tapes.        *)

Obtained(p, b) ==
    IF p \in Inserters THEN [st[p] EXCEPT !.ext = b, !.pc = "link"]
    ELSE [st[p] EXCEPT !.fresh = Append(@, b), !.pc = "gather"]

AllocHead(p) ==
    /\ st[p].pc = "alloc"
    /\ WriteLockable(Freepages)
    /\ IF block[Freepages].first = NIL
       THEN Goto(p, "extend") /\ UNCHANGED xlock
       ELSE Goto(p, "take") /\ WriteLock(p, Freepages)
    /\ UNCHANGED <<block, nblocks, stable, wal, readers, heap, spent>>

\* Mutant: the head of the free list is not advanced past the page handed out.
AllocTakeKeepHead(p) ==
    LET id == block[Freepages].first
    IN  /\ st[p].pc = "take"
        /\ WriteLockable(id)
        /\ xlock' = [xlock EXCEPT ![id] = p, ![Freepages] = NoProc]
        /\ st' = [st EXCEPT ![p] = Obtained(p, id)]
        /\ UNCHANGED <<block, nblocks, stable, wal, readers, heap, spent>>

\* Mutant: the new head of the free list is not logged.
AllocTakeUnlogged(p) ==
    LET id == block[Freepages].first
    IN  /\ st[p].pc = "take"
        /\ WriteLockable(id)
        /\ block' = [block EXCEPT ![Freepages].first = block[id].next]
        /\ xlock' = [xlock EXCEPT ![id] = p, ![Freepages] = NoProc]
        /\ st' = [st EXCEPT ![p] = Obtained(p, id)]
        /\ UNCHANGED <<nblocks, stable, wal, readers, heap, spent>>

AllocTake(p) ==
    LET id == block[Freepages].first
    IN  /\ st[p].pc = "take"
        /\ WriteLockable(id)
        /\ Write(Freepages, [block[Freepages] EXCEPT !.first = block[id].next])
        /\ xlock' = [xlock EXCEPT ![id] = p, ![Freepages] = NoProc]
        /\ st' = [st EXCEPT ![p] = Obtained(p, id)]
        /\ UNCHANGED <<nblocks, stable, readers, heap, spent>>

Extend(p) ==
    /\ st[p].pc = "extend"
    /\ nblocks < MaxBlocks
    /\ nblocks' = nblocks + 1
    /\ WriteLock(p, nblocks)
    /\ st' = [st EXCEPT ![p] = Obtained(p, nblocks)]
    /\ UNCHANGED <<block, stable, wal, readers, heap, spent>>

-----------------------------------------------------------------------------
(* insert and tape::append.                                                *)

\* The shared lock of the jump page is held until append has returned.  In a build the
\* inserts end before the lists are rebuilt (ParallelBuild), and do not look at the
\* free list.
InsertBegin(p, x, l) ==
    /\ st[p].pc = "idle"
    /\ building => spent.vacuums = 0
    /\ spent.inserts < MaxInserts
    /\ heap[x] \in {"absent", "gone"}
    /\ ReadLock(p, Jump(l))
    /\ LET first == block[Jump(l)].appendable_first
       IN  st' = [st EXCEPT ![p] = [pc |-> "probe", list |-> l, payload |-> x,
                                    cur |-> first, first |-> first, ext |-> NIL]]
    /\ heap' = [heap EXCEPT ![x] = "inserting"]
    /\ spent' = [spent EXCEPT !.inserts = @ + 1]
    /\ UNCHANGED <<block, nblocks, stable, wal, xlock>>

\* From the first page append jumps to the page its skip field names.
Follow(me) ==
    LET pg == block[me.cur]
    IN  IF me.cur = me.first /\ pg.skip # me.first THEN pg.skip ELSE pg.next

HasRoom(b) == Len(block[b].tuples) < AppendableCap

Probe(p) ==
    LET me == st[p]
    IN  /\ me.pc = "probe"
        /\ Unlocked(me.cur)
        /\ IF HasRoom(me.cur) \/ block[me.cur].next = NIL
           THEN Goto(p, "latch")
           ELSE st' = [st EXCEPT ![p].cur = Follow(me)]
        /\ UNCHANGED <<block, nblocks, stable, wal, readers, xlock, heap, spent>>

\* Mutant: the page is changed and not logged.
PutTupleUnlogged(p) ==
    LET me == st[p]
    IN  /\ block' = [block EXCEPT ![me.cur].tuples = Append(@, me.payload)]
        /\ Goto(p, "return")
        /\ ReadUnlock(p, Jump(me.list))
        /\ UNCHANGED <<wal, xlock>>

PutTuple(p) ==
    LET me == st[p]
    IN  /\ Write(me.cur, [block[me.cur] EXCEPT !.tuples = Append(@, me.payload)])
        /\ Goto(p, "return")
        /\ ReadUnlock(p, Jump(me.list))
        /\ UNCHANGED xlock

KeepTail(p) ==
    /\ WriteLock(p, st[p].cur)
    /\ Goto(p, IF building THEN "extend" ELSE "alloc")
    /\ UNCHANGED <<block, wal, readers>>

\* Mutant: the page found to be the last one is not looked at again under the
\* exclusive lock.
LatchUnchecked(p) ==
    /\ st[p].pc = "latch"
    /\ WriteLockable(st[p].cur)
    /\ IF HasRoom(st[p].cur) THEN PutTuple(p) ELSE KeepTail(p)
    /\ UNCHANGED <<nblocks, stable, heap, spent>>

Latch(p) ==
    LET me == st[p]
    IN  /\ me.pc = "latch"
        /\ WriteLockable(me.cur)
        /\ \/ /\ block[me.cur].next # NIL
              /\ st' = [st EXCEPT ![p].cur = Follow(me), ![p].pc = "probe"]
              /\ UNCHANGED <<block, wal, readers, xlock>>
           \/ block[me.cur].next = NIL /\ HasRoom(me.cur) /\ PutTuple(p)
           \/ block[me.cur].next = NIL /\ ~HasRoom(me.cur) /\ KeepTail(p)
        /\ UNCHANGED <<nblocks, stable, heap, spent>>

\* The old last page is written, logged and released before the new one.
Link(p) ==
    LET me == st[p]
    IN  /\ me.pc = "link"
        /\ Write(me.cur, [block[me.cur] EXCEPT !.next = me.ext])
        /\ WriteUnlock(me.cur)
        /\ Goto(p, "fill")
        /\ UNCHANGED <<nblocks, stable, readers, heap, spent>>

Fill(p) ==
    LET me == st[p]
    IN  /\ me.pc = "fill"
        /\ Write(me.ext, TapePage("appendable", NIL, NIL, <<me.payload>>))
        /\ WriteUnlock(me.ext)
        /\ Goto(p, "skip")
        /\ UNCHANGED <<nblocks, stable, readers, heap, spent>>

Skip(p) ==
    LET me == st[p]
    IN  /\ me.pc = "skip"
        /\ WriteLockable(me.first)
        /\ Write(me.first, [block[me.first] EXCEPT !.skip = Max({me.ext, @})])
        /\ ReadUnlock(p, Jump(me.list))
        /\ Goto(p, "return")
        /\ UNCHANGED <<nblocks, stable, xlock, heap, spent>>

\* The transaction of the insert ends.
Commit(p) ==
    /\ st[p].pc = "return"
    /\ heap' = [heap EXCEPT ![st[p].payload] = "live"]
    /\ st' = [st EXCEPT ![p] = IdleInserter]
    /\ Flush
    /\ UNCHANGED <<block, nblocks, readers, xlock, spent>>

Abort(p) ==
    /\ st[p].pc = "return"
    /\ heap' = [heap EXCEPT ![st[p].payload] = "dead"]
    /\ st' = [st EXCEPT ![p] = IdleInserter]
    /\ UNCHANGED <<block, nblocks, stable, wal, readers, xlock, spent>>

\* DELETE of a row; its index entries stay until a vacuum.
Delete(x) ==
    /\ heap[x] = "live"
    /\ heap' = [heap EXCEPT ![x] = "dead"]
    /\ UNCHANGED <<block, nblocks, stable, wal, readers, xlock, st, spent>>

InsertStep(p) ==
    \/ AllocHead(p) \/ AllocTake(p) \/ Extend(p)
    \/ Probe(p) \/ Latch(p) \/ Link(p) \/ Fill(p) \/ Skip(p)
    \/ Commit(p) \/ Abort(p)

-----------------------------------------------------------------------------
(* default_search, over every list.                                        *)

LiveRows == {x \in Payloads : heap[x] = "live"}

SearchBegin(p) ==
    /\ ~building /\ st[p].pc = "idle"
    /\ st' = [st EXCEPT ![p] = [IdleSearcher EXCEPT !.pc = "enter",
                                   !.snapshot = LiveRows]]
    /\ UNCHANGED <<block, nblocks, stable, wal, readers, xlock, heap, spent>>

\* Mutant: the jump page is released as soon as it has been read.
SearchEnterUnguarded(p) ==
    LET l == st[p].list
    IN  /\ st[p].pc = "enter"
        /\ Unlocked(Jump(l))
        /\ \E pages \in {read_directory_tape(l), FrozenPages(l)} :
              st' = [st EXCEPT ![p].pc = "read", ![p].todo = pages,
                               ![p].cur = block[Jump(l)].appendable_first]
        /\ UNCHANGED <<block, nblocks, stable, wal, readers, xlock, heap, spent>>

\* The frozen pages come from the directory or from following next.
SearchEnter(p) ==
    LET l == st[p].list
    IN  /\ st[p].pc = "enter"
        /\ ReadLock(p, Jump(l))
        /\ \E pages \in {read_directory_tape(l), FrozenPages(l)} :
              st' = [st EXCEPT ![p].pc = "read", ![p].todo = pages,
                               ![p].cur = block[Jump(l)].appendable_first]
        /\ UNCHANGED <<block, nblocks, stable, wal, xlock, heap, spent>>

At(me) == IF me.todo # <<>> THEN Head(me.todo) ELSE me.cur
Advance(me) ==
    IF me.todo # <<>> THEN [me EXCEPT !.todo = Tail(@)]
    ELSE [me EXCEPT !.cur = block[@].next]

SearchPage(p) ==
    LET me == st[p]
    IN  /\ me.pc = "read"
        /\ At(me) # NIL
        /\ Unlocked(At(me))
        /\ st' = [st EXCEPT ![p] =
                    [Advance(me) EXCEPT
                        !.found = @ \o SelectSeq(block[At(me)].tuples, IsSome)]]
        /\ UNCHANGED <<block, nblocks, stable, wal, readers, xlock, heap, spent>>

SearchLeave(p) ==
    LET me == st[p]
    IN  /\ me.pc = "read"
        /\ At(me) = NIL
        /\ ReadUnlock(p, Jump(me.list))
        /\ st' = [st EXCEPT ![p] = IF me.list < NLists
                                   THEN [me EXCEPT !.pc = "enter", !.list = @ + 1]
                                   ELSE [me EXCEPT !.pc = "found"]]
        /\ UNCHANGED <<block, nblocks, stable, wal, xlock, heap, spent>>

SearchEnd(p) ==
    /\ st[p].pc = "found"
    /\ st' = [st EXCEPT ![p] = IdleSearcher]
    /\ UNCHANGED <<block, nblocks, stable, wal, readers, xlock, heap, spent>>

SearchStep(p) == SearchEnter(p) \/ SearchPage(p) \/ SearchLeave(p) \/ SearchEnd(p)

-----------------------------------------------------------------------------
(* bulkdelete, over every list.                                            *)

\* A row is removable when no running scan's snapshot still sees it.
Removable ==
    {x \in Payloads : heap[x] = "dead" /\ \A s \in Searchers : x \notin st[s].snapshot}

\* (`before` only remembers, for CountCovers, which rows were live at the start.)
VacuumBegin(p) ==
    /\ ~building /\ st[p].pc = "idle"
    /\ spent.vacuums < MaxVacuums
    /\ st' = [st EXCEPT ![p] = IF Removable = {}
                               THEN [IdleMaintainer EXCEPT !.pc = "choose"]
                               ELSE [IdleMaintainer EXCEPT !.pc = "bd_enter", !.list = 1,
                                                           !.dead = Removable,
                                                           !.before = LiveRows]]
    /\ spent' = [spent EXCEPT !.vacuums = @ + 1]
    /\ UNCHANGED <<block, nblocks, stable, wal, readers, xlock, heap>>

\* Mutant: only the frozen pages are visited.
BulkdeleteEnterFrozen(p) ==
    LET l == st[p].list
    IN  /\ st[p].pc = "bd_enter"
        /\ ReadLock(p, Jump(l))
        /\ st' = [st EXCEPT ![p].pc = "bd_scan", ![p].todo = read_directory_tape(l),
                            ![p].cur = NIL]
        /\ UNCHANGED <<block, nblocks, stable, wal, xlock, heap, spent>>

BulkdeleteEnter(p) ==
    LET l == st[p].list
    IN  /\ st[p].pc = "bd_enter"
        /\ ReadLock(p, Jump(l))
        /\ st' = [st EXCEPT ![p].pc = "bd_scan", ![p].todo = read_directory_tape(l),
                            ![p].cur = block[Jump(l)].appendable_first]
        /\ UNCHANGED <<block, nblocks, stable, wal, xlock, heap, spent>>

\* A page is first scanned under the shared lock; when something on it is dead it is
\* locked again exclusively and scanned a second time.
BulkdeleteScan(p) ==
    LET me == st[p]
        s == block[At(me)].tuples
    IN  /\ me.pc = "bd_scan"
        /\ At(me) # NIL
        /\ Unlocked(At(me))
        /\ st' = [st EXCEPT ![p] =
                    IF \E i \in DOMAIN s : s[i] \in me.dead
                    THEN [me EXCEPT !.pc = "bd_write"]
                    ELSE [Advance(me) EXCEPT !.live = @ + Len(SelectSeq(s, IsSome))]]
        /\ UNCHANGED <<block, nblocks, stable, wal, readers, xlock, heap, spent>>

\* Mutant: live payloads on a page that is scanned twice are not counted.
BulkdeleteWriteUncounted(p) ==
    LET me == st[p]
        s == block[At(me)].tuples
        cleared == [i \in DOMAIN s |-> IF s[i] \in me.dead THEN Null ELSE s[i]]
    IN  /\ me.pc = "bd_write"
        /\ WriteLockable(At(me))
        /\ Write(At(me), [block[At(me)] EXCEPT !.tuples = cleared])
        /\ st' = [st EXCEPT ![p] = [Advance(me) EXCEPT !.pc = "bd_scan"]]
        /\ UNCHANGED <<nblocks, stable, readers, xlock, heap, spent>>

BulkdeleteWrite(p) ==
    LET me == st[p]
        s == block[At(me)].tuples
        cleared == [i \in DOMAIN s |-> IF s[i] \in me.dead THEN Null ELSE s[i]]
    IN  /\ me.pc = "bd_write"
        /\ WriteLockable(At(me))
        /\ Write(At(me), [block[At(me)] EXCEPT !.tuples = cleared])
        /\ st' = [st EXCEPT ![p] = [Advance(me) EXCEPT
                    !.pc = "bd_scan", !.live = @ + Len(SelectSeq(cleared, IsSome))]]
        /\ UNCHANGED <<nblocks, stable, readers, xlock, heap, spent>>

BulkdeleteLeave(p) ==
    LET me == st[p]
    IN  /\ me.pc = "bd_scan"
        /\ At(me) = NIL
        /\ ReadUnlock(p, Jump(me.list))
        /\ st' = [st EXCEPT ![p] = IF me.list < NLists
                                   THEN [me EXCEPT !.pc = "bd_enter", !.list = @ + 1]
                                   ELSE [me EXCEPT !.pc = "bd_store"]]
        /\ UNCHANGED <<block, nblocks, stable, wal, xlock, heap, spent>>

\* ambulkdelete stores the count; then VACUUM lets the heap rows be reused.  The log
\* record of the latter follows those of the index: where it survives, they do.
BulkdeleteStore(p) ==
    LET me == st[p]
    IN  /\ me.pc = "bd_store"
        /\ block' = [block EXCEPT ![Meta].indexed_vectors = me.live]
        /\ stable' = [Replay(Len(wal)) EXCEPT ![Meta].indexed_vectors = me.live]
        /\ wal' = <<>>
        /\ heap' = [x \in Payloads |-> IF x \in me.dead THEN "gone" ELSE heap[x]]
        /\ st' = [st EXCEPT ![p] = [IdleMaintainer EXCEPT !.pc = "choose"]]
        /\ UNCHANGED <<nblocks, readers, xlock, spent>>

-----------------------------------------------------------------------------
(* maintain.                                                               *)

BuilderBegin(p) ==
    /\ building /\ \A i \in Inserters : st[i].pc = "idle"
    /\ st[p].pc = "idle"
    /\ spent.vacuums < MaxVacuums
    /\ Goto(p, "choose")
    /\ spent' = [spent EXCEPT !.vacuums = @ + 1]
    /\ UNCHANGED <<block, nblocks, stable, wal, readers, xlock, heap>>

Later(p) == {l \in Choice[p] \cap Lists : l > st[p].list}

\* Mutant: the jump page is taken without waiting for those who are on the list.
MaintainEnterShared(p) ==
    LET l == Min(Later(p))
    IN  /\ st[p].pc = "choose"
        /\ Later(p) # {}
        /\ Unlocked(Jump(l))
        /\ xlock' = [xlock EXCEPT ![Jump(l)] = p]
        /\ st' = [st EXCEPT ![p] =
             [@ EXCEPT !.pc = "gather", !.list = l, !.fresh = <<>>,
                !.trace = DirectoryPages(l) \o read_directory_tape(l) \o AppendablePages(l),
                !.branches = SelectSeq(Contents(read_directory_tape(l)
                                                  \o AppendablePages(l)), IsSome)]]
        /\ UNCHANGED <<block, nblocks, stable, wal, readers, heap, spent>>

\* The next chosen list is locked exclusively and read.
MaintainEnter(p) ==
    LET l == Min(Later(p))
    IN  /\ st[p].pc = "choose"
        /\ Later(p) # {}
        /\ WriteLock(p, Jump(l))
        /\ st' = [st EXCEPT ![p] =
             [@ EXCEPT !.pc = "gather", !.list = l, !.fresh = <<>>,
                !.trace = DirectoryPages(l) \o read_directory_tape(l) \o AppendablePages(l),
                !.branches = SelectSeq(Contents(read_directory_tape(l)
                                                  \o AppendablePages(l)), IsSome)]]
        /\ UNCHANGED <<block, nblocks, stable, wal, readers, heap, spent>>

\* Whole groups go to the frozen tape, the rest to the appendable tape.
Frozen(me) == SubSeq(me.branches, 1, GroupSize * (Len(me.branches) \div GroupSize))
\* Mutant: what does not fill a group is dropped.
RestDropped(me) == <<>>
Rest(me) == SubSeq(me.branches, Len(Frozen(me)) + 1, Len(me.branches))
NFrozen(me) == Pages(Len(Frozen(me)), GroupSize * FrozenGroups)
NAppendable(me) == Pages(Len(Rest(me)), AppendableCap)
NDirectory(me) == Pages(NFrozen(me), DirectoryCap)
Needed(me) == NFrozen(me) + NAppendable(me) + NDirectory(me)

\* RelationHooked: a page comes from the tapes replaced before, or else from the free
\* list, or else from the end of the relation.
Gather(p) ==
    LET me == st[p]
    IN  /\ me.pc = "gather"
        /\ Len(me.fresh) < Needed(me)
        /\ IF me.pages # <<>>
           THEN /\ WriteLock(p, Last(me.pages))
                /\ st' = [st EXCEPT ![p].pages = Front(@),
                                    ![p].fresh = Append(@, Last(me.pages))]
           ELSE Goto(p, "alloc") /\ UNCHANGED xlock
        /\ UNCHANGED <<block, nblocks, stable, wal, readers, heap, spent>>

NewTapes(me) ==
    LET f == NFrozen(me)
        a == NAppendable(me)
        frozen == SubSeq(me.fresh, 1, f)
        appendable == SubSeq(me.fresh, f + 1, f + a)
        directory == SubSeq(me.fresh, f + a + 1, Len(me.fresh))
    IN  [images |-> TapeImages("frozen", frozen, Frozen(me), GroupSize * FrozenGroups)
                      \o TapeImages("appendable", appendable, Rest(me), AppendableCap)
                      \o TapeImages("directory", directory, frozen, DirectoryCap),
         jump |-> [kind |-> "jump", frozen_first |-> frozen[1],
                   appendable_first |-> appendable[1],
                   directory_first |-> directory[1], tuples |-> Len(me.branches)]]

\* Mutant: the new tapes are reachable before they are written.
PublishJumpFirst(p) ==
    LET me == st[p]
        new == NewTapes(me)
    IN  /\ me.pc = "gather"
        /\ Len(me.fresh) = Needed(me)
        /\ WriteAll(Image(Jump(me.list), new.jump) \o new.images)
        /\ xlock' = [b \in Blocks |-> IF xlock[b] = p THEN NoProc ELSE xlock[b]]
        /\ st' = [st EXCEPT ![p] = [@ EXCEPT !.pc = "choose", !.pages = @ \o me.trace,
                                             !.fresh = <<>>, !.trace = <<>>,
                                             !.branches = <<>>]]
        /\ UNCHANGED <<nblocks, stable, readers, heap, spent>>

\* The new tapes are written under their own locks, which nobody else wants, then the
\* jump page is switched over and released; the old pages become spare.
Publish(p) ==
    LET me == st[p]
        new == NewTapes(me)
    IN  /\ me.pc = "gather"
        /\ Len(me.fresh) = Needed(me)
        /\ WriteAll(new.images \o Image(Jump(me.list), new.jump))
        /\ xlock' = [b \in Blocks |-> IF xlock[b] = p THEN NoProc ELSE xlock[b]]
        /\ st' = [st EXCEPT ![p] = [@ EXCEPT !.pc = "choose", !.pages = @ \o me.trace,
                                             !.fresh = <<>>, !.trace = <<>>,
                                             !.branches = <<>>]]
        /\ UNCHANGED <<nblocks, stable, readers, heap, spent>>

MaintainDone(p) ==
    /\ st[p].pc = "choose"
    /\ Later(p) = {}
    /\ Goto(p, "free")
    /\ UNCHANGED <<block, nblocks, stable, wal, readers, xlock, heap, spent>>

\* freepages::free, for every spare page in turn.
FreePage(p) ==
    /\ st[p].pc = "free"
    /\ IF st[p].pages = <<>>
       THEN st' = [st EXCEPT ![p] = IdleMaintainer] /\ UNCHANGED xlock
       ELSE WriteLock(p, Head(st[p].pages)) /\ Goto(p, "free_next")
    /\ UNCHANGED <<block, nblocks, stable, wal, readers, heap, spent>>

FreeNext(p) ==
    LET id == Head(st[p].pages)
    IN  /\ st[p].pc = "free_next"
        /\ WriteLockable(Freepages)
        /\ Write(id, [block[id] EXCEPT !.next = block[Freepages].first])
        /\ xlock' = [xlock EXCEPT ![id] = NoProc, ![Freepages] = p]
        /\ Goto(p, "free_first")
        /\ UNCHANGED <<nblocks, stable, readers, heap, spent>>

FreeFirst(p) ==
    LET id == Head(st[p].pages)
    IN  /\ st[p].pc = "free_first"
        /\ Write(Freepages, [block[Freepages] EXCEPT !.first = id])
        /\ WriteUnlock(Freepages)
        /\ st' = [st EXCEPT ![p].pc = "free", ![p].pages = Tail(@)]
        /\ UNCHANGED <<nblocks, stable, readers, heap, spent>>

\* check() raises: guards are dropped without logging, spare pages are forgotten.
Cancel(p) ==
    /\ st[p].pc \in {"bd_scan", "gather"}
    /\ xlock' = [b \in Blocks |-> IF xlock[b] = p THEN NoProc ELSE xlock[b]]
    /\ readers' = [b \in Blocks |-> readers[b] \ {p}]
    /\ st' = [st EXCEPT ![p] = IdleMaintainer]
    /\ UNCHANGED <<block, nblocks, stable, wal, heap, spent>>

BulkdeleteStep(p) ==
    \/ BulkdeleteEnter(p) \/ BulkdeleteScan(p) \/ BulkdeleteWrite(p)
    \/ BulkdeleteLeave(p) \/ BulkdeleteStore(p)
MaintainStep(p) ==
    \/ AllocHead(p) \/ AllocTake(p) \/ Extend(p)
    \/ MaintainEnter(p) \/ Gather(p) \/ Publish(p) \/ MaintainDone(p)
    \/ FreePage(p) \/ FreeNext(p) \/ FreeFirst(p)

-----------------------------------------------------------------------------
(* The server crashes and recovers.                                        *)

Crash ==
    /\ spent.crashes < MaxCrashes
    /\ \E n \in 0 .. Len(wal) :
          /\ block' = Replay(n)
          /\ stable' = Replay(n)
    /\ wal' = <<>>
    /\ readers' = [b \in Blocks |-> {}]
    /\ xlock' = [b \in Blocks |-> NoProc]
    /\ heap' = [x \in Payloads |-> IF heap[x] = "inserting" THEN "dead" ELSE heap[x]]
    /\ st' = [p \in Procs |-> Idle(p)]
    /\ spent' = [spent EXCEPT !.crashes = @ + 1]
    /\ UNCHANGED nblocks

\* Everyone has returned.
Terminated ==
    /\ \A p \in Procs : st[p].pc = "idle"
    /\ UNCHANGED vars

Next ==
    /\ \/ \E p \in Inserters :
             \/ InsertStep(p)
             \/ \E x \in Payloads, l \in Lists : InsertBegin(p, x, l)
       \/ \E p \in Searchers : SearchBegin(p) \/ SearchStep(p)
       \/ \E p \in Vacuums :
             VacuumBegin(p) \/ BulkdeleteStep(p) \/ MaintainStep(p) \/ Cancel(p)
       \/ \E p \in Builders : BuilderBegin(p) \/ MaintainStep(p)
       \/ \E x \in Payloads : Delete(x)
       \/ Crash
       \/ Terminated
    /\ UNCHANGED scope

Spec == Init /\ [][Next]_vars

-----------------------------------------------------------------------------
(* Properties.                                                             *)

\* Every variable has its type; locks are exclusive.
TypeOK ==
    /\ DOMAIN block = Blocks /\ DOMAIN stable = Blocks
    /\ nblocks \in 0 .. MaxBlocks
    /\ readers \in [Blocks -> SUBSET Procs]
    /\ xlock \in [Blocks -> Procs \cup {NoProc}]
    /\ \A b \in Blocks : readers[b] # {} => xlock[b] = NoProc
    /\ heap \in [Payloads -> {"absent", "inserting", "live", "dead", "gone"}]
    /\ DOMAIN st = Procs

ProcSeq == SetToSeq(Procs)

\* The pages a process has taken or still has to give back.
HeldPages(p) ==
    IF p \in Inserters THEN IF st[p].pc = "link" THEN <<st[p].ext>> ELSE <<>>
    ELSE IF p \in Searchers THEN <<>> ELSE st[p].fresh \o st[p].pages

\* A page has one owner: it is on one tape of one list, or on the free list, or held by
\* one process that takes it or gives it back, and on each of them once.  (The tape
\* walks of append, maintain, alloc and free rely on it; a page with two owners is
\* overwritten by one of them.)
OwnedOnce ==
    LET owned == FlattenSeq([l \in Lists |-> ListPages(l)])
                   \o by_next(block[Freepages].first)
                   \o FlattenSeq([i \in DOMAIN ProcSeq |-> HeldPages(ProcSeq[i])])
    IN  IsInjective(owned)

\* A committed row is in exactly one place of the lists at every moment, whatever
\* append, maintain and bulkdelete are doing, and after a crash.
CommittedReachable ==
    LET all == FlattenSeq([l \in Lists |-> Stored(l)])
    IN  \A x \in Payloads : heap[x] = "live" => Cardinality({i \in DOMAIN all : all[i] = x}) = 1

\* Once VACUUM lets a heap row be reused, no list still holds a pointer to it
\* (ambulkdelete covers the payloads maintain moves and append adds meanwhile).
VacuumedGone ==
    \A x \in Payloads : heap[x] = "gone" => \A l \in Lists : x \notin Range(Stored(l))

\* A scan returns every row of its snapshot once, through the directory or the next
\* pointers, although inserts, a vacuum and a rebuild of the list run meanwhile.
SearchExact ==
    \A p \in Searchers :
        st[p].pc = "found" =>
            \A x \in st[p].snapshot :
                Cardinality({i \in DOMAIN st[p].found : st[p].found[i] = x}) = 1

\* The skip field of an appendable tape names a page of that tape, and the directory
\* names the pages of the frozen tape in their order.
ShortcutsAgree ==
    \A l \in Lists :
        /\ block[block[Jump(l)].appendable_first].skip \in Range(AppendablePages(l))
        /\ read_directory_tape(l) = FrozenPages(l)

\* Pages reachable from a list have been initialised as a page of their tape (the
\* assertion of storage.rs:69 on every page that is read).
ReachableInitialised ==
    \A l \in Lists :
        /\ \A b \in Range(FrozenPages(l)) : View(b).kind = "frozen"
        /\ \A b \in Range(AppendablePages(l)) : View(b).kind = "appendable"
        /\ \A b \in Range(DirectoryPages(l)) : View(b).kind = "directory"

\* The structure of the pages survives a crash: a page has one owner, and those that a
\* list reaches have been initialised.
PagesIntact == OwnedOnce /\ ReachableInitialised

\* The count that bulkdelete stores covers every row that is live all the time: at its
\* end it is no less than the rows that were live when it began and still are, and no
\* more than the rows it could have met.
CountCovers ==
    \A p \in Vacuums :
        st[p].pc = "bd_store" =>
            /\ st[p].live >= Cardinality(LiveRows \cap st[p].before)
            /\ st[p].live <= Cardinality({x \in Payloads \ st[p].dead :
                                            heap[x] \notin {"absent", "gone"}})
=============================================================================
