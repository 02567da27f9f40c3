--------------------------- MODULE ParallelBuild ---------------------------
(***************************************************************************)
(* The parallel CREATE INDEX of the vchordrq access method                 *)
(* (src/src/index/vchordrq/am/am_build.rs).  A leader and the launched     *)
(* parallel workers all run parallel_build: they pass barrier 0, share one *)
(* parallel heap scan and insert, pass barrier 1, compact the lists that   *)
(* fall to them, and pass barrier 2.  The counters and flags of            *)
(* VchordrqShared are read and written in spinlock sections, one action    *)
(* each; the condition variables are PostgreSQL's: the first call of       *)
(* ConditionVariableSleep only queues the caller, who tests again before   *)
(* it really sleeps.                                                       *)
(*                                                                         *)
(* A participant's stage is the number of barriers it has left.  A worker  *)
(* that raises an error stops; PostgreSQL hands the error to the leader at *)
(* its next interrupt check, and the leader's abort ends the whole build.  *)
(***************************************************************************)
EXTENDS Integers, FiniteSets

CONSTANTS
  Workers,      \* the parallel workers PostgreSQL launched
  Leader,       \* the backend that runs ambuild
  Tuples,       \* the heap tuples the parallel scan returns
  StoreLen,     \* StoreLen[t]: how many vectors opfamily.store makes of t
  NLists        \* number of leaf lists of the index

ASSUME WorkersAssumption == IsFiniteSet(Workers) /\ Leader \notin Workers
ASSUME StoreLenAssumption == StoreLen \in [Tuples -> Nat]
ASSUME NListsAssumption == NLists \in Nat

VARIABLES
  stage,            \* barriers left by each participant
  pc,               \* where it is within its stage
  order,            \* the result of sync_0
  tuple,            \* the heap tuple being inserted
  seen,             \* the value of indexed_vectors read before sync_1
  queued,           \* participants in the wait list of the condition variable they use
  barrier_enter,    \* VchordrqShared.barrier_enter_{0,1,2}
  barrier_leave,    \* the k whose flag VchordrqShared.barrier_leave_k is set
  nparticipants,    \* VchordrqShared.nparticipants
  indexed_vectors,  \* VchordrqShared.indexed_vectors
  unscanned,        \* tuples the parallel scan has not handed out
  inserted,         \* vectors that are in the index
  compacted,        \* compacted[l]: the participants that compacted list l
  stored,           \* the statistic in the metapage (set_indexed_vectors)
  failed,           \* workers that raised an error
  aborted           \* the leader's transaction aborted

barriers == <<barrier_enter, barrier_leave, nparticipants>>
counts == <<indexed_vectors, unscanned, inserted, stored>>
vars == <<stage, pc, order, tuple, seen, queued, barrier_enter, barrier_leave, nparticipants,
          indexed_vectors, unscanned, inserted, compacted, stored, failed, aborted>>

Participants == Workers \cup {Leader}
\* leader.nparticipants: the launched workers and the leader itself.
Total == Cardinality(Workers) + 1
Lists == 0 .. NLists - 1

\* The participant is between its increment of barrier_enter and its way out of the barrier.
Inside == {"announce", "test", "sleep", "release", "wake"}
Entered(k) == {p \in Participants : stage[p] > k \/ (stage[p] = k /\ pc[p] \in Inside)}

Init ==
  /\ stage = [p \in Participants |-> 0]
  /\ pc = [p \in Participants |-> "attach"]
  /\ order = [p \in Participants |-> 0]
  /\ tuple = [p \in Participants |-> {}]
  /\ seen = [p \in Participants |-> 0]
  /\ queued = {}
  /\ barrier_enter = [k \in 0..2 |-> 0]
  /\ barrier_leave = {}
  /\ nparticipants = 0
  /\ indexed_vectors = 0
  /\ unscanned = Tuples
  /\ inserted = 0
  /\ compacted = [l \in Lists |-> {}]
  /\ stored = 0
  /\ failed = {}
  /\ aborted = FALSE

\* p runs and is at the given place.
At(p, place) == pc[p] = place /\ p \notin failed /\ ~aborted
Goto(p, place) == pc' = [pc EXCEPT ![p] = place]

(***************************************************************************)
(* Barriers.  Both kinds of participant run the same enter section and the *)
(* same sleep loop; they wait for different conditions, and only the       *)
(* leader opens the barrier.                                               *)
(***************************************************************************)

\* A worker's main function starts; the leader returns from
\* WaitForParallelWorkersToAttach once every worker has.
Attach(p) ==
  /\ At(p, "attach")
  /\ p = Leader => \A w \in Workers : pc[w] # "attach"
  /\ Goto(p, "enter")
  /\ UNCHANGED <<stage, order, tuple, seen, queued, barriers, counts, compacted, failed, aborted>>

\* Mutant: the order is read back after the increment.
EnterOrderAfterIncrement(p) ==
  LET k == stage[p] IN
  /\ At(p, "enter")
  /\ barrier_enter' = [barrier_enter EXCEPT ![k] = @ + 1]
  /\ order' = IF k = 0 THEN [order EXCEPT ![p] = barrier_enter'[0]] ELSE order
  /\ nparticipants' = IF k = 0 /\ p = Leader THEN Total ELSE nparticipants
  /\ Goto(p, "announce")
  /\ UNCHANGED <<stage, tuple, seen, queued, barrier_leave, counts, compacted, failed, aborted>>

\* Mutant: the leader takes order 0 for granted.
EnterLeaderIsFirst(p) ==
  LET k == stage[p] IN
  /\ At(p, "enter")
  /\ barrier_enter' = [barrier_enter EXCEPT ![k] = @ + 1]
  /\ order' = IF k = 0 /\ p # Leader THEN [order EXCEPT ![p] = barrier_enter[0]] ELSE order
  /\ nparticipants' = IF k = 0 /\ p = Leader THEN Total ELSE nparticipants
  /\ Goto(p, "announce")
  /\ UNCHANGED <<stage, tuple, seen, queued, barrier_leave, counts, compacted, failed, aborted>>

\* The spinlock section that enters the barrier; barrier 0 also hands out the
\* order, and there the leader publishes the number of participants.
Enter(p) ==
  LET k == stage[p] IN
  /\ At(p, "enter")
  /\ barrier_enter' = [barrier_enter EXCEPT ![k] = @ + 1]
  /\ order' = IF k = 0 THEN [order EXCEPT ![p] = barrier_enter[0]] ELSE order
  /\ nparticipants' = IF k = 0 /\ p = Leader THEN Total ELSE nparticipants
  /\ Goto(p, "announce")
  /\ UNCHANGED <<stage, tuple, seen, queued, barrier_leave, counts, compacted, failed, aborted>>

\* ConditionVariableBroadcast(condvar_barrier_enter_k): only the leader waits there.
Announce(p) ==
  /\ At(p, "announce")
  /\ queued' = IF stage[Leader] = stage[p] THEN queued \ {Leader} ELSE queued
  /\ Goto(p, "test")
  /\ UNCHANGED <<stage, order, tuple, seen, barriers, counts, compacted, failed, aborted>>

Open(p, k) == IF p = Leader THEN barrier_enter[k] = Total ELSE k \in barrier_leave

\* What a participant does first once it is out of the barrier.
Work(k) == CASE k = 0 -> "scan" [] k = 1 -> "compact" [] OTHER -> "done"

\* The spinlock section of the wait loop finds the barrier open
\* (ConditionVariableCancelSleep follows).
TestOpen(p) ==
  LET k == stage[p] IN
  /\ At(p, "test")
  /\ Open(p, k)
  /\ queued' = queued \ {p}
  /\ IF p = Leader
     THEN Goto(p, "release") /\ UNCHANGED stage
     ELSE Goto(p, Work(k)) /\ stage' = [stage EXCEPT ![p] = k + 1]
  /\ UNCHANGED <<order, tuple, seen, barriers, counts, compacted, failed, aborted>>

\* It finds it closed and calls ConditionVariableSleep: the first call queues
\* the caller and returns, a later one sleeps.
TestClosed(p) ==
  /\ At(p, "test")
  /\ ~Open(p, stage[p])
  /\ queued' = queued \cup {p}
  /\ Goto(p, IF p \in queued THEN "sleep" ELSE "test")
  /\ UNCHANGED <<stage, order, tuple, seen, barriers, counts, compacted, failed, aborted>>

\* A sleeper that a broadcast took off the wait list queues again and returns.
Wakeup(p) ==
  /\ At(p, "sleep")
  /\ p \notin queued
  /\ queued' = queued \cup {p}
  /\ Goto(p, "test")
  /\ UNCHANGED <<stage, order, tuple, seen, barriers, counts, compacted, failed, aborted>>

\* The leader opens the barrier for the workers ...
Release ==
  /\ At(Leader, "release")
  /\ barrier_leave' = barrier_leave \cup {stage[Leader]}
  /\ Goto(Leader, "wake")
  /\ UNCHANGED <<stage, order, tuple, seen, queued, barrier_enter, nparticipants, counts, compacted,
                 failed, aborted>>

\* Mutant: the leader moves on without the broadcast.
WakeNobody ==
  LET k == stage[Leader] IN
  /\ At(Leader, "wake")
  /\ stage' = [stage EXCEPT ![Leader] = k + 1]
  /\ Goto(Leader, Work(k))
  /\ UNCHANGED <<queued, order, tuple, seen, barriers, counts, compacted, failed, aborted>>

\* ... and wakes the workers that wait on condvar_barrier_leave_k.
Wake ==
  LET k == stage[Leader] IN
  /\ At(Leader, "wake")
  /\ queued' = {p \in queued : stage[p] # k}
  /\ stage' = [stage EXCEPT ![Leader] = k + 1]
  /\ Goto(Leader, Work(k))
  /\ UNCHANGED <<order, tuple, seen, barriers, counts, compacted, failed, aborted>>

(***************************************************************************)
(* The work between the barriers.                                          *)
(***************************************************************************)

\* The traverser's callback: the scan hands the tuple to one participant,
\* which inserts all its vectors ...
InsertTuple(p) ==
  /\ At(p, "scan")
  /\ \E t \in unscanned :
       /\ unscanned' = unscanned \ {t}
       /\ tuple' = [tuple EXCEPT ![p] = {t}]
       /\ inserted' = inserted + StoreLen[t]
  /\ Goto(p, "count")
  /\ UNCHANGED <<stage, order, seen, queued, barriers, indexed_vectors, stored, compacted, failed,
                 aborted>>

\* Mutant: the counter counts heap tuples instead of vectors.
CountTupleAsOne(p) ==
  /\ At(p, "count")
  /\ indexed_vectors' = indexed_vectors + Cardinality(tuple[p])
  /\ tuple' = [tuple EXCEPT ![p] = {}]
  /\ Goto(p, "scan")
  /\ UNCHANGED <<stage, order, seen, queued, barriers, unscanned, inserted, stored, compacted,
                 failed, aborted>>

\* ... and then counts them in the shared counter.
CountTuple(p) ==
  /\ At(p, "count")
  /\ \E t \in tuple[p] : indexed_vectors' = indexed_vectors + StoreLen[t]
  /\ tuple' = [tuple EXCEPT ![p] = {}]
  /\ Goto(p, "scan")
  /\ UNCHANGED <<stage, order, seen, queued, barriers, unscanned, inserted, stored, compacted,
                 failed, aborted>>

\* Mutant: a participant compacts its lists at the end of its scan, before sync_1.
CompactBeforeSync(p) ==
  /\ At(p, "scan")
  /\ unscanned = {}
  /\ seen' = [seen EXCEPT ![p] = indexed_vectors]
  /\ compacted' = [l \in Lists |-> IF l % nparticipants = order[p] THEN compacted[l] \cup {p}
                                   ELSE compacted[l]]
  /\ Goto(p, IF p = Leader THEN "store" ELSE "enter")
  /\ UNCHANGED <<stage, order, tuple, queued, barriers, counts, failed, aborted>>

\* The scan is exhausted: the counter is read, outside the spinlock.
ReadCount(p) ==
  /\ At(p, "scan")
  /\ unscanned = {}
  /\ seen' = [seen EXCEPT ![p] = indexed_vectors]
  /\ Goto(p, IF p = Leader THEN "store" ELSE "enter")
  /\ UNCHANGED <<stage, order, tuple, queued, barriers, counts, compacted, failed, aborted>>

\* The leader's sync_1 starts by storing the value it read.
StoreCount ==
  /\ At(Leader, "store")
  /\ stored' = seen[Leader]
  /\ Goto(Leader, "enter")
  /\ UNCHANGED <<stage, order, tuple, seen, queued, barriers, indexed_vectors, unscanned, inserted,
                 compacted, failed, aborted>>

\* ChooseSome { n: nparticipants, k: order }.
choose(p, i) == i % nparticipants = order[p]

\* maintain compacts the chosen lists.
Compact(p) ==
  /\ At(p, "compact")
  /\ compacted' = [l \in Lists |-> IF choose(p, l) THEN compacted[l] \cup {p} ELSE compacted[l]]
  /\ Goto(p, "enter")
  /\ UNCHANGED <<stage, order, tuple, seen, queued, barriers, counts, failed, aborted>>

(***************************************************************************)
(* Failures.                                                               *)
(***************************************************************************)

\* An error in a worker (a cancelled statement, an I/O error, a panic in Rust).
Fail(w) ==
  /\ w \in Workers \ failed
  /\ pc[w] # "done" /\ ~aborted
  /\ failed' = failed \cup {w}
  /\ UNCHANGED <<stage, pc, order, tuple, seen, queued, barriers, counts, compacted, aborted>>

\* The leader meets the worker's error at an interrupt check: while it waits
\* for workers, in the heap scan, in maintain, or asleep.
LeaderAbort ==
  /\ failed # {} /\ ~aborted
  /\ pc[Leader] \in {"attach", "scan", "compact", "sleep"} \/ (pc[Leader] = "done")
  /\ aborted' = TRUE
  /\ UNCHANGED <<stage, pc, order, tuple, seen, queued, barriers, counts, compacted, failed>>

Finished == aborted \/ \A p \in Participants : pc[p] = "done"

\* Nothing is left to do once the build is over.
Terminated == Finished /\ UNCHANGED vars

Step(p) ==
  \/ Attach(p) \/ Enter(p) \/ Announce(p) \/ TestOpen(p) \/ TestClosed(p) \/ Wakeup(p)
  \/ InsertTuple(p) \/ CountTuple(p) \/ ReadCount(p) \/ Compact(p)

LeaderStep == Release \/ Wake \/ StoreCount \/ LeaderAbort

Next ==
  \/ \E p \in Participants : Step(p)
  \/ LeaderStep
  \/ \E w \in Workers : Fail(w)
  \/ Terminated

\* The operating system schedules every backend; nothing makes a worker fail.
Fairness == (\A p \in Participants : WF_vars(Step(p))) /\ WF_vars(LeaderStep)

Spec == Init /\ [][Next]_vars /\ Fairness

(***************************************************************************)
(* Properties.                                                             *)
(***************************************************************************)

\* Every variable has its type; the barrier counters stay within the participants.
TypeOK ==
  /\ stage \in [Participants -> 0..3]
  /\ pc \in [Participants -> Inside \cup {"attach", "enter", "scan", "count", "store", "compact",
                                          "done"}]
  /\ order \in [Participants -> 0 .. Total - 1]
  /\ tuple \in [Participants -> SUBSET Tuples]
  /\ seen \in [Participants -> Nat]
  /\ queued \subseteq Participants
  /\ barrier_enter \in [0..2 -> 0..Total]
  /\ barrier_leave \subseteq 0..2
  /\ nparticipants \in {0, Total}
  /\ indexed_vectors \in Nat /\ inserted \in Nat /\ stored \in Nat
  /\ unscanned \subseteq Tuples
  /\ compacted \in [Lists -> SUBSET Participants]
  /\ failed \subseteq Workers
  /\ aborted \in BOOLEAN

\* Barrier 1 separates the two phases of parallel_build: a list is compacted
\* only when no participant can insert any more.
CompactionSeesAllInserts ==
  [][compacted' # compacted =>
       unscanned = {} /\ \A q \in Participants : pc[q] \notin {"scan", "count"}]_vars

\* ChooseSome splits the lists among the participants: no list is compacted by
\* two of them, and when the build is done every list was compacted.
ListsCompactedOnce ==
  /\ \A l \in Lists : Cardinality(compacted[l]) <= 1
  /\ (\A p \in Participants : pc[p] = "done") => \A l \in Lists : compacted[l] # {}

\* After barrier 1 the shared counter is the number of vectors in the index,
\* although every participant inserts first and counts later.
CounterSettled ==
  \A p \in Participants : stage[p] >= 2 => indexed_vectors = inserted

\* Every build ends, also when workers fail: no wakeup is lost and no barrier
\* waits for a worker that is gone.
BuildEnds == <>Finished

\* What statistics.rs says of the statistic that set_indexed_vectors stores: "the
\* number of live vector nodes observed by the latest complete build".
StatisticIsComplete ==
  (\A p \in Participants : pc[p] = "done") => stored = inserted
=============================================================================
