------------------------ MODULE ParallelBuildProofs ------------------------
(***************************************************************************)
(* Safety of the parallel build for any number of workers, tuples and      *)
(* lists.  The barriers are counters, so the invariant ties each counter   *)
(* to the set of participants that entered the barrier: whoever has left   *)
(* barrier k, or found it open, knows that this set is everybody.          *)
(***************************************************************************)
EXTENDS ParallelBuild, FiniteSetTheorems, TLAPS

\* The place of a participant fits its stage, and only the leader opens barriers.
Places ==
  \A p \in Participants :
    /\ pc[p] \in {"attach"} => stage[p] = 0
    /\ pc[p] \in {"scan", "count", "store"} => stage[p] = 1
    /\ pc[p] = "compact" => stage[p] = 2
    /\ pc[p] = "done" <=> stage[p] = 3
    /\ pc[p] \in {"release", "wake", "store"} => p = Leader

\* barrier_enter counts the participants that entered.
Counted == \A k \in 0..2 : barrier_enter[k] = Cardinality(Entered(k))

\* A barrier that was found open was entered by everybody.
Complete ==
  /\ \A k \in barrier_leave : Entered(k) = Participants
  /\ pc[Leader] \in {"release", "wake"} => Entered(stage[Leader]) = Participants
  /\ \A p \in Participants : \A k \in 0..2 : stage[p] > k => Entered(k) = Participants

\* Whoever has stopped scanning saw the end of the scan.
Scanned ==
  \A p \in Participants :
    stage[p] >= 1 /\ pc[p] \notin {"scan", "count"} => unscanned = {}

\* The orders handed out at barrier 0 are distinct positions below its counter,
\* and the leader published the number of participants as it entered.
Orders ==
  /\ \A p \in Entered(0) : order[p] < barrier_enter[0]
  /\ \A p, q \in Entered(0) : order[p] = order[q] => p = q
  /\ Leader \in Entered(0) => nparticipants = Total

\* Exactly the participants past their maintain call compacted, each its own lists.
Compacted ==
  \A l \in Lists : \A p \in Participants :
    p \in compacted[l] <=>
      /\ stage[p] = 3 \/ (stage[p] = 2 /\ pc[p] # "compact")
      /\ l % Total = order[p]

IInv == TypeOK /\ Places /\ Counted /\ Complete /\ Scanned /\ Orders /\ Compacted

-----------------------------------------------------------------------------
\* The participants are finitely many, and Total is their number.
LEMMA ParticipantsFinite ==
  /\ IsFiniteSet(Participants)
  /\ Cardinality(Participants) = Total
  /\ Total \in Nat \ {0}
BY WorkersAssumption, FS_AddElement, FS_CardinalityType DEF Participants, Total

\* A barrier's counter never exceeds the number of participants, and reaches
\* it only when all have entered.
LEMMA EnteredBound ==
  ASSUME NEW k \in 0..2
  PROVE  /\ IsFiniteSet(Entered(k))
         /\ Cardinality(Entered(k)) \in 0..Total
         /\ Cardinality(Entered(k)) = Total => Entered(k) = Participants
<1>1. Entered(k) \in SUBSET Participants
  BY DEF Entered
<1>2. QED
  BY <1>1, ParticipantsFinite, FS_Subset, FS_CardinalityType

\* All places that the model knows.
LEMMA WorkPlaces ==
  \A k \in 0..2 : Work(k) \in {"scan", "compact", "done"}
                  /\ (k = 0 => Work(k) = "scan")
                  /\ (k = 1 => Work(k) = "compact")
                  /\ (k = 2 => Work(k) = "done")
BY DEF Work

\* The invariant holds initially.
LEMMA InitIInv == Init => IInv
<1>. SUFFICES ASSUME Init PROVE IInv
  OBVIOUS
<1>. USE DEF Init
<1>1. \A k \in 0..2 : Entered(k) = {}
  BY DEF Entered, Inside, Participants
<1>2. TypeOK
  <2>1. stage \in [Participants -> 0..3]
    OBVIOUS
  <2>2. pc \in [Participants -> Inside \cup {"attach", "enter", "scan", "count", "store", "compact", "done"}]
    OBVIOUS
  <2>3. order \in [Participants -> 0 .. Total - 1]
    BY ParticipantsFinite
  <2>4. barrier_enter \in [0..2 -> 0..Total]
    BY ParticipantsFinite
  <2>5. /\ tuple \in [Participants -> SUBSET Tuples]
        /\ seen \in [Participants -> Nat]
        /\ queued \subseteq Participants
        /\ barrier_leave \subseteq 0..2
        /\ nparticipants \in {0, Total}
    OBVIOUS
  <2>7. /\ indexed_vectors \in Nat /\ inserted \in Nat /\ stored \in Nat
        /\ unscanned \subseteq Tuples
        /\ compacted \in [Lists -> SUBSET Participants]
    OBVIOUS
  <2>8. failed \subseteq Workers /\ aborted \in BOOLEAN
    BY Zenon
  <2>. QED
    BY <2>1, <2>2, <2>3, <2>4, <2>5, <2>7, <2>8 DEF TypeOK
<1>3. Places /\ Scanned /\ Compacted
  BY DEF Places, Scanned, Compacted, Participants, Lists
<1>4. Counted
  BY <1>1, FS_EmptySet DEF Counted
<1>5. Complete
  BY DEF Complete, Participants
<1>6. Orders
  BY <1>1 DEF Orders
<1>7. QED
  BY <1>2, <1>3, <1>4, <1>5, <1>6 DEF IInv

-----------------------------------------------------------------------------
\* Only Enter changes who has entered a barrier, and it adds the caller to the
\* barrier of its stage.
LEMMA EnteredStep ==
  ASSUME TypeOK, Places, [Next]_vars, NEW k \in 0..2
  PROVE  \/ /\ Entered(k)' = Entered(k)
            /\ barrier_enter'[k] = barrier_enter[k]
         \/ \E p \in Participants :
              /\ Enter(p) /\ stage[p] = k /\ p \notin Entered(k)
              /\ Entered(k)' = Entered(k) \cup {p}
              /\ barrier_enter'[k] = barrier_enter[k] + 1
<1>. USE DEF Places, Goto, At, barriers, counts
<1>. DEFINE Same == Entered(k)' = Entered(k) /\ barrier_enter'[k] = barrier_enter[k]
<1>1. CASE UNCHANGED vars
  BY <1>1 DEF vars, Entered
<1>2. ASSUME NEW p \in Participants, Enter(p)
      PROVE  \/ Same
             \/ /\ stage[p] = k /\ p \notin Entered(k)
                /\ Entered(k)' = Entered(k) \cup {p}
                /\ barrier_enter'[k] = barrier_enter[k] + 1
  <2>1. /\ pc[p] = "enter" /\ stage[p] \in 0..2
        /\ pc' = [pc EXCEPT ![p] = "announce"] /\ stage' = stage
        /\ barrier_enter' = [barrier_enter EXCEPT ![stage[p]] = @ + 1]
    BY <1>2 DEF Enter, TypeOK
  <2>2. CASE stage[p] = k
    BY <2>1, <2>2 DEF Entered, Inside, TypeOK
  <2>3. CASE stage[p] # k
    BY <2>1, <2>3 DEF Entered, Inside, TypeOK
  <2>. QED BY <2>2, <2>3
<1>3. ASSUME NEW p \in Participants,
             Attach(p) \/ Announce(p) \/ TestClosed(p) \/ Wakeup(p) \/ InsertTuple(p)
               \/ CountTuple(p) \/ ReadCount(p) \/ Compact(p)
      PROVE  Same
  <2>1. /\ stage' = stage /\ barrier_enter' = barrier_enter
        /\ \E place \in {"enter", "test", "sleep", "count", "scan", "store"} :
             /\ pc' = [pc EXCEPT ![p] = place]
             /\ pc[p] \in Inside <=> place \in Inside
    BY <1>3 DEF Attach, Announce, TestClosed, Wakeup, InsertTuple, CountTuple, ReadCount, Compact,
                Inside
  <2>. QED BY <2>1 DEF Entered, TypeOK
<1>4. ASSUME NEW p \in Participants, TestOpen(p) PROVE Same
  <2>1. pc[p] = "test" /\ stage[p] \in 0..2 /\ barrier_enter' = barrier_enter
    BY <1>4 DEF TestOpen, TypeOK
  <2>2. CASE p = Leader
    BY <1>4, <2>1, <2>2 DEF TestOpen, Entered, Inside, TypeOK
  <2>3. CASE p # Leader
    BY <1>4, <2>1, <2>3, WorkPlaces DEF TestOpen, Entered, Inside, TypeOK
  <2>. QED BY <2>2, <2>3
<1>5. CASE Wake
  <2>1. Leader \in Participants /\ pc[Leader] = "wake" /\ stage[Leader] \in 0..2
    BY <1>5 DEF Wake, TypeOK, Participants
  <2>. QED BY <1>5, <2>1, WorkPlaces DEF Wake, Entered, Inside, TypeOK
<1>6. CASE Release \/ StoreCount
  <2>1. Leader \in Participants
    BY DEF Participants
  <2>2. /\ stage' = stage /\ barrier_enter' = barrier_enter
        /\ \E place \in {"wake", "enter"} :
             /\ pc' = [pc EXCEPT ![Leader] = place]
             /\ pc[Leader] \in Inside <=> place \in Inside
    BY <1>6 DEF Release, StoreCount, Inside
  <2>. QED BY <2>1, <2>2 DEF Entered, TypeOK
<1>7. CASE LeaderAbort \/ (\E w \in Workers : Fail(w)) \/ Terminated
  BY <1>7 DEF LeaderAbort, Fail, Terminated, vars, Entered
<1>. QED
  BY <1>1, <1>2, <1>3, <1>4, <1>5, <1>6, <1>7 DEF Next, Step, LeaderStep

\* The counters stay exact.
LEMMA CountedStep ==
  ASSUME TypeOK, Places, Counted, [Next]_vars
  PROVE  Counted'
<1>. SUFFICES ASSUME NEW k \in 0..2
              PROVE  barrier_enter'[k] = Cardinality(Entered(k)')
  BY DEF Counted
<1>1. CASE Entered(k)' = Entered(k) /\ barrier_enter'[k] = barrier_enter[k]
  BY <1>1 DEF Counted
<1>2. ASSUME NEW p \in Participants, p \notin Entered(k), Entered(k)' = Entered(k) \cup {p},
             barrier_enter'[k] = barrier_enter[k] + 1
      PROVE  barrier_enter'[k] = Cardinality(Entered(k)')
  <2>1. IsFiniteSet(Entered(k))
    BY EnteredBound
  <2>2. Cardinality(Entered(k) \cup {p}) = Cardinality(Entered(k)) + 1
    BY <1>2, <2>1, FS_AddElement, Zenon
  <2>3. barrier_enter[k] = Cardinality(Entered(k))
    BY DEF Counted
  <2>. QED BY <1>2, <2>2, <2>3
<1>. QED BY <1>1, <1>2, EnteredStep

\* Only Enter moves the counters and hands out orders, and only Compact compacts.
LEMMA Frames ==
  ASSUME [Next]_vars
  PROVE  /\ \/ order' = order /\ nparticipants' = nparticipants /\ barrier_enter' = barrier_enter
            \/ \E p \in Participants : Enter(p)
         /\ compacted' = compacted \/ \E p \in Participants : Compact(p)
<1>. DEFINE Same == order' = order /\ nparticipants' = nparticipants /\ barrier_enter' = barrier_enter
            Keep == compacted' = compacted
<1>1. ASSUME NEW p \in Participants, Enter(p) PROVE Keep
  BY <1>1 DEF Enter
<1>2. ASSUME NEW p \in Participants, Compact(p) PROVE Same
  BY <1>2 DEF Compact, barriers
<1>3. ASSUME NEW p \in Participants,
             Attach(p) \/ Announce(p) \/ TestOpen(p) \/ TestClosed(p) \/ Wakeup(p)
      PROVE  Same /\ Keep
  BY <1>3 DEF Attach, Announce, TestOpen, TestClosed, Wakeup, barriers
<1>4. ASSUME NEW p \in Participants, InsertTuple(p) \/ CountTuple(p) \/ ReadCount(p)
      PROVE  Same /\ Keep
  BY <1>4 DEF InsertTuple, CountTuple, ReadCount, barriers
<1>5. CASE LeaderStep
  BY <1>5 DEF LeaderStep, Release, Wake, StoreCount, LeaderAbort, barriers
<1>6. ASSUME NEW w \in Workers, Fail(w) PROVE Same /\ Keep
  BY <1>6 DEF Fail, barriers
<1>7. CASE Terminated \/ UNCHANGED vars
  BY <1>7 DEF Terminated, vars
<1>. HIDE DEF Same, Keep
<1>. QED BY <1>1, <1>2, <1>3, <1>4, <1>5, <1>6, <1>7, Zenon DEF Next, Step, Same, Keep

\* The counters stay within their range: an increment finds somebody missing.
LEMMA CounterRange ==
  ASSUME TypeOK, Places, Counted, [Next]_vars
  PROVE  barrier_enter' \in [0..2 -> 0..Total]
<1>1. DOMAIN barrier_enter' = 0..2 /\ barrier_enter' = [k \in 0..2 |-> barrier_enter'[k]]
  <2>1. \/ barrier_enter' = barrier_enter
        \/ \E p \in Participants : barrier_enter' = [barrier_enter EXCEPT ![stage[p]] = @ + 1]
    <3>1. ASSUME NEW p \in Participants, Enter(p)
          PROVE  barrier_enter' = [barrier_enter EXCEPT ![stage[p]] = @ + 1]
      BY <3>1 DEF Enter
    <3>. QED BY <3>1, Frames, Zenon
  <2>. QED BY <2>1 DEF TypeOK
<1>2. ASSUME NEW k \in 0..2 PROVE barrier_enter'[k] \in 0..Total
  <2>1. CASE barrier_enter'[k] = barrier_enter[k]
    BY <2>1 DEF TypeOK
  <2>2. ASSUME NEW p \in Participants, p \notin Entered(k),
               barrier_enter'[k] = barrier_enter[k] + 1
        PROVE  barrier_enter'[k] \in 0..Total
    <3>1. Cardinality(Entered(k)) # Total
      BY <2>2, EnteredBound
    <3>. QED BY <2>2, <3>1, EnteredBound, ParticipantsFinite DEF Counted
  <2>. QED BY <2>1, <2>2, EnteredStep
<1>. QED BY <1>1, <1>2

\* Types are kept.
LEMMA TypeStep ==
  ASSUME TypeOK, Places, Counted, Orders, [Next]_vars
  PROVE  TypeOK'
<1>. USE DEF TypeOK, Goto, At, barriers, counts
<1>0. Leader \in Participants /\ Workers \subseteq Participants
  BY DEF Participants
<1>1. CASE UNCHANGED vars
  BY <1>1 DEF vars
<1>2. ASSUME NEW p \in Participants, Enter(p) PROVE TypeOK'
  <2>1. stage[p] \in 0..2
    BY <1>2 DEF Enter, Places
  <2>2. stage[p] = 0 => barrier_enter[0] \in 0 .. Total - 1
    <3>1. SUFFICES ASSUME stage[p] = 0 PROVE barrier_enter[0] # Total
      BY ParticipantsFinite
    <3>2. p \notin Entered(0)
      BY <1>2, <3>1 DEF Enter, Entered, Inside
    <3>. QED BY <3>2, EnteredBound DEF Counted
  <2>3. order' \in [Participants -> 0 .. Total - 1]
    BY <1>2, <2>2 DEF Enter
  <2>4. pc' \in [Participants -> Inside \cup {"attach", "enter", "scan", "count", "store",
                                              "compact", "done"}]
    BY <1>2 DEF Enter, Inside
  <2>5. nparticipants' \in {0, Total}
    BY <1>2 DEF Enter
  <2>. QED BY <1>2, <2>3, <2>4, <2>5, CounterRange DEF Enter
<1>3. ASSUME NEW p \in Participants, TestOpen(p) PROVE TypeOK'
  <2>1. stage[p] \in 0..2
    BY <1>3 DEF TestOpen, Places
  <2>. QED BY <1>3, <2>1, WorkPlaces DEF TestOpen, Inside
<1>4. ASSUME NEW p \in Participants, Attach(p) \/ Announce(p) \/ TestClosed(p) \/ Wakeup(p)
      PROVE  TypeOK'
  BY <1>4, <1>0, Zenon DEF Attach, Announce, TestClosed, Wakeup, Inside
<1>5. ASSUME NEW p \in Participants, InsertTuple(p) PROVE TypeOK'
  BY <1>5, StoreLenAssumption DEF InsertTuple
<1>6. ASSUME NEW p \in Participants, CountTuple(p) PROVE TypeOK'
  BY <1>6, StoreLenAssumption DEF CountTuple
<1>7. ASSUME NEW p \in Participants, ReadCount(p) PROVE TypeOK'
  BY <1>7 DEF ReadCount
<1>8. ASSUME NEW p \in Participants, Compact(p) PROVE TypeOK'
  BY <1>8 DEF Compact
<1>9. CASE Wake
  <2>1. stage[Leader] \in 0..2
    BY <1>9, <1>0 DEF Wake, Places
  <2>. QED BY <1>9, <1>0, <2>1, WorkPlaces DEF Wake, Inside
<1>10. CASE Release
  <2>1. stage[Leader] \in 0..2
    BY <1>10, <1>0 DEF Release, Places
  <2>. QED BY <1>10, <1>0, <2>1, Zenon DEF Release, Inside
<1>11. CASE StoreCount
  BY <1>11, <1>0 DEF StoreCount
<1>12. CASE LeaderAbort \/ (\E w \in Workers : Fail(w)) \/ Terminated
  BY <1>12, Zenon DEF LeaderAbort, Fail, Terminated, vars
<1>. QED
  BY <1>1, <1>2, <1>3, <1>4, <1>5, <1>6, <1>7, <1>8, <1>9, <1>10, <1>11, <1>12
     DEF Next, Step, LeaderStep

\* Places and stages keep fitting.
LEMMA PlacesStep ==
  ASSUME TypeOK, Places, [Next]_vars
  PROVE  Places'
<1>. USE DEF Goto, At
<1>0. Leader \in Participants
  BY DEF Participants
<1>1. CASE UNCHANGED vars
  BY <1>1 DEF vars, Places
<1>2. ASSUME NEW p \in Participants,
             Attach(p) \/ Enter(p) \/ Announce(p) \/ TestClosed(p) \/ Wakeup(p) \/ InsertTuple(p)
               \/ CountTuple(p) \/ ReadCount(p) \/ Compact(p)
      PROVE  Places'
  <2>1. /\ stage' = stage
        /\ \E place \in {"enter", "announce", "test", "sleep", "count", "scan", "store"} :
             /\ pc' = [pc EXCEPT ![p] = place]
             /\ place \in {"count", "scan", "store"} => pc[p] \in {"scan", "count"}
             /\ place = "store" => p = Leader
        /\ pc[p] # "done"
    BY <1>2 DEF Attach, Enter, Announce, TestClosed, Wakeup, InsertTuple, CountTuple, ReadCount,
                Compact
  <2>. QED BY <2>1 DEF Places, TypeOK
<1>3. ASSUME NEW p \in Participants, TestOpen(p) PROVE Places'
  <2>1. stage[p] \in 0..2
    BY <1>3 DEF TestOpen, TypeOK, Places
  <2>2. CASE p = Leader
    BY <1>3, <2>1, <2>2 DEF TestOpen, Places, TypeOK
  <2>3. CASE p # Leader
    BY <1>3, <2>1, <2>3, WorkPlaces DEF TestOpen, Places, TypeOK
  <2>. QED BY <2>2, <2>3
<1>4. CASE Wake
  <2>1. stage[Leader] \in 0..2
    BY <1>0, <1>4 DEF Wake, TypeOK, Places
  <2>. QED BY <1>0, <1>4, <2>1, WorkPlaces DEF Wake, Places, TypeOK
<1>5. CASE Release \/ StoreCount
  BY <1>0, <1>5 DEF Release, StoreCount, Places, TypeOK
<1>6. CASE LeaderAbort \/ (\E w \in Workers : Fail(w)) \/ Terminated
  BY <1>6 DEF LeaderAbort, Fail, Terminated, vars, Places
<1>. QED
  BY <1>1, <1>2, <1>3, <1>4, <1>5, <1>6 DEF Next, Step, LeaderStep

\* Nobody leaves a barrier, and the leader does not open it, before all have entered.
LEMMA CompleteStep ==
  ASSUME TypeOK, Places, Counted, Complete, [Next]_vars
  PROVE  Complete'
<1>. USE DEF Goto, At, barriers
<1>0. Leader \in Participants
  BY DEF Participants
<1>1. ASSUME NEW k \in 0..2, Entered(k) = Participants PROVE Entered(k)' = Participants
  <2>1. Participants' = Participants
    BY DEF Participants
  <2>. QED BY <1>1, <2>1, EnteredStep
\* a step that leaves the stages alone, opens nothing and is not the leader's way to "release"
<1>2. ASSUME stage' = stage, barrier_leave' = barrier_leave,
             pc'[Leader] \in {"release", "wake"} => pc[Leader] \in {"release", "wake"}
      PROVE  Complete'
  BY <1>0, <1>1, <1>2 DEF Complete, TypeOK, Places, Participants
<1>3. CASE UNCHANGED vars
  BY <1>2, <1>3 DEF vars
<1>4. ASSUME NEW p \in Participants,
             Attach(p) \/ Enter(p) \/ Announce(p) \/ TestClosed(p) \/ Wakeup(p) \/ InsertTuple(p)
               \/ CountTuple(p) \/ ReadCount(p) \/ Compact(p)
      PROVE  Complete'
  <2>1. /\ stage' = stage /\ barrier_leave' = barrier_leave
        /\ \E place \in {"enter", "announce", "test", "sleep", "count", "scan", "store"} :
             pc' = [pc EXCEPT ![p] = place]
    BY <1>4 DEF Attach, Enter, Announce, TestClosed, Wakeup, InsertTuple, CountTuple, ReadCount,
                Compact
  <2>. QED BY <1>2, <2>1, <1>0 DEF TypeOK
<1>5. ASSUME NEW p \in Participants, TestOpen(p) PROVE Complete'
  <2>1. stage[p] \in 0..2
    BY <1>5 DEF TestOpen, TypeOK, Places
  <2>2. Entered(stage[p]) = Participants
    <3>1. CASE p = Leader
      BY <1>5, <2>1, <3>1, EnteredBound DEF TestOpen, Open, Counted
    <3>2. CASE p # Leader
      BY <1>5, <2>1, <3>2 DEF TestOpen, Open, Complete
    <3>. QED BY <3>1, <3>2
  <2>3. CASE p = Leader
    BY <1>0, <1>1, <1>5, <2>1, <2>2, <2>3 DEF TestOpen, Complete, TypeOK, Participants
  <2>4. CASE p # Leader
    <3>1. /\ stage' = [stage EXCEPT ![p] = stage[p] + 1] /\ barrier_leave' = barrier_leave
          /\ pc'[Leader] = pc[Leader] /\ stage'[Leader] = stage[Leader]
      BY <1>0, <1>5, <2>4 DEF TestOpen, TypeOK
    <3>2. ASSUME NEW q \in Participants, NEW k \in 0..2, stage'[q] > k
          PROVE  Entered(k)' = Participants
      BY <1>1, <2>1, <2>2, <3>1, <3>2 DEF Complete, TypeOK
    <3>. QED BY <1>0, <1>1, <3>1, <3>2 DEF Complete, TypeOK, Participants, Places
  <2>. QED BY <2>3, <2>4
<1>6. CASE Release
  <2>1. stage[Leader] \in 0..2 /\ Entered(stage[Leader]) = Participants
    BY <1>0, <1>6 DEF Release, TypeOK, Places, Complete
  <2>. QED BY <1>0, <1>1, <1>6, <2>1 DEF Release, Complete, TypeOK, Participants
<1>7. CASE Wake
  <2>1. stage[Leader] \in 0..2 /\ Entered(stage[Leader]) = Participants
    BY <1>0, <1>7 DEF Wake, TypeOK, Places, Complete
  <2>2. /\ stage' = [stage EXCEPT ![Leader] = stage[Leader] + 1] /\ barrier_leave' = barrier_leave
        /\ pc'[Leader] \notin {"release", "wake"}
    BY <1>0, <1>7, <2>1, WorkPlaces DEF Wake, TypeOK
  <2>3. ASSUME NEW q \in Participants, NEW k \in 0..2, stage'[q] > k
        PROVE  Entered(k)' = Participants
    BY <1>1, <2>1, <2>2, <2>3 DEF Complete, TypeOK
  <2>. QED BY <1>1, <2>2, <2>3 DEF Complete, TypeOK, Participants
<1>8. CASE StoreCount
  BY <1>0, <1>2, <1>8 DEF StoreCount, TypeOK
<1>9. CASE LeaderAbort \/ (\E w \in Workers : Fail(w)) \/ Terminated
  BY <1>2, <1>9 DEF LeaderAbort, Fail, Terminated, vars
<1>. QED
  BY <1>3, <1>4, <1>5, <1>6, <1>7, <1>8, <1>9 DEF Next, Step, LeaderStep

\* The end of the scan is final.
LEMMA ScannedStep ==
  ASSUME TypeOK, Places, Scanned, [Next]_vars
  PROVE  Scanned'
<1>. USE DEF Goto, At, counts
<1>0. Leader \in Participants
  BY DEF Participants
<1>1. CASE UNCHANGED vars
  BY <1>1 DEF vars, Scanned
<1>2. ASSUME NEW p \in Participants,
             Attach(p) \/ Enter(p) \/ Announce(p) \/ TestClosed(p) \/ Wakeup(p) \/ Compact(p)
      PROVE  Scanned'
  <2>1. /\ stage' = stage /\ unscanned' = unscanned
        /\ \A q \in Participants : q # p => pc'[q] = pc[q]
        /\ stage[p] >= 1 => unscanned = {}
    BY <1>2 DEF Attach, Enter, Announce, TestClosed, Wakeup, Compact, Scanned, TypeOK, Places
  <2>. QED BY <2>1 DEF Scanned
<1>3. ASSUME NEW p \in Participants, TestOpen(p) PROVE Scanned'
  <2>1. stage[p] \in 0..2
    BY <1>3 DEF TestOpen, TypeOK, Places
  <2>2. CASE p = Leader
    BY <1>3, <2>1, <2>2 DEF TestOpen, Scanned, TypeOK
  <2>3. CASE p # Leader
    BY <1>3, <2>1, <2>3, WorkPlaces DEF TestOpen, Scanned, TypeOK
  <2>. QED BY <2>2, <2>3
<1>4. ASSUME NEW p \in Participants, InsertTuple(p) \/ CountTuple(p) \/ ReadCount(p)
      PROVE  Scanned'
  BY <1>4 DEF InsertTuple, CountTuple, ReadCount, Scanned, TypeOK
<1>5. CASE Wake
  <2>1. stage[Leader] \in 0..2
    BY <1>0, <1>5 DEF Wake, TypeOK, Places
  <2>. QED BY <1>0, <1>5, <2>1, WorkPlaces DEF Wake, Scanned, TypeOK
<1>6. CASE Release \/ StoreCount
  <2>1. CASE Release
    BY <1>0, <2>1 DEF Release, Scanned, TypeOK
  <2>2. CASE StoreCount
    BY <1>0, <2>2 DEF StoreCount, Scanned, TypeOK, Places
  <2>. QED BY <1>6, <2>1, <2>2
<1>7. CASE LeaderAbort \/ (\E w \in Workers : Fail(w)) \/ Terminated
  BY <1>7 DEF LeaderAbort, Fail, Terminated, vars, Scanned
<1>. QED
  BY <1>1, <1>2, <1>3, <1>4, <1>5, <1>6, <1>7 DEF Next, Step, LeaderStep

\* A participant's order changes only as it enters barrier 0.
LEMMA OrderChange ==
  ASSUME [Next]_vars
  PROVE  \/ order' = order /\ nparticipants' = nparticipants
         \/ \E p \in Participants : Enter(p) /\ stage[p] = 0
<1>1. ASSUME NEW p \in Participants, Enter(p), stage[p] # 0
      PROVE  order' = order /\ nparticipants' = nparticipants
  BY <1>1 DEF Enter
<1>. QED BY <1>1, Frames, Zenon

\* Distinct participants keep distinct orders.
LEMMA OrdersStep ==
  ASSUME TypeOK, Places, Orders, [Next]_vars
  PROVE  Orders'
<1>1. CASE order' = order /\ nparticipants' = nparticipants /\ Entered(0)' = Entered(0)
           /\ barrier_enter'[0] = barrier_enter[0]
  <2>1. Total' = Total
    BY DEF Total
  <2>. QED BY <1>1, <2>1 DEF Orders
<1>2. ASSUME NEW p \in Participants, Enter(p), stage[p] = 0, p \notin Entered(0),
             Entered(0)' = Entered(0) \cup {p}, barrier_enter'[0] = barrier_enter[0] + 1
      PROVE  Orders'
  <2>1. /\ order' = [order EXCEPT ![p] = barrier_enter[0]]
        /\ nparticipants' = IF p = Leader THEN Total ELSE nparticipants
    BY <1>2 DEF Enter
  <2>2. Total' = Total /\ Entered(0) \subseteq Participants
    BY DEF Total, Entered
  <2>3. /\ order'[p] = barrier_enter[0] /\ barrier_enter[0] \in Nat
        /\ \A q \in Entered(0) : order'[q] = order[q] /\ order[q] \in Nat
    BY <1>2, <2>1, <2>2 DEF TypeOK
  <2>4. \A q \in Entered(0)' : order'[q] < barrier_enter'[0]
    <3>. SUFFICES ASSUME NEW q \in Entered(0) \cup {p}
                  PROVE  order'[q] < barrier_enter[0] + 1
      BY <1>2
    <3>1. CASE q = p
      BY <2>3, <3>1
    <3>2. CASE q \in Entered(0)
      <4>1. order[q] < barrier_enter[0]
        BY <3>2 DEF Orders
      <4>. QED BY <2>3, <3>2, <4>1
    <3>. QED BY <3>1, <3>2
  <2>5. \A q, r \in Entered(0)' : order'[q] = order'[r] => q = r
    BY <1>2, <2>3 DEF Orders
  <2>6. Leader \in Entered(0)' => nparticipants' = Total'
    BY <1>2, <2>1, <2>2 DEF Orders
  <2>. QED BY <2>4, <2>5, <2>6 DEF Orders
<1>3. \A p \in Participants : Enter(p) /\ stage[p] = 0 => p \notin Entered(0)
  BY DEF Enter, Entered, Inside, At
<1>4. ASSUME NEW p \in Participants, Enter(p), stage[p] = 0
      PROVE  Entered(0)' = Entered(0) \cup {p} /\ barrier_enter'[0] = barrier_enter[0] + 1
  BY <1>4 DEF Enter, Entered, Inside, At, Goto, TypeOK
<1>5. CASE order' = order /\ nparticipants' = nparticipants
           /\ ~ \E p \in Participants : Enter(p) /\ stage[p] = 0
  BY <1>1, <1>5, EnteredStep
<1>. QED BY <1>2, <1>3, <1>4, <1>5, OrderChange

\* Each participant compacts the lists of its order, in its one maintain call.
LEMMA CompactedStep ==
  ASSUME TypeOK, Places, Complete, Orders, Compacted, [Next]_vars
  PROVE  Compacted'
<1>. USE DEF Goto, At
<1>0. Leader \in Participants /\ Total' = Total /\ Participants' = Participants /\ Lists' = Lists
  BY DEF Participants, Total, Lists
<1>. DEFINE Past(p) == stage[p] = 3 \/ (stage[p] = 2 /\ pc[p] # "compact")
\* a step that moves nobody past its maintain call
<1>1. ASSUME compacted' = compacted,
             \A p \in Participants : (Past(p)' <=> Past(p)) /\ (Past(p) => order'[p] = order[p])
      PROVE  Compacted'
  BY <1>0, <1>1 DEF Compacted
<1>2. CASE UNCHANGED vars
  BY <1>1, <1>2 DEF vars
<1>3. ASSUME NEW p \in Participants, Enter(p) PROVE Compacted'
  <2>1. /\ compacted' = compacted /\ stage' = stage
        /\ pc[p] = "enter" /\ pc' = [pc EXCEPT ![p] = "announce"]
        /\ stage[p] # 0 => order' = order
        /\ \A q \in Participants : q # p => order'[q] = order[q]
    BY <1>3 DEF Enter, TypeOK
  <2>. QED BY <1>1, <2>1 DEF TypeOK
<1>4. ASSUME NEW p \in Participants,
             Attach(p) \/ Announce(p) \/ TestClosed(p) \/ Wakeup(p) \/ InsertTuple(p)
               \/ CountTuple(p) \/ ReadCount(p)
      PROVE  Compacted'
  <2>1. /\ compacted' = compacted /\ stage' = stage /\ order' = order
        /\ pc[p] # "compact"
        /\ \E place \in {"enter", "test", "sleep", "count", "scan", "store"} :
             pc' = [pc EXCEPT ![p] = place]
    BY <1>4 DEF Attach, Announce, TestClosed, Wakeup, InsertTuple, CountTuple, ReadCount
  <2>. QED BY <1>1, <2>1 DEF TypeOK
<1>5. ASSUME NEW p \in Participants, TestOpen(p) PROVE Compacted'
  <2>1. stage[p] \in 0..2 /\ compacted' = compacted /\ order' = order /\ pc[p] = "test"
    BY <1>5 DEF TestOpen, TypeOK, Places
  <2>2. CASE p = Leader
    BY <1>1, <1>5, <2>1, <2>2 DEF TestOpen, TypeOK
  <2>3. CASE p # Leader
    BY <1>1, <1>5, <2>1, <2>3, WorkPlaces DEF TestOpen, TypeOK
  <2>. QED BY <2>2, <2>3
<1>6. ASSUME NEW p \in Participants, Compact(p) PROVE Compacted'
  <2>1. /\ stage[p] = 2 /\ pc[p] = "compact" /\ stage' = stage /\ order' = order
        /\ pc' = [pc EXCEPT ![p] = "enter"]
        /\ compacted' = [l \in Lists |-> IF l % nparticipants = order[p] THEN compacted[l] \cup {p}
                                         ELSE compacted[l]]
    BY <1>6 DEF Compact, Places, choose
  <2>2. nparticipants = Total
    BY <1>0, <2>1 DEF Complete, Orders
  <2>3. ASSUME NEW l \in Lists, NEW q \in Participants
        PROVE  q \in compacted'[l] <=> Past(q)' /\ l % Total = order'[q]
    BY <2>1, <2>2, <2>3 DEF Compacted, TypeOK
  <2>. QED BY <1>0, <2>3 DEF Compacted
<1>7. CASE Wake
  <2>1. stage[Leader] \in 0..2 /\ compacted' = compacted /\ order' = order /\ pc[Leader] = "wake"
    BY <1>0, <1>7 DEF Wake, TypeOK, Places
  <2>. QED BY <1>0, <1>1, <1>7, <2>1, WorkPlaces DEF Wake, TypeOK
<1>8. CASE Release \/ StoreCount
  <2>1. CASE Release
    BY <1>0, <1>1, <2>1 DEF Release, TypeOK
  <2>2. CASE StoreCount
    BY <1>0, <1>1, <2>2 DEF StoreCount, TypeOK
  <2>. QED BY <1>8, <2>1, <2>2
<1>9. CASE LeaderAbort \/ (\E w \in Workers : Fail(w)) \/ Terminated
  BY <1>1, <1>9, Zenon DEF LeaderAbort, Fail, Terminated, vars
<1>. QED
  BY <1>2, <1>3, <1>4, <1>5, <1>6, <1>7, <1>8, <1>9 DEF Next, Step, LeaderStep

-----------------------------------------------------------------------------
\* The strengthened invariant holds of every behaviour of the build.
THEOREM Invariance == Spec => []IInv
<1>1. IInv /\ [Next]_vars => IInv'
  BY TypeStep, PlacesStep, CountedStep, CompleteStep, ScannedStep, OrdersStep, CompactedStep
     DEF IInv
<1>. QED BY <1>1, InitIInv, PTL DEF Spec

\* Every variable of the build keeps its type: in particular no barrier counter
\* passes the number of participants, whatever the interleaving.
THEOREM TypeCorrect == Spec => []TypeOK
BY Invariance, PTL DEF IInv

\* maintain never runs on any participant while another one may still insert:
\* barrier 1 of parallel_build separates the two phases.
THEOREM PhasesSeparated == Spec => CompactionSeesAllInserts
<1>1. ASSUME IInv, [Next]_vars, compacted' # compacted
      PROVE  unscanned = {} /\ \A q \in Participants : pc[q] \notin {"scan", "count"}
  <2>1. PICK p \in Participants : Compact(p)
    <3>1. compacted' = compacted \/ \E p \in Participants : Compact(p)
      BY <1>1, Frames, Zenon
    <3>. QED BY <1>1, <3>1, Zenon
  <2>2. stage[p] = 2 /\ pc[p] = "compact"
    BY <1>1, <2>1, Zenon DEF Compact, At, IInv, Places
  <2>. Scanned
    BY <1>1 DEF IInv
  <2>3. unscanned = {}
    BY <2>2 DEF Scanned
  <2>4. \A q \in Participants : stage[q] > 1 \/ (stage[q] = 1 /\ pc[q] \in Inside)
    BY <1>1, <2>2 DEF IInv, Complete, Entered
  <2>. Places
    BY <1>1 DEF IInv
  <2>5. ASSUME NEW q \in Participants PROVE pc[q] \notin {"scan", "count"}
    <3>1. CASE stage[q] > 1
      BY <3>1 DEF Places
    <3>2. CASE pc[q] \in Inside
      BY <3>2 DEF Inside
    <3>. QED BY <2>4, <3>1, <3>2
  <2>. QED BY <2>3, <2>5
<1>2. IInv /\ [Next]_vars =>
        [compacted' # compacted =>
           unscanned = {} /\ \A q \in Participants : pc[q] \notin {"scan", "count"}]_vars
  BY <1>1
<1>. QED BY <1>2, Invariance, PTL DEF Spec, CompactionSeesAllInserts

\* ChooseSome partitions the lists: no list is compacted by two participants,
\* and a finished build has compacted every list.
THEOREM ListsPartitioned == Spec => []ListsCompactedOnce
<1>1. ASSUME IInv PROVE ListsCompactedOnce
  <2>1. ASSUME NEW l \in Lists PROVE Cardinality(compacted[l]) <= 1
    <3>1. compacted[l] \subseteq Participants
      BY <1>1 DEF IInv, TypeOK
    <3>2. \A p, q \in compacted[l] : p = q
      <4>1. SUFFICES ASSUME NEW p \in compacted[l], NEW q \in compacted[l] PROVE p = q
        OBVIOUS
      <4>2. p \in Participants /\ q \in Participants /\ order[p] = order[q]
            /\ stage[p] > 0
        BY <1>1, <3>1 DEF IInv, Compacted, TypeOK
      <4>3. Entered(0) = Participants
        BY <1>1, <4>2 DEF IInv, Complete
      <4>. QED BY <1>1, <4>2, <4>3 DEF IInv, Orders
    <3>3. CASE compacted[l] = {}
      BY <3>3, FS_EmptySet
    <3>4. CASE \E p : compacted[l] = {p}
      BY <3>4, FS_Singleton
    <3>. QED BY <3>2, <3>3, <3>4
  <2>2. ASSUME \A p \in Participants : pc[p] = "done", NEW l \in Lists
        PROVE  compacted[l] # {}
    <3>1. \A p \in Participants : stage[p] = 3
      BY <1>1, <2>2 DEF IInv, Places
    <3>2. Entered(0) = Participants
      BY <3>1 DEF Entered
    <3>3. order \in Injection(Participants, 0 .. Total - 1)
      BY <1>1, <3>2 DEF IInv, Orders, TypeOK, Injection, IsInjective
    <3>4. Cardinality(Participants) = Cardinality(0 .. Total - 1) /\ IsFiniteSet(0 .. Total - 1)
      BY ParticipantsFinite, FS_Interval
    <3>5. order \in Surjection(Participants, 0 .. Total - 1)
      BY <3>3, <3>4, FS_Injection
    <3>6. l % Total \in 0 .. Total - 1
      BY ParticipantsFinite, NListsAssumption DEF Lists
    <3>7. PICK p \in Participants : order[p] = l % Total
      BY <3>5, <3>6 DEF Surjection
    <3>. QED BY <1>1, <3>1, <3>7 DEF IInv, Compacted
  <2>. QED BY <2>1, <2>2 DEF ListsCompactedOnce
<1>. QED BY <1>1, Invariance, PTL

-----------------------------------------------------------------------------
(* The shared counter.  Between its insert and its count a participant     *)
(* holds vectors that are in the index and not in the counter.             *)

Vectors(p) == {p} \X (UNION {1 .. StoreLen[t] : t \in tuple[p]})
Uncounted == UNION {Vectors(p) : p \in Participants}

\* Exactly the participants that are about to count hold a tuple.
Holding ==
  \A p \in Participants :
    IF pc[p] = "count" THEN \E t \in Tuples : tuple[p] = {t} ELSE tuple[p] = {}

\* The counter lacks the vectors that are held, and no others.
Behind ==
  /\ IsFiniteSet(Uncounted)
  /\ inserted = indexed_vectors + Cardinality(Uncounted)

\* One participant's vectors.
LEMMA BlockSize ==
  ASSUME NEW p, NEW n \in Nat
  PROVE  IsFiniteSet({p} \X (1 .. n)) /\ Cardinality({p} \X (1 .. n)) = n
<1>1. IsFiniteSet(1 .. n) /\ Cardinality(1 .. n) = n
  BY FS_Interval
<1>2. IsFiniteSet({p}) /\ Cardinality({p}) = 1
  BY FS_Singleton
<1>. QED BY <1>1, <1>2, FS_Product

\* The size of a union of disjoint sets.
LEMMA DisjointUnion ==
  ASSUME NEW S, NEW T, IsFiniteSet(S), IsFiniteSet(T), S \cap T = {}
  PROVE  IsFiniteSet(S \cup T) /\ Cardinality(S \cup T) = Cardinality(S) + Cardinality(T)
<1>1. Cardinality(S \cup T) = Cardinality(S) + Cardinality(T) - Cardinality(S \cap T)
  BY FS_Union, Zenon
<1>2. Cardinality(S) \in Nat /\ Cardinality(T) \in Nat /\ Cardinality(S \cap T) = 0
  BY FS_CardinalityType, FS_EmptySet
<1>3. Cardinality(S \cup T) = Cardinality(S) + Cardinality(T)
  BY <1>1, <1>2
<1>. QED BY <1>3, FS_Union, Zenon

\* A step changes what one participant holds, or nothing.
LEMMA HoldingStep ==
  ASSUME TypeOK, Holding, [Next]_vars
  PROVE  /\ Holding'
         /\ \/ UNCHANGED <<tuple, inserted, indexed_vectors>>
            \/ \E p \in Participants : InsertTuple(p) \/ CountTuple(p)
<1>. USE DEF Goto, At
<1>0. Leader \in Participants
  BY DEF Participants
<1>1. ASSUME tuple' = tuple, NEW p \in Participants, NEW place,
             pc[p] # "count", place # "count", pc' = [pc EXCEPT ![p] = place]
      PROVE  Holding'
  <2>1. ASSUME NEW q \in Participants PROVE pc'[q] = "count" <=> pc[q] = "count"
    BY <1>1 DEF TypeOK
  <2>. QED BY <1>1, <2>1 DEF Holding
<1>2. ASSUME tuple' = tuple, pc' = pc PROVE Holding'
  BY <1>2 DEF Holding
<1>3. CASE UNCHANGED vars
  BY <1>2, <1>3 DEF vars
<1>4. ASSUME NEW p \in Participants, Attach(p) \/ Enter(p) \/ Announce(p)
      PROVE  Holding' /\ UNCHANGED <<tuple, inserted, indexed_vectors>>
  BY <1>1, <1>4 DEF Attach, Enter, Announce, counts
<1>5. ASSUME NEW p \in Participants, TestOpen(p)
      PROVE  Holding' /\ UNCHANGED <<tuple, inserted, indexed_vectors>>
  <2>1. /\ tuple' = tuple /\ inserted' = inserted /\ indexed_vectors' = indexed_vectors
        /\ pc[p] = "test"
    BY <1>5 DEF TestOpen, counts
  <2>2. CASE p = Leader
    BY <1>1, <1>5, <2>1, <2>2 DEF TestOpen
  <2>3. CASE p # Leader
    <3>1. Work(stage[p]) # "count"
      BY DEF Work
    <3>. QED BY <1>1, <1>5, <2>1, <2>3, <3>1 DEF TestOpen
  <2>. QED BY <2>2, <2>3
<1>6. ASSUME NEW p \in Participants, TestClosed(p) \/ Wakeup(p) \/ ReadCount(p) \/ Compact(p)
      PROVE  Holding' /\ UNCHANGED <<tuple, inserted, indexed_vectors>>
  BY <1>1, <1>6 DEF TestClosed, Wakeup, ReadCount, Compact, counts
<1>7. ASSUME NEW p \in Participants, InsertTuple(p) PROVE Holding'
  BY <1>7 DEF InsertTuple, Holding, TypeOK
<1>8. ASSUME NEW p \in Participants, CountTuple(p) PROVE Holding'
  BY <1>8 DEF CountTuple, Holding, TypeOK
<1>9. ASSUME Release \/ StoreCount PROVE Holding' /\ UNCHANGED <<tuple, inserted, indexed_vectors>>
  BY <1>0, <1>1, <1>9 DEF Release, StoreCount, counts
<1>10. ASSUME Wake PROVE Holding' /\ UNCHANGED <<tuple, inserted, indexed_vectors>>
  <2>1. Work(stage[Leader]) # "count"
    BY DEF Work
  <2>. QED BY <1>0, <1>1, <1>10, <2>1, Zenon DEF Wake, counts
<1>11. ASSUME LeaderAbort \/ (\E w \in Workers : Fail(w)) \/ Terminated
       PROVE  Holding' /\ UNCHANGED <<tuple, inserted, indexed_vectors>>
  BY <1>2, <1>11 DEF LeaderAbort, Fail, Terminated, counts, vars
<1>. QED
  BY <1>3, <1>4, <1>5, <1>6, <1>7, <1>8, <1>9, <1>10, <1>11 DEF Next, Step, LeaderStep, vars

LEMMA BehindStep ==
  ASSUME TypeOK, Holding, Behind, [Next]_vars
  PROVE  Behind'
<1>1. CASE UNCHANGED <<tuple, inserted, indexed_vectors>>
  BY <1>1 DEF Behind, Uncounted, Vectors
<1>2. ASSUME NEW p \in Participants, InsertTuple(p) PROVE Behind'
  <2>1. PICK t \in unscanned :
            tuple' = [tuple EXCEPT ![p] = {t}] /\ inserted' = inserted + StoreLen[t]
    BY <1>2, Zenon DEF InsertTuple
  <2>2. indexed_vectors' = indexed_vectors /\ tuple[p] = {} /\ StoreLen[t] \in Nat
    BY <1>2, StoreLenAssumption DEF InsertTuple, Holding, At, TypeOK
  <2>. DEFINE block == {p} \X (1 .. StoreLen[t])
  <2>3. Uncounted' = Uncounted \cup block
    BY <2>1, <2>2 DEF Uncounted, Vectors, TypeOK
  <2>4. Uncounted \cap block = {}
    BY <2>2 DEF Uncounted, Vectors
  <2>5. IsFiniteSet(block) /\ Cardinality(block) = StoreLen[t]
    BY <2>2, BlockSize, Zenon
  <2>. HIDE DEF block
  <2>6. IsFiniteSet(Uncounted \cup block)
        /\ Cardinality(Uncounted \cup block) = Cardinality(Uncounted) + StoreLen[t]
    BY <2>4, <2>5, DisjointUnion, Zenon DEF Behind
  <2>7. /\ Cardinality(Uncounted) \in Nat /\ indexed_vectors \in Nat
        /\ inserted = indexed_vectors + Cardinality(Uncounted)
    BY FS_CardinalityType DEF Behind, TypeOK
  <2>. QED BY <2>1, <2>2, <2>3, <2>6, <2>7 DEF Behind
<1>3. ASSUME NEW p \in Participants, CountTuple(p) PROVE Behind'
  <2>1. PICK t \in Tuples : tuple[p] = {t}
    BY <1>3 DEF CountTuple, Holding, At
  <2>2. /\ indexed_vectors' = indexed_vectors + StoreLen[t] /\ inserted' = inserted
        /\ tuple' = [tuple EXCEPT ![p] = {}] /\ StoreLen[t] \in Nat
    BY <1>3, <2>1, StoreLenAssumption DEF CountTuple
  <2>. DEFINE block == {p} \X (1 .. StoreLen[t])
  <2>3. Uncounted' = Uncounted \ block
    BY <2>1, <2>2 DEF Uncounted, Vectors, TypeOK
  <2>4. Uncounted \cap block = block
    BY <2>1, <2>2 DEF Uncounted, Vectors
  <2>5. IsFiniteSet(block) /\ Cardinality(block) = StoreLen[t]
    BY <2>2, BlockSize, Zenon
  <2>. HIDE DEF block
  <2>6. IsFiniteSet(Uncounted \ block)
        /\ Cardinality(Uncounted \ block) = Cardinality(Uncounted) - StoreLen[t]
    <3>1. IsFiniteSet(Uncounted)
      BY DEF Behind
    <3>2. IsFiniteSet(Uncounted \ block)
          /\ Cardinality(Uncounted \ block) = Cardinality(Uncounted) - Cardinality(Uncounted \cap block)
      BY <3>1, FS_Difference, Zenon
    <3>. QED BY <2>4, <2>5, <3>2
  <2>7. /\ Cardinality(Uncounted) \in Nat /\ indexed_vectors \in Nat
        /\ inserted = indexed_vectors + Cardinality(Uncounted)
    BY FS_CardinalityType DEF Behind, TypeOK
  <2>. QED BY <2>2, <2>3, <2>6, <2>7 DEF Behind
<1>. QED BY <1>1, <1>2, <1>3, HoldingStep

\* Once anybody is past barrier 1, indexed_vectors is the number of vectors in the index,
\* although every participant inserts first and counts later.
THEOREM CounterSettles == Spec => []CounterSettled
<1>1. Init => Holding /\ Behind
  <2>. SUFFICES ASSUME Init PROVE Holding /\ Behind
    OBVIOUS
  <2>1. Uncounted = {}
    BY DEF Init, Uncounted, Vectors
  <2>. QED BY <2>1, FS_EmptySet DEF Init, Holding, Behind
<1>2. IInv /\ Holding /\ Behind /\ [Next]_vars => Holding' /\ Behind'
  BY HoldingStep, BehindStep DEF IInv
<1>3. ASSUME IInv, Holding, Behind, NEW p \in Participants, stage[p] >= 2
      PROVE  indexed_vectors = inserted
  <2>1. \A q \in Participants : stage[q] > 1 \/ (stage[q] = 1 /\ pc[q] \in Inside)
    BY <1>3 DEF IInv, Complete, Entered, TypeOK
  <2>2. ASSUME NEW q \in Participants PROVE pc[q] # "count"
    <3>1. pc[q] = "count" => stage[q] = 1
      BY <1>3 DEF IInv, Places
    <3>2. "count" \notin Inside
      BY DEF Inside
    <3>3. stage[q] \in Int
      BY <1>3 DEF IInv, TypeOK
    <3>. QED BY <2>1, <3>1, <3>2, <3>3
  <2>3. Uncounted = {}
    BY <1>3, <2>2 DEF Holding, Uncounted, Vectors
  <2>. QED BY <1>3, <2>3, FS_EmptySet DEF Behind, IInv, TypeOK
<1>4. IInv /\ Holding /\ Behind => CounterSettled
  BY <1>3 DEF CounterSettled
<1>. QED BY <1>1, <1>2, <1>4, Invariance, PTL DEF Spec
=============================================================================
