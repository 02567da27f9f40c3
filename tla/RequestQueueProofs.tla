------------------------- MODULE RequestQueueProofs -------------------------
(***************************************************************************)
(* The queue of GPU work for every set of tenants, every workload, weight, *)
(* aging and band, and a queue of any length: pop takes what the policy    *)
(* promises, no queued tenant gets ahead, aging bounds overtaking, and     *)
(* drain_expired drops exactly what has expired.                           *)
(***************************************************************************)
EXTENDS RequestQueue, FiniteSetTheorems, WellFoundedInduction, TLAPS

-----------------------------------------------------------------------------
(* Loops as recursive functions: a loop with a bounded number of turns has *)
(* a run, and a statement that every turn keeps holds of all of them.      *)

\* Every non-empty set of natural numbers has a least element.
LEMMA LeastExists ==
    ASSUME NEW S, S \subseteq Nat, S # {}
    PROVE  \E x \in S : \A y \in S : x <= y
<1>1. PICK x \in S : \A y \in S : ~(<<y, x>> \in OpToRel(<, Nat))
  BY NatLessThanWellFounded, WFMin, Zenon
<1>2. ASSUME NEW y \in S PROVE x <= y
  <2>1. x \in Nat /\ y \in Nat
    OBVIOUS
  <2>2. ~(<<y, x>> \in OpToRel(<, Nat))
    BY <1>1, Zenon
  <2>3. ~(y < x)
    BY <2>1, <2>2 DEF OpToRel
  <2> QED BY <2>1, <2>3
<1> QED BY <1>2

\* A statement about the turns of a loop: if it holds first and each turn keeps it, it
\* holds of all turns.  The statement is the set of the turns it holds of.
LEMMA EveryTurn ==
    ASSUME NEW L \in Nat, NEW first \in 0 .. L, NEW Good,
           first \in Good,
           \A n \in first .. L : n # first /\ n - 1 \in Good => n \in Good
    PROVE  \A n \in first .. L : n \in Good
<1> DEFINE Bad == {n \in first .. L : n \notin Good}
<1> SUFFICES ASSUME Bad # {} PROVE FALSE
  OBVIOUS
<1>1. Bad \subseteq Nat
  OBVIOUS
<1>2. PICK n \in Bad : \A m \in Bad : n <= m
  BY <1>1, LeastExists, Zenon
<1>3. n # first /\ n - 1 \in first .. L /\ n - 1 \notin Bad
  BY <1>2
<1> QED BY <1>3

\* f lists the states of a loop after turns first to last.
Run(first, last, States, start, step, f) ==
    /\ f \in [first .. last -> States] /\ f[first] = start
    /\ \A n \in first .. last : n # first => f[n] = step[n][f[n - 1]]

\* A loop over a set of states has a run of every length.
LEMMA LoopExists ==
    ASSUME NEW L \in Nat, NEW first \in 0 .. L, NEW States, NEW start \in States,
           NEW step \in [0 .. L -> [States -> States]]
    PROVE  \E f : Run(first, L, States, start, step, f)
<1> DEFINE Good == {m \in first .. L : \E f : Run(first, m, States, start, step, f)}
<1>1. first \in Good
  <2> DEFINE g == [n \in first .. first |-> start]
  <2>1. first .. first = {first} /\ first \in first .. L
    OBVIOUS
  <2>2. Run(first, first, States, start, step, g)
    BY <2>1 DEF Run
  <2> QED BY <2>1, <2>2
<1>2. ASSUME NEW m \in first .. L, m # first, m - 1 \in Good PROVE m \in Good
  <2>1. PICK f : Run(first, m - 1, States, start, step, f)
    BY <1>2
  <2> DEFINE g == [n \in first .. m |-> IF n = m THEN step[m][f[m - 1]] ELSE f[n]]
  <2>2. /\ m \in Int /\ first \in Int /\ m \in 0 .. L
        /\ m - 1 \in first .. m - 1 /\ first .. m = (first .. m - 1) \cup {m}
    BY <1>2
  <2>3. f[m - 1] \in States /\ step[m] \in [States -> States]
    BY <2>1, <2>2 DEF Run
  <2>4. step[m][f[m - 1]] \in States
    BY <2>3
  <2>5. g \in [first .. m -> States] /\ g[first] = start
    BY <1>2, <2>1, <2>2, <2>4 DEF Run
  <2>6. ASSUME NEW n \in first .. m, n # first PROVE g[n] = step[n][g[n - 1]]
    <3>1. n - 1 \in first .. m /\ n - 1 # m /\ (n # m => n \in first .. m - 1)
      BY <2>2, <2>6
    <3>2. g[n - 1] = f[n - 1]
      BY <3>1
    <3>3. CASE n = m BY <3>2, <3>3
    <3>4. CASE n # m
      <4>1. f[n] = step[n][f[n - 1]]
        BY <2>1, <2>6, <3>1, <3>4 DEF Run
      <4> QED BY <3>2, <3>4, <4>1
    <3> QED BY <3>3, <3>4
  <2>7. Run(first, m, States, start, step, g)
    BY <2>5, <2>6 DEF Run
  <2> QED BY <2>7
<1>3. L \in Good
  <2>1. L \in first .. L
    OBVIOUS
  <2> HIDE DEF Good
  <2>2. \A n \in first .. L : n # first /\ n - 1 \in Good => n \in Good
    BY <1>2
  <2>3. \A n \in first .. L : n \in Good
    BY <1>1, <2>2, EveryTurn, Zenon
  <2> QED BY <2>1, <2>3
<1> QED BY <1>3

-----------------------------------------------------------------------------
(* Least and greatest elements.                                            *)

LEMMA MinIn ==
    ASSUME NEW S, S \subseteq Nat, S # {}
    PROVE  Min(S) \in S /\ \A y \in S : Min(S) <= y
<1>1. \E x \in S : \A y \in S : x <= y
  BY LeastExists, Zenon
<1> QED BY <1>1, Zenon DEF Min

LEMMA MinOfTwo ==
    ASSUME NEW x \in Int, NEW y \in Int
    PROVE  Min({x, y}) = IF x <= y THEN x ELSE y
<1>1. \E z \in {x, y} : \A w \in {x, y} : z <= w
  <2>1. CASE x <= y BY <2>1
  <2>2. CASE ~(x <= y) BY <2>2
  <2> QED BY <2>1, <2>2
<1>2. Min({x, y}) \in {x, y} /\ \A w \in {x, y} : Min({x, y}) <= w
  BY <1>1 DEF Min
<1> QED BY <1>2

\* A bounded set of integers has a greatest element.
LEMMA MaxIn ==
    ASSUME NEW S, S \subseteq Int, S # {}, \E b \in Int : \A x \in S : x <= b
    PROVE  Max(S) \in S /\ \A y \in S : Max(S) >= y
<1>0. PICK b \in Int : \A x \in S : x <= b
  OBVIOUS
<1> DEFINE Below == {b - x : x \in S}
<1>1. Below \subseteq Nat /\ Below # {}
  <2>1. ASSUME NEW x \in S PROVE b - x \in Nat
    BY <1>0
  <2> QED BY <2>1, Zenon
<1>2. PICK d \in Below : \A e \in Below : d <= e
  BY <1>1, LeastExists, Zenon
<1>3. PICK x \in S : d = b - x
  BY <1>2
<1>4. ASSUME NEW y \in S PROVE x >= y
  <2>1. x \in Int /\ y \in Int /\ b - y \in Below
    OBVIOUS
  <2>2. b - x <= b - y
    BY <1>2, <1>3, <2>1
  <2> QED BY <2>1, <2>2
<1>5. \E z \in S : \A y \in S : z >= y
  BY <1>4
<1> QED BY <1>5, Zenon DEF Max

-----------------------------------------------------------------------------
(* The loop of drain_expired.                                              *)

\* Removing an element puts the last one in its place.
LEMMA SwapRemove ==
    ASSUME NEW S, NEW v \in Seq(S), NEW i \in 1 .. Len(v)
    PROVE  /\ swap_remove(v, i) \in Seq(S) /\ Len(swap_remove(v, i)) = Len(v) - 1
           /\ \A j \in 1 .. Len(v) - 1 :
                  swap_remove(v, i)[j] = IF j = i THEN v[Len(v)] ELSE v[j]
<1>1. Len(v) \in Nat /\ Len(v) - 1 \in Nat
  OBVIOUS
<1>2. \A j \in 1 .. Len(v) - 1 : v[Len(v)] \in S /\ v[j] \in S
  BY <1>1
<1> QED BY <1>1, <1>2 DEF swap_remove

\* No two places of a vector hold items with the same sequence number.
Apart(v) == \A m, n \in 1 .. Len(v) : v[m].sequence = v[n].sequence => m = n

LEMMA SwapRemoveRange ==
    ASSUME NEW S, NEW v \in Seq(S), NEW i \in 1 .. Len(v), Apart(v)
    PROVE  /\ Range(swap_remove(v, i)) = Range(v) \ {v[i]}
           /\ Apart(swap_remove(v, i))
<1> DEFINE w == swap_remove(v, i)
<1>1. /\ w \in Seq(S) /\ Len(w) = Len(v) - 1 /\ Len(v) \in Nat
      /\ \A j \in 1 .. Len(v) - 1 : w[j] = IF j = i THEN v[Len(v)] ELSE v[j]
  BY SwapRemove
<1> HIDE DEF w
<1>2. DOMAIN w = 1 .. Len(v) - 1 /\ DOMAIN v = 1 .. Len(v)
  BY <1>1
<1>3. ASSUME NEW x \in Range(w) PROVE x \in Range(v) \ {v[i]}
  <2>1. PICK j \in 1 .. Len(v) - 1 : x = w[j]
    BY <1>2 DEF Range
  <2>2. PICK k \in 1 .. Len(v) : x = v[k] /\ k # i
    <3>1. j \in 1 .. Len(v) /\ Len(v) \in 1 .. Len(v) /\ Len(v) # j
      BY <1>1
    <3>2. x = IF j = i THEN v[Len(v)] ELSE v[j]
      BY <1>1, <2>1
    <3> QED BY <3>1, <3>2
  <2>3. v[k] # v[i]
    BY <2>2 DEF Apart
  <2> QED BY <1>2, <2>2, <2>3 DEF Range
<1>4. ASSUME NEW x \in Range(v), x # v[i] PROVE x \in Range(w)
  <2>1. PICK k \in 1 .. Len(v) : x = v[k] /\ k # i
    BY <1>2, <1>4 DEF Range
  <2>2. PICK j \in 1 .. Len(v) - 1 : x = w[j]
    <3>1. CASE k = Len(v)
      <4>1. i \in 1 .. Len(v) - 1
        BY <1>1, <2>1, <3>1
      <4> QED BY <1>1, <2>1, <3>1, <4>1
    <3>2. CASE k # Len(v)
      <4>1. k \in 1 .. Len(v) - 1
        BY <1>1, <2>1, <3>2
      <4> QED BY <1>1, <2>1, <4>1
    <3> QED BY <3>1, <3>2
  <2> QED BY <1>2, <2>2 DEF Range
<1>5. Apart(w)
  <2> SUFFICES ASSUME NEW m \in 1 .. Len(v) - 1, NEW n \in 1 .. Len(v) - 1,
                      w[m].sequence = w[n].sequence
               PROVE  m = n
    BY <1>1 DEF Apart
  <2>1. /\ m \in 1 .. Len(v) /\ n \in 1 .. Len(v) /\ Len(v) \in 1 .. Len(v)
        /\ Len(v) # m /\ Len(v) # n
    BY <1>1
  <2>2. /\ w[m] = IF m = i THEN v[Len(v)] ELSE v[m]
        /\ w[n] = IF n = i THEN v[Len(v)] ELSE v[n]
    BY <1>1
  <2> QED BY <2>1, <2>2 DEF Apart
<1> QED BY <1>3, <1>4, <1>5 DEF w

\* What the loop works on.
Loops == [left : Seq(Range(pending)), index : Nat]

LEMMA TurnLoops ==
    ASSUME NEW loop \in Loops
    PROVE  turn(loop) \in Loops
<1>1. loop.left \in Seq(Range(pending)) /\ loop.index \in Nat
  BY DEF Loops
<1>2. swap_remove(loop.left, loop.index) \in Seq(Range(pending))
  <2>1. CASE Len(loop.left) = 0
    <3>1. swap_remove(loop.left, loop.index) = << >>
      BY <1>1, <2>1 DEF swap_remove
    <3> QED BY <3>1
  <2>2. CASE Len(loop.left) # 0
    <3>1. Len(loop.left) - 1 \in Nat /\ loop.left[Len(loop.left)] \in Range(pending)
      BY <1>1, <2>2
    <3>2. \A j \in 1 .. Len(loop.left) - 1 : loop.left[j] \in Range(pending)
      BY <1>1
    <3> QED BY <3>1, <3>2 DEF swap_remove
  <2> QED BY <2>1, <2>2
<1> QED BY <1>1, <1>2 DEF turn, Loops

\* The loop does what its body says, turn by turn.
LEMMA DrainedTurns ==
    ASSUME pending \in Seq(Item)
    PROVE  /\ drained[0] = [left |-> pending, index |-> 1]
           /\ \A n \in 1 .. Len(pending) : drained[n] = turn(drained[n - 1])
<1> DEFINE L == Len(pending)
           start == [left |-> pending, index |-> 1]
           step == [n \in 0 .. L |-> [loop \in Loops |-> turn(loop)]]
           D(f) == [n \in 0 .. L |-> IF n = 0 THEN start ELSE turn(f[n - 1])]
<1>1. L \in Nat /\ 0 \in 0 .. L
  OBVIOUS
<1>2. start \in Loops
  <2>1. pending \in Seq(Range(pending))
    BY DEF Range
  <2> QED BY <2>1 DEF Loops
<1>3. step \in [0 .. L -> [Loops -> Loops]]
  BY TurnLoops
<1>4. PICK f : Run(0, L, Loops, start, step, f)
  <2> HIDE DEF step, start, L, D
  <2> QED BY <1>1, <1>2, <1>3, LoopExists
<1>5. ASSUME NEW n \in 0 .. L, n # 0 PROVE f[n] = turn(f[n - 1])
  <2>1. n - 1 \in 0 .. L
    BY <1>1, <1>5
  <2>2. f[n - 1] \in Loops
    BY <1>4, <2>1 DEF Run
  <2> QED BY <1>4, <1>5, <2>2, Zenon DEF Run
<1>6. f = D(f)
  BY <1>4, <1>5 DEF Run
<1>7. drained = D(drained)
  BY <1>6, Zenon DEF drained
<1> QED
  <2> HIDE DEF start
  <2>1. drained[0] = start
    BY <1>1, <1>7
  <2>2. ASSUME NEW n \in 1 .. L PROVE drained[n] = turn(drained[n - 1])
    <3>1. n \in 0 .. L /\ n # 0
      BY <1>1
    <3> QED BY <1>7, <3>1
  <2> QED BY <2>1, <2>2 DEF start

\* The loop after n turns: what is before index has not expired, what is gone has.
Drains(n) ==
    LET left == drained[n].left
        index == drained[n].index
    IN  /\ left \in Seq(Range(pending)) /\ Apart(left)
        /\ index \in Nat \ {0} /\ index = Len(left) + 1 - (Len(pending) - n)
        /\ \A m \in 1 .. index - 1 : ~(left[m].deadline <= now)
        /\ \A i \in Range(pending) \ Range(left) : i.deadline <= now

LEMMA TurnDrains ==
    ASSUME pending \in Seq(Item), NEW n \in 1 .. Len(pending), Drains(n - 1)
    PROVE  Drains(n)
<1> DEFINE left == drained[n - 1].left
           index == drained[n - 1].index
<1>1. drained[n] = turn(drained[n - 1])
  BY DrainedTurns
<1>2. /\ left \in Seq(Range(pending)) /\ Apart(left)
      /\ index \in Nat \ {0} /\ index = Len(left) + 1 - (Len(pending) - (n - 1))
      /\ \A m \in 1 .. index - 1 : ~(left[m].deadline <= now)
      /\ \A i \in Range(pending) \ Range(left) : i.deadline <= now
  BY Zenon DEF Drains
<1> HIDE DEF left, index
<1>3. Len(left) \in Nat /\ Len(pending) \in Nat /\ index \in 1 .. Len(left)
  <2>1. Len(left) \in Nat /\ Len(pending) \in Nat
    BY <1>2
  <2>2. index \in Int /\ index >= 1 /\ n \in Int /\ n <= Len(pending)
    BY <1>2, <2>1
  <2>3. index = Len(left) + 1 - (Len(pending) - (n - 1))
    BY <1>2
  <2> QED BY <2>1, <2>2, <2>3
<1>4. CASE left[index].deadline <= now
  <2> DEFINE rest == swap_remove(left, index)
  <2>1. drained[n].left = rest /\ drained[n].index = index
    BY <1>1, <1>4 DEF turn, left, index
  <2>2. /\ rest \in Seq(Range(pending)) /\ Len(rest) = Len(left) - 1
        /\ \A j \in 1 .. Len(left) - 1 : rest[j] = IF j = index THEN left[Len(left)] ELSE left[j]
    <3>1. rest \in Seq(Range(pending)) /\ Len(rest) = Len(left) - 1
      BY <1>2, <1>3, SwapRemove
    <3> QED BY <1>3, <3>1 DEF swap_remove
  <2>3. Range(rest) = Range(left) \ {left[index]} /\ Apart(rest)
    BY <1>2, <1>3, SwapRemoveRange
  <2> HIDE DEF rest
  <2>4. index = Len(rest) + 1 - (Len(pending) - n)
    BY <1>2, <1>3, <2>2
  <2>5. ASSUME NEW m \in 1 .. index - 1 PROVE ~(rest[m].deadline <= now)
    <3>1. m \in 1 .. Len(left) - 1 /\ m # index
      BY <1>3
    <3>2. rest[m] = left[m]
      BY <2>2, <3>1
    <3> QED BY <1>2, <3>2
  <2>6. \A i \in Range(pending) \ Range(rest) : i.deadline <= now
    BY <1>2, <1>4, <2>3
  <2> QED BY <1>2, <2>1, <2>2, <2>3, <2>4, <2>5, <2>6 DEF Drains
<1>5. CASE ~(left[index].deadline <= now)
  <2>1. drained[n].left = left /\ drained[n].index = index + 1
    BY <1>1, <1>5 DEF turn, left, index
  <2>2. index + 1 = Len(left) + 1 - (Len(pending) - n)
    BY <1>2, <1>3
  <2>3. ASSUME NEW m \in 1 .. (index + 1) - 1 PROVE ~(left[m].deadline <= now)
    <3>1. m = index \/ m \in 1 .. index - 1
      BY <1>3
    <3> QED BY <1>2, <1>5, <3>1
  <2>4. index + 1 \in Nat \ {0}
    BY <1>2
  <2> QED BY <1>2, <2>1, <2>2, <2>3, <2>4 DEF Drains
<1> QED BY <1>4, <1>5

\* drain_expired drops the items whose deadline has passed and no others, although it
\* moves the last item into every gap while it goes on.
THEOREM DrainsExactly ==
    ASSUME pending \in Seq(Item), Apart(pending)
    PROVE  LET left == drained[Len(pending)].left
           IN  /\ left \in Seq(Item) /\ Apart(left)
               /\ Range(left) = {i \in Range(pending) : ~(i.deadline <= now)}
<1> DEFINE L == Len(pending)
           Good == {n \in 0 .. L : Drains(n)}
<1>1. L \in Nat /\ 0 \in 0 .. L
  OBVIOUS
<1>2. 0 \in Good
  <2>1. drained[0] = [left |-> pending, index |-> 1]
    BY DrainedTurns
  <2>2. pending \in Seq(Range(pending))
    BY DEF Range
  <2> QED BY <1>1, <2>1, <2>2 DEF Drains
<1>3. ASSUME NEW n \in 0 .. L, n # 0, n - 1 \in Good PROVE n \in Good
  <2>1. n \in 1 .. L
    BY <1>1, <1>3
  <2> QED BY <1>3, <2>1, TurnDrains
<1>4. Drains(L)
  <2>1. \A n \in 0 .. L : n # 0 /\ n - 1 \in Good => n \in Good
    BY <1>3
  <2> HIDE DEF L, Good
  <2>2. \A n \in 0 .. L : n \in Good
    BY <1>1, <1>2, <2>1, EveryTurn
  <2>3. L \in Good
    BY <1>1, <2>2
  <2> QED BY <2>3 DEF Good
<1> DEFINE left == drained[L].left
           index == drained[L].index
<1>5. /\ left \in Seq(Range(pending)) /\ Apart(left)
      /\ index = Len(left) + 1 - (L - L)
      /\ \A m \in 1 .. index - 1 : ~(left[m].deadline <= now)
      /\ \A i \in Range(pending) \ Range(left) : i.deadline <= now
  BY <1>4 DEF Drains
<1>6. Len(left) \in Nat /\ 1 .. index - 1 = 1 .. Len(left)
  BY <1>1, <1>5
<1>7. Range(pending) \subseteq Item
  BY DEF Range
<1> HIDE DEF left, index
<1>8. left \in Seq(Item)
  BY <1>5, <1>7
<1>9. Range(left) \subseteq Range(pending) /\ \A i \in Range(left) : ~(i.deadline <= now)
  BY <1>5, <1>6 DEF Range
<1>10. Range(left) = {i \in Range(pending) : ~(i.deadline <= now)}
  BY <1>5, <1>9
<1> QED BY <1>5, <1>8, <1>10 DEF left

-----------------------------------------------------------------------------
(* better orders the queued items.                                         *)

LEMMA EffectiveType ==
    ASSUME TypeOK, NEW i \in Item
    PROVE  /\ effective_priority(i) \in Int /\ effective_priority(i) <= 100
           /\ Aging > 0 =>
                  LET steps == (now - i.enqueued_at) \div Aging
                      aged == i.priority + IF 200 <= steps THEN 200 ELSE steps
                  IN  effective_priority(i) = IF 100 <= aged THEN 100 ELSE aged
<1>1. now \in Int /\ i.enqueued_at \in Int /\ i.priority \in -100 .. 100 /\ Aging \in Nat
  BY QueueAssumption DEF TypeOK, Item
<1>2. CASE Aging = 0
  BY <1>1, <1>2 DEF effective_priority
<1>3. CASE Aging # 0
  <2> DEFINE steps == (now - i.enqueued_at) \div Aging
             aged == i.priority + IF 200 <= steps THEN 200 ELSE steps
  <2>1. steps \in Int
    BY <1>1, <1>3
  <2>2. effective_priority(i) = Min({100, i.priority + Min({200, steps})})
    BY <1>3 DEF effective_priority
  <2> HIDE DEF steps
  <2>3. Min({200, steps}) = IF 200 <= steps THEN 200 ELSE steps
    BY <2>1, MinOfTwo
  <2>4. aged \in Int /\ i.priority + Min({200, steps}) = aged
    BY <1>1, <2>1, <2>3
  <2> HIDE DEF aged
  <2>5. effective_priority(i) = IF 100 <= aged THEN 100 ELSE aged
    BY <2>2, <2>4, MinOfTwo
  <2>6. effective_priority(i) \in Int /\ effective_priority(i) <= 100
    BY <2>4, <2>5
  <2> QED BY <2>5, <2>6 DEF aged, steps
<1> QED BY <1>2, <1>3

LEMMA RuntimeType ==
    ASSUME TypeOK, NEW t
    PROVE  runtime(t) \in Nat
BY DEF TypeOK, runtime

LEMMA PendingItems ==
    ASSUME TypeOK
    PROVE  Range(pending) \subseteq Item
BY DEF TypeOK, Range

LEMMA PendingFirst ==
    ASSUME TypeOK, pending # << >>
    PROVE  Range(pending) # {}
<1>1. pending \in Seq(Item) /\ 1 \in DOMAIN pending
  BY DEF TypeOK
<1>2. pending[1] \in Range(pending)
  BY <1>1 DEF Range
<1> QED BY <1>2

LEMMA HighestIs ==
    ASSUME TypeOK, Range(pending) # {}
    PROVE  /\ \E h \in Range(pending) : effective_priority(h) = Highest
           /\ \A i \in Range(pending) : effective_priority(i) <= Highest
<1> DEFINE S == {effective_priority(i) : i \in Range(pending)}
<1>1. \A i \in Range(pending) : effective_priority(i) \in Int /\ effective_priority(i) <= 100
  BY PendingItems, EffectiveType
<1>2. S \subseteq Int /\ S # {} /\ \E b \in Int : \A x \in S : x <= b
  BY <1>1
<1> HIDE DEF S
<1>3. Max(S) \in S /\ \A y \in S : Max(S) >= y
  BY <1>2, MaxIn, Zenon
<1>4. Max(S) = Highest
  BY DEF Highest, S
<1>5. \A i \in Range(pending) : effective_priority(i) \in S
  BY DEF S
<1>6. Highest \in Int
  BY <1>2, <1>3, <1>4, Zenon
<1> QED BY <1>1, <1>3, <1>4, <1>5, <1>6 DEF S

\* What better compares, for each policy.
LEMMA BetterIs ==
    ASSUME NEW l, NEW r
    PROVE  /\ policy = "fair" =>
                  (better(l, r) <=> \/ runtime(l.tenant) < runtime(r.tenant)
                                    \/ /\ runtime(l.tenant) = runtime(r.tenant)
                                       /\ l.sequence < r.sequence)
           /\ policy = "priority" => (better(l, r) <=> ByPriority(l, r))
           /\ policy = "fair-priority" =>
                  (better(l, r) <=>
                      \/ Eligible(l) /\ ~Eligible(r)
                      \/ ~Eligible(l) /\ ~Eligible(r) /\ ByPriority(l, r)
                      \/ /\ Eligible(l) /\ Eligible(r)
                         /\ \/ l.tenant = r.tenant /\ ByPriority(l, r)
                            \/ /\ l.tenant # r.tenant
                               /\ \/ runtime(l.tenant) < runtime(r.tenant)
                                  \/ /\ runtime(l.tenant) = runtime(r.tenant)
                                     /\ ByPriority(l, r))
<1>1. policy = "fair" => policy # "priority"
  OBVIOUS
<1>2. policy = "fair-priority" => policy # "priority" /\ policy # "fair"
  OBVIOUS
<1>3. CASE policy = "fair" BY <1>3, <1>1 DEF better
<1>4. CASE policy = "priority" BY <1>4 DEF better
<1>5. CASE policy = "fair-priority" BY <1>5, <1>2 DEF better
<1> QED BY <1>3, <1>4, <1>5

LEMMA BetterOrder ==
    ASSUME TypeOK, NEW i \in Range(pending), NEW j \in Range(pending), NEW k \in Range(pending)
    PROVE  /\ i.sequence # j.sequence => better(i, j) \/ better(j, i)
           /\ better(i, j) /\ better(j, k) => better(i, k)
<1>1. /\ i.sequence \in Int /\ j.sequence \in Int /\ k.sequence \in Int
      /\ i \in Item /\ j \in Item /\ k \in Item
  BY PendingItems DEF Item
<1>2. /\ effective_priority(i) \in Int /\ effective_priority(j) \in Int
      /\ effective_priority(k) \in Int
  BY <1>1, EffectiveType
<1>3. /\ runtime(i.tenant) \in Int /\ runtime(j.tenant) \in Int /\ runtime(k.tenant) \in Int
  BY RuntimeType
<1>4. policy \in {"fair", "priority", "fair-priority"}
  BY QueueAssumption DEF TypeOK
<1>5. CASE policy = "fair"
  BY <1>1, <1>3, <1>5, BetterIs
<1>6. /\ i.sequence # j.sequence => ByPriority(i, j) \/ ByPriority(j, i)
      /\ ByPriority(i, j) /\ ByPriority(j, k) => ByPriority(i, k)
  BY <1>1, <1>2 DEF ByPriority
<1>7. CASE policy = "priority"
  BY <1>6, <1>7, BetterIs
<1>8. CASE policy = "fair-priority"
  BY <1>3, <1>6, <1>8, BetterIs
<1> QED BY <1>4, <1>5, <1>7, <1>8

-----------------------------------------------------------------------------
(* The loop of pop.                                                        *)

LEMMA BestTurns ==
    ASSUME pending \in Seq(Item), pending # << >>
    PROVE  /\ best[1] = 1
           /\ \A n \in 2 .. Len(pending) :
                  best[n] = IF better(pending[n], pending[best[n - 1]]) THEN n ELSE best[n - 1]
<1> DEFINE L == Len(pending)
           step == [n \in 0 .. L |-> [c \in 0 .. L |->
                       IF better(pending[n], pending[c]) THEN n ELSE c]]
           B(f) == [n \in 1 .. L |->
                       IF n = 1 THEN 1
                       ELSE IF better(pending[n], pending[f[n - 1]]) THEN n ELSE f[n - 1]]
<1>1. L \in Nat /\ L >= 1
  OBVIOUS
<1> HIDE DEF L
<1>2. 1 \in 0 .. L
  BY <1>1
<1>3. step \in [0 .. L -> [0 .. L -> 0 .. L]]
  OBVIOUS
<1>4. PICK f : Run(1, L, 0 .. L, 1, step, f)
  <2> HIDE DEF step, B
  <2> QED BY <1>1, <1>2, <1>3, LoopExists, Zenon
<1>5. ASSUME NEW n \in 1 .. L, n # 1
      PROVE  f[n] = IF better(pending[n], pending[f[n - 1]]) THEN n ELSE f[n - 1]
  <2>1. n - 1 \in 1 .. L /\ n \in 0 .. L
    BY <1>1, <1>5
  <2>2. f[n - 1] \in 0 .. L
    BY <1>4, <2>1 DEF Run
  <2>3. f[n] = step[n][f[n - 1]]
    BY <1>4, <1>5, Zenon DEF Run
  <2> QED BY <2>1, <2>2, <2>3
<1>6. f = B(f)
  BY <1>4, <1>5 DEF Run
<1>7. best = B(best)
  BY <1>6, Zenon DEF best, L
<1> QED
  <2>1. best[1] = 1
    BY <1>1, <1>7
  <2>2. ASSUME NEW n \in 2 .. L
        PROVE  best[n] = IF better(pending[n], pending[best[n - 1]]) THEN n ELSE best[n - 1]
    <3>1. n \in 1 .. L /\ n # 1
      BY <1>1
    <3> QED BY <1>7, <3>1, Zenon
  <2> QED BY <2>1, <2>2 DEF L

\* After n items the loop of pop has the one that is better than all others of them.
Leads(n) ==
    /\ best[n] \in 1 .. n
    /\ \A k \in 1 .. n : k # best[n] => better(pending[best[n]], pending[k])

LEMMA BestLeads ==
    ASSUME TypeOK, Apart(pending), pending # << >>
    PROVE  Leads(Len(pending))
<1> DEFINE L == Len(pending)
           Good == {n \in 1 .. L : Leads(n)}
<1>1. pending \in Seq(Item) /\ L \in Nat /\ L >= 1
  BY DEF TypeOK
<1>2. \A n \in 1 .. L : pending[n] \in Range(pending)
  BY <1>1 DEF Range
<1> HIDE DEF L
<1>3. 1 \in Good
  <2>1. best[1] = 1
    BY <1>1, BestTurns
  <2> QED BY <1>1, <2>1 DEF Leads
<1>4. ASSUME NEW n \in 1 .. L, n # 1, n - 1 \in Good PROVE n \in Good
  <2>1. best[n] = IF better(pending[n], pending[best[n - 1]]) THEN n ELSE best[n - 1]
    <3>1. n \in 2 .. Len(pending)
      BY <1>1, <1>4 DEF L
    <3> QED BY <1>1, <3>1, BestTurns
  <2> DEFINE c == best[n - 1]
  <2>2. /\ c \in 1 .. n - 1 /\ c \in 1 .. L /\ c # n
        /\ \A k \in 1 .. n - 1 : k # c => better(pending[c], pending[k])
    BY <1>1, <1>4 DEF Leads
  <2> HIDE DEF c
  <2>3. CASE better(pending[n], pending[c])
    <3>1. best[n] = n
      BY <2>1, <2>3 DEF c
    <3>2. ASSUME NEW k \in 1 .. n, k # n PROVE better(pending[n], pending[k])
      <4>1. k \in 1 .. n - 1 /\ k \in 1 .. L
        BY <1>1, <3>2
      <4> QED BY <1>2, <2>2, <2>3, <4>1, BetterOrder
    <3> QED BY <1>1, <3>1, <3>2 DEF Leads
  <2>4. CASE ~better(pending[n], pending[c])
    <3>1. best[n] = c
      BY <2>1, <2>4 DEF c
    <3>2. pending[n].sequence # pending[c].sequence
      BY <2>2 DEF Apart, L
    <3>3. better(pending[c], pending[n])
      BY <1>2, <2>2, <2>4, <3>2, BetterOrder
    <3>4. ASSUME NEW k \in 1 .. n, k # c PROVE better(pending[c], pending[k])
      <4>1. k = n \/ k \in 1 .. n - 1
        BY <1>1
      <4> QED BY <2>2, <3>3, <3>4, <4>1
    <3>5. c \in 1 .. n
      BY <1>1, <2>2
    <3> QED BY <3>1, <3>4, <3>5 DEF Leads
  <2> QED BY <2>3, <2>4
<1> QED
  <2>1. \A n \in 1 .. L : n # 1 /\ n - 1 \in Good => n \in Good
    BY <1>4
  <2>2. 1 \in 0 .. L /\ L \in 1 .. L
    BY <1>1
  <2> HIDE DEF Good
  <2>3. L \in Good
    BY <1>1, <1>3, <2>1, <2>2, EveryTurn, Zenon
  <2> QED BY <2>3 DEF Good, L

\* The item that pop takes, and what it leaves.
LEMMA PopTakes ==
    ASSUME TypeOK, Apart(pending), pop
    PROVE  \E item \in Range(pending) :
               /\ running' = {item}
               /\ \A i \in Range(pending) : i # item => better(item, i)
               /\ Range(pending') = Range(pending) \ {item}
               /\ pending' \in Seq(Item) /\ Apart(pending')
               /\ virtual_runtime' = [t \in DOMAIN virtual_runtime \cup {item.tenant} |->
                      IF t = item.tenant THEN runtime(t) + Charge(item) ELSE virtual_runtime[t]]
<1> DEFINE chosen == best[Len(pending)]
           item == pending[chosen]
<1>1. pending \in Seq(Item) /\ pending # << >> /\ DOMAIN pending = 1 .. Len(pending)
  BY DEF TypeOK, pop
<1>2. /\ chosen \in 1 .. Len(pending)
      /\ \A k \in 1 .. Len(pending) : k # chosen => better(pending[chosen], pending[k])
  BY <1>1, BestLeads DEF Leads
<1>3. /\ pending' = swap_remove(pending, chosen) /\ running' = {item}
      /\ virtual_runtime' = [t \in DOMAIN virtual_runtime \cup {item.tenant} |->
             IF t = item.tenant THEN runtime(t) + Charge(item) ELSE virtual_runtime[t]]
  BY DEF pop
<1> HIDE DEF chosen
<1>4. item \in Range(pending)
  BY <1>1, <1>2 DEF Range
<1>5. \A i \in Range(pending) : i # item => better(item, i)
  BY <1>1, <1>2 DEF Range
<1>6. Range(pending') = Range(pending) \ {item} /\ Apart(pending')
  BY <1>1, <1>2, <1>3, SwapRemoveRange
<1>7. pending' \in Seq(Item)
  BY <1>1, <1>2, <1>3, SwapRemove
<1> QED BY <1>3, <1>4, <1>5, <1>6, <1>7

-----------------------------------------------------------------------------
(* The invariant.                                                          *)

Asked(i) == \E r \in Requests : r.tenant = i.tenant /\ r.cost = i.cost

\* Queued items have sequence numbers of their own and tenants with a runtime, each item
\* goes back to a request, and nothing was accepted in the future.
Queued ==
    /\ Apart(pending)
    /\ \A i \in Range(pending) : i.sequence < next_sequence /\ i.tenant \in DOMAIN virtual_runtime
    /\ \A i \in Range(pending) \cup running : Asked(i) /\ i.enqueued_at <= now

\* Under the fair policy a tenant whose runtime is kept, queued or not, is ahead of a
\* queued one by at most one quantum.  Tenants without work have to be included: they
\* come back with what is kept.
Lag ==
    policy = "fair" =>
        \A t \in DOMAIN virtual_runtime, j \in Range(pending) :
            virtual_runtime[t] <= virtual_runtime[j.tenant] + MaxCharge

QInv == TypeOK /\ Queued /\ Lag

LEMMA ChargeType ==
    ASSUME NEW p \in Policies, NEW i, i.tenant \in Tenants, i.cost \in Nat \ {0}
    PROVE  Charge(i) \in Nat
<1>1. Unit \in Nat /\ Weight[i.tenant] \in Nat \ {0}
  BY QueueAssumption
<1>2. Unit \div Weight[i.tenant] \in Nat
  BY <1>1
<1> QED BY <1>2 DEF Charge

\* A finite set of numbers is bounded: a smallest unbounded subset would lose its bound
\* with one element.
LEMMA FiniteBounded ==
    ASSUME NEW S, S \subseteq Nat, IsFiniteSet(S)
    PROVE  \E b \in Int : \A x \in S : x <= b
<1> DEFINE Bounded(X) == \E b \in Nat : \A x \in X : x <= b
           T == {X \in SUBSET S : ~Bounded(X)}
<1> SUFFICES ASSUME ~Bounded(S) PROVE FALSE
  OBVIOUS
<1>1. S \in T /\ T \subseteq SUBSET S
  OBVIOUS
<1>2. IsWellFoundedOn(StrictSubsetOrdering(S), SUBSET S)
  BY FS_StrictSubsetOrderingWellFounded, FS_FiniteSubsetsOfFinite, Zenon
<1>3. PICK X \in T : \A Y \in T : ~(<<Y, X>> \in StrictSubsetOrdering(S))
  <2> HIDE DEF T
  <2> QED BY <1>1, <1>2, WFMin, Zenon
<1>4. PICK x \in X : TRUE
  <2>1. Bounded({})
    OBVIOUS
  <2> QED BY <1>3, <2>1
<1>5. X \ {x} \notin T
  <2>1. X \in SUBSET S /\ X \ {x} \in SUBSET S /\ X \ {x} # X
    BY <1>3, <1>4
  <2>2. <<X \ {x}, X>> \in StrictSubsetOrdering(S)
    BY <2>1, Zenon DEF StrictSubsetOrdering
  <2> HIDE DEF T
  <2> QED BY <1>3, <2>2, Zenon
<1>6. PICK b \in Nat : \A y \in X \ {x} : y <= b
  BY <1>3, <1>5
<1>7. x \in Nat
  BY <1>3, <1>4
<1>8. Bounded(X)
  <2>1. CASE b <= x
    <3>1. \A y \in X : y <= x
      BY <1>3, <1>6, <1>7, <2>1
    <3> QED BY <1>7, <3>1, Zenon
  <2>2. CASE x <= b BY <1>6, <1>7, <2>2
  <2> QED BY <1>6, <1>7, <2>1, <2>2
<1> QED BY <1>3, <1>8

\* No item is charged more than MaxCharge.
LEMMA ChargeBounded ==
    ASSUME policy \in Policies
    PROVE  /\ MaxCharge \in Nat
           /\ \A i \in Item : Asked(i) => Charge(i) \in Nat /\ Charge(i) <= MaxCharge
<1> DEFINE charge == [r \in Requests |-> Charge(r)]
           Charges == {Charge(r) : r \in Requests}
           S == {0} \cup Charges
<1>1. Requests \subseteq Request /\ IsFiniteSet(Requests)
  BY QueueAssumption DEF Requests
<1>2. \A r \in Requests : Charge(r) \in Nat
  BY <1>1, ChargeType DEF Request
<1>3. S \subseteq Nat /\ 0 \in S
  BY <1>2
<1>4. IsFiniteSet(S)
  <2>1. charge \in Surjection(Requests, Charges)
    BY DEF Surjection
  <2>2. IsFiniteSet(Charges)
    BY <1>1, <2>1, FS_Surjection
  <2> QED BY <2>2, FS_AddElement
<1>5. Max(S) \in S /\ \A y \in S : Max(S) >= y
  <2> HIDE DEF S
  <2>1. S \subseteq Int /\ S # {}
    BY <1>3
  <2>2. \E b \in Int : \A x \in S : x <= b
    BY <1>3, <1>4, FiniteBounded, Zenon
  <2> QED BY <2>1, <2>2, MaxIn, Zenon
<1>6. MaxCharge = Max(S)
  BY DEF MaxCharge
<1>7. ASSUME NEW i \in Item, Asked(i) PROVE Charge(i) \in S
  <2>1. PICK r \in Requests : r.tenant = i.tenant /\ r.cost = i.cost
    BY <1>7 DEF Asked
  <2>2. Charge(r) = Charge(i)
    BY <2>1 DEF Charge
  <2> QED BY <2>2
<1> HIDE DEF S
<1> QED BY <1>3, <1>5, <1>6, <1>7, Zenon

LEMMA RangeAppend ==
    ASSUME NEW S, NEW v \in Seq(S), NEW x \in S
    PROVE  Append(v, x) \in Seq(S) /\ Range(Append(v, x)) = Range(v) \cup {x}
<1>1. /\ Append(v, x) \in Seq(S) /\ Len(v) \in Nat
      /\ DOMAIN v = 1 .. Len(v) /\ DOMAIN Append(v, x) = 1 .. Len(v) + 1
      /\ \A n \in 1 .. Len(v) : Append(v, x)[n] = v[n] /\ Append(v, x)[Len(v) + 1] = x
  OBVIOUS
<1>2. Append(v, x)[Len(v) + 1] = x
  OBVIOUS
<1>3. 1 .. Len(v) + 1 = (1 .. Len(v)) \cup {Len(v) + 1}
  BY <1>1
<1> QED BY <1>1, <1>2, <1>3 DEF Range

LEMMA RangePrime == Range(pending)' = Range(pending')
BY Zenon DEF Range

\* A push keeps the invariant: the runtimes are forgotten when the queue was empty, else
\* the tenant joins at no less than the least runtime of a queued tenant.
LEMMA PushRuntime ==
    ASSUME TypeOK, Queued, Lag, NEW item \in Item, push(item)
    PROVE  /\ virtual_runtime' \in [DOMAIN virtual_runtime' -> Nat]
           /\ \A i \in Range(pending) : i.tenant \in DOMAIN virtual_runtime'
           /\ item.tenant \in DOMAIN virtual_runtime'
           /\ policy = "fair" =>
                  \A t \in DOMAIN virtual_runtime' :
                      /\ virtual_runtime'[t] <= virtual_runtime'[item.tenant] + MaxCharge
                      /\ \A j \in Range(pending) :
                             virtual_runtime'[t] <= virtual_runtime'[j.tenant] + MaxCharge
<1>1. MaxCharge \in Nat /\ policy \in Policies
  BY ChargeBounded DEF TypeOK
<1>2. CASE pending = << >>
  <2>1. Range(pending) = {}
    BY <1>2 DEF Range
  <2>2. virtual_runtime' = [t \in {item.tenant} |-> 0]
    BY <1>2, <2>1 DEF push
  <2> QED BY <1>1, <2>1, <2>2
<1>3. CASE pending # << >>
  <2> DEFINE vr == virtual_runtime
             Least == {vr[i.tenant] : i \in Range(pending)}
             active == \E i \in Range(pending) : i.tenant = item.tenant
             old == IF item.tenant \in DOMAIN vr THEN vr[item.tenant] ELSE Min(Least)
             new == IF active \/ old >= Min(Least) THEN old ELSE Min(Least)
  <2>1. virtual_runtime' = [t \in DOMAIN vr \cup {item.tenant} |->
                               IF t # item.tenant THEN vr[t] ELSE new]
    BY <1>3 DEF push
  <2>2. vr \in [DOMAIN vr -> Nat] /\ \A i \in Range(pending) : i.tenant \in DOMAIN vr
    BY DEF TypeOK, Queued
  <2>3. Least \subseteq Nat /\ Least # {}
    <3>1. Range(pending) # {}
      BY <1>3, PendingFirst
    <3> QED BY <2>2, <3>1
  <2>4. Min(Least) \in Least /\ \A y \in Least : Min(Least) <= y
    <3> HIDE DEF Least
    <3> QED BY <2>3, MinIn, Zenon
  <2>5. PICK m \in Range(pending) : Min(Least) = vr[m.tenant]
    BY <2>4, Zenon
  <2>6. \A j \in Range(pending) : Min(Least) <= vr[j.tenant]
    BY <2>4
  <2>7. Min(Least) \in Nat
    BY <2>3, <2>4
  <2> HIDE DEF Least
  <2>8. old \in Nat /\ new \in Nat
    BY <2>2, <2>7
  <2>9. active => new = vr[item.tenant] /\ item.tenant \in DOMAIN vr
    BY <2>2
  <2>10. ASSUME ~active
         PROVE  /\ new >= Min(Least)
                /\ new = Min(Least) \/ (item.tenant \in DOMAIN vr /\ new = vr[item.tenant])
    <3>1. new = IF old >= Min(Least) THEN old ELSE Min(Least)
      BY <2>10
    <3> HIDE DEF new, active
    <3>2. old = Min(Least) \/ (item.tenant \in DOMAIN vr /\ old = vr[item.tenant])
      OBVIOUS
    <3> HIDE DEF old
    <3>3. CASE old >= Min(Least)
      BY <3>1, <3>2, <3>3
    <3>4. CASE ~(old >= Min(Least))
      BY <2>7, <3>1, <3>4
    <3> QED BY <3>3, <3>4
  <2>11. new >= Min(Least)
    BY <2>6, <2>9, <2>10
  <2> HIDE DEF new, old, active
  <2>12. ASSUME policy = "fair", NEW t \in DOMAIN vr, NEW j \in Range(pending)
        PROVE  vr[t] <= vr[j.tenant] + MaxCharge
    BY <2>12 DEF Lag
  <2>13. ASSUME policy = "fair", NEW j \in Range(pending)
        PROVE  new <= vr[j.tenant] + MaxCharge
    <3>1. new = Min(Least) \/ (item.tenant \in DOMAIN vr /\ new = vr[item.tenant])
      BY <2>9, <2>10
    <3>2. vr[j.tenant] \in Nat
      BY <2>2
    <3>3. CASE new = Min(Least)
      <4>1. Min(Least) <= vr[j.tenant]
        BY <2>6
      <4> QED BY <1>1, <2>7, <3>2, <3>3, <4>1
    <3>4. CASE item.tenant \in DOMAIN vr /\ new = vr[item.tenant]
      BY <2>12, <2>13, <3>4
    <3> QED BY <3>1, <3>3, <3>4
  <2>14. ASSUME policy = "fair", NEW t \in DOMAIN vr
        PROVE  vr[t] <= new + MaxCharge
    <3>1. vr[t] <= Min(Least) + MaxCharge
      BY <2>5, <2>12, <2>14
    <3>2. vr[t] \in Nat
      BY <2>2
    <3> QED BY <1>1, <2>7, <2>8, <2>11, <3>1, <3>2
  <2>15. \A j \in Range(pending) :
            virtual_runtime'[j.tenant] = IF j.tenant # item.tenant THEN vr[j.tenant] ELSE new
    BY <2>1, <2>2
  <2>16. new <= new + MaxCharge
    BY <1>1, <2>8
  <2>17. ASSUME policy = "fair", NEW t \in DOMAIN virtual_runtime'
        PROVE  /\ virtual_runtime'[t] <= new + MaxCharge
               /\ \A j \in Range(pending) :
                      virtual_runtime'[t] <= virtual_runtime'[j.tenant] + MaxCharge
    <3>1. CASE t = item.tenant
      <4>1. virtual_runtime'[t] = new
        BY <2>1, <3>1
      <4> QED BY <2>13, <2>15, <2>16, <2>17, <4>1
    <3>2. CASE t # item.tenant
      <4>1. t \in DOMAIN vr /\ virtual_runtime'[t] = vr[t]
        BY <2>1, <3>2
      <4> QED BY <2>12, <2>14, <2>15, <2>17, <4>1
    <3> QED BY <3>1, <3>2
  <2>18. virtual_runtime'[item.tenant] = new
    BY <2>1
  <2>19. /\ virtual_runtime' \in [DOMAIN virtual_runtime' -> Nat]
         /\ \A i \in Range(pending) : i.tenant \in DOMAIN virtual_runtime'
         /\ item.tenant \in DOMAIN virtual_runtime'
    BY <2>1, <2>2, <2>8
  <2> QED BY <2>17, <2>18, <2>19, Zenon
<1> QED BY <1>2, <1>3

LEMMA MaxChargePrime ==
    ASSUME policy' = policy
    PROVE  /\ MaxCharge' = MaxCharge
           /\ \A i : Asked(i)' <=> Asked(i)
<1>1. Requests' = Requests
  BY DEF Requests
<1>2. MaxCharge' = MaxCharge
  BY <1>1 DEF MaxCharge, Charge
<1> QED BY <1>1, <1>2 DEF Asked

LEMMA PushKeeps ==
    ASSUME QInv, NEW item \in Item, Asked(item), item.enqueued_at <= now,
           push(item), running' = {}, now' = now, policy' = policy
    PROVE  QInv'
<1> DEFINE x == [item EXCEPT !.sequence = next_sequence]
<1>1. TypeOK /\ Queued /\ Lag /\ next_sequence \in Nat /\ pending \in Seq(Item)
  BY DEF QInv, TypeOK
<1>2. /\ x \in Item /\ x.tenant = item.tenant /\ x.cost = item.cost
      /\ x.enqueued_at = item.enqueued_at /\ x.sequence = next_sequence
  BY <1>1, Zenon DEF Item
<1>3. pending' = Append(pending, x) /\ next_sequence' = next_sequence + 1
  BY DEF push
<1> HIDE DEF x
<1>4. pending' \in Seq(Item) /\ Range(pending)' = Range(pending) \cup {x}
  BY <1>1, <1>2, <1>3, RangeAppend, RangePrime
<1>5. /\ virtual_runtime' \in [DOMAIN virtual_runtime' -> Nat]
      /\ \A i \in Range(pending) : i.tenant \in DOMAIN virtual_runtime'
      /\ item.tenant \in DOMAIN virtual_runtime'
      /\ policy = "fair" =>
             \A t \in DOMAIN virtual_runtime' :
                 /\ virtual_runtime'[t] <= virtual_runtime'[item.tenant] + MaxCharge
                 /\ \A j \in Range(pending) :
                        virtual_runtime'[t] <= virtual_runtime'[j.tenant] + MaxCharge
  BY <1>1, PushRuntime
<1>6. MaxCharge' = MaxCharge /\ \A i : Asked(i)' <=> Asked(i)
  BY MaxChargePrime
<1>7. TypeOK'
  <2>1. running' \subseteq Item /\ \A i, j \in running' : i = j
    OBVIOUS
  <2>2. policy' \in Policies /\ now' \in 0 .. MaxTime[policy'] /\ next_sequence' \in Nat
    BY <1>1, <1>3 DEF TypeOK
  <2> QED BY <1>4, <1>5, <2>1, <2>2 DEF TypeOK
<1>8. Apart(pending)'
  <2>1. \A i \in Range(pending) : i.sequence < next_sequence
    BY <1>1 DEF Queued
  <2>2. \A n \in 1 .. Len(pending) :
            pending[n].sequence < next_sequence /\ pending[n].sequence \in Nat
    <3>1. \A n \in 1 .. Len(pending) : pending[n] \in Range(pending)
      BY <1>1 DEF Range
    <3>2. \A i \in Range(pending) : i.sequence \in Nat
      BY <1>1, PendingItems DEF Item
    <3> QED BY <2>1, <3>1, <3>2, Zenon
  <2>3. Apart(pending)
    BY <1>1 DEF Queued
  <2>4. /\ Len(pending') = Len(pending) + 1 /\ Len(pending) \in Nat
        /\ pending'[Len(pending) + 1] = x
        /\ \A n \in 1 .. Len(pending) : pending'[n] = pending[n]
    BY <1>1, <1>2, <1>3
  <2> SUFFICES ASSUME NEW m \in 1 .. Len(pending'), NEW n \in 1 .. Len(pending'),
                      pending'[m].sequence = pending'[n].sequence
               PROVE  m = n
    BY DEF Apart
  <2>5. /\ m \in 1 .. Len(pending) \/ m = Len(pending) + 1
        /\ n \in 1 .. Len(pending) \/ n = Len(pending) + 1
    BY <2>4
  <2> QED BY <1>1, <1>2, <2>2, <2>3, <2>4, <2>5 DEF Apart
<1>9. ASSUME NEW i \in Range(pending)'
      PROVE  /\ i.sequence < next_sequence' /\ i.tenant \in DOMAIN virtual_runtime'
             /\ Asked(i) /\ i.enqueued_at <= now
  <2>1. CASE i = x
    <3>1. Asked(x)
      BY <1>2 DEF Asked
    <3> QED BY <1>1, <1>2, <1>3, <1>5, <2>1, <3>1
  <2>2. CASE i \in Range(pending)
    <3>1. i.sequence < next_sequence /\ Asked(i) /\ i.enqueued_at <= now
      BY <1>1, <2>2 DEF Queued
    <3>2. i.sequence \in Nat
      BY <1>1, <2>2, PendingItems DEF Item
    <3> QED BY <1>1, <1>3, <1>5, <2>2, <3>1, <3>2
  <2> QED BY <1>4, <2>1, <2>2
<1>10. Queued'
  BY <1>6, <1>8, <1>9 DEF Queued
<1>11. Lag'
  <2>1. \A j \in Range(pending)' : j = x \/ j \in Range(pending)
    BY <1>4
  <2> QED BY <1>2, <1>5, <1>6, <2>1 DEF Lag
<1> QED BY <1>7, <1>10, <1>11 DEF QInv

\* A step that only takes items from the queue, or none, keeps the runtimes apart.
LEMMA FewerKeeps ==
    ASSUME QInv, policy' = policy, now' \in 0 .. MaxTime[policy], now' >= now,
           next_sequence' = next_sequence, virtual_runtime' = virtual_runtime,
           pending' \in Seq(Item), Apart(pending'), Range(pending') \subseteq Range(pending),
           running' \subseteq running
    PROVE  QInv'
<1>1. TypeOK /\ Queued /\ Lag
  BY DEF QInv
<1>2. MaxCharge' = MaxCharge /\ \A i : Asked(i)' <=> Asked(i)
  BY MaxChargePrime
<1>3. TypeOK'
  BY <1>1 DEF TypeOK
<1>4. Range(pending)' \subseteq Range(pending)
  BY RangePrime
<1>5. ASSUME NEW i \in (Range(pending) \cup running)' PROVE Asked(i) /\ i.enqueued_at <= now'
  <2>1. i \in Range(pending) \cup running
    BY <1>4
  <2>2. Asked(i) /\ i.enqueued_at <= now /\ i.enqueued_at \in Int /\ now \in Int
    BY <1>1, <2>1, PendingItems DEF Queued, TypeOK, Item
  <2> QED BY <2>2
<1>6. Queued'
  BY <1>1, <1>2, <1>4, <1>5 DEF Queued
<1>7. Lag'
  BY <1>1, <1>2, <1>4 DEF Lag
<1> QED BY <1>3, <1>6, <1>7 DEF QInv

LEMMA PopKeeps ==
    ASSUME QInv, pop, policy' = policy
    PROVE  QInv'
<1>1. TypeOK /\ Queued /\ Lag /\ Apart(pending)
  BY DEF QInv, Queued
<1>2. PICK item \in Range(pending) :
          /\ running' = {item}
          /\ \A i \in Range(pending) : i # item => better(item, i)
          /\ Range(pending') = Range(pending) \ {item}
          /\ pending' \in Seq(Item) /\ Apart(pending')
          /\ virtual_runtime' = [t \in DOMAIN virtual_runtime \cup {item.tenant} |->
                 IF t = item.tenant THEN runtime(t) + Charge(item) ELSE virtual_runtime[t]]
  BY <1>1, PopTakes, Zenon
<1>3. next_sequence' = next_sequence /\ now' = now
  BY DEF pop
<1>4. MaxCharge' = MaxCharge /\ \A i : Asked(i)' <=> Asked(i)
  BY MaxChargePrime
<1>5. Range(pending)' \subseteq Range(pending) /\ Range(pending) \subseteq Item
  BY <1>1, <1>2, RangePrime, PendingItems
<1> DEFINE vr == virtual_runtime
           charge == Charge(item)
<1>6. /\ item.tenant \in DOMAIN vr /\ vr \in [DOMAIN vr -> Nat]
      /\ \A i \in Range(pending) : i.tenant \in DOMAIN vr
  BY <1>1 DEF Queued, TypeOK
<1>7. charge \in Nat /\ charge <= MaxCharge /\ MaxCharge \in Nat
  BY <1>1, <1>5, ChargeBounded DEF Queued, TypeOK
<1> HIDE DEF charge
<1>8. vr' = [t \in DOMAIN vr |-> IF t = item.tenant THEN vr[t] + charge ELSE vr[t]]
  BY <1>2, <1>6 DEF runtime, charge
<1>9. DOMAIN vr' = DOMAIN vr /\ vr' \in [DOMAIN vr' -> Nat]
  BY <1>6, <1>7, <1>8
<1>10. TypeOK'
  <2>1. running' \subseteq Item /\ \A i, j \in running' : i = j
    BY <1>2, <1>5
  <2> QED BY <1>1, <1>2, <1>3, <1>9, <2>1 DEF TypeOK
<1>11. ASSUME NEW i \in (Range(pending) \cup running)' PROVE Asked(i) /\ i.enqueued_at <= now
  <2>1. i \in Range(pending)
    BY <1>2, <1>5
  <2> QED BY <1>1, <2>1 DEF Queued
<1>12. Queued'
  BY <1>1, <1>2, <1>3, <1>4, <1>5, <1>9, <1>11 DEF Queued
<1>13. ASSUME policy = "fair", NEW t \in DOMAIN vr, NEW j \in Range(pending)
       PROVE  vr'[t] <= vr'[j.tenant] + MaxCharge
  <2>1. /\ vr[t] <= vr[j.tenant] + MaxCharge /\ vr[t] \in Nat /\ vr[j.tenant] \in Nat
        /\ vr[item.tenant] \in Nat
    BY <1>1, <1>6, <1>13 DEF Lag
  <2>2. vr[item.tenant] <= vr[j.tenant]
    <3>1. CASE j = item BY <2>1, <3>1
    <3>2. CASE j # item
      <4>1. better(item, j)
        BY <1>2, <3>2
      <4>2. runtime(item.tenant) <= runtime(j.tenant)
        BY <1>1, <1>13, <4>1, BetterIs, RuntimeType
      <4> QED BY <1>6, <4>2 DEF runtime
    <3> QED BY <3>1, <3>2
  <2>3. vr'[t] = IF t = item.tenant THEN vr[t] + charge ELSE vr[t]
    BY <1>8
  <2>4. vr'[j.tenant] = IF j.tenant = item.tenant THEN vr[j.tenant] + charge ELSE vr[j.tenant]
    BY <1>6, <1>8
  <2> HIDE DEF vr
  <2> QED BY <1>7, <2>1, <2>2, <2>3, <2>4
<1>14. Lag'
  BY <1>4, <1>5, <1>9, <1>13 DEF Lag
<1> QED BY <1>10, <1>12, <1>14 DEF QInv

-----------------------------------------------------------------------------
(* The theorems.                                                           *)

LEMMA InitHolds ==
    ASSUME Init
    PROVE  QInv
<1>1. pending = << >> /\ running = {} /\ Range(pending) = {}
  BY DEF Init, Range
<1>2. TypeOK
  BY QueueAssumption DEF Init, TypeOK
<1>3. Queued /\ Lag
  BY <1>1 DEF Queued, Lag, Apart
<1> QED BY <1>2, <1>3 DEF QInv

LEMMA StepHolds ==
    ASSUME QInv, [Next]_vars
    PROVE  QInv'
<1>1. TypeOK /\ Queued /\ Apart(pending) /\ pending \in Seq(Item)
  BY DEF QInv, Queued, TypeOK
<1>2. /\ now \in 0 .. MaxTime[policy] /\ now \in Nat /\ policy \in Policies
      /\ MaxTime[policy] \in Nat
  BY <1>1, QueueAssumption DEF TypeOK
<1>3. CASE UNCHANGED vars
  BY <1>1, <1>2, <1>3, FewerKeeps DEF vars
<1>4. ASSUME policy' = policy, NEW r \in Requests, NEW accepted_at \in 0 .. now,
             enqueue_work(r, accepted_at)
      PROVE  QInv'
  <2> DEFINE item == [tenant |-> r.tenant, priority |-> r.priority, cost |-> r.cost,
                      left |-> r.quanta, enqueued_at |-> accepted_at,
                      deadline |-> accepted_at + r.patience, sequence |-> 0]
  <2>1. r \in Request
    BY <1>2, QueueAssumption DEF Requests
  <2>2. item \in Item
    BY <1>2, <2>1 DEF Request, Item
  <2>3. Asked(item) /\ item.enqueued_at <= now
    BY <1>2 DEF Asked
  <2>4. push(item) /\ running' = {} /\ now' = now
    BY <1>4 DEF enqueue_work
  <2> HIDE DEF item
  <2> QED BY <1>4, <2>2, <2>3, <2>4, PushKeeps
<1>5. ASSUME policy' = policy, Tick PROVE QInv'
  BY <1>1, <1>2, <1>5, FewerKeeps DEF Tick
<1>6. ASSUME policy' = policy, drain_expired PROVE QInv'
  <2>1. pending' = drained[Len(pending)].left
    BY <1>6 DEF drain_expired
  <2>2. pending' \in Seq(Item) /\ Apart(pending') /\ Range(pending') \subseteq Range(pending)
    BY <1>1, <2>1, DrainsExactly
  <2> QED BY <1>2, <1>6, <2>2, FewerKeeps DEF drain_expired
<1>7. ASSUME policy' = policy, pop PROVE QInv'
  BY <1>7, PopKeeps
<1>8. ASSUME policy' = policy, Requeue PROVE QInv'
  <2>1. PICK item \in running : item.left > 1 /\ push([item EXCEPT !.left = @ - 1])
    BY <1>8 DEF Requeue
  <2> DEFINE again == [item EXCEPT !.left = @ - 1]
  <2>2. item \in Item /\ Asked(item) /\ item.enqueued_at <= now
    BY <1>1 DEF TypeOK, Queued
  <2>3. /\ again \in Item /\ again.tenant = item.tenant /\ again.cost = item.cost
        /\ again.enqueued_at = item.enqueued_at
    BY <2>1, <2>2 DEF Item
  <2>4. push(again)
    BY <2>1
  <2> HIDE DEF again
  <2>5. Asked(again)
    BY <2>2, <2>3 DEF Asked
  <2>6. running' = {} /\ now' = now
    BY <1>8 DEF Requeue
  <2> QED BY <1>8, <2>2, <2>3, <2>4, <2>5, <2>6, PushKeeps
<1>9. ASSUME policy' = policy, Respond PROVE QInv'
  BY <1>1, <1>2, <1>9, FewerKeeps DEF Respond
<1> QED BY <1>3, <1>4, <1>5, <1>6, <1>7, <1>8, <1>9 DEF Next

\* The queue keeps its items apart, each with a request behind it, and under the fair
\* policy every kept runtime close to those of the queued tenants.
THEOREM Invariance == Spec => []QInv
<1>1. Init => QInv
  BY InitHolds
<1>2. QInv /\ [Next]_vars => QInv'
  BY StepHolds
<1> QED BY <1>1, <1>2, PTL DEF Spec

\* Under the fair policy no queued tenant is ahead of another by more than one quantum,
\* whoever joins, leaves, expires or comes back.
THEOREM LagBoundedHolds == Spec => []LagBounded
<1>1. QInv => LagBounded
  BY DEF QInv, Queued, Lag, LagBounded, runtime
<1> QED BY <1>1, Invariance, PTL

\* Only pop starts an item.
LEMMA OnlyPopStarts ==
    ASSUME Next, running = {}, running' # {}
    PROVE  pop
BY Zenon DEF Next, enqueue_work, Tick, drain_expired, Requeue, Respond

\* The best item is the one the policy promises.
LEMMA BestIsPromised ==
    ASSUME TypeOK, Apart(pending), NEW item \in Range(pending),
           \A i \in Range(pending) : i # item => better(item, i)
    PROVE  item = Promised
<1> DEFINE P == Range(pending)
           band == CASE policy = "fair" -> P
                     [] policy = "priority" -> {i \in P : effective_priority(i) = Highest}
                     [] OTHER -> {i \in P : Eligible(i)}
           served == IF policy = "priority" THEN band
                     ELSE {i \in band : \A j \in band : runtime(i.tenant) <= runtime(j.tenant)}
           urgent == IF policy = "fair" THEN served
                     ELSE {i \in served :
                              \A j \in served : effective_priority(i) >= effective_priority(j)}
<1>1. Promised = CHOOSE i \in urgent : \A j \in urgent : i.sequence <= j.sequence
  BY DEF Promised
<1>2. /\ \A i \in P : i.sequence \in Int /\ effective_priority(i) \in Int
      /\ \A i \in P : runtime(i.tenant) \in Int
  BY PendingItems, EffectiveType, RuntimeType DEF Item
<1>3. policy \in {"fair", "priority", "fair-priority"} /\ Band \in Nat
  BY QueueAssumption DEF TypeOK
<1>4. \A i, j \in P : i.sequence = j.sequence => i = j
  BY DEF Apart, Range, TypeOK
<1>5. PICK h \in P : /\ effective_priority(h) = Highest
                     /\ \A i \in P : effective_priority(i) <= Highest
  BY HighestIs
<1> HIDE DEF P
<1>6. CASE policy = "fair"
  <2>1. band = P /\ urgent = served
           /\ served = {i \in P : \A j \in P : runtime(i.tenant) <= runtime(j.tenant)}
    BY <1>6
  <2> HIDE DEF band, served, urgent
  <2>2. \A i \in P : i # item => \/ runtime(item.tenant) < runtime(i.tenant)
                                 \/ /\ runtime(item.tenant) = runtime(i.tenant)
                                    /\ item.sequence < i.sequence
    BY <1>6, BetterIs DEF P
  <2>3. item \in urgent /\ urgent \subseteq P /\ \A j \in urgent : item.sequence <= j.sequence
    BY <1>2, <2>1, <2>2 DEF P
  <2> QED BY <1>1, <1>2, <1>4, <2>3
<1>7. CASE policy = "priority"
  <2>1. /\ band = {i \in P : effective_priority(i) = Highest} /\ served = band
        /\ urgent = {i \in served :
                        \A j \in served : effective_priority(i) >= effective_priority(j)}
    BY <1>7
  <2> HIDE DEF band, served, urgent
  <2>2. \A i \in P : i # item => ByPriority(item, i)
    BY <1>7, BetterIs DEF P
  <2>3. effective_priority(item) = Highest
    BY <1>2, <1>5, <2>2 DEF ByPriority, P
  <2>4. item \in urgent /\ urgent \subseteq band
    BY <1>2, <2>1, <2>3 DEF P
  <2>5. \A j \in urgent : item.sequence <= j.sequence
    BY <1>2, <2>1, <2>2, <2>3, <2>4 DEF ByPriority, P
  <2> QED BY <1>1, <1>2, <1>4, <2>1, <2>4, <2>5
<1>8. CASE policy = "fair-priority"
  <2>1. /\ band = {i \in P : Eligible(i)}
        /\ served = {i \in band : \A j \in band : runtime(i.tenant) <= runtime(j.tenant)}
        /\ urgent = {i \in served :
                        \A j \in served : effective_priority(i) >= effective_priority(j)}
    BY <1>8
  <2> HIDE DEF band, served, urgent
  <2>2. Eligible(h)
    BY <1>2, <1>3, <1>5 DEF Eligible
  <2>3. Eligible(item)
    BY <1>8, <2>2, BetterIs DEF P
  <2>4. ASSUME NEW i \in P, i # item, Eligible(i)
        PROVE  \/ runtime(item.tenant) < runtime(i.tenant)
               \/ runtime(item.tenant) = runtime(i.tenant) /\ ByPriority(item, i)
    BY <1>8, <2>3, <2>4, BetterIs DEF P
  <2>5. item \in served /\ served \subseteq band /\ band \subseteq P
    BY <1>2, <2>1, <2>3, <2>4 DEF P
  <2>6. \A i \in served : i # item => ByPriority(item, i)
    BY <1>2, <2>1, <2>4, <2>5
  <2>7. item \in urgent /\ urgent \subseteq P /\ \A j \in urgent : item.sequence <= j.sequence
    BY <1>2, <2>1, <2>5, <2>6 DEF ByPriority
  <2> QED BY <1>1, <1>2, <1>4, <2>7
<1> QED BY <1>3, <1>6, <1>7, <1>8

\* pop takes the request that the policy promises, for every queue and whatever order
\* the removals have left it in.
THEOREM PopsPromisedHolds == Spec => PopsPromised
<1> DEFINE A == running = {} /\ running' # {} => running' = {Promised}
<1>1. QInv /\ [Next]_vars => [A]_vars
  <2> SUFFICES ASSUME QInv, Next, running = {}, running' # {} PROVE running' = {Promised}
    OBVIOUS
  <2>1. TypeOK /\ Apart(pending) /\ pop
    BY OnlyPopStarts DEF QInv, Queued
  <2> QED BY <2>1, PopTakes, BestIsPromised, Zenon
<1> QED BY <1>1, Invariance, PTL DEF Spec, PopsPromised

\* Waiting a whole number of steps: what the quotient says of the time.
LEMMA Steps ==
    ASSUME NEW w \in Int, NEW a \in Nat, a > 0
    PROVE  /\ w \div a \in Int
           /\ a * (w \div a) <= w /\ w < a * ((w \div a) + 1)
OBVIOUS

LEMMA Overtaking ==
    ASSUME NEW a \in Nat, a > 0, NEW time \in Int,
           NEW e1 \in Int, NEW p1 \in Int, NEW q1 \in Int, a * q1 <= time - e1,
           NEW e2 \in Int, NEW p2 \in Int, NEW q2 \in Int, time - e2 < a * (q2 + 1),
           p2 + q2 <= p1 + q1
    PROVE  e1 <= e2 + a * (p1 - p2 + 1)
<1>1. a * (p1 - p2 + 1) = a * (p1 + q1 - (p2 + q2)) + a * (q2 + 1) - a * q1
  OBVIOUS
<1>2. a * (p1 + q1 - (p2 + q2)) >= 0
  OBVIOUS
<1> QED BY <1>1, <1>2

\* With aging, a request is overtaken only by requests that were accepted at most Aging
\* times the difference of their priorities (and one step) after it.
THEOREM AgingBoundsHolds == Spec => AgingBounds
<1> DEFINE A == (policy = "priority" /\ Aging > 0 /\ running = {}) =>
                    \A item \in running', i \in Range(pending') :
                        effective_priority(i) < 100 =>
                            item.enqueued_at <=
                                i.enqueued_at + Aging * (item.priority - i.priority + 1)
<1>1. QInv /\ [Next]_vars => [A]_vars
  <2> SUFFICES ASSUME QInv, Next, policy = "priority", Aging > 0, running = {},
                      NEW item \in running', NEW i \in Range(pending'),
                      effective_priority(i) < 100
               PROVE  item.enqueued_at <= i.enqueued_at + Aging * (item.priority - i.priority + 1)
    OBVIOUS
  <2>1. TypeOK /\ Apart(pending) /\ pop
    BY OnlyPopStarts DEF QInv, Queued
  <2>2. /\ item \in Range(pending) /\ i \in Range(pending) /\ i # item
        /\ better(item, i)
    <3>1. PICK x \in Range(pending) :
              /\ running' = {x} /\ \A j \in Range(pending) : j # x => better(x, j)
              /\ Range(pending') = Range(pending) \ {x}
      BY <2>1, PopTakes, Zenon
    <3>2. item = x /\ i \in Range(pending) \ {x}
      BY <3>1
    <3> QED BY <3>1, <3>2, Zenon
  <2>3. /\ item \in Item /\ i \in Item /\ Aging \in Nat /\ now \in Int
        /\ item.enqueued_at \in Int /\ i.enqueued_at \in Int
        /\ item.priority \in -100 .. 100 /\ i.priority \in -100 .. 100
    <3>1. item \in Item /\ i \in Item
      BY <2>1, <2>2, PendingItems
    <3>2. Aging \in Nat /\ now \in Int
      BY <2>1, QueueAssumption DEF TypeOK
    <3> QED BY <3>1, <3>2 DEF Item
  <2> DEFINE q1 == (now - item.enqueued_at) \div Aging
             q2 == (now - i.enqueued_at) \div Aging
             aged1 == item.priority + IF 200 <= q1 THEN 200 ELSE q1
             aged2 == i.priority + IF 200 <= q2 THEN 200 ELSE q2
  <2>4. /\ effective_priority(item) = IF 100 <= aged1 THEN 100 ELSE aged1
        /\ effective_priority(i) = IF 100 <= aged2 THEN 100 ELSE aged2
    BY <2>1, <2>3, EffectiveType
  <2>5. /\ q1 \in Int /\ Aging * q1 <= now - item.enqueued_at
        /\ q2 \in Int /\ now - i.enqueued_at < Aging * (q2 + 1)
    BY <2>3, Steps
  <2>6. effective_priority(item) >= effective_priority(i)
    BY <2>1, <2>2, <2>3, BetterIs, EffectiveType DEF ByPriority
  <2> HIDE DEF q1, q2
  <2>7. aged2 < 100 /\ aged2 = i.priority + q2
    BY <2>3, <2>4, <2>5
  <2>8. aged1 <= item.priority + q1 /\ aged1 \in Int
    BY <2>3, <2>5
  <2> HIDE DEF aged1, aged2
  <2>9. i.priority + q2 <= item.priority + q1
    BY <2>3, <2>4, <2>5, <2>6, <2>7, <2>8
  <2>10. item.priority \in Int /\ i.priority \in Int
    BY <2>3
  <2> QED BY <2>3, <2>5, <2>9, <2>10, Overtaking, Zenon
<1> QED BY <1>1, Invariance, PTL DEF Spec, AgingBounds
=============================================================================
