------------------------- MODULE MaxsimClientProofs -------------------------
(***************************************************************************)
(* A MaxSim query through the GPU daemon, for every table, every limit on  *)
(* batches, every list of candidates and every k: it answers with the k    *)
(* nearest of its candidates as TopKService promises, takes no answer      *)
(* after its deadline, and puts together no batch that it then refuses.    *)
(***************************************************************************)
EXTENDS MaxsimClient, FiniteSetTheorems, WellFoundedInduction, TLAPS

-----------------------------------------------------------------------------
(* Loops as recursive functions: a loop with a bounded number of turns has *)
(* a run, and a statement that every turn keeps holds of all of them.      *)

\* Every non-empty set of natural numbers has a least element.
LEMMA LeastExists ==
    ASSUME NEW S, S \subseteq Nat, S # {}
    PROVE  \E x \in S : \A y \in S : x <= y
<1>1. PICK x \in S : \A y \in S : ~(<<y, x>> \in OpToRel(<, Nat))
  BY NatLessThanWellFounded, WFMin, Zenon
<1>2. ASSUME NEW y \in S PROVE x <= y
  <2>1. x \in Nat /\ y \in Nat
    OBVIOUS
  <2>2. ~(<<y, x>> \in OpToRel(<, Nat))
    BY <1>1, Zenon
  <2>3. ~(y < x)
    BY <2>1, <2>2 DEF OpToRel
  <2> QED BY <2>1, <2>3
<1> QED BY <1>2

\* A statement about the turns of a loop: if it holds first and each turn keeps it, it
\* holds of all turns.  The statement is the set of the turns it holds of.
LEMMA EveryTurn ==
    ASSUME NEW L \in Nat, NEW first \in 0 .. L, NEW Good,
           first \in Good,
           \A n \in first .. L : n # first /\ n - 1 \in Good => n \in Good
    PROVE  \A n \in first .. L : n \in Good
<1> DEFINE Bad == {n \in first .. L : n \notin Good}
<1> SUFFICES ASSUME Bad # {} PROVE FALSE
  OBVIOUS
<1>1. Bad \subseteq Nat
  OBVIOUS
<1>2. PICK n \in Bad : \A m \in Bad : n <= m
  BY <1>1, LeastExists, Zenon
<1>3. n # first /\ n - 1 \in first .. L /\ n - 1 \notin Bad
  BY <1>2
<1> QED BY <1>3

\* f lists the states of a loop after turns first to last.
Run(first, last, States, start, step, f) ==
    /\ f \in [first .. last -> States] /\ f[first] = start
    /\ \A n \in first .. last : n # first => f[n] = step[n][f[n - 1]]

\* A loop over a set of states has a run of every length.
LEMMA LoopExists ==
    ASSUME NEW L \in Nat, NEW first \in 0 .. L, NEW States, NEW start \in States,
           NEW step \in [0 .. L -> [States -> States]]
    PROVE  \E f : Run(first, L, States, start, step, f)
<1> DEFINE Good == {m \in first .. L : \E f : Run(first, m, States, start, step, f)}
<1>1. first \in Good
  <2> DEFINE g == [n \in first .. first |-> start]
  <2>1. first .. first = {first} /\ first \in first .. L
    OBVIOUS
  <2>2. Run(first, first, States, start, step, g)
    BY <2>1 DEF Run
  <2> QED BY <2>1, <2>2
<1>2. ASSUME NEW m \in first .. L, m # first, m - 1 \in Good PROVE m \in Good
  <2>1. PICK f : Run(first, m - 1, States, start, step, f)
    BY <1>2
  <2> DEFINE g == [n \in first .. m |-> IF n = m THEN step[m][f[m - 1]] ELSE f[n]]
  <2>2. /\ m \in Int /\ first \in Int /\ m \in 0 .. L
        /\ m - 1 \in first .. m - 1 /\ first .. m = (first .. m - 1) \cup {m}
    BY <1>2
  <2>3. f[m - 1] \in States /\ step[m] \in [States -> States]
    BY <2>1, <2>2 DEF Run
  <2>4. step[m][f[m - 1]] \in States
    BY <2>3
  <2>5. g \in [first .. m -> States] /\ g[first] = start
    BY <1>2, <2>1, <2>2, <2>4 DEF Run
  <2>6. ASSUME NEW n \in first .. m, n # first PROVE g[n] = step[n][g[n - 1]]
    <3>1. n - 1 \in first .. m /\ n - 1 # m /\ (n # m => n \in first .. m - 1)
      BY <2>2, <2>6
    <3>2. g[n - 1] = f[n - 1]
      BY <3>1
    <3>3. CASE n = m BY <3>2, <3>3
    <3>4. CASE n # m
      <4>1. f[n] = step[n][f[n - 1]]
        BY <2>1, <2>6, <3>1, <3>4 DEF Run
      <4> QED BY <3>2, <3>4, <4>1
    <3> QED BY <3>3, <3>4
  <2>7. Run(first, m, States, start, step, g)
    BY <2>5, <2>6 DEF Run
  <2> QED BY <2>7
<1>3. L \in Good
  <2>1. L \in first .. L
    OBVIOUS
  <2> HIDE DEF Good
  <2>2. \A n \in first .. L : n # first /\ n - 1 \in Good => n \in Good
    BY <1>2
  <2>3. \A n \in first .. L : n \in Good
    BY <1>1, <2>2, EveryTurn, Zenon
  <2> QED BY <2>1, <2>3
<1> QED BY <1>3

-----------------------------------------------------------------------------
(* The invariant.                                                          *)

Score == [candidate : Nat, distance : Int]
Response == [id : Nat, status : Nat, long : BOOLEAN, results : Seq(Score)]
Connection ==
    [id : 0 .. 3, keys : Seq(Keys), deadline : Nat, sent : BOOLEAN, parts : 0 .. 2,
     closed : BOOLEAN, reply : Response]

Waits == Polling \cup {"decode"}
Batches == {"collect", "fill", "request", "consume"}

Types ==
    /\ pc \in {"idle", "begin", "load", "encode", "cpu"} \cup Batches \cup Waits
    /\ query \in [mode : {"none", "search", "rerank", "gpu", "auto"}, k : Int, limit : Int,
                  candidates : Seq(Keys), fresh : BOOLEAN]
    /\ pc # "idle" => query \in Asked
    /\ live \subseteq Keys /\ seen \subseteq Keys
    /\ todo \in Seq(Keys) /\ pending \in Seq(Keys) /\ batch \in Seq(Keys)
    /\ sizes \in [tokens : Nat, declared : Nat, frame : Nat]
    /\ now \in Nat /\ deadline \in Nat /\ conn \in Connection

\* A connection has what is left until the deadline of the query.
Deadlines == pc \in Polling => conn.deadline = deadline

\* What has been reckoned of a batch is what its frame will measure.
Measures(keys) ==
    [tokens |-> TokensOf(keys), declared |-> DeclaredOf(keys), frame |-> ExternalFrame(keys)]
Sized ==
    /\ pc \in {"load"} \cup Batches => External
    /\ pc \in {"encode", "cpu"} => ~External
    /\ pc \notin {"fill", "request"} \cup Waits => batch = <<>>
    /\ pc = "fill" => sizes = Measures(batch) /\ ~NoRoom(sizes) /\ Len(batch) <= MaxCandidates
    /\ pc = "request" => encode_external_descriptors(batch)
    /\ Range(todo) \subseteq Range(query.candidates)
    /\ Range(pending) \subseteq Range(query.candidates)
    /\ RefusedOnlyIfTooLarge

\* The daemon answers the request that was sent.
Answers ==
    /\ conn.sent => pc \in {"header", "body", "decode"}
    /\ conn.parts > 0 => conn.sent /\ conn.reply \in Replies(conn)
    /\ pc \in {"body", "decode"} => conn.parts > 0 /\ ~conn.reply.long
    /\ pc = "request" => batch # <<>>
    /\ pc \in Waits =>
           /\ conn.id \in 1 .. 3 /\ conn.keys # <<>>
           /\ conn.keys = IF External THEN batch ELSE todo

RowOf(key) == [distance |-> Distance[key], id |-> key]
RowsOf(S) == {RowOf(key) : key \in S}

\* kept are the k least of the rows of C.
Kept(kept, C, k) ==
    /\ kept \subseteq RowsOf(C) /\ Cardinality(kept) <= k
    /\ Cardinality(kept) < k => kept = RowsOf(C)
    /\ \A r \in RowsOf(C) \ kept, b \in kept : Less(b, r)

\* The keys of C, R, B, P and T are apart and are all of the candidates Q that
\* are still as they were seen, and none but candidates.
Account(C, R, B, P, T, Q, still) ==
    /\ C \cap R = {} /\ (C \cup R) \cap B = {} /\ (C \cup R \cup B) \cap P = {}
    /\ (C \cup R \cup B \cup P) \cap T = {}
    /\ C \cup R \cup B \cup P \cup T \subseteq Q
    /\ Q \cap still \subseteq C \cup R \cup B \cup P \cup T

\* C are the keys whose rows have been offered to best.
Covered(C) ==
    /\ Kept(best, C, query.k)
    /\ \E R \in SUBSET Keys :
          /\ results = RowsOf(R)
          /\ Account(C, R, Range(batch), Range(pending), Range(todo),
                     Range(query.candidates) \cap seen, live)
Nothing == pending = <<>> /\ results = {} /\ best = {}
Single == pc \in {"encode", "cpu"} \/ (pc \in Waits /\ ~External)
Batching == pc \in Batches \/ (pc \in Waits /\ External)
Covers ==
    /\ Distinct(todo) /\ Distinct(batch) /\ Len(pending) <= 1
    /\ pc # "idle" => live \subseteq seen
    /\ pc # "consume" => results = {}
    /\ pc \in {"idle", "begin"} => Nothing /\ todo = <<>>
    /\ pc = "load" =>
           /\ Nothing /\ query.k > 0
           /\ Range(todo) = Range(query.candidates) \cap IF query.mode = "rerank" THEN Keys ELSE seen
    /\ Single => Nothing /\ Range(todo) = Range(query.candidates) \cap seen
    /\ Batching => query.k > 0 /\ \E C \in SUBSET Keys : Covered(C)

MInv == Types /\ Deadlines /\ Sized /\ Answers /\ Covers

-----------------------------------------------------------------------------
(* Loops over a list of keys.                                              *)

\* f lists what has been summed up after every key.
Sums(size, keys, f) ==
    /\ f \in [0 .. Len(keys) -> Nat] /\ f[0] = 0
    /\ \A n \in 0 .. Len(keys) : n # 0 => f[n] = f[n - 1] + size[keys[n]]

LEMMA SumRun ==
    ASSUME NEW size \in [Keys -> Nat], NEW keys \in Seq(Keys)
    PROVE  \E f : Sums(size, keys, f) /\ Sum(size, keys) = f[Len(keys)]
<1> DEFINE L == Len(keys)
           step == [n \in 0 .. L |-> [a \in Nat |-> IF n = 0 THEN a ELSE a + size[keys[n]]]]
           D(g) == [n \in 0 .. L |-> IF n = 0 THEN 0 ELSE g[n - 1] + size[keys[n]]]
           s == CHOOSE g : g = D(g)
<1>1. L \in Nat /\ 0 \in 0 .. L /\ 0 \in Nat
  OBVIOUS
<1>2. step \in [0 .. L -> [Nat -> Nat]]
  <2>1. ASSUME NEW n \in 0 .. L, n # 0 PROVE size[keys[n]] \in Nat
    BY <1>1, <2>1
  <2> QED BY <2>1
<1>3. PICK f : Run(0, L, Nat, 0, step, f)
  <2> HIDE DEF step, L, D, s
  <2> QED BY <1>1, <1>2, LoopExists, Zenon
<1>4. ASSUME NEW n \in 0 .. L, n # 0 PROVE f[n] = f[n - 1] + size[keys[n]]
  <2>1. n - 1 \in 0 .. L
    BY <1>1, <1>4
  <2>2. f[n - 1] \in Nat
    BY <1>3, <2>1, Zenon DEF Run
  <2>3. f[n] = step[n][f[n - 1]]
    BY <1>3, <1>4, Zenon DEF Run
  <2> QED BY <1>4, <2>2, <2>3
<1>5. Sums(size, keys, f)
  BY <1>3, <1>4 DEF Run, Sums
<1>6. f = D(f)
  BY <1>5 DEF Sums
<1>7. s = D(s)
  <2> HIDE DEF D
  <2> QED BY <1>6, Zenon
<1> DEFINE Good == {n \in 0 .. L : s[n] = f[n]}
<1>8. \A n \in 0 .. L : n \in Good
  <2>1. s[0] = 0 /\ \A n \in 0 .. L : n # 0 => s[n] = s[n - 1] + size[keys[n]]
    <3> HIDE DEF s
    <3> QED BY <1>1, <1>7, Zenon
  <2> HIDE DEF s, step, D
  <2>2. 0 \in Good
    BY <1>1, <1>5, <2>1 DEF Sums
  <2>3. ASSUME NEW n \in 0 .. L, n # 0, n - 1 \in Good PROVE n \in Good
    BY <1>4, <2>1, <2>3
  <2> HIDE DEF Good, L
  <2> QED BY <1>1, <2>2, <2>3, EveryTurn, Zenon
<1>9. s[L] = f[L]
  <2> HIDE DEF s, step, D
  <2> QED BY <1>1, <1>8
<1>10. Sum(size, keys) = s[L]
  BY Zenon DEF Sum
<1> QED BY <1>5, <1>9, <1>10, Zenon

LEMMA SumNone ==
    ASSUME NEW size \in [Keys -> Nat]
    PROVE  Sum(size, <<>>) = 0
<1>1. <<>> \in Seq(Keys) /\ Len(<<>>) = 0
  OBVIOUS
<1>2. PICK f : Sums(size, <<>>, f) /\ Sum(size, <<>>) = f[Len(<<>>)]
  BY <1>1, SumRun, Zenon
<1> QED BY <1>1, <1>2 DEF Sums

LEMMA SumAppend ==
    ASSUME NEW size \in [Keys -> Nat], NEW keys \in Seq(Keys), NEW key \in Keys
    PROVE  /\ Sum(size, keys) \in Nat
           /\ Sum(size, Append(keys, key)) = Sum(size, keys) + size[key]
<1> DEFINE L == Len(keys)
           more == Append(keys, key)
<1>1. /\ L \in Nat /\ 0 \in 0 .. L /\ more \in Seq(Keys) /\ Len(more) = L + 1
      /\ more[L + 1] = key /\ \A n \in 1 .. L : more[n] = keys[n]
  OBVIOUS
<1>2. PICK f : Sums(size, keys, f) /\ Sum(size, keys) = f[L]
  BY SumRun
<1>3. PICK g : Sums(size, more, g) /\ Sum(size, more) = g[L + 1]
  BY <1>1, SumRun, Zenon
<1> HIDE DEF L, more
<1>4. f \in [0 .. L -> Nat] /\ f[0] = 0 /\ \A n \in 0 .. L : n # 0 => f[n] = f[n - 1] + size[keys[n]]
  BY <1>2 DEF Sums, L
<1>5. /\ g[0] = 0
      /\ \A n \in 0 .. L + 1 : n # 0 => g[n] = g[n - 1] + size[more[n]]
  BY <1>1, <1>3 DEF Sums
<1> DEFINE Good == {n \in 0 .. L : f[n] = g[n]}
<1>6. \A n \in 0 .. L : n \in Good
  <2>1. 0 \in Good
    BY <1>1, <1>4, <1>5
  <2>2. ASSUME NEW n \in 0 .. L, n # 0, n - 1 \in Good PROVE n \in Good
    <3>1. n \in 0 .. L + 1 /\ n \in 1 .. L
      BY <1>1, <2>2
    <3>2. g[n] = g[n - 1] + size[keys[n]]
      BY <1>1, <1>5, <2>2, <3>1
    <3> QED BY <1>4, <2>2, <3>2
  <2> HIDE DEF Good
  <2> QED BY <1>1, <2>1, <2>2, EveryTurn, Zenon
<1>7. f[L] = g[L] /\ f[L] \in Nat
  BY <1>1, <1>4, <1>6
<1>8. g[L + 1] = g[L] + size[key]
  <2>1. L + 1 \in 0 .. L + 1 /\ L + 1 # 0 /\ (L + 1) - 1 = L
    BY <1>1
  <2> QED BY <1>1, <1>5, <2>1
<1> QED BY <1>2, <1>3, <1>7, <1>8 DEF more

LEMMA RangeAppend ==
    ASSUME NEW S, NEW s \in Seq(S), NEW x \in S
    PROVE  /\ Append(s, x) \in Seq(S) /\ Range(Append(s, x)) = Range(s) \cup {x}
           /\ Distinct(s) /\ x \notin Range(s) => Distinct(Append(s, x))
<1> DEFINE t == Append(s, x)
<1>1. /\ t \in Seq(S) /\ Len(s) \in Nat /\ DOMAIN s = 1 .. Len(s) /\ DOMAIN t = 1 .. Len(s) + 1
      /\ t[Len(s) + 1] = x /\ \A n \in 1 .. Len(s) : t[n] = s[n]
  OBVIOUS
<1> HIDE DEF t
<1>2. \A n \in 1 .. Len(s) + 1 : n \in 1 .. Len(s) \/ n = Len(s) + 1
  BY <1>1
<1>3. \A n \in 1 .. Len(s) : n \in 1 .. Len(s) + 1
  BY <1>1
<1>4. Len(s) + 1 \in 1 .. Len(s) + 1
  BY <1>1
<1>5. Range(t) = Range(s) \cup {x}
  BY <1>1, <1>2, <1>3, <1>4 DEF Range
<1>6. ASSUME Distinct(s), x \notin Range(s), NEW i \in DOMAIN t, NEW j \in DOMAIN t, t[i] = t[j]
      PROVE  i = j
  BY <1>1, <1>2, <1>6 DEF Distinct, Range
<1>7. Distinct(s) /\ x \notin Range(s) => Distinct(t)
  BY <1>6, Zenon DEF Distinct
<1> QED BY <1>1, <1>5, <1>7 DEF t

\* The candidates that a snapshot shows are those of its rows, each as often as before.
LEMMA VisibleRange ==
    ASSUME NEW keys \in Seq(Keys), NEW snapshot
    PROVE  /\ Visible(keys, snapshot) \in Seq(Keys)
           /\ Range(Visible(keys, snapshot)) = Range(keys) \cap snapshot
           /\ Distinct(keys) => Distinct(Visible(keys, snapshot))
<1> DEFINE L == Len(keys)
           States == Seq(Keys)
           turned(n, v) == IF keys[n] \in snapshot THEN Append(v, keys[n]) ELSE v
           step == [n \in 0 .. L |-> [v \in States |-> IF n = 0 THEN v ELSE turned(n, v)]]
           D(g) == [n \in 0 .. L |-> IF n = 0 THEN <<>>
                                     ELSE IF keys[n] \in snapshot THEN Append(g[n - 1], keys[n])
                                     ELSE g[n - 1]]
           v == CHOOSE g : g = D(g)
<1>1. L \in Nat /\ 0 \in 0 .. L /\ <<>> \in States
  OBVIOUS
<1>2. \A n \in 0 .. L : n # 0 => keys[n] \in Keys /\ n \in 1 .. L /\ n - 1 \in 0 .. L
  BY <1>1
<1>3. step \in [0 .. L -> [States -> States]]
  BY <1>2
<1>4. PICK f : Run(0, L, States, <<>>, step, f)
  <2> HIDE DEF step, L, D, v, States
  <2> QED BY <1>1, <1>3, LoopExists, Zenon
<1>5. ASSUME NEW n \in 0 .. L, n # 0 PROVE f[n] = turned(n, f[n - 1])
  <2>1. n - 1 \in 0 .. L
    BY <1>2, <1>5
  <2>2. f[n - 1] \in States
    BY <1>4, <2>1, Zenon DEF Run
  <2>3. f[n] = step[n][f[n - 1]]
    BY <1>4, <1>5, Zenon DEF Run
  <2> HIDE DEF States
  <2> QED BY <1>5, <2>2, <2>3
<1>6. f = D(f)
  BY <1>4, <1>5 DEF Run
<1>7. v = D(v)
  <2> HIDE DEF D
  <2> QED BY <1>6, Zenon
<1>8. v[0] = <<>> /\ \A n \in 0 .. L : n # 0 => v[n] = turned(n, v[n - 1])
  <2> HIDE DEF v
  <2> QED BY <1>1, <1>7, Zenon
<1>9. Visible(keys, snapshot) = v[L]
  BY Zenon DEF Visible
<1> HIDE DEF v, D, step
<1> DEFINE First(n) == {keys[i] : i \in 1 .. n}
           Right(n) == /\ v[n] \in Seq(Keys) /\ Range(v[n]) = First(n) \cap snapshot
                       /\ Distinct(keys) => Distinct(v[n])
           Good == {n \in 0 .. L : Right(n)}
<1>10. First(0) = {} /\ First(L) = Range(keys)
  BY DEF Range
<1>11. Right(0)
  <2>1. DOMAIN v[0] = {}
    BY <1>8
  <2> QED BY <1>1, <1>8, <1>10, <2>1 DEF Range, Distinct
<1>12. ASSUME NEW n \in 0 .. L, n # 0, Right(n - 1) PROVE Right(n)
  <2>1. n \in 1 .. L /\ n - 1 \in 0 .. L /\ keys[n] \in Keys
    BY <1>2, <1>12
  <2>2. First(n) = First(n - 1) \cup {keys[n]}
    <3>1. 1 .. n = (1 .. n - 1) \cup {n}
      BY <2>1
    <3> QED BY <3>1
  <2>3. Distinct(keys) => keys[n] \notin First(n - 1)
    <3>1. \A i \in 1 .. n - 1 : i # n /\ i \in DOMAIN keys /\ n \in DOMAIN keys
      BY <2>1
    <3> QED BY <3>1 DEF Distinct
  <2> HIDE DEF First
  <2>4. CASE keys[n] \in snapshot
    <3>1. v[n] = Append(v[n - 1], keys[n])
      BY <1>8, <1>12, <2>4, Zenon
    <3>2. /\ v[n] \in Seq(Keys) /\ Range(v[n]) = Range(v[n - 1]) \cup {keys[n]}
          /\ Distinct(v[n - 1]) /\ keys[n] \notin Range(v[n - 1]) => Distinct(v[n])
      BY <1>12, <2>1, <3>1, RangeAppend
    <3> QED BY <1>12, <2>2, <2>3, <2>4, <3>2
  <2>5. CASE keys[n] \notin snapshot
    <3>1. v[n] = v[n - 1]
      BY <1>8, <1>12, <2>5
    <3> QED BY <1>12, <2>2, <2>5, <3>1
  <2> QED BY <2>4, <2>5
<1>13. L \in Good
  <2> HIDE DEF Right
  <2>1. 0 \in Good
    BY <1>1, <1>11
  <2>2. ASSUME NEW n \in 0 .. L, n # 0, n - 1 \in Good PROVE n \in Good
    BY <1>12, <2>2
  <2>3. L \in 0 .. L
    BY <1>1
  <2> HIDE DEF Good, L
  <2>4. \A n \in 0 .. L : n \in Good
    BY <1>1, <2>1, <2>2, EveryTurn
  <2> QED BY <2>3, <2>4
<1> QED BY <1>9, <1>10, <1>13

-----------------------------------------------------------------------------
(* The order of rows.                                                      *)

Row == [distance : Int, id : Int]

LEMMA LessOrder ==
    /\ \A a \in Row : ~Less(a, a)
    /\ \A a, b \in Row : a = b \/ Less(a, b) \/ Less(b, a)
    /\ \A a, b, c \in Row : Less(a, b) /\ Less(b, c) => Less(a, c)
BY DEF Row, Less

LEMMA RowType ==
    ASSUME NEW S, S \subseteq Keys
    PROVE  /\ RowsOf(S) \subseteq Row
           /\ \A key \in S : RowOf(key) \in RowsOf(S) /\ RowOf(key).id = key
           /\ \A r \in RowsOf(S) : r.id \in S /\ r = RowOf(r.id)
BY MaxsimAssumption DEF RowsOf, RowOf, Row

\* There are as many rows as keys.
LEMMA RowCount ==
    ASSUME NEW S, S \subseteq Keys
    PROVE  /\ IsFiniteSet(S) /\ IsFiniteSet(RowsOf(S))
           /\ Cardinality(RowsOf(S)) = Cardinality(S) /\ Cardinality(S) \in Nat
           /\ Cardinality(S) <= Cardinality(Keys)
<1>1. IsFiniteSet(S) /\ Cardinality(S) <= Cardinality(Keys)
  BY MaxsimAssumption, FS_Subset, Zenon
<1> DEFINE f == [key \in S |-> RowOf(key)]
<1>2. f \in Bijection(S, RowsOf(S))
  <2>1. \A key \in S : f[key] = RowOf(key)
    OBVIOUS
  <2>2. f \in [S -> RowsOf(S)]
    BY DEF RowsOf
  <2>3. \A a, b \in S : f[a] = f[b] => a = b
    BY <2>1, RowType
  <2>4. \A r \in RowsOf(S) : \E key \in S : f[key] = r
    BY <2>1 DEF RowsOf
  <2> HIDE DEF f
  <2> QED BY <2>2, <2>3, <2>4 DEF Bijection, Injection, Surjection, IsInjective
<1>3. ExistsBijection(S, RowsOf(S))
  BY <1>2, Zenon DEF ExistsBijection
<1> QED BY <1>1, <1>3, FS_Bijection, FS_CardinalityType, Zenon

\* The rows before one are fewer than those before a later one.
LEMMA PlaceGrows ==
    ASSUME NEW R, R \subseteq Row, IsFiniteSet(R)
    PROVE  /\ \A a \in R : Place(a, R) \in 0 .. Cardinality(R) - 1
           /\ \A a, b \in R : Less(a, b) => Place(a, R) < Place(b, R)
<1> DEFINE Under(a) == {r \in R : Less(r, a)}
<1>0. Cardinality(R) \in Nat
  BY FS_CardinalityType
<1>1. ASSUME NEW a \in R
      PROVE  IsFiniteSet(Under(a)) /\ Cardinality(Under(a)) \in Nat /\ Cardinality(Under(a)) < Cardinality(R)
  <2>1. Under(a) \in SUBSET R /\ a \notin Under(a)
    BY LessOrder
  <2> HIDE DEF Under
  <2>2. /\ IsFiniteSet(Under(a)) /\ Cardinality(Under(a)) <= Cardinality(R)
        /\ Cardinality(R) = Cardinality(Under(a)) => R = Under(a)
    BY <2>1, FS_Subset
  <2>3. Cardinality(Under(a)) \in Nat
    BY <2>2, FS_CardinalityType
  <2> QED BY <1>0, <2>1, <2>2, <2>3
<1>2. ASSUME NEW a \in R, NEW b \in R, Less(a, b) PROVE Cardinality(Under(a)) < Cardinality(Under(b))
  <2>1. Under(a) \in SUBSET Under(b) /\ a \in Under(b) /\ a \notin Under(a)
    BY <1>2, LessOrder
  <2>2. IsFiniteSet(Under(b)) /\ Cardinality(Under(a)) \in Nat /\ Cardinality(Under(b)) \in Nat
    BY <1>1, Zenon
  <2> HIDE DEF Under
  <2>3. /\ Cardinality(Under(a)) <= Cardinality(Under(b))
        /\ Cardinality(Under(b)) = Cardinality(Under(a)) => Under(b) = Under(a)
    BY <2>1, <2>2, FS_Subset
  <2> QED BY <2>1, <2>2, <2>3
<1>3. ASSUME NEW a \in R PROVE Place(a, R) = Cardinality(Under(a))
  BY Zenon DEF Place
<1> HIDE DEF Under
<1>4. ASSUME NEW a \in R PROVE Place(a, R) \in 0 .. Cardinality(R) - 1
  BY <1>0, <1>1, <1>3
<1>5. ASSUME NEW a \in R, NEW b \in R, Less(a, b) PROVE Place(a, R) < Place(b, R)
  BY <1>2, <1>3, <1>5
<1> QED BY <1>4, <1>5

\* Every place is taken by one row.
LEMMA PlaceTaken ==
    ASSUME NEW R, R \subseteq Row, IsFiniteSet(R), NEW i \in 1 .. Cardinality(R)
    PROVE  /\ \E row \in R : Place(row, R) = i - 1
           /\ \A a, b \in R : Place(a, R) = Place(b, R) => a = b
<1> DEFINE T == 0 .. Cardinality(R) - 1
           f == [row \in R |-> Place(row, R)]
<1>0. Cardinality(R) \in Nat
  BY FS_CardinalityType
<1>1. \A a, b \in R : Place(a, R) = Place(b, R) => a = b
  <2> SUFFICES ASSUME NEW a \in R, NEW b \in R, Place(a, R) = Place(b, R), a # b PROVE FALSE
    BY Zenon
  <2>1. Less(a, b) \/ Less(b, a)
    BY LessOrder
  <2>2. Place(a, R) < Place(b, R) \/ Place(b, R) < Place(a, R)
    BY <2>1, PlaceGrows
  <2>3. Place(a, R) \in Int /\ Place(b, R) \in Int
    BY <1>0, PlaceGrows
  <2> QED BY <2>2, <2>3
<1>2. f \in Injection(R, T)
  <2>1. \A a \in R : f[a] = Place(a, R)
    OBVIOUS
  <2>2. f \in [R -> T]
    BY PlaceGrows
  <2> HIDE DEF f, T
  <2> QED BY <1>1, <2>1, <2>2 DEF Injection, IsInjective
<1>3. IsFiniteSet(T) /\ Cardinality(T) = Cardinality(R)
  <2>1. 0 \in Int /\ Cardinality(R) - 1 \in Int
    BY <1>0
  <2>2. IsFiniteSet(T) /\ Cardinality(T) = IF 0 > Cardinality(R) - 1 THEN 0 ELSE Cardinality(R) - 1 - 0 + 1
    BY <2>1, FS_Interval
  <2> QED BY <1>0, <2>2
<1>4. f \in Surjection(R, T)
  <2> HIDE DEF f, T
  <2> QED BY <1>2, <1>3, FS_Injection
<1>5. i - 1 \in T
  BY <1>0
<1>6. PICK row \in R : f[row] = i - 1
  <2> HIDE DEF f, T
  <2> QED BY <1>4, <1>5 DEF Surjection
<1> QED BY <1>1, <1>6

\* A set of rows has a last one.
LEMMA LastRow ==
    ASSUME NEW R, R \subseteq Row, IsFiniteSet(R), R # {}
    PROVE  \E a \in R : \A b \in R : ~Less(a, b)
<1>1. Cardinality(R) \in Nat /\ Cardinality(R) # 0
  BY FS_CardinalityType, FS_EmptySet
<1>2. Cardinality(R) \in 1 .. Cardinality(R)
  BY <1>1
<1>3. PICK a \in R : Place(a, R) = Cardinality(R) - 1
  BY <1>2, PlaceTaken
<1>4. ASSUME NEW b \in R, Less(a, b) PROVE FALSE
  <2>1. Place(a, R) < Place(b, R) /\ Place(b, R) \in 0 .. Cardinality(R) - 1
    BY <1>4, PlaceGrows
  <2> QED BY <1>1, <1>3, <2>1
<1> QED BY <1>4

-----------------------------------------------------------------------------
(* The k best.                                                             *)

LEMMA KeptNone ==
    ASSUME NEW k \in Int, k > 0
    PROVE  Kept({}, {}, k)
<1>1. RowsOf({}) = {} /\ Cardinality({}) = 0
  BY FS_EmptySet DEF RowsOf
<1> QED BY <1>1 DEF Kept

LEMMA KeptAll ==
    ASSUME NEW C, C \subseteq Keys
    PROVE  Kept(RowsOf(C), C, Cardinality(Keys))
<1>1. Cardinality(RowsOf(C)) <= Cardinality(Keys)
  BY RowCount
<1> QED BY <1>1 DEF Kept

\* retain_top_k keeps the k least when one more row is offered.
LEMMA RetainKeeps ==
    ASSUME NEW C, C \subseteq Keys, NEW key \in Keys, key \notin C, NEW kept,
           NEW k \in Int, k > 0, Kept(kept, C, k)
    PROVE  Kept(retain_top_k(kept, k, RowOf(key)), C \cup {key}, k)
<1> DEFINE row == RowOf(key)
           D == C \cup {key}
           next == retain_top_k(kept, k, row)
           worst == CHOOSE a \in kept : \A b \in kept : ~Less(a, b)
<1>1. D \subseteq Keys /\ RowsOf(D) = RowsOf(C) \cup {row} /\ row \notin RowsOf(C) /\ row \in Row
  BY RowType DEF RowsOf
<1>2. kept \subseteq RowsOf(C) /\ RowsOf(C) \subseteq Row
  BY RowType DEF Kept
<1>3. IsFiniteSet(kept) /\ Cardinality(kept) \in Nat
  BY <1>2, RowCount, FS_Subset, FS_CardinalityType
<1>4. /\ Cardinality(kept) <= k /\ (Cardinality(kept) < k => kept = RowsOf(C))
      /\ \A r \in RowsOf(C) \ kept, b \in kept : Less(b, r)
  BY DEF Kept
<1> HIDE DEF D, row
<1>5. CASE Cardinality(kept) < k
  <2>1. next = kept \cup {row}
    BY <1>5 DEF retain_top_k
  <2>2. Cardinality(next) = Cardinality(kept) + 1
    BY <1>1, <1>2, <1>3, <2>1, FS_AddElement, Zenon
  <2>3. next = RowsOf(D)
    BY <1>1, <1>4, <1>5, <2>1
  <2>4. Cardinality(next) <= k
    BY <1>3, <1>5, <2>2
  <2> QED BY <2>3, <2>4 DEF Kept, D, row
<1>6. CASE ~(Cardinality(kept) < k)
  <2>0. Cardinality(kept) = k
    BY <1>3, <1>4, <1>6
  <2>1. kept # {}
    BY <2>0, FS_EmptySet
  <2>2. worst \in kept /\ \A b \in kept : ~Less(worst, b)
    <3>1. \E a \in kept : \A b \in kept : ~Less(a, b)
      BY <1>2, <1>3, <2>1, LastRow
    <3> QED BY <3>1, Zenon
  <2>3. next = IF Less(row, worst) THEN (kept \ {worst}) \cup {row} ELSE kept
    BY <1>6 DEF retain_top_k
  <2> HIDE DEF worst, next
  <2>4. \A b \in kept : b = worst \/ Less(b, worst)
    BY <1>2, <2>2, LessOrder
  <2>5. CASE Less(row, worst)
    <3>1. next = (kept \ {worst}) \cup {row}
      BY <2>3, <2>5
    <3>2. IsFiniteSet(kept \ {worst}) /\ Cardinality(kept \ {worst}) = k - 1
      BY <1>3, <2>0, <2>2, FS_RemoveElement
    <3>3. Cardinality(next) = (k - 1) + 1
      BY <1>1, <1>2, <3>1, <3>2, FS_AddElement, Zenon
    <3>4. next \subseteq RowsOf(D)
      BY <1>1, <1>2, <3>1
    <3>5. ASSUME NEW r \in RowsOf(D) \ next, NEW b \in next PROVE Less(b, r)
      <4>1. r \in Row /\ b \in Row /\ worst \in Row
        BY <1>1, <1>2, <2>2, <3>1
      <4>2. r = worst \/ r \in RowsOf(C) \ kept
        BY <1>1, <3>1, <3>5
      <4>3. Less(b, worst)
        BY <2>4, <2>5, <3>1, <3>5
      <4>4. CASE r = worst
        BY <4>3, <4>4
      <4>5. CASE r \in RowsOf(C) \ kept
        <5>1. Less(worst, r)
          BY <1>4, <2>2, <4>5
        <5> QED BY <4>1, <4>3, <5>1, LessOrder
      <4> QED BY <4>2, <4>4, <4>5
    <3> QED BY <3>3, <3>4, <3>5 DEF Kept, D, row, next
  <2>6. CASE ~Less(row, worst)
    <3>1. next = kept
      BY <2>3, <2>6
    <3>2. Less(worst, row)
      BY <1>1, <1>2, <2>2, <2>6, LessOrder
    <3>3. ASSUME NEW r \in RowsOf(D) \ kept, NEW b \in kept PROVE Less(b, r)
      <4>1. r = row \/ r \in RowsOf(C) \ kept
        BY <1>1, <3>3
      <4>2. CASE r = row
        <5>1. b \in Row /\ worst \in Row /\ row \in Row
          BY <1>1, <1>2, <2>2
        <5>2. b = worst \/ Less(b, worst)
          BY <2>4
        <5> QED BY <3>2, <4>2, <5>1, <5>2, LessOrder
      <4>3. CASE r \in RowsOf(C) \ kept
        BY <1>4, <4>3
      <4> QED BY <4>1, <4>2, <4>3
    <3>4. kept \subseteq RowsOf(D)
      BY <1>1, <1>2
    <3> QED BY <2>0, <3>1, <3>3, <3>4 DEF Kept, D, row, next
  <2> QED BY <2>5, <2>6
<1> QED BY <1>5, <1>6

LEMMA SameCardinality ==
    ASSUME NEW S
    PROVE  Service!Cardinality(S) = Cardinality(S)
BY Zenon DEF Cardinality, Service!Cardinality

\* The k least rows, sorted, are the nearest keys that the service promises.
LEMMA SortedNearest ==
    ASSUME NEW C, C \subseteq Keys, NEW kept, NEW k \in Int, k >= 0, Kept(kept, C, k)
    PROVE  SortRows(kept) = Service!Nearest(C, k)
<1> DEFINE n == Cardinality(kept)
<1>1. kept \subseteq RowsOf(C) /\ RowsOf(C) \subseteq Row
  BY RowType DEF Kept
<1>2. IsFiniteSet(C) /\ IsFiniteSet(RowsOf(C)) /\ Cardinality(RowsOf(C)) = Cardinality(C) /\ Cardinality(C) \in Nat
  BY RowCount
<1>3. IsFiniteSet(kept) /\ n \in Nat /\ n <= Cardinality(C)
  BY <1>1, <1>2, FS_Subset, FS_CardinalityType
<1>4. n = IF k < Cardinality(C) THEN k ELSE Cardinality(C)
  <2>1. n <= k /\ (n < k => n = Cardinality(C))
    BY <1>2 DEF Kept
  <2> QED BY <1>2, <1>3, <2>1
<1>5. ASSUME NEW r \in kept PROVE Place(r, kept) = Service!Rank(r.id, C)
  <2> DEFINE U == {b \in C : Service!Before(b, r.id)}
  <2>1. r.id \in C /\ r = RowOf(r.id)
    BY <1>1, RowType
  <2>2. ASSUME NEW b \in C PROVE Service!Before(b, r.id) <=> Less(RowOf(b), r)
    <3>1. /\ r.distance = Distance[r.id]
          /\ RowOf(b).distance = Distance[b] /\ RowOf(b).id = b
      BY <2>1 DEF RowOf
    <3> QED BY <3>1 DEF Service!Before, Less
  <2>3. ASSUME NEW s \in RowsOf(C), Less(s, r) PROVE s \in kept
    <3>1. s \notin kept => Less(r, s)
      BY DEF Kept
    <3>2. s \in Row /\ r \in Row
      BY <1>1
    <3> QED BY <2>3, <3>1, <3>2, LessOrder
  <2>4. {s \in kept : Less(s, r)} = RowsOf(U)
    <3>1. ASSUME NEW s \in kept, Less(s, r) PROVE s \in RowsOf(U)
      <4>1. s.id \in C /\ s = RowOf(s.id)
        BY <1>1, RowType
      <4> QED BY <2>2, <3>1, <4>1 DEF RowsOf
    <3>2. ASSUME NEW s \in RowsOf(U) PROVE s \in kept /\ Less(s, r)
      <4>1. PICK b \in U : s = RowOf(b)
        BY <3>2 DEF RowsOf
      <4>2. s \in RowsOf(C) /\ Less(s, r)
        BY <2>2, <4>1 DEF RowsOf
      <4> QED BY <2>3, <4>2
    <3> QED BY <3>1, <3>2
  <2>5. U \subseteq Keys
    OBVIOUS
  <2>6. Cardinality(RowsOf(U)) = Cardinality(U)
    BY <2>5, RowCount
  <2> QED BY <2>4, <2>6, SameCardinality DEF Place, Service!Rank
<1>6. ASSUME NEW i \in 1 .. n
      PROVE  (CHOOSE row \in kept : Place(row, kept) = i - 1).id = CHOOSE a \in C : Service!Rank(a, C) = i - 1
  <2> DEFINE row == CHOOSE row \in kept : Place(row, kept) = i - 1
             a == CHOOSE a \in C : Service!Rank(a, C) = i - 1
  <2>1. row \in kept /\ Place(row, kept) = i - 1
    <3>1. \E r \in kept : Place(r, kept) = i - 1
      BY <1>1, <1>3, PlaceTaken
    <3> QED BY <3>1, Zenon
  <2>2. row.id \in C /\ row = RowOf(row.id) /\ Service!Rank(row.id, C) = i - 1
    BY <1>1, <1>5, <2>1, RowType
  <2>3. a \in C /\ Service!Rank(a, C) = i - 1
    BY <2>2, Zenon
  <2> HIDE DEF row, a
  <2>4. ASSUME NEW b \in C PROVE Place(RowOf(b), RowsOf(C)) = Service!Rank(b, C)
    <3> DEFINE U == {c \in C : Service!Before(c, b)}
    <3>1. ASSUME NEW c \in C PROVE Service!Before(c, b) <=> Less(RowOf(c), RowOf(b))
      BY DEF Service!Before, Less, RowOf
    <3>2. {s \in RowsOf(C) : Less(s, RowOf(b))} = RowsOf(U)
      BY <3>1 DEF RowsOf
    <3>3. U \subseteq Keys
      OBVIOUS
    <3>4. Cardinality(RowsOf(U)) = Cardinality(U)
      BY <3>3, RowCount
    <3> QED BY <3>2, <3>4, SameCardinality DEF Place, Service!Rank
  <2>5. Place(RowOf(a), RowsOf(C)) = Place(row, RowsOf(C)) /\ RowOf(a) \in RowsOf(C) /\ row \in RowsOf(C)
    BY <2>2, <2>3, <2>4, RowType
  <2>6. RowOf(a) = row
    <3>1. i \in 1 .. Cardinality(RowsOf(C))
      BY <1>2, <1>3
    <3> QED BY <1>1, <1>2, <2>5, <3>1, PlaceTaken
  <2> QED BY <2>3, <2>6, RowType, Zenon DEF row, a
<1>7. SortRows(kept) = [i \in 1 .. n |-> (CHOOSE row \in kept : Place(row, kept) = i - 1).id]
  BY DEF SortRows
<1>8. Service!Nearest(C, k) = [i \in 1 .. n |-> CHOOSE a \in C : Service!Rank(a, C) = i - 1]
  BY <1>4, SameCardinality DEF Service!Nearest
<1> QED
  <2> HIDE DEF n
  <2> QED BY <1>6, <1>7, <1>8

-----------------------------------------------------------------------------
(* Types.                                                                  *)

LEMMA NoConnType == NoConn \in Connection
BY DEF NoConn, Connection, Response, Score

LEMMA BackwardsType ==
    ASSUME NEW S, NEW s \in Seq(S)
    PROVE  Backwards(s) \in Seq(S) /\ Len(Backwards(s)) = Len(s)
<1>1. Len(s) \in Nat
  OBVIOUS
<1>2. \A i \in 1 .. Len(s) : s[Len(s) + 1 - i] \in S
  BY <1>1
<1> QED BY <1>1, <1>2 DEF Backwards

LEMMA ScoresType ==
    ASSUME NEW keys \in Seq(Keys)
    PROVE  /\ Scores(keys) \in Seq(Score) /\ Len(Scores(keys)) = Len(keys)
           /\ \A i \in 1 .. Len(keys) :
                 Scores(keys)[i] = [candidate |-> i, distance |-> Distance[keys[i]]]
<1>1. \A i \in 1 .. Len(keys) : i \in Nat /\ Distance[keys[i]] \in Int
  BY MaxsimAssumption
<1>2. Len(keys) \in Nat
  OBVIOUS
<1> QED BY <1>1, <1>2 DEF Scores, Score

LEMMA Remainder ==
    ASSUME NEW n \in Nat
    PROVE  1 + (n % 2) * n \in {1, n + 1} /\ (n = 1 => 1 + (n % 2) * n = n + 1)
<1>1. n % 2 = 0 \/ n % 2 = 1
  OBVIOUS
<1>2. CASE n % 2 = 0 BY <1>2
<1>3. CASE n % 2 = 1 BY <1>3
<1> QED BY <1>1, <1>2, <1>3

LEMMA WrongTypes ==
    ASSUME NEW s \in Seq(Score), s # <<>>
    PROVE  Tail(s) \in Seq(Score) /\ Misplaced(s) \in Seq(Score) /\ NotFinite(s) \in Seq(Score)
<1>1. Len(s) \in Nat /\ Len(s) \in 1 .. Len(s) /\ 1 \in 1 .. Len(s)
  OBVIOUS
<1>2. 1 + (Len(s) % 2) * Len(s) \in Nat
  BY <1>1, Remainder
<1>3. [candidate |-> 1 + (Len(s) % 2) * Len(s), distance |-> s[Len(s)].distance] \in Score
  <2>1. s[Len(s)] \in Score
    BY <1>1
  <2> QED BY <1>2, <2>1 DEF Score
<1>4. [candidate |-> s[1].candidate, distance |-> 1000] \in Score
  <2>1. s[1] \in Score
    BY <1>1
  <2> QED BY <2>1 DEF Score
<1> QED BY <1>1, <1>3, <1>4 DEF Misplaced, NotFinite

LEMMA ReplyType ==
    ASSUME NEW c \in Connection, c.keys # <<>>, NEW r \in Replies(c)
    PROVE  r \in Response
<1> DEFINE s == Scores(c.keys)
<1>1. c.id \in 0 .. 3 /\ c.keys \in Seq(Keys)
  BY DEF Connection
<1>2. s \in Seq(Score) /\ s # <<>>
  BY <1>1, ScoresType
<1>3. Backwards(s) \in Seq(Score)
  BY <1>2, BackwardsType
<1>4. Tail(s) \in Seq(Score) /\ Misplaced(s) \in Seq(Score) /\ NotFinite(s) \in Seq(Score)
  BY <1>2, WrongTypes
<1>5. c.id \in Nat /\ (c.id % 3) + 2 \in Nat
  BY <1>1
<1>6. ASSUME NEW id \in Nat, NEW status \in Nat, NEW long \in BOOLEAN, NEW scores \in Seq(Score)
      PROVE  ReplyWith(id, status, long, scores) \in Response
  BY DEF ReplyWith, Response
<1>7. \/ \E scores \in {s, Backwards(s), Tail(s), Misplaced(s), NotFinite(s)} :
              r = ReplyWith(c.id, 0, FALSE, scores)
      \/ r = ReplyWith((c.id % 3) + 2, 0, FALSE, s)
      \/ r = ReplyWith(c.id, 1, FALSE, s) \/ r = ReplyWith(c.id, 0, TRUE, s)
  BY Zenon DEF Replies
<1> HIDE DEF s
<1>8. CASE \E scores \in {s, Backwards(s), Tail(s), Misplaced(s), NotFinite(s)} :
              r = ReplyWith(c.id, 0, FALSE, scores)
  <2>1. PICK scores \in Seq(Score) : r = ReplyWith(c.id, 0, FALSE, scores)
    BY <1>2, <1>3, <1>4, <1>8, Zenon
  <2> QED BY <1>5, <1>6, <2>1, Zenon
<1>9. CASE r = ReplyWith((c.id % 3) + 2, 0, FALSE, s) BY <1>2, <1>5, <1>6, <1>9, Zenon
<1>10. CASE r = ReplyWith(c.id, 1, FALSE, s) BY <1>2, <1>5, <1>6, <1>10, Zenon
<1>11. CASE r = ReplyWith(c.id, 0, TRUE, s) BY <1>2, <1>5, <1>6, <1>11, Zenon
<1> QED BY <1>7, <1>8, <1>9, <1>10, <1>11, Zenon

LEMMA ErrorTypes ==
    ASSUME Types, pc # "idle", NEW why, Error(why)
    PROVE  Types'
<1>1. /\ todo' \in Seq(Keys) /\ pending' \in Seq(Keys) /\ batch' \in Seq(Keys)
      /\ sizes' \in [tokens : Nat, declared : Nat, frame : Nat]
  BY DEF Types, Error, NoSizes
<1>2. now' \in Nat /\ deadline' \in Nat /\ conn' \in Connection
  BY NoConnType DEF Error
<1> QED BY <1>1, <1>2 DEF Types, Error, request

LEMMA SuccessTypes ==
    ASSUME Types, NEW sorted, Success(sorted)
    PROVE  Types'
<1>1. /\ todo' \in Seq(Keys) /\ pending' \in Seq(Keys) /\ batch' \in Seq(Keys)
      /\ sizes' \in [tokens : Nat, declared : Nat, frame : Nat]
  BY DEF Types, Success, NoSizes
<1>2. now' \in Nat /\ deadline' \in Nat /\ conn' \in Connection
  BY NoConnType DEF Success
<1> QED BY <1>1, <1>2 DEF Types, Success, request

LEMMA SizeTypes ==
    /\ external_request_base_bytes \in Nat
    /\ \A key \in Keys : descriptor_frame_bytes(key) \in Nat /\ tensor_bytes(Rows[key]) \in Nat
    /\ tensor_bytes(QueryRows) \in Nat
<1>1. ASSUME NEW n \in Nat PROVE tensor_bytes(n) \in Nat
  BY MaxsimAssumption DEF tensor_bytes
<1>2. tensor_bytes(QueryRows) \in Nat /\ \A key \in Keys : tensor_bytes(Rows[key]) \in Nat
  BY <1>1, MaxsimAssumption
<1>3. external_request_base_bytes \in Nat
  BY <1>2, MaxsimAssumption DEF external_request_base_bytes
<1>4. \A key \in Keys : descriptor_frame_bytes(key) \in Nat
  BY MaxsimAssumption DEF descriptor_frame_bytes, ChecksumBytes
<1> QED BY <1>2, <1>3, <1>4

LEMMA LargerType ==
    ASSUME NEW s \in [tokens : Nat, declared : Nat, frame : Nat], NEW key \in Keys
    PROVE  Larger(s, key) \in [tokens : Nat, declared : Nat, frame : Nat]
BY SizeTypes, MaxsimAssumption DEF Larger

LEMMA OpenedType ==
    ASSUME Types, NEW keys \in Seq(Keys), NEW until \in Nat, Opened(keys, until)
    PROVE  conn' \in Connection /\ conn'.id \in 1 .. 3 /\ conn'.keys = keys /\ conn'.deadline = until
           /\ conn'.sent = FALSE /\ conn'.parts = 0
<1>1. conn.id \in 0 .. 3
  BY DEF Types, Connection
<1>2. (conn.id % 3) + 1 \in 1 .. 3
  BY <1>1
<1>3. conn' = [id |-> (conn.id % 3) + 1, keys |-> keys, deadline |-> until, sent |-> FALSE,
               parts |-> 0, closed |-> FALSE, reply |-> NoConn.reply]
  BY Zenon DEF Opened, NoConn
<1>4. NoConn.reply \in Response
  BY NoConnType DEF Connection
<1> QED BY <1>2, <1>3, <1>4 DEF Connection

LEMMA BeginTypes == ASSUME Types, Begin PROVE Types'
<1>1. query' \in Query /\ query' \in Asked
  BY MaxsimAssumption DEF Begin
<1>2. query' \in [mode : {"none", "search", "rerank", "gpu", "auto"}, k : Int, limit : Int,
                  candidates : Seq(Keys), fresh : BOOLEAN]
  BY <1>1 DEF Query
<1>3. /\ todo' = todo /\ pending' = pending /\ batch' = batch /\ sizes' = sizes /\ live' = live
      /\ now' = now /\ deadline' = deadline /\ conn' = conn /\ seen' = live /\ pc' = "begin"
  BY DEF Begin, iteration
<1> QED BY <1>1, <1>2, <1>3 DEF Types

LEMMA PrepareTypes == ASSUME Types, Prepare PROVE Types'
<1>1. CASE Error("refused")
  BY <1>1, ErrorTypes DEF Prepare
<1>2. CASE ~Error("refused")
  <2>1. /\ todo' = IF query.mode = "rerank" THEN query.candidates ELSE Visible(query.candidates, seen)
        /\ Continue(IF External THEN "load" ELSE "encode")
        /\ UNCHANGED <<pending, batch, sizes, results, best, now, deadline, conn>>
    BY <1>2, Zenon DEF Prepare
  <2>2. query.candidates \in Seq(Keys)
    BY DEF Types
  <2>3. todo' \in Seq(Keys)
    BY <2>1, <2>2, VisibleRange
  <2> QED BY <2>1, <2>3 DEF Types, Continue, request, Prepare
<1> QED BY <1>1, <1>2

LEMMA LoadTypes == ASSUME Types, load_visible_descriptors PROVE Types'
<1>1. CASE Error("descriptor")
  BY <1>1, ErrorTypes DEF load_visible_descriptors
<1>2. CASE ~Error("descriptor")
  <2>1. /\ todo' = Visible(todo, IF query.fresh THEN live ELSE seen)
        /\ deadline' = now + Timeout
        /\ Continue("collect") /\ UNCHANGED <<pending, batch, sizes, results, best, now, conn>>
    BY <1>2, Zenon DEF load_visible_descriptors
  <2>2. todo' \in Seq(Keys)
    BY <2>1, VisibleRange DEF Types
  <2>3. deadline' \in Nat
    BY <2>1, MaxsimAssumption DEF Types
  <2> QED BY <2>1, <2>2, <2>3 DEF Types, Continue, request, Batches, load_visible_descriptors
<1> QED BY <1>1, <1>2

LEMMA FillTypes == ASSUME Types, Fill PROVE Types'
<1> DEFINE key == IF pending # <<>> THEN pending[1] ELSE todo[1]
           rest == IF pending # <<>> THEN todo ELSE Tail(todo)
<1>1. key \in Keys /\ rest \in Seq(Keys) /\ <<key>> \in Seq(Keys) /\ Append(batch, key) \in Seq(Keys)
  BY DEF Types, Fill
<1>2. Larger(sizes, key) \in [tokens : Nat, declared : Nat, frame : Nat]
  BY <1>1, LargerType, Zenon DEF Types
<1>3. CASE Error("too_large")
  BY <1>3, ErrorTypes DEF Fill
<1>4. CASE ~Error("too_large")
  <2>1. /\ pending' \in {<<>>, <<key>>} /\ batch' \in {batch, Append(batch, key)} /\ todo' = rest
        /\ sizes' \in {sizes, Larger(sizes, key)}
        /\ Continue("fill") \/ Continue("request")
        /\ UNCHANGED <<now, deadline, conn>>
    BY <1>4 DEF Fill
  <2> HIDE DEF key, rest
  <2>2. pending' \in Seq(Keys) /\ batch' \in Seq(Keys) /\ todo' \in Seq(Keys)
        /\ sizes' \in [tokens : Nat, declared : Nat, frame : Nat]
    <3>1. <<>> \in Seq(Keys) /\ batch \in Seq(Keys)
          /\ sizes \in [tokens : Nat, declared : Nat, frame : Nat]
      BY DEF Types
    <3>2. pending' \in Seq(Keys) /\ todo' \in Seq(Keys)
      BY <1>1, <2>1, <3>1, Zenon
    <3>3. batch' \in Seq(Keys)
      BY <1>1, <2>1, <3>1, Zenon
    <3>4. sizes' \in [tokens : Nat, declared : Nat, frame : Nat]
      BY <1>2, <2>1, <3>1, Zenon
    <3> QED BY <3>2, <3>3, <3>4, Zenon
  <2>3. pc' \in Batches /\ UNCHANGED <<live, query, seen, now, deadline, conn>>
    BY <2>1 DEF Continue, Batches, request
  <2> QED BY <2>2, <2>3, Zenon DEF Types, Fill
<1> QED BY <1>3, <1>4

LEMMA DecodeTypes == ASSUME Types, Decode PROVE Types'
<1>1. CASE Error("protocol")
  BY <1>1, ErrorTypes DEF Decode
<1>2. CASE Success(SortRows(Decoded))
  BY <1>2, SuccessTypes
<1>3. CASE ~Error("protocol") /\ ~Success(SortRows(Decoded))
  <2>1. /\ batch' = <<>> /\ sizes' = NoSizes /\ conn' = [NoConn EXCEPT !.id = conn.id]
        /\ Continue("consume") /\ UNCHANGED <<todo, pending, best, now, deadline>>
    BY <1>3, Zenon DEF Decode
  <2>2. conn.id \in 0 .. 3
    BY DEF Types, Connection
  <2>3. conn' \in Connection
    BY <2>1, <2>2, NoConnType DEF Connection
  <2>4. batch' \in Seq(Keys) /\ sizes' \in [tokens : Nat, declared : Nat, frame : Nat]
    BY <2>1 DEF NoSizes
  <2> QED BY <2>1, <2>3, <2>4 DEF Types, Continue, request, Batches, Decode
<1> QED BY <1>1, <1>2, <1>3

LEMMA TypesStep ==
    ASSUME Types, Answers, [Next]_vars
    PROVE  Types'
<1> USE DEF Polling, Waits, Batches
<1>1. CASE UNCHANGED vars
  BY <1>1 DEF Types, vars
<1>2. CASE Begin BY <1>2, BeginTypes
<1>3. CASE Prepare BY <1>3, PrepareTypes
<1>4. CASE load_visible_descriptors BY <1>4, LoadTypes
<1>5. CASE collect_external_batch
  <2>1. CASE Error("too_large") BY <1>5, <2>1, ErrorTypes DEF collect_external_batch
  <2>2. CASE ~Error("too_large")
    <3>1. /\ sizes' = Base /\ Continue("fill") /\ pc = "collect"
          /\ UNCHANGED <<todo, pending, batch, results, best, now, deadline, conn>>
      BY <1>5, <2>2, Zenon DEF collect_external_batch
    <3>2. Base \in [tokens : Nat, declared : Nat, frame : Nat]
      BY SizeTypes, MaxsimAssumption DEF Base
    <3> QED BY <3>1, <3>2 DEF Types, Continue, request
  <2> QED BY <2>1, <2>2
<1>6. CASE Fill BY <1>6, FillTypes
<1>7. CASE FillEnds
  <2>1. CASE Success(SortRows(best)) BY <2>1, SuccessTypes
  <2>2. CASE ~Success(SortRows(best))
    <3>1. pc = "fill" /\ Continue("request") /\ UNCHANGED <<iteration, now, deadline, conn>>
      BY <1>7, <2>2, Zenon DEF FillEnds
    <3> QED BY <3>1 DEF Types, Continue, request, iteration
  <2> QED BY <2>1, <2>2
<1>8. CASE rerank_batches
  <2>1. CASE Error("time") \/ Error("too_large") BY <1>8, <2>1, ErrorTypes DEF rerank_batches
  <2>2. CASE ~Error("time") /\ ~Error("too_large")
    <3>1. /\ pc = "request" /\ Opened(batch, now + (deadline - now)) /\ Continue("connect")
          /\ UNCHANGED <<iteration, now, deadline>>
      BY <1>8, <2>2, Zenon DEF rerank_batches
    <3>2. now + (deadline - now) \in Nat /\ batch \in Seq(Keys)
      BY DEF Types
    <3>3. conn' \in Connection
      BY <3>1, <3>2, OpenedType, Zenon
    <3> QED BY <3>1, <3>3 DEF Types, Continue, request, iteration
  <2> QED BY <2>1, <2>2
<1>9. CASE GpuRerank
  <2>1. CASE Error("too_large") BY <1>9, <2>1, ErrorTypes DEF GpuRerank
  <2>2. CASE Success(<<>>) BY <2>2, SuccessTypes
  <2>3. CASE ~Error("too_large") /\ ~Success(<<>>)
    <3>1. /\ pc = "encode" /\ Opened(todo, now + Timeout) /\ deadline' = now + Timeout
          /\ Continue("connect") /\ UNCHANGED <<iteration, now>>
      BY <1>9, <2>3, Zenon DEF GpuRerank
    <3>2. now + Timeout \in Nat /\ todo \in Seq(Keys)
      BY MaxsimAssumption DEF Types
    <3>3. conn' \in Connection
      BY <3>1, <3>2, OpenedType, Zenon
    <3> QED BY <3>1, <3>2, <3>3 DEF Types, Continue, request, iteration
  <2> QED BY <2>1, <2>2, <2>3
<1>10. CASE CpuRerank BY <1>10, SuccessTypes DEF CpuRerank
<1>11. CASE connect_interruptible \/ read_header \/ read_body \/ Interrupted
  <2>1. pc \in Polling
    BY <1>11 DEF connect_interruptible, read_header, read_body, Interrupted
  <2>2. CASE Error("transport") \/ Error("protocol") BY <2>1, <2>2, ErrorTypes
  <2>3. CASE ~Error("transport") /\ ~Error("protocol")
    <3>1. /\ Continue("write") \/ Continue("body") \/ Continue("decode")
          /\ UNCHANGED <<iteration, now, deadline, conn>>
      BY <1>11, <2>3 DEF connect_interruptible, read_header, read_body, Interrupted, ReadPart
    <3> QED BY <2>1, <3>1 DEF Types, Continue, request, iteration
  <2> QED BY <2>2, <2>3
<1>12. CASE write_interruptible
  <2>1. conn' \in Connection
    <3>1. conn' = [conn EXCEPT !.sent = TRUE] /\ conn \in Connection
      BY <1>12, Zenon DEF write_interruptible, Types
    <3> QED BY <3>1, Zenon DEF Connection
  <2> QED BY <1>12, <2>1 DEF write_interruptible, Types, Continue, request, iteration
<1>13. CASE Decode BY <1>13, DecodeTypes
<1>14. CASE Consume
  <2>1. /\ pc = "consume" /\ (Continue("collect") \/ Continue("consume"))
        /\ UNCHANGED <<todo, pending, batch, sizes, now, deadline, conn>>
    BY <1>14 DEF Consume, iteration
  <2> QED BY <2>1 DEF Types, Continue, request
<1>15. CASE Cancel
  <2>1. /\ todo' \in Seq(Keys) /\ pending' \in Seq(Keys) /\ batch' \in Seq(Keys)
        /\ sizes' \in [tokens : Nat, declared : Nat, frame : Nat] /\ conn' \in Connection
    BY <1>15, NoConnType DEF Cancel, NoSizes
  <2> QED BY <1>15, <2>1 DEF Cancel, Types, request
<1>16. CASE Touch
  BY <1>16 DEF Touch, Types, request, iteration
<1>17. CASE Reply
  <2>1. conn \in Connection /\ conn.keys # <<>>
    BY <1>17, Zenon DEF Types, Answers, Reply
  <2>2. PICK r \in Replies(conn) : conn' = [conn EXCEPT !.parts = 1, !.reply = r]
    BY <1>17, Zenon DEF Reply
  <2>3. r \in Response
    BY <2>1, <2>2, ReplyType
  <2>4. conn' \in Connection
    <3> HIDE DEF Response
    <3> DEFINE c == [conn EXCEPT !.parts = 1]
    <3>1. c \in Connection
      BY <2>1 DEF Connection
    <3>2. conn' = [c EXCEPT !.reply = r]
      BY <2>1, <2>2, Zenon DEF Connection
    <3> HIDE DEF c
    <3>3. ASSUME NEW d \in Connection PROVE [d EXCEPT !.reply = r] \in Connection
      BY <2>3 DEF Connection
    <3> QED BY <3>1, <3>2, <3>3
  <2> QED BY <1>17, <2>4, Zenon DEF Reply, Types, request, iteration
<1>18. CASE ReplyBody \/ Close
  <2>1. conn' \in Connection
    <3>1. conn' = [conn EXCEPT !.parts = 2] \/ conn' = [conn EXCEPT !.closed = TRUE]
      BY <1>18, Zenon DEF ReplyBody, Close
    <3>2. conn \in Connection
      BY DEF Types
    <3>3. [conn EXCEPT !.parts = 2] \in Connection
      BY <3>2 DEF Connection
    <3>4. [conn EXCEPT !.closed = TRUE] \in Connection
      BY <3>2, Zenon DEF Connection
    <3> QED BY <3>1, <3>3, <3>4, Zenon
  <2> QED BY <1>18, <2>1 DEF ReplyBody, Close, Types, request, iteration
<1>19. CASE Tick
  BY <1>19 DEF Tick, Types, request, iteration
<1> QED
  BY <1>1, <1>2, <1>3, <1>4, <1>5, <1>6, <1>7, <1>8, <1>9, <1>10, <1>11, <1>12, <1>13, <1>14,
     <1>15, <1>16, <1>17, <1>18, <1>19, Zenon DEF Next, Client

-----------------------------------------------------------------------------
(* The deadline.                                                           *)

\* An error or an answer ends the waiting for the daemon.
LEMMA ErrorEnds ==
    ASSUME Types, NEW why, Error(why)
    PROVE  pc' \in {"idle", "cpu"} /\ pc' \notin {"begin", "load", "encode"} \cup Batches \cup Waits
BY DEF Error, Polling, Waits, Batches
LEMMA SuccessEnds ==
    ASSUME NEW sorted, Success(sorted)
    PROVE  pc' = "idle" /\ pc' \notin {"begin", "load", "encode", "cpu"} \cup Batches \cup Waits
BY DEF Success, Polling, Waits, Batches

LEMMA OpenedDeadline ==
    ASSUME NEW keys, NEW until, Opened(keys, until)
    PROVE  /\ conn'.deadline = until /\ conn'.keys = keys /\ conn'.id = (conn.id % 3) + 1
           /\ conn'.sent = FALSE /\ conn'.parts = 0
BY DEF Opened, NoConn

LEMMA DeadlinesStep ==
    ASSUME Types, Deadlines, [Next]_vars
    PROVE  Deadlines' /\ (pc = "body" /\ pc' = "decode" => now < deadline)
<1> USE DEF Polling, Waits, Batches
<1>1. CASE \/ UNCHANGED vars \/ Begin \/ Prepare \/ load_visible_descriptors
           \/ collect_external_batch \/ Fill \/ FillEnds \/ CpuRerank \/ Decode \/ Consume \/ Cancel
  <2>1. CASE \E why : Error(why)
    BY <2>1, ErrorEnds DEF Deadlines
  <2>2. CASE \E sorted : Success(sorted)
    BY <2>2, SuccessEnds DEF Deadlines
  <2>3. CASE ~(\E why : Error(why)) /\ ~(\E sorted : Success(sorted))
    <3>1. CASE UNCHANGED vars
      BY <3>1 DEF vars, Deadlines
    <3>2. CASE ~UNCHANGED vars
      <4>1. pc' \notin Polling /\ pc' # "decode"
        BY <1>1, <2>3, <3>2, Zenon
        DEF Begin, Prepare, load_visible_descriptors, collect_external_batch, Fill, FillEnds,
            CpuRerank, Decode, Consume, Cancel, Continue
      <4> QED BY <4>1 DEF Deadlines
    <3> QED BY <3>1, <3>2
  <2> QED BY <2>1, <2>2, <2>3
<1>2. CASE rerank_batches \/ GpuRerank
  <2>1. CASE \E why : Error(why)
    BY <2>1, ErrorEnds DEF Deadlines
  <2>2. CASE \E sorted : Success(sorted)
    BY <2>2, SuccessEnds DEF Deadlines
  <2>3. CASE ~(\E why : Error(why)) /\ ~(\E sorted : Success(sorted))
    <3>1. /\ pc' = "connect"
          /\ \/ Opened(batch, now + (deadline - now)) /\ deadline' = deadline
             \/ Opened(todo, now + Timeout) /\ deadline' = now + Timeout
      BY <1>2, <2>3, Zenon DEF rerank_batches, GpuRerank, Continue
    <3>2. now \in Nat /\ deadline \in Nat /\ now + (deadline - now) = deadline
      BY DEF Types
    <3> QED BY <3>1, <3>2, OpenedDeadline, Zenon DEF Deadlines
  <2> QED BY <2>1, <2>2, <2>3
<1>3. CASE connect_interruptible \/ read_header \/ read_body \/ Interrupted
  <2>1. CASE \E why : Error(why)
    BY <2>1, ErrorEnds DEF Deadlines
  <2>2. CASE ~(\E why : Error(why))
    <3>1. /\ pc \in Polling /\ ~TimedOut /\ pc' \in {"write", "body", "decode"}
          /\ UNCHANGED <<deadline, conn>>
      BY <1>3, <2>2, Zenon
      DEF connect_interruptible, read_header, read_body, Interrupted, ReadPart, Continue
    <3>2. now < deadline
      BY <3>1 DEF Types, Deadlines, TimedOut
    <3> QED BY <3>1, <3>2 DEF Deadlines
  <2> QED BY <2>1, <2>2
<1>4. CASE write_interruptible \/ Reply \/ ReplyBody \/ Close
  <2>1. /\ pc' = pc \/ (pc = "write" /\ pc' = "header")
        /\ deadline' = deadline
    BY <1>4, Zenon DEF write_interruptible, Reply, ReplyBody, Close, Continue
  <2>2. conn'.deadline = conn.deadline
    <3>1. CASE write_interruptible
      BY <3>1 DEF write_interruptible, Types, Connection
    <3>2. CASE Reply
      <4>1. PICK r \in Replies(conn) : conn' = [conn EXCEPT !.parts = 1, !.reply = r]
        BY <3>2, Zenon DEF Reply
      <4> QED BY <4>1 DEF Types, Connection
    <3>3. CASE ReplyBody \/ Close
      BY <3>3 DEF ReplyBody, Close, Types, Connection
    <3> QED BY <1>4, <3>1, <3>2, <3>3
  <2> QED BY <2>1, <2>2 DEF Deadlines
<1>5. CASE Touch \/ Tick
  BY <1>5 DEF Touch, Tick, Deadlines
<1> QED BY <1>1, <1>2, <1>3, <1>4, <1>5, Zenon DEF Next, Client

-----------------------------------------------------------------------------
(* Batches are reckoned as their frames are measured.                      *)

LEMMA MeasuresBase == Base = Measures(<<>>)
<1> DEFINE tensor == [key \in Keys |-> tensor_bytes(Rows[key])]
           frame == [key \in Keys |-> 4 + 4 + 4 + 4 + RefBytes[key] + ChecksumBytes]
<1>1. tensor \in [Keys -> Nat] /\ frame \in [Keys -> Nat] /\ Rows \in [Keys -> Nat]
  <2>1. \A k \in Keys : tensor_bytes(Rows[k]) \in Nat
    BY SizeTypes
  <2> QED BY <2>1, MaxsimAssumption DEF ChecksumBytes
<1>2. Sum(tensor, <<>>) = 0 /\ Sum(frame, <<>>) = 0 /\ Sum(Rows, <<>>) = 0
  <2> HIDE DEF tensor, frame
  <2> QED BY <1>1, SumNone
<1>3. tensor_bytes(QueryRows) \in Nat
  BY SizeTypes
<1>4. TokensOf(<<>>) = QueryRows /\ DeclaredOf(<<>>) = tensor_bytes(QueryRows)
  <2> USE DEF TokensOf, DeclaredOf
  <2>1. \A ks : DeclaredOf(ks) = tensor_bytes(QueryRows) + Sum(tensor, ks)
    OBVIOUS
  <2> HIDE DEF tensor, DeclaredOf
  <2> QED BY <1>2, <1>3, <2>1, MaxsimAssumption
<1>5. ExternalFrame(<<>>) = external_request_base_bytes
  BY <1>2, <1>3, MaxsimAssumption DEF ExternalFrame, external_request_base_bytes, HeaderLen, Identity
<1> QED BY <1>4, <1>5 DEF Base, Measures

LEMMA MeasuresAppend ==
    ASSUME NEW keys \in Seq(Keys), NEW key \in Keys
    PROVE  Larger(Measures(keys), key) = Measures(Append(keys, key))
<1> DEFINE tensor == [k \in Keys |-> tensor_bytes(Rows[k])]
           frame == [k \in Keys |-> 4 + 4 + 4 + 4 + RefBytes[k] + ChecksumBytes]
           more == Append(keys, key)
<1>1. tensor \in [Keys -> Nat] /\ frame \in [Keys -> Nat] /\ Rows \in [Keys -> Nat]
  <2>1. \A k \in Keys : tensor_bytes(Rows[k]) \in Nat
    BY SizeTypes
  <2> QED BY <2>1, MaxsimAssumption DEF ChecksumBytes
<1>2. /\ Sum(tensor, keys) \in Nat /\ Sum(tensor, more) = Sum(tensor, keys) + tensor[key]
      /\ Sum(frame, keys) \in Nat /\ Sum(frame, more) = Sum(frame, keys) + frame[key]
      /\ Sum(Rows, keys) \in Nat /\ Sum(Rows, more) = Sum(Rows, keys) + Rows[key]
  <2> HIDE DEF tensor, frame
  <2> QED BY <1>1, SumAppend, Zenon
<1>3. tensor_bytes(QueryRows) \in Nat /\ tensor_bytes(Rows[key]) \in Nat
  BY SizeTypes
<1>4. tensor[key] = tensor_bytes(Rows[key]) /\ frame[key] = 16 + RefBytes[key] + ChecksumBytes
  BY MaxsimAssumption DEF ChecksumBytes
<1> HIDE DEF more
<1>5. TokensOf(more) = TokensOf(keys) + Rows[key]
  BY <1>1, <1>2, MaxsimAssumption DEF TokensOf
<1>6. DeclaredOf(more) = DeclaredOf(keys) + tensor_bytes(Rows[key])
  BY <1>2, <1>3, <1>4 DEF DeclaredOf
<1>7. ExternalFrame(more) = ExternalFrame(keys) + descriptor_frame_bytes(key)
  <2> DEFINE base == HeaderLen + (4 + 4 + 4 + 1 + 1 + 2 + 4) + Identity + ContractBytes
                       + TenantBytes + tensor_bytes(QueryRows)
  <2>1. base \in Int /\ frame[key] = descriptor_frame_bytes(key) /\ frame[key] \in Nat
    BY <1>1, <1>3, <1>4, MaxsimAssumption DEF HeaderLen, Identity, descriptor_frame_bytes
  <2>2. \A ks : ExternalFrame(ks) = base + Sum(frame, ks)
    BY DEF ExternalFrame
  <2> HIDE DEF base, frame
  <2> QED BY <1>2, <2>1, <2>2
<1> QED BY <1>5, <1>6, <1>7 DEF Measures, Larger, more

LEMMA Fits ==
    ASSUME NEW keys \in Seq(Keys)
    PROVE  /\ NoRoom(Measures(keys)) => ~encode_external_descriptors(keys)
           /\ ~NoRoom(Measures(keys)) /\ Len(keys) <= MaxCandidates
                 => encode_external_descriptors(keys)
<1>1. \A key \in Keys : tensor_bytes(Rows[key]) \in Nat
  BY SizeTypes
<1> DEFINE tensor == [k \in Keys |-> tensor_bytes(Rows[k])]
           frame == [k \in Keys |-> 4 + 4 + 4 + 4 + RefBytes[k] + ChecksumBytes]
<1>2. tensor \in [Keys -> Nat] /\ frame \in [Keys -> Nat] /\ Rows \in [Keys -> Nat]
  BY <1>1, MaxsimAssumption DEF ChecksumBytes
<1>3. Sum(tensor, keys) \in Nat /\ Sum(frame, keys) \in Nat /\ Sum(Rows, keys) \in Nat
  <2>1. PICK f : Sums(Rows, keys, f) /\ Sum(Rows, keys) = f[Len(keys)]
    BY <1>2, SumRun
  <2>2. PICK g : Sums(tensor, keys, g) /\ Sum(tensor, keys) = g[Len(keys)]
    <3> HIDE DEF tensor
    <3> QED BY <1>2, SumRun
  <2>3. PICK h : Sums(frame, keys, h) /\ Sum(frame, keys) = h[Len(keys)]
    <3> HIDE DEF frame
    <3> QED BY <1>2, SumRun, Zenon
  <2> HIDE DEF tensor, frame
  <2> QED BY <2>1, <2>2, <2>3 DEF Sums
<1>4. TokensOf(keys) \in Int /\ DeclaredOf(keys) \in Int /\ ExternalFrame(keys) \in Int
  BY <1>3, SizeTypes, MaxsimAssumption DEF TokensOf, DeclaredOf, ExternalFrame, HeaderLen, Identity
<1> QED BY <1>4, MaxsimAssumption DEF NoRoom, Measures, encode_external_descriptors

Refusable ==
    \/ ~encode_external_descriptors(<<>>)
    \/ \E key \in Range(query.candidates) : ~encode_external_descriptors(<<key>>)

LEMMA RangeEmpty == Range(<<>>) = {}
BY DEF Range
LEMMA RangeOne == ASSUME NEW x PROVE Range(<<x>>) = {x} /\ Distinct(<<x>>)
BY DEF Range, Distinct
LEMMA RangeTail ==
    ASSUME NEW S, NEW s \in Seq(S), s # <<>>
    PROVE  /\ s[1] \in Range(s) /\ Tail(s) \in Seq(S) /\ Range(Tail(s)) \subseteq Range(s)
           /\ Range(s) = {s[1]} \cup Range(Tail(s))
           /\ Distinct(s) => Distinct(Tail(s)) /\ s[1] \notin Range(Tail(s))
<1>1. Len(s) \in Nat /\ DOMAIN s = 1 .. Len(s) /\ 1 \in 1 .. Len(s)
  OBVIOUS
<1>2. Tail(s) \in Seq(S) /\ Len(Tail(s)) = Len(s) - 1 /\ DOMAIN Tail(s) = 1 .. Len(s) - 1
  BY <1>1
<1>3. \A i \in 1 .. Len(s) - 1 : Tail(s)[i] = s[i + 1] /\ i + 1 \in 1 .. Len(s)
  BY <1>1
<1>4. \A i \in 1 .. Len(s) : i = 1 \/ (i - 1 \in 1 .. Len(s) - 1 /\ Tail(s)[i - 1] = s[i])
  BY <1>1, <1>3
<1>5. Range(Tail(s)) \subseteq Range(s)
  BY <1>1, <1>2, <1>3 DEF Range
<1>6. ASSUME NEW x \in Range(s) PROVE x = s[1] \/ x \in Range(Tail(s))
  <2>1. PICK i \in 1 .. Len(s) : x = s[i]
    BY <1>1 DEF Range
  <2>2. CASE i = 1 BY <2>1, <2>2
  <2>3. CASE i # 1
    <3>1. i - 1 \in DOMAIN Tail(s) /\ x = Tail(s)[i - 1]
      BY <1>2, <1>4, <2>1, <2>3
    <3> QED BY <3>1, Zenon DEF Range
  <2> QED BY <2>2, <2>3
<1>7. s[1] \in Range(s)
  BY <1>1 DEF Range
<1>8. ASSUME Distinct(s) PROVE Distinct(Tail(s)) /\ s[1] \notin Range(Tail(s))
  <2>1. \A i, j \in 1 .. Len(s) : s[i] = s[j] => i = j
    BY <1>1, <1>8 DEF Distinct
  <2>2. ASSUME NEW i \in 1 .. Len(s) - 1, NEW j \in 1 .. Len(s) - 1, Tail(s)[i] = Tail(s)[j]
        PROVE  i = j
    <3>1. i + 1 \in 1 .. Len(s) /\ j + 1 \in 1 .. Len(s) /\ s[i + 1] = s[j + 1]
      BY <1>3, <2>2
    <3>2. i + 1 = j + 1
      BY <2>1, <3>1
    <3> QED BY <3>2
  <2>3. ASSUME NEW i \in 1 .. Len(s) - 1 PROVE Tail(s)[i] # s[1]
    <3>1. i + 1 \in 1 .. Len(s) /\ i + 1 # 1 /\ Tail(s)[i] = s[i + 1]
      BY <1>3
    <3> QED BY <1>1, <2>1, <3>1
  <2>4. Distinct(Tail(s))
    BY <1>2, <2>2 DEF Distinct
  <2>5. s[1] \notin Range(Tail(s))
    BY <1>2, <2>3 DEF Range
  <2> QED BY <2>4, <2>5
<1> QED BY <1>2, <1>5, <1>6, <1>7, <1>8

\* The batch is done with, and what is refused as too large is too large.
LEMMA ErrorSized ==
    ASSUME Types, Sized, NEW why, Error(why), why = "too_large" /\ External => Refusable
    PROVE  Sized'
<1>1. pc' \in {"idle", "cpu"} /\ (pc' = "cpu" => query.mode = "auto") /\ query' = query
  BY DEF Error, request
<1>2. batch' = <<>> /\ pending' = <<>> /\ (todo' = <<>> \/ todo' = todo)
  BY DEF Error
<1>3. pc' = "idle" => answer' = Failed(why)
  BY DEF Error
<1>4. RefusedOnlyIfTooLarge'
  BY <1>1, <1>3 DEF RefusedOnlyIfTooLarge, Refusable, Failed, External
<1> QED
  BY <1>1, <1>2, <1>4, RangeEmpty DEF Sized, External, Waits, Polling, Batches

LEMMA SuccessSized ==
    ASSUME Types, Sized, NEW sorted, Success(sorted)
    PROVE  Sized'
<1>1. pc' = "idle" /\ batch' = <<>> /\ pending' = <<>> /\ todo' = <<>>
  BY DEF Success
<1>2. RefusedOnlyIfTooLarge'
  BY DEF Success, RefusedOnlyIfTooLarge
<1> QED
  BY <1>1, <1>2, RangeEmpty DEF Sized, Waits, Polling, Batches

\* Nothing but waiting.
LEMMA SizedWaits ==
    ASSUME Types, Sized, UNCHANGED <<query, todo, pending, batch, sizes, answer>>,
           pc' = pc \/ (pc \in {"request", "encode"} \cup Waits /\ pc' \in Waits)
    PROVE  Sized'
BY DEF Sized, RefusedOnlyIfTooLarge, External, Waits, Polling, Batches

LEMMA FillSized == ASSUME Types, Sized, Fill PROVE Sized'
<1> DEFINE key == IF pending # <<>> THEN pending[1] ELSE todo[1]
           rest == IF pending # <<>> THEN todo ELSE Tail(todo)
<1>1. pc = "fill" /\ External /\ Len(batch) < MaxCandidates
  BY DEF Fill, Sized, Batches
<1>2. /\ key \in Keys /\ rest \in Seq(Keys) /\ key \in Range(query.candidates)
      /\ Range(rest) \subseteq Range(query.candidates) /\ Range(<<key>>) = {key}
  <2>1. todo \in Seq(Keys) /\ pending \in Seq(Keys) /\ (pending # <<>> \/ todo # <<>>)
    BY DEF Types, Fill
  <2>2. Range(todo) \subseteq Range(query.candidates) /\ Range(pending) \subseteq Range(query.candidates)
    BY DEF Sized
  <2>3. CASE pending # <<>>
    <3>1. pending[1] \in Range(pending) /\ pending[1] \in Keys
      BY <2>1, <2>3, RangeTail
    <3> QED BY <2>1, <2>2, <2>3, <3>1, RangeOne
  <2>4. CASE pending = <<>>
    <3>1. todo[1] \in Range(todo) /\ todo[1] \in Keys /\ Tail(todo) \in Seq(Keys)
          /\ Range(Tail(todo)) \subseteq Range(todo)
      BY <2>1, <2>4, RangeTail
    <3> QED BY <2>2, <2>4, <3>1, RangeOne
  <2> QED BY <2>3, <2>4
<1>3. /\ sizes = Measures(batch) /\ ~NoRoom(sizes) /\ batch \in Seq(Keys)
      /\ Larger(sizes, key) = Measures(Append(batch, key)) /\ Append(batch, key) \in Seq(Keys)
      /\ Len(Append(batch, key)) = Len(batch) + 1 /\ Len(batch) \in Nat
  <2>1. batch \in Seq(Keys) /\ sizes = Measures(batch) /\ ~NoRoom(sizes)
    BY <1>1 DEF Sized, Types
  <2> HIDE DEF key
  <2> QED BY <1>2, <2>1, MeasuresAppend
<1>4. \/ ~NoRoom(Larger(sizes, key)) /\ batch' = Append(batch, key) /\ sizes' = Larger(sizes, key)
           /\ pending' = <<>> /\ todo' = rest /\ Continue("fill")
      \/ NoRoom(Larger(sizes, key)) /\ batch = <<>> /\ Error("too_large")
      \/ batch # <<>> /\ pending' = <<key>> /\ todo' = rest /\ Continue("request")
           /\ UNCHANGED <<batch, sizes>>
  BY Zenon DEF Fill
<1> HIDE DEF key, rest
<1>5. CASE ~NoRoom(Larger(sizes, key)) /\ batch' = Append(batch, key) /\ sizes' = Larger(sizes, key)
           /\ pending' = <<>> /\ todo' = rest /\ Continue("fill")
  <2>1. sizes' = Measures(batch') /\ ~NoRoom(sizes') /\ Len(batch') <= MaxCandidates
    BY <1>1, <1>3, <1>5, MaxsimAssumption
  <2>2. pc' = "fill" /\ query' = query
    BY <1>5 DEF Continue, request
  <2>3. Range(pending') = {}
    BY <1>5, RangeEmpty
  <2> QED
    BY <1>1, <1>2, <1>5, <2>1, <2>2, <2>3, Zenon
    DEF Sized, External, Waits, Polling, Batches, RefusedOnlyIfTooLarge, NoRoom, Measures
<1>6. CASE NoRoom(Larger(sizes, key)) /\ batch = <<>> /\ Error("too_large")
  <2>1. ~encode_external_descriptors(<<key>>)
    <3>1. Append(<<>>, key) = <<key>> /\ <<key>> \in Seq(Keys)
      BY <1>2
    <3> QED BY <1>3, <1>6, <3>1, Fits, Zenon
  <2> QED BY <1>2, <1>6, <2>1, ErrorSized DEF Refusable
<1>7. CASE batch # <<>> /\ pending' = <<key>> /\ todo' = rest /\ Continue("request")
           /\ UNCHANGED <<batch, sizes>>
  <2>1. encode_external_descriptors(batch)
    BY <1>1, <1>3, MaxsimAssumption, Fits
  <2>2. pc' = "request" /\ query' = query /\ batch' = batch
    BY <1>7 DEF Continue, request
  <2>3. Range(pending') = {key}
    BY <1>2, <1>7
  <2> QED
    BY <1>1, <1>2, <1>7, <2>1, <2>2, <2>3
    DEF Sized, External, Waits, Polling, Batches, RefusedOnlyIfTooLarge
<1> QED BY <1>4, <1>5, <1>6, <1>7

LEMMA SizedStep ==
    ASSUME Types, Sized, Covers, [Next]_vars
    PROVE  Sized'
<1> USE DEF Polling, Waits, Batches
<1>1. CASE UNCHANGED vars
  BY <1>1 DEF vars, Sized, RefusedOnlyIfTooLarge, External, NoRoom, Measures
<1>2. CASE Begin
  <2>1. /\ pc = "idle" /\ pc' = "begin" /\ UNCHANGED <<todo, pending, batch>>
        /\ todo = <<>> /\ pending = <<>>
    BY <1>2 DEF Begin, iteration, Covers, Nothing
  <2> QED BY <2>1, RangeEmpty, Zenon DEF Sized, RefusedOnlyIfTooLarge
<1>3. CASE Prepare
  <2>1. CASE Error("refused")
    BY <2>1, ErrorSized
  <2>2. CASE ~Error("refused")
    <3>1. /\ todo' = IF query.mode = "rerank" THEN query.candidates ELSE Visible(query.candidates, seen)
          /\ Continue(IF External THEN "load" ELSE "encode")
          /\ UNCHANGED <<pending, batch>> /\ pc = "begin"
      BY <1>3, <2>2, Zenon DEF Prepare
    <3>2. Range(todo') \subseteq Range(query.candidates) /\ query' = query
      BY <3>1, VisibleRange DEF Types, Continue, request
    <3> QED BY <3>1, <3>2 DEF Sized, RefusedOnlyIfTooLarge, External, Continue
  <2> QED BY <2>1, <2>2
<1>4. CASE load_visible_descriptors
  <2>1. CASE Error("descriptor")
    BY <2>1, ErrorSized
  <2>2. CASE ~Error("descriptor")
    <3>1. /\ todo' = Visible(todo, IF query.fresh THEN live ELSE seen)
          /\ Continue("collect") /\ UNCHANGED <<pending, batch>> /\ pc = "load"
      BY <1>4, <2>2, Zenon DEF load_visible_descriptors
    <3>2. Range(todo') \subseteq Range(todo) /\ query' = query
      BY <3>1, VisibleRange DEF Types, Continue, request
    <3> QED BY <3>1, <3>2 DEF Sized, RefusedOnlyIfTooLarge, External, Continue
  <2> QED BY <2>1, <2>2
<1>5. CASE collect_external_batch
  <2>1. pc = "collect" /\ batch = <<>> /\ External
    BY <1>5 DEF collect_external_batch, Sized
  <2>2. CASE NoRoom(Base)
    <3>1. Error("too_large")
      BY <1>5, <2>2 DEF collect_external_batch
    <3>2. ~encode_external_descriptors(<<>>)
      <4>1. <<>> \in Seq(Keys) /\ NoRoom(Measures(<<>>))
        BY <2>2, MeasuresBase
      <4> QED BY <4>1, Fits, Zenon
    <3> QED BY <3>1, <3>2, ErrorSized DEF Refusable
  <2>3. CASE ~NoRoom(Base)
    <3>1. sizes' = Base /\ Continue("fill") /\ UNCHANGED <<todo, pending, batch>>
      BY <1>5, <2>3, Zenon DEF collect_external_batch
    <3>2. sizes' = Measures(batch') /\ ~NoRoom(sizes') /\ Len(batch') <= MaxCandidates
      BY <2>1, <2>3, <3>1, MeasuresBase, MaxsimAssumption
    <3> QED
      BY <2>1, <3>1, <3>2
      DEF Sized, RefusedOnlyIfTooLarge, External, Continue, request, NoRoom, Measures
  <2> QED BY <2>2, <2>3
<1>6. CASE Fill BY <1>6, FillSized
<1>7. CASE FillEnds
  <2>1. CASE Success(SortRows(best)) BY <2>1, SuccessSized
  <2>2. CASE ~Success(SortRows(best))
    <3>1. pc = "fill" /\ Continue("request") /\ UNCHANGED iteration
      BY <1>7, <2>2, Zenon DEF FillEnds
    <3>2. encode_external_descriptors(batch) /\ External
      BY <3>1, Fits DEF Sized, Types
    <3> QED
      BY <3>1, <3>2 DEF Sized, RefusedOnlyIfTooLarge, External, Continue, request, iteration
  <2> QED BY <2>1, <2>2
<1>8. CASE rerank_batches
  <2>1. CASE Error("time") BY <2>1, ErrorSized
  <2>2. CASE ~Error("time")
    <3>1. pc = "request" /\ encode_external_descriptors(batch)
      BY <1>8 DEF rerank_batches, Sized
    <3>2. Continue("connect") /\ UNCHANGED iteration
      BY <1>8, <2>2, <3>1, Zenon DEF rerank_batches
    <3> QED BY <3>1, <3>2, SizedWaits DEF Continue, iteration, request
  <2> QED BY <2>1, <2>2
<1>9. CASE GpuRerank
  <2>1. pc = "encode" /\ ~External
    BY <1>9 DEF GpuRerank, Sized
  <2>2. CASE Error("too_large") BY <2>1, <2>2, ErrorSized
  <2>3. CASE Success(<<>>) BY <2>3, SuccessSized
  <2>4. CASE ~Error("too_large") /\ ~Success(<<>>)
    <3>1. Continue("connect") /\ UNCHANGED iteration
      BY <1>9, <2>4, Zenon DEF GpuRerank
    <3> QED BY <2>1, <3>1, SizedWaits DEF Continue, iteration, request
  <2> QED BY <2>2, <2>3, <2>4
<1>10. CASE CpuRerank BY <1>10, SuccessSized DEF CpuRerank
<1>11. CASE connect_interruptible \/ read_header \/ read_body \/ Interrupted
  <2>1. CASE Error("transport") \/ Error("protocol") BY <2>1, ErrorSized
  <2>2. CASE ~Error("transport") /\ ~Error("protocol")
    <3>1. /\ pc \in Polling /\ UNCHANGED iteration
          /\ Continue("write") \/ Continue("body") \/ Continue("decode")
      BY <1>11, <2>2, Zenon
      DEF connect_interruptible, read_header, read_body, Interrupted, ReadPart
    <3> QED BY <3>1, SizedWaits DEF Continue, iteration, request
  <2> QED BY <2>1, <2>2
<1>12. CASE write_interruptible \/ Touch \/ Reply \/ ReplyBody \/ Close \/ Tick
  <2>1. /\ UNCHANGED <<query, todo, pending, batch, sizes, answer>>
        /\ pc' = pc \/ (pc \in Waits /\ pc' \in Waits)
    BY <1>12, Zenon DEF write_interruptible, Touch, Reply, ReplyBody, Close, Tick, Continue, iteration, request
  <2> QED BY <2>1, SizedWaits
<1>13. CASE Decode
  <2>1. CASE Error("protocol") BY <2>1, ErrorSized
  <2>2. CASE Success(SortRows(Decoded)) BY <2>2, SuccessSized
  <2>3. CASE ~Error("protocol") /\ ~Success(SortRows(Decoded))
    <3>1. batch' = <<>> /\ Continue("consume") /\ UNCHANGED <<todo, pending>> /\ External
      BY <1>13, <2>3, Zenon DEF Decode
    <3> QED BY <3>1 DEF Sized, RefusedOnlyIfTooLarge, External, Continue, request
  <2> QED BY <2>1, <2>2, <2>3
<1>14. CASE Consume
  <2>1. /\ pc = "consume" /\ (Continue("collect") \/ Continue("consume"))
        /\ UNCHANGED <<todo, pending, batch>>
    BY <1>14 DEF Consume, iteration
  <2> QED BY <2>1 DEF Sized, RefusedOnlyIfTooLarge, External, Continue, request
<1>15. CASE Cancel
  <2>1. pc' = "idle" /\ batch' = <<>> /\ pending' = <<>> /\ todo' = <<>> /\ answer' = Failed("cancelled")
    BY <1>15 DEF Cancel
  <2> QED BY <2>1, RangeEmpty DEF Sized, RefusedOnlyIfTooLarge, Failed
<1> QED
  BY <1>1, <1>2, <1>3, <1>4, <1>5, <1>6, <1>7, <1>8, <1>9, <1>10, <1>11, <1>12, <1>13, <1>14,
     <1>15, Zenon DEF Next, Client

-----------------------------------------------------------------------------
(* The daemon's answers are to what was asked.                             *)

LEMMA SameReplies ==
    ASSUME NEW c, NEW d, c.id = d.id, c.keys = d.keys
    PROVE  Replies(c) = Replies(d)
BY Zenon DEF Replies

\* No request is under way.
LEMMA AnswersQuiet ==
    ASSUME conn'.sent = FALSE, conn'.parts = 0, pc' \notin Waits, pc' = "request" => batch' # <<>>
    PROVE  Answers'
BY DEF Answers, Waits, Polling
LEMMA NoConnQuiet == NoConn.sent = FALSE /\ NoConn.parts = 0
BY DEF NoConn
LEMMA AtRest ==
    ASSUME Types, Answers, pc \notin Waits
    PROVE  conn.sent = FALSE /\ conn.parts = 0
BY DEF Types, Answers, Waits, Polling, Connection

LEMMA AnswersStep ==
    ASSUME Types, Sized, Answers, [Next]_vars
    PROVE  Answers'
<1> USE DEF Polling, Waits, Batches
<1>1. CASE \/ Begin \/ Prepare \/ load_visible_descriptors \/ collect_external_batch \/ Fill \/ FillEnds
           \/ rerank_batches \/ GpuRerank \/ CpuRerank \/ connect_interruptible \/ read_header
           \/ read_body \/ Interrupted \/ Decode \/ Consume \/ Cancel
  <2>1. CASE (\E why : Error(why)) \/ (\E sorted : Success(sorted)) \/ Cancel
    <3>1. conn' = NoConn /\ pc' \in {"idle", "cpu"}
      BY <2>1, Zenon DEF Error, Success, Cancel
    <3> QED BY <3>1, NoConnQuiet, AnswersQuiet, Zenon
  <2>2. CASE ~(\E why : Error(why)) /\ ~(\E sorted : Success(sorted)) /\ ~Cancel
    <3>1. CASE \/ Begin \/ Prepare \/ load_visible_descriptors \/ collect_external_batch \/ Consume
      <4>1. /\ conn' = conn /\ pc \in {"idle", "begin", "load", "collect", "consume"}
            /\ pc' \in {"begin", "load", "encode", "collect", "fill", "consume"}
        BY <2>2, <3>1
        DEF Begin, Prepare, load_visible_descriptors, collect_external_batch, Consume, Continue
      <4> QED BY <4>1, AtRest, AnswersQuiet, Zenon
    <3>2. CASE Fill \/ FillEnds
      <4>1. /\ conn' = conn /\ pc = "fill" /\ pc' \in {"fill", "request"}
            /\ pc' = "request" => batch' = batch /\ batch # <<>>
        BY <2>2, <3>2, Zenon DEF Fill, FillEnds, Continue, iteration
      <4> QED BY <4>1, AtRest, AnswersQuiet
    <3>3. CASE rerank_batches \/ GpuRerank
      <4> DEFINE keys == IF External THEN batch ELSE todo
      <4>1. \/ pc = "request" /\ Opened(batch, now + (deadline - now))
            \/ pc = "encode" /\ Opened(todo, now + Timeout) /\ todo # <<>>
        BY <2>2, <3>3, Zenon DEF rerank_batches, GpuRerank
      <4>2. pc' = "connect" /\ UNCHANGED <<query, batch, todo>>
        BY <2>2, <3>3, Zenon DEF rerank_batches, GpuRerank, Continue, request, iteration
      <4>3. /\ (pc = "request" => External /\ batch # <<>>) /\ (pc = "encode" => ~External)
            /\ now + (deadline - now) \in Nat /\ now + Timeout \in Nat
            /\ batch \in Seq(Keys) /\ todo \in Seq(Keys)
        BY MaxsimAssumption DEF Sized, Answers, Types
      <4>4. keys # <<>> /\ conn'.keys = keys /\ conn'.id \in 1 .. 3 /\ conn'.sent = FALSE /\ conn'.parts = 0
        BY <4>1, <4>3, OpenedType, Zenon
      <4>5. External' <=> External
        BY <4>2, Zenon DEF External
      <4>6. conn'.keys = IF External' THEN batch' ELSE todo'
        BY <4>2, <4>4, <4>5, Zenon
      <4>7. ~(conn'.parts > 0)
        BY <4>4
      <4> QED BY <4>2, <4>4, <4>6, <4>7, Zenon DEF Answers, Waits, Polling
    <3>4. CASE connect_interruptible \/ Interrupted
      <4>1. pc = "connect" /\ pc' = "write" /\ conn' = conn /\ UNCHANGED <<query, batch, todo>>
        BY <2>2, <3>4, Zenon DEF connect_interruptible, Interrupted, Continue, request, iteration
      <4>2. Replies(conn') = Replies(conn)
        BY <4>1
      <4> QED BY <4>1, <4>2 DEF Answers, External
    <3>5. CASE read_header \/ read_body
      <4>1. /\ pc \in {"header", "body"} /\ pc' \in {"body", "decode"} /\ conn' = conn
            /\ conn.parts >= 1 /\ conn.parts \in 0 .. 2 /\ UNCHANGED <<query, batch, todo>>
        BY <2>2, <3>5
        DEF read_header, read_body, ReadPart, Continue, request, iteration, Types, Connection
      <4>2. ~conn.reply.long
        BY <2>2, <3>5 DEF read_header, read_body, ReadPart, Answers
      <4> QED BY <4>1, <4>2 DEF Answers, External
    <3>6. CASE Decode
      <4>1. conn' = [NoConn EXCEPT !.id = conn.id] /\ pc' = "consume"
        BY <2>2, <3>6, Zenon DEF Decode, Continue
      <4>2. conn'.sent = FALSE /\ conn'.parts = 0
        BY <4>1 DEF NoConn
      <4> QED BY <4>1, <4>2, AnswersQuiet, Zenon
    <3>7. ~CpuRerank
      BY <2>2 DEF CpuRerank
    <3> QED BY <1>1, <2>2, <3>1, <3>2, <3>3, <3>4, <3>5, <3>6, <3>7
  <2> QED BY <2>1, <2>2
<1>2. CASE write_interruptible \/ Close \/ ReplyBody
  <2>1. /\ conn'.id = conn.id /\ conn'.keys = conn.keys /\ conn'.reply = conn.reply
        /\ (conn'.sent = conn.sent /\ pc' = pc) \/ (conn'.sent = TRUE /\ pc = "write" /\ pc' = "header")
        /\ conn'.parts = conn.parts \/ (conn.parts = 1 /\ conn'.parts = 2)
    <3>1. conn \in Connection
      BY DEF Types
    <3>2. CASE write_interruptible BY <3>1, <3>2 DEF write_interruptible, Connection, Continue
    <3>3. CASE Close BY <3>1, <3>3 DEF Close, Connection
    <3>4. CASE ReplyBody BY <3>1, <3>4 DEF ReplyBody, Connection
    <3> QED BY <1>2, <3>2, <3>3, <3>4, Zenon
  <2>2. UNCHANGED <<query, batch, todo>>
    BY <1>2 DEF write_interruptible, Close, ReplyBody, Continue, request, iteration
  <2>3. Replies(conn') = Replies(conn)
    BY <2>1, SameReplies
  <2> QED BY <2>1, <2>2, <2>3 DEF Answers, External
<1>3. CASE Reply
  <2>1. PICK r \in Replies(conn) : conn' = [conn EXCEPT !.parts = 1, !.reply = r]
    BY <1>3, Zenon DEF Reply
  <2>2. /\ conn'.id = conn.id /\ conn'.keys = conn.keys /\ conn'.reply = r /\ conn'.sent = conn.sent
        /\ conn'.parts = 1
    BY <2>1 DEF Types, Connection
  <2>3. conn.sent /\ pc' = pc /\ pc = "header" /\ UNCHANGED <<query, batch, todo>>
    <3>1. conn.sent /\ conn.parts = 0 /\ pc' = pc /\ UNCHANGED <<query, batch, todo>>
      BY <1>3, Zenon DEF Reply, request, iteration
    <3> QED BY <3>1 DEF Answers
  <2>4. Replies(conn') = Replies(conn)
    BY <2>2, SameReplies
  <2> QED BY <2>1, <2>2, <2>3, <2>4 DEF Answers, External
<1>4. CASE Touch \/ Tick \/ UNCHANGED vars
  <2>1. UNCHANGED <<pc, query, batch, todo, conn>>
    BY <1>4 DEF Touch, Tick, vars, request, iteration
  <2> QED BY <2>1 DEF Answers, External
<1> QED BY <1>1, <1>2, <1>3, <1>4, Zenon DEF Next, Client

\* An answer that decode_response takes has the distance of every candidate asked for.
LEMMA DecodedRows ==
    ASSUME Types, Answers, pc = "decode", decode_response
    PROVE  Decoded = RowsOf(Range(conn.keys))
<1> DEFINE keys == conn.keys
           L == Len(keys)
           s == Scores(keys)
           got == conn.reply.results
<1>1. /\ keys \in Seq(Keys) /\ keys # <<>> /\ L \in Nat /\ L >= 1 /\ DOMAIN keys = 1 .. L
      /\ conn.id \in 1 .. 3
  BY DEF Types, Answers, Connection, Waits
<1>2. /\ s \in Seq(Score) /\ Len(s) = L
      /\ \A i \in 1 .. L : s[i] = [candidate |-> i, distance |-> Distance[keys[i]]]
  BY <1>1, ScoresType
<1>3. conn.reply \in Replies(conn) /\ ~conn.reply.long
  BY DEF Answers
<1>4. /\ conn.reply.id = conn.id /\ conn.reply.status = 0 /\ Len(got) = L
      /\ \A i \in DOMAIN got :
            /\ got[i].candidate \in DOMAIN keys /\ Finite(got[i].distance)
            /\ \A j \in 1..(i - 1) : got[j].candidate # got[i].candidate
  BY Zenon DEF decode_response
<1>5. got \in {s, Backwards(s), Tail(s), Misplaced(s), NotFinite(s)}
  <2> HIDE DEF s
  <2>1. (conn.id % 3) + 2 # conn.id
    BY <1>1
  <2>2. \/ \E scores \in {s, Backwards(s), Tail(s), Misplaced(s), NotFinite(s)} :
              conn.reply = ReplyWith(conn.id, 0, FALSE, scores)
        \/ conn.reply = ReplyWith((conn.id % 3) + 2, 0, FALSE, s)
        \/ conn.reply = ReplyWith(conn.id, 1, FALSE, s)
        \/ conn.reply = ReplyWith(conn.id, 0, TRUE, s)
    BY <1>3, Zenon DEF Replies, s
  <2>3. /\ conn.reply # ReplyWith((conn.id % 3) + 2, 0, FALSE, s)
        /\ conn.reply # ReplyWith(conn.id, 1, FALSE, s)
        /\ conn.reply # ReplyWith(conn.id, 0, TRUE, s)
    BY <1>3, <1>4, <2>1 DEF ReplyWith
  <2>4. PICK scores \in {s, Backwards(s), Tail(s), Misplaced(s), NotFinite(s)} :
           conn.reply = ReplyWith(conn.id, 0, FALSE, scores)
    BY <2>2, <2>3, Zenon
  <2>5. ReplyWith(conn.id, 0, FALSE, scores).results = scores
    BY DEF ReplyWith
  <2>6. got = scores
    BY <2>4, <2>5, Zenon DEF got
  <2> QED BY <2>4, <2>6, Zenon
<1> HIDE DEF s, got, keys, L
<1>6. got # Tail(s)
  BY <1>1, <1>2, <1>4
<1>7. got # Misplaced(s)
  <2>1. SUFFICES ASSUME got = Misplaced(s) PROVE FALSE
    OBVIOUS
  <2>2. /\ DOMAIN got = 1 .. L /\ L \in 1 .. L /\ 1 \in 1 .. L
        /\ got[L].candidate = 1 + (L % 2) * L
        /\ L # 1 => got[1].candidate = 1 /\ 1 \in 1 .. (L - 1)
    BY <1>1, <1>2, <2>1 DEF Misplaced
  <2>3. got[L].candidate \in 1 .. L /\ (L # 1 => got[L].candidate # 1)
    BY <1>1, <1>4, <2>2
  <2>4. 1 + (L % 2) * L \in {1, L + 1} /\ (L = 1 => 1 + (L % 2) * L = L + 1)
    BY <1>1, Remainder
  <2>5. got[L].candidate \in {1, L + 1} /\ (L = 1 => got[L].candidate = L + 1)
    BY <2>2, <2>4, Zenon
  <2> QED BY <1>1, <2>3, <2>5
<1>8. got # NotFinite(s)
  <2>1. SUFFICES ASSUME got = NotFinite(s) PROVE FALSE
    OBVIOUS
  <2>2. 1 \in DOMAIN got /\ got[1].distance = 1000
    BY <1>1, <1>2, <2>1 DEF NotFinite
  <2> QED BY <1>4, <2>2 DEF Finite
<1>9. \A i \in 1 .. L : L + 1 - i \in 1 .. L /\ L + 1 - (L + 1 - i) = i
  BY <1>1
<1>10. DOMAIN got = 1 .. L /\ \E p \in [1 .. L -> 1 .. L] :
         /\ \A i \in 1 .. L : got[i] = [candidate |-> p[i], distance |-> Distance[keys[p[i]]]]
         /\ \A i \in 1 .. L : \E j \in 1 .. L : p[j] = i
  <2>1. CASE got = s
    <3> DEFINE p == [i \in 1 .. L |-> i]
    <3>1. /\ \A i \in 1 .. L : got[i] = [candidate |-> p[i], distance |-> Distance[keys[p[i]]]]
          /\ \A i \in 1 .. L : \E j \in 1 .. L : p[j] = i
      BY <1>2, <2>1, Zenon
    <3>2. DOMAIN got = 1 .. L /\ p \in [1 .. L -> 1 .. L]
      BY <1>2, <2>1
    <3> QED BY <3>1, <3>2, Zenon
  <2>2. CASE got = Backwards(s)
    <3> DEFINE p == [i \in 1 .. L |-> L + 1 - i]
    <3>1. \A i \in 1 .. L : got[i] = s[L + 1 - i] /\ p[i] = L + 1 - i
      BY <1>2, <2>2 DEF Backwards
    <3>2. \A i \in 1 .. L : got[i] = [candidate |-> p[i], distance |-> Distance[keys[p[i]]]]
      BY <1>2, <1>9, <3>1
    <3>3. \A i \in 1 .. L : \E j \in 1 .. L : p[j] = i
      BY <1>9, <3>1
    <3>4. DOMAIN got = 1 .. L /\ p \in [1 .. L -> 1 .. L]
      BY <1>2, <1>9, <2>2 DEF Backwards
    <3> HIDE DEF p
    <3> QED BY <3>2, <3>3, <3>4, Zenon
  <2> QED BY <1>5, <1>6, <1>7, <1>8, <2>1, <2>2
<1>11. PICK p \in [1 .. L -> 1 .. L] :
         /\ \A i \in 1 .. L : got[i] = [candidate |-> p[i], distance |-> Distance[keys[p[i]]]]
         /\ \A i \in 1 .. L : \E j \in 1 .. L : p[j] = i
  BY <1>10, Zenon
<1>12. Decoded = {[distance |-> got[i].distance, id |-> keys[got[i].candidate]] : i \in 1 .. L}
  BY <1>10 DEF Decoded, got, keys
<1>13. \A i \in 1 .. L : [distance |-> got[i].distance, id |-> keys[got[i].candidate]] = RowOf(keys[p[i]])
  <2>1. ASSUME NEW i \in 1 .. L
        PROVE  got[i].distance = Distance[keys[p[i]]] /\ got[i].candidate = p[i]
    <3> DEFINE d == Distance[keys[p[i]]]
               c == p[i]
    <3>1. got[i] = [candidate |-> c, distance |-> d]
      BY <1>11, Zenon
    <3> HIDE DEF d, c
    <3>2. got[i].distance = d /\ got[i].candidate = c
      BY <3>1
    <3> QED BY <3>2 DEF d, c
  <2> QED BY <2>1, Zenon DEF RowOf
<1>14. Range(keys) = {keys[i] : i \in 1 .. L}
  BY <1>1 DEF Range
<1>15. ASSUME NEW row \in Decoded PROVE row \in RowsOf(Range(keys))
  <2>1. PICK i \in 1 .. L : row = [distance |-> got[i].distance, id |-> keys[got[i].candidate]]
    BY <1>12, Zenon
  <2>2. row = RowOf(keys[p[i]]) /\ p[i] \in 1 .. L
    <3>1. p[i] \in 1 .. L
      BY <1>11
    <3> QED BY <1>13, <2>1, <3>1, Zenon
  <2> QED BY <1>14, <2>2 DEF RowsOf
<1>16. ASSUME NEW row \in RowsOf(Range(keys)) PROVE row \in Decoded
  <2>1. PICK i \in 1 .. L : row = RowOf(keys[i])
    BY <1>14 DEF RowsOf
  <2>2. PICK j \in 1 .. L : p[j] = i
    BY <1>11
  <2>3. row = [distance |-> got[j].distance, id |-> keys[got[j].candidate]]
    BY <1>13, <2>1, <2>2, Zenon
  <2> QED BY <1>12, <2>3, Zenon
<1>17. Decoded = RowsOf(Range(keys))
  BY <1>15, <1>16, Zenon
<1> QED BY <1>17 DEF keys

-----------------------------------------------------------------------------
(* No candidate is lost between the batches.                               *)

LEMMA RowsEmpty ==
    ASSUME NEW R, RowsOf(R) = {}
    PROVE  R = {}
BY DEF RowsOf
LEMMA RowsWithout ==
    ASSUME NEW R, R \subseteq Keys, NEW key \in R
    PROVE  RowsOf(R \ {key}) = RowsOf(R) \ {RowOf(key)}
<1>1. \A a, b \in R : RowOf(a) = RowOf(b) => a = b
  BY RowType
<1> QED BY <1>1 DEF RowsOf

\* Nothing happens to the candidates.
LEMMA CoversStays ==
    ASSUME Covers, UNCHANGED <<query, seen, todo, pending, batch, results, best>>, live' \subseteq live,
           pc' # "idle" => pc # "idle",
           pc' # "consume" => results = {},
           pc' \in {"idle", "begin"} => pc \in {"idle", "begin"},
           pc' = "load" => pc = "load",
           Single' => Single, Batching' => Batching
    PROVE  Covers'
<1>1. /\ Distinct(todo') /\ Distinct(batch') /\ Len(pending') <= 1
      /\ pc' # "idle" => live' \subseteq seen'
      /\ pc' # "consume" => results' = {}
  BY Zenon DEF Covers
<1>2. Nothing' = Nothing
  BY DEF Nothing
<1>3. ASSUME Batching' PROVE query'.k > 0 /\ \E C \in SUBSET Keys : Covered(C)'
  <2>1. PICK C \in SUBSET Keys : Covered(C)
    BY <1>3 DEF Covers
  <2>2. PICK R \in SUBSET Keys :
           /\ results = RowsOf(R)
           /\ Account(C, R, Range(batch), Range(pending), Range(todo),
                      Range(query.candidates) \cap seen, live)
    BY <2>1 DEF Covered
  <2>3. Account(C, R, Range(batch), Range(pending), Range(todo),
                Range(query.candidates) \cap seen, live')
    BY <2>2 DEF Account
  <2>4. Covered(C)'
    BY <2>1, <2>2, <2>3 DEF Covered
  <2> QED BY <1>3, <2>4 DEF Covers
<1> QED BY <1>1, <1>2, <1>3 DEF Covers

\* The query is over.
LEMMA EndCovers ==
    ASSUME pc' = "idle", todo' = <<>>, pending' = <<>>, batch' = <<>>, results' = {}, best' = {}
    PROVE  Covers'
<1>1. Distinct(<<>>) /\ Len(<<>>) <= 1
  BY DEF Distinct
<1> QED BY <1>1, Zenon DEF Covers, Nothing, Single, Batching, Waits, Batches, Polling

LEMMA ErrorCovers ==
    ASSUME Types, Sized, Covers, pc # "idle", NEW why, Error(why)
    PROVE  Covers'
<1>1. /\ pending' = <<>> /\ batch' = <<>> /\ results' = {} /\ best' = {} /\ UNCHANGED <<query, live, seen>>
      /\ pc' \in {"idle", "cpu"} /\ (pc' = "idle" => todo' = <<>>)
      /\ (pc' = "cpu" => todo' = todo /\ query.mode = "auto" /\ pc # "begin")
  BY DEF Error, request
<1>2. CASE pc' = "idle"
  BY <1>1, <1>2, EndCovers
<1>3. CASE pc' = "cpu"
  <2>1. Single
    BY <1>1, <1>3 DEF Types, Sized, Single, External, Waits, Batches, Polling
  <2>2. Distinct(todo) /\ Range(todo) = Range(query.candidates) \cap seen /\ live \subseteq seen
    BY <2>1 DEF Covers
  <2>3. Distinct(<<>>) /\ Len(<<>>) <= 1
    BY DEF Distinct
  <2> QED
    BY <1>1, <1>3, <2>2, <2>3, Zenon DEF Covers, Nothing, Batching, Waits, Batches, Polling
<1> QED BY <1>1, <1>2, <1>3

LEMMA SuccessCovers ==
    ASSUME NEW sorted, Success(sorted)
    PROVE  Covers'
BY EndCovers DEF Success

LEMMA PrepareCovers == ASSUME Types, Sized, Covers, Prepare PROVE Covers'
<1>1. CASE Error("refused")
  BY <1>1, ErrorCovers DEF Prepare
<1>2. CASE ~Error("refused")
  <2>1. /\ pc = "begin" /\ (query.mode = "search" => validate_search_limits)
        /\ (query.mode = "rerank" => validate_top_k)
        /\ todo' = IF query.mode = "rerank" THEN query.candidates ELSE Visible(query.candidates, seen)
        /\ Continue(IF External THEN "load" ELSE "encode")
        /\ UNCHANGED <<pending, batch, results, best>>
    BY <1>2, Zenon DEF Prepare
  <2>2. /\ query.candidates \in Seq(Keys) /\ query \in Asked /\ Range(query.candidates) \subseteq Keys
        /\ seen \subseteq Keys /\ (query.mode # "rerank" => Distinct(query.candidates))
    <3>1. query.candidates \in Seq(Keys) /\ query \in Asked /\ seen \subseteq Keys
      BY <2>1 DEF Types
    <3>2. Range(query.candidates) \subseteq Keys
      BY <3>1 DEF Range
    <3>3. query.mode # "rerank" => Distinct(query.candidates)
      BY <3>1, MaxsimAssumption, Zenon
    <3> QED BY <3>1, <3>2, <3>3
  <2>3. /\ Distinct(todo')
        /\ Range(todo') = Range(query.candidates) \cap IF query.mode = "rerank" THEN Keys ELSE seen
    BY <2>1, <2>2, VisibleRange DEF validate_top_k
  <2>4. External => query.k > 0
    BY <2>1, Zenon DEF External, validate_search_limits, validate_top_k
  <2>5. /\ pc' = (IF External THEN "load" ELSE "encode") /\ UNCHANGED <<query, live, seen>>
        /\ (query.mode = "rerank" => External)
    BY <2>1 DEF Continue, request, External
  <2>6. Nothing' /\ Distinct(batch') /\ Len(pending') <= 1 /\ live' \subseteq seen' /\ results' = {}
    BY <2>1, <2>5 DEF Covers, Nothing
  <2>7. pc' = "load" => query'.k > 0
    BY <2>4, <2>5
  <2>8. ~Batching' /\ (Single' => pc' = "encode")
    BY <2>5 DEF Batching, Single, Batches, Waits, Polling
  <2>9. CASE External
    BY <2>3, <2>5, <2>6, <2>7, <2>8, <2>9, Zenon DEF Covers
  <2>10. CASE ~External
    BY <2>3, <2>5, <2>6, <2>7, <2>8, <2>10, Zenon DEF Covers
  <2> QED BY <2>9, <2>10
<1> QED BY <1>1, <1>2

LEMMA LoadCovers == ASSUME Types, Sized, Covers, load_visible_descriptors PROVE Covers'
<1>1. CASE Error("descriptor")
  BY <1>1, ErrorCovers DEF load_visible_descriptors
<1>2. CASE ~Error("descriptor")
  <2>1. /\ pc = "load" /\ todo' = Visible(todo, IF query.fresh THEN live ELSE seen)
        /\ Continue("collect") /\ UNCHANGED <<pending, batch, results, best>>
    BY <1>2, Zenon DEF load_visible_descriptors
  <2>2. /\ pending = <<>> /\ results = {} /\ best = {} /\ query.k > 0 /\ live \subseteq seen
        /\ Distinct(todo) /\ batch = <<>>
        /\ Range(todo) = Range(query.candidates) \cap IF query.mode = "rerank" THEN Keys ELSE seen
    BY <2>1, Zenon DEF Covers, Nothing, Sized, Waits, Batches, Polling
  <2>3. Distinct(todo') /\ Range(todo') = Range(todo) \cap IF query.fresh THEN live ELSE seen
    BY <2>1, <2>2, VisibleRange DEF Types
  <2>4. pc' = "collect" /\ UNCHANGED <<query, live, seen>>
    BY <2>1 DEF Continue, request
  <2>5. Kept({}, {}, query.k)
    BY <2>2, KeptNone DEF Types
  <2>6. RowsOf({}) = {} /\ {} \in SUBSET Keys
    BY DEF RowsOf
  <2>7. Account({}, {}, Range(batch'), Range(pending'), Range(todo'),
                Range(query'.candidates) \cap seen', live')
    <3>1. Range(batch') = {} /\ Range(pending') = {}
      BY <2>1, <2>2, RangeEmpty
    <3>2. live \subseteq Keys /\ seen \subseteq Keys
      BY DEF Types
    <3> QED BY <2>2, <2>3, <2>4, <3>1, <3>2 DEF Account
  <2>8. Covered({})'
    BY <2>1, <2>2, <2>4, <2>5, <2>6, <2>7, Zenon DEF Covered
  <2>9. Distinct(batch') /\ Len(pending') <= 1 /\ live' \subseteq seen' /\ results' = {} /\ query'.k > 0
    BY <2>1, <2>2, <2>4 DEF Distinct
  <2>10. ~Single'
    BY <2>4 DEF Single, Waits, Polling
  <2> QED BY <2>3, <2>4, <2>6, <2>8, <2>9, <2>10, Zenon DEF Covers
<1> QED BY <1>1, <1>2

LEMMA FillCovers == ASSUME Types, Sized, Covers, Fill PROVE Covers'
<1> DEFINE key == IF pending # <<>> THEN pending[1] ELSE todo[1]
           rest == IF pending # <<>> THEN todo ELSE Tail(todo)
           Q == Range(query.candidates) \cap seen
<1>1. CASE Error("too_large")
  BY <1>1, ErrorCovers DEF Fill
<1>2. CASE ~Error("too_large")
  <2>1. /\ pc = "fill" /\ todo' = rest /\ (pending # <<>> \/ todo # <<>>)
        /\ \/ batch' = Append(batch, key) /\ pending' = <<>> /\ Continue("fill")
           \/ batch' = batch /\ pending' = <<key>> /\ Continue("request")
        /\ UNCHANGED <<results, best>>
    BY <1>2, Zenon DEF Fill
  <2>2. /\ todo \in Seq(Keys) /\ pending \in Seq(Keys) /\ batch \in Seq(Keys)
        /\ Distinct(todo) /\ Distinct(batch) /\ Len(pending) <= 1 /\ live \subseteq seen
        /\ results = {} /\ query.k > 0
    BY <2>1 DEF Types, Covers, Batching, Batches
  <2>3. PICK C \in SUBSET Keys : Covered(C)
    BY <2>1, Zenon DEF Covers, Batching, Batches
  <2>4. PICK R \in SUBSET Keys :
           results = RowsOf(R) /\ Account(C, R, Range(batch), Range(pending), Range(todo), Q, live)
    BY <2>3 DEF Covered
  <2>5. /\ key \in Keys /\ rest \in Seq(Keys) /\ Distinct(rest) /\ key \notin Range(rest)
        /\ Range(rest) \cup {key} = Range(todo) \cup Range(pending)
        /\ key \in Range(pending) \/ key \in Range(todo)
    <3>1. CASE pending # <<>>
      <4>1. Len(pending) \in Nat /\ Len(pending) # 0 /\ DOMAIN pending = 1 .. Len(pending)
        BY <2>2, <3>1
      <4>2. Len(pending) = 1 /\ pending[1] \in Keys
        BY <2>2, <4>1
      <4>3. Range(pending) = {pending[1]}
        BY <4>1, <4>2 DEF Range
      <4> QED BY <2>2, <2>4, <3>1, <4>2, <4>3, Zenon DEF Account
    <3>2. CASE pending = <<>>
      <4>1. /\ todo[1] \in Keys /\ Tail(todo) \in Seq(Keys) /\ Range(todo) = {todo[1]} \cup Range(Tail(todo))
            /\ Distinct(Tail(todo)) /\ todo[1] \notin Range(Tail(todo))
        <5>1. todo \in Seq(Keys) /\ todo # <<>> /\ Distinct(todo)
          BY <2>1, <2>2, <3>2
        <5>2. todo[1] \in Keys
          BY <5>1
        <5> QED BY <5>1, <5>2, RangeTail
      <4>2. Range(pending) = {}
        BY <3>2, RangeEmpty
      <4> QED BY <3>2, <4>1, <4>2
    <3> QED BY <3>1, <3>2
  <2> HIDE DEF key, rest, Q
  <2>6. /\ Range(Append(batch, key)) = Range(batch) \cup {key}
        /\ Range(<<key>>) = {key} /\ Range(<<>>) = {}
    BY <2>2, <2>5, RangeAppend, RangeOne, RangeEmpty
  <2>7. /\ key \notin Range(batch)
        /\ Account(C, R, Range(batch) \cup {key}, {}, Range(rest), Q, live)
        /\ Account(C, R, Range(batch), {key}, Range(rest), Q, live)
    BY <2>4, <2>5, Zenon DEF Account
  <2>8. Account(C, R, Range(batch'), Range(pending'), Range(todo'), Q, live)
    BY <2>1, <2>6, <2>7, Zenon
  <2>9. /\ Distinct(todo') /\ Distinct(batch') /\ Len(pending') <= 1
    <3>1. Distinct(Append(batch, key))
      BY <2>2, <2>5, <2>7, RangeAppend
    <3>2. Len(<<>>) <= 1 /\ Len(<<key>>) <= 1
      OBVIOUS
    <3> QED BY <2>1, <2>2, <2>5, <3>1, <3>2, Zenon
  <2>10. /\ pc' \in {"fill", "request"} /\ UNCHANGED <<query, live, seen, results, best>>
    BY <2>1 DEF Continue, request
  <2>11. Covered(C)'
    BY <2>3, <2>4, <2>8, <2>10 DEF Covered, Q
  <2>12. ~Single'
    BY <2>10 DEF Single, Waits, Polling
  <2> QED BY <2>2, <2>9, <2>10, <2>11, <2>12, Zenon DEF Covers
<1> QED BY <1>1, <1>2

LEMMA DecodeCovers == ASSUME Types, Sized, Answers, Covers, Decode PROVE Covers'
<1> DEFINE Q == Range(query.candidates) \cap seen
<1>1. CASE Error("protocol")
  BY <1>1, ErrorCovers DEF Decode
<1>2. CASE Success(SortRows(Decoded))
  BY <1>2, SuccessCovers
<1>3. CASE ~Error("protocol") /\ ~Success(SortRows(Decoded))
  <2>1. /\ pc = "decode" /\ decode_response /\ External /\ results' = Decoded /\ batch' = <<>>
        /\ Continue("consume") /\ UNCHANGED <<todo, pending, best>>
    BY <1>3, Zenon DEF Decode
  <2>2. Decoded = RowsOf(Range(batch)) /\ Range(batch) \in SUBSET Keys
    <3>1. conn.keys = batch
      BY <2>1 DEF Answers, Waits
    <3>2. Range(batch) \subseteq Keys
      BY DEF Types, Range
    <3> QED BY <2>1, <3>1, <3>2, DecodedRows
  <2>3. /\ Distinct(todo) /\ Len(pending) <= 1 /\ live \subseteq seen /\ results = {} /\ query.k > 0
    BY <2>1 DEF Covers, Batching, Waits
  <2>4. PICK C \in SUBSET Keys : Covered(C)
    BY <2>1 DEF Covers, Batching, Waits
  <2>5. PICK R \in SUBSET Keys :
           results = RowsOf(R) /\ Account(C, R, Range(batch), Range(pending), Range(todo), Q, live)
    BY <2>4 DEF Covered
  <2>6. R = {}
    BY <2>3, <2>5, RowsEmpty
  <2>7. Account(C, Range(batch), {}, Range(pending), Range(todo), Q, live)
    BY <2>5, <2>6 DEF Account
  <2>8. pc' = "consume" /\ UNCHANGED <<query, live, seen>>
    BY <2>1 DEF Continue, request
  <2>9. Range(batch') = {} /\ Distinct(batch')
    BY <2>1, RangeEmpty DEF Distinct
  <2>10. Covered(C)'
    BY <2>1, <2>2, <2>4, <2>7, <2>8, <2>9, Zenon DEF Covered
  <2>11. ~Single'
    BY <2>8 DEF Single, Waits, Polling
  <2> QED BY <2>1, <2>3, <2>8, <2>9, <2>10, <2>11, Zenon DEF Covers
<1> QED BY <1>1, <1>2, <1>3

LEMMA ConsumeCovers == ASSUME Types, Covers, Consume PROVE Covers'
<1> DEFINE Q == Range(query.candidates) \cap seen
<1>1. pc = "consume" /\ Batching
  BY DEF Consume, Batching, Batches
<1>2. CASE results = {} /\ Continue("collect") /\ UNCHANGED iteration
  <2>1. pc' = "collect" /\ UNCHANGED <<query, seen, live, todo, pending, batch, results, best>>
    BY <1>2 DEF Continue, request, iteration
  <2>2. ~Single'
    BY <2>1 DEF Single, Waits, Polling
  <2> QED BY <1>1, <1>2, <2>1, <2>2, CoversStays
<1>3. CASE ~(results = {} /\ Continue("collect") /\ UNCHANGED iteration)
  <2>1. PICK row \in results :
           /\ best' = retain_top_k(best, query.k, row) /\ results' = results \ {row}
           /\ Continue("consume") /\ UNCHANGED <<todo, pending, batch>>
    BY <1>3, Zenon DEF Consume
  <2>2. Distinct(todo) /\ Distinct(batch) /\ Len(pending) <= 1 /\ live \subseteq seen /\ query.k > 0
    BY <1>1, Zenon DEF Covers
  <2>3. PICK C \in SUBSET Keys : Covered(C)
    BY <1>1 DEF Covers
  <2>4. PICK R \in SUBSET Keys :
           results = RowsOf(R) /\ Account(C, R, Range(batch), Range(pending), Range(todo), Q, live)
    BY <2>3 DEF Covered
  <2>5. PICK key \in R : row = RowOf(key)
    BY <2>1, <2>4 DEF RowsOf
  <2>6. key \notin C /\ Account(C \cup {key}, R \ {key}, Range(batch), Range(pending), Range(todo), Q, live)
    BY <2>4, <2>5, Zenon DEF Account
  <2>7. results' = RowsOf(R \ {key})
    BY <2>1, <2>4, <2>5, RowsWithout
  <2>8. Kept(best', C \cup {key}, query.k)
    <3>1. Kept(best, C, query.k) /\ query.k \in Int
      BY <2>3 DEF Covered, Types
    <3> QED BY <2>1, <2>2, <2>5, <2>6, <3>1, RetainKeeps
  <2>9. pc' = "consume" /\ UNCHANGED <<query, live, seen, todo, pending, batch>>
    BY <2>1 DEF Continue, request
  <2>10. Covered(C \cup {key})'
    <3>1. R \ {key} \in SUBSET Keys
      OBVIOUS
    <3> QED BY <2>6, <2>7, <2>8, <2>9, <3>1 DEF Covered
  <2>11. ~Single' /\ C \cup {key} \in SUBSET Keys
    BY <2>9 DEF Single, Waits, Polling
  <2> QED BY <2>2, <2>9, <2>10, <2>11, Zenon DEF Covers
<1> QED BY <1>2, <1>3

LEMMA CoversStep ==
    ASSUME Types, Sized, Answers, Covers, [Next]_vars
    PROVE  Covers'
<1> USE DEF Polling, Waits, Batches
<1>1. CASE \/ Begin \/ Prepare \/ load_visible_descriptors \/ Fill \/ Decode \/ Consume \/ CpuRerank \/ Cancel
  <2>1. CASE Begin
    <3>1. /\ pc = "idle" /\ pc' = "begin" /\ seen' = live /\ live' = live
          /\ UNCHANGED <<todo, pending, batch, results, best>>
      BY <2>1 DEF Begin, iteration
    <3>2. Distinct(todo') /\ Distinct(batch') /\ Len(pending') <= 1 /\ Nothing' /\ todo' = <<>>
      BY <3>1, Zenon DEF Covers, Nothing
    <3>3. ~Single' /\ ~Batching'
      BY <3>1 DEF Single, Batching
    <3> QED BY <3>1, <3>2, <3>3 DEF Covers, Nothing
  <2>2. CASE Prepare BY <2>2, PrepareCovers
  <2>3. CASE load_visible_descriptors BY <2>3, LoadCovers
  <2>4. CASE Fill BY <2>4, FillCovers
  <2>5. CASE Decode BY <2>5, DecodeCovers
  <2>6. CASE Consume BY <2>6, ConsumeCovers
  <2>7. CASE CpuRerank BY <2>7, SuccessCovers DEF CpuRerank
  <2>8. CASE Cancel BY <2>8, EndCovers DEF Cancel
  <2> QED BY <1>1, <2>1, <2>2, <2>3, <2>4, <2>5, <2>6, <2>7, <2>8
<1>2. CASE \/ collect_external_batch \/ FillEnds \/ rerank_batches \/ GpuRerank
           \/ connect_interruptible \/ read_header \/ read_body \/ Interrupted
  <2>1. pc # "idle"
    BY <1>2, Zenon
    DEF collect_external_batch, FillEnds, rerank_batches, GpuRerank, connect_interruptible,
        read_header, read_body, Interrupted
  <2>2. CASE \E why : Error(why) BY <2>1, <2>2, ErrorCovers
  <2>3. CASE \E sorted : Success(sorted) BY <2>3, SuccessCovers
  <2>4. CASE ~(\E why : Error(why)) /\ ~(\E sorted : Success(sorted))
    <3>1. /\ UNCHANGED <<query, seen, live, todo, pending, batch, results, best>>
          /\ \/ pc = "collect" /\ pc' = "fill"
             \/ pc = "fill" /\ pc' = "request"
             \/ pc \in {"request", "encode"} \cup Waits /\ pc' \in Waits
      BY <1>2, <2>4, Zenon
      DEF collect_external_batch, FillEnds, rerank_batches, GpuRerank, connect_interruptible,
          read_header, read_body, Interrupted, ReadPart, Continue, request, iteration
    <3>2. (pc = "request" => External) /\ (pc = "encode" => ~External) /\ External' = External
      BY <3>1 DEF Sized, External
    <3>3. (Single' => Single) /\ (Batching' => Batching)
      BY <3>1, <3>2 DEF Single, Batching
    <3>4. pc' \notin {"idle", "begin", "load", "consume"} /\ results = {}
      BY <3>1 DEF Covers
    <3> QED BY <2>1, <3>1, <3>3, <3>4, CoversStays
  <2> QED BY <2>2, <2>3, <2>4
<1>3. CASE write_interruptible \/ Touch \/ Reply \/ ReplyBody \/ Close \/ Tick \/ UNCHANGED vars
  <2>1. /\ UNCHANGED <<query, seen, todo, pending, batch, results, best>>
        /\ pc' = pc \/ (pc = "write" /\ pc' = "header")
    BY <1>3, Zenon
    DEF write_interruptible, Touch, Reply, ReplyBody, Close, Tick, vars, Continue, request, iteration
  <2>2. live' \subseteq live
    BY <1>3, Zenon
    DEF write_interruptible, Touch, Reply, ReplyBody, Close, Tick, vars, Continue, request, iteration
  <2>3. (Single' => Single) /\ (Batching' => Batching)
    BY <2>1 DEF Single, Batching, External
  <2>4. pc' # "consume" => results = {}
    BY <2>1 DEF Covers
  <2> QED BY <2>1, <2>2, <2>3, <2>4, CoversStays
<1> QED BY <1>1, <1>2, <1>3, Zenon DEF Next, Client

-----------------------------------------------------------------------------
(* The theorems.                                                           *)

LEMMA InitMInv == ASSUME Init PROVE MInv
<1> USE DEF Waits, Polling, Batches
<1>1. /\ pc = "idle" /\ todo = <<>> /\ pending = <<>> /\ batch = <<>> /\ results = {} /\ best = {}
      /\ answer = NoAnswer /\ conn = NoConn
  BY DEF Init
<1>2. Types
  <2>1. sizes \in [tokens : Nat, declared : Nat, frame : Nat] /\ <<>> \in Seq(Keys)
    BY DEF Init, NoSizes
  <2>2. query \in [mode : {"none", "search", "rerank", "gpu", "auto"}, k : Int, limit : Int,
                   candidates : Seq(Keys), fresh : BOOLEAN]
    BY DEF Init
  <2> QED BY <1>1, <2>1, <2>2, NoConnType DEF Init, Types
<1>3. Deadlines
  BY <1>1 DEF Deadlines
<1>4. Sized
  BY <1>1, RangeEmpty DEF Sized, RefusedOnlyIfTooLarge, NoAnswer
<1>5. Answers
  BY <1>1, NoConnQuiet DEF Answers
<1>6. Covers
  <2>1. Distinct(<<>>) /\ Len(<<>>) <= 1
    BY DEF Distinct
  <2> QED BY <1>1, <2>1 DEF Covers, Nothing, Single, Batching
<1> QED BY <1>2, <1>3, <1>4, <1>5, <1>6 DEF MInv

LEMMA MInvStep == ASSUME MInv, [Next]_vars PROVE MInv'
BY TypesStep, DeadlinesStep, SizedStep, AnswersStep, CoversStep, Zenon DEF MInv

\* While a query runs, every candidate that is still as it was seen is in one
\* place: among the rows offered to `best`, in the answer being read, in the
\* batch, put aside for the next one or still to do; best are the k least of the
\* first; and what has been reckoned of a batch is what its frame measures.
THEOREM Invariance == Spec => []MInv
BY InitMInv, MInvStep, PTL DEF Spec

\* gpu.rs: "`self.timeout` is a deadline for the whole logical query".
THEOREM OneDeadlineHolds == Spec => OneDeadline
<1>1. ASSUME MInv, [Next]_vars PROVE [pc = "body" /\ pc' = "decode" => now < deadline]_vars
  BY <1>1, DeadlinesStep DEF MInv
<1> QED BY <1>1, Invariance, PTL DEF Spec, OneDeadline

\* What collect_external_batch puts together is never refused by
\* encode_external_descriptors.
THEOREM RefusedOnlyIfTooLargeHolds == Spec => []RefusedOnlyIfTooLarge
<1>1. MInv => RefusedOnlyIfTooLarge
  BY DEF MInv, Sized
<1> QED BY <1>1, Invariance, PTL

-----------------------------------------------------------------------------
(* A query is a step of TopKService when it is asked, answered or refused. *)

Asking == [candidates |-> Range(query.candidates), seen |-> seen,
           k |-> IF query.mode \in {"gpu", "auto"} THEN Cardinality(Keys) ELSE query.k]

LEMMA Refuses ==
    ASSUME pc # "idle", pc' = "idle", NEW why, answer' = Failed(why), UNCHANGED <<query, seen, live>>
    PROVE  Service!Refuse
BY DEF Service!Refuse, Failed

LEMMA Stutters ==
    ASSUME UNCHANGED <<query, seen, live, answer>>, pc = "idle" <=> pc' = "idle"
    PROVE  UNCHANGED Service!service
BY DEF Service!service

LEMMA AnswersNearest ==
    ASSUME pc # "idle", NEW sorted, Success(sorted), NEW S,
           S \subseteq Range(query.candidates) \cap seen,
           Range(query.candidates) \cap seen \cap live \subseteq S,
           sorted = Service!Nearest(S, Asking.k)
    PROVE  Service!Answer
<1>1. /\ pc' = "idle" /\ UNCHANGED <<query, seen, live>>
      /\ answer' = [ok |-> TRUE, rows |-> sorted, why |-> "none"]
  BY DEF Success, request
<1>2. /\ S \in SUBSET (Asking.candidates \cap Asking.seen)
      /\ Asking.candidates \cap Asking.seen \cap live \subseteq S
  BY DEF Asking
<1>3. [ok |-> answer'.ok, rows |-> answer'.rows] = [ok |-> TRUE, rows |-> Service!Nearest(S, Asking.k)]
  BY <1>1
<1> QED BY <1>1, <1>2, <1>3, Zenon DEF Service!Answer, Asking

\* All the rows, for a scan that wants all of them.
LEMMA AllNearest ==
    ASSUME Types, pc # "idle", ~External, NEW S, S \subseteq Keys
    PROVE  SortRows(RowsOf(S)) = Service!Nearest(S, Asking.k)
<1>1. query.mode \in {"gpu", "auto"}
  BY MaxsimAssumption DEF Types, External, Query
<1>2. Asking.k = Cardinality(Keys) /\ Cardinality(Keys) \in Nat
  BY <1>1, MaxsimAssumption, FS_CardinalityType DEF Asking
<1> QED BY <1>2, KeptAll, SortedNearest

LEMMA Asks == ASSUME Types, Begin PROVE Service!Ask
<1>1. /\ pc = "idle" /\ pc' = "begin" /\ query' \in Asked /\ seen' = live /\ live' = live
      /\ answer' = [ok |-> TRUE, rows |-> <<>>, why |-> "none"]
  BY DEF Begin, NoAnswer
<1>2. query' \in Query
  BY <1>1, MaxsimAssumption
<1>3. Range(query'.candidates) \subseteq Keys
  BY <1>2 DEF Query, Range
<1>4. (IF query'.mode \in {"gpu", "auto"} THEN Cardinality(Keys) ELSE query'.k) \in Int
  BY <1>2, MaxsimAssumption, FS_CardinalityType DEF Query
<1>5. Asking' \in [candidates : SUBSET Keys, k : Int, seen : {live}]
  BY <1>1, <1>3, <1>4, Zenon DEF Asking
<1>6. [ok |-> answer'.ok, rows |-> answer'.rows] = [ok |-> TRUE, rows |-> <<>>]
  BY <1>1
<1> QED BY <1>1, <1>5, <1>6, Zenon DEF Service!Ask, Asking

LEMMA FillEndsAnswers ==
    ASSUME MInv, FillEnds, batch = <<>>
    PROVE  Service!Answer
<1>1. /\ pc = "fill" /\ Success(SortRows(best)) /\ External
      /\ Len(batch) >= MaxCandidates \/ (pending = <<>> /\ todo = <<>>)
  BY DEF FillEnds, MInv, Sized, Batches
<1>2. Range(batch) = {} /\ Range(pending) = {} /\ Range(todo) = {}
  <2>1. Len(batch) = 0 /\ MaxCandidates \in Nat \ {0}
    BY MaxsimAssumption
  <2>2. pending = <<>> /\ todo = <<>>
    BY <1>1, <2>1
  <2> QED BY <2>2, RangeEmpty
<1>3. PICK C \in SUBSET Keys : Covered(C)
  BY <1>1 DEF MInv, Covers, Batching, Batches
<1>4. PICK R \in SUBSET Keys :
         /\ results = RowsOf(R)
         /\ Account(C, R, Range(batch), Range(pending), Range(todo),
                    Range(query.candidates) \cap seen, live)
  BY <1>3, Zenon DEF Covered
<1>5. R = {}
  BY <1>1, <1>4, RowsEmpty, Zenon DEF MInv, Covers
<1>6. C \subseteq Range(query.candidates) \cap seen /\ Range(query.candidates) \cap seen \cap live \subseteq C
  BY <1>2, <1>4, <1>5, Zenon DEF Account
<1>7. Asking.k = query.k /\ query.k \in Int /\ query.k > 0 /\ Kept(best, C, query.k)
  BY <1>1, <1>3, Zenon DEF Asking, External, MInv, Types, Covers, Covered, Batching, Batches
<1>8. SortRows(best) = Service!Nearest(C, Asking.k)
  BY <1>7, SortedNearest
<1> QED BY <1>1, <1>6, <1>8, AnswersNearest

LEMMA SingleAnswers ==
    ASSUME MInv, Single,
           \/ CpuRerank
           \/ GpuRerank /\ todo = <<>> /\ Success(<<>>)
           \/ Decode /\ Success(SortRows(Decoded)) /\ decode_response
    PROVE  Service!Answer
<1>1. /\ pc # "idle" /\ ~External /\ Range(todo) \subseteq Keys /\ Types
      /\ Range(todo) = Range(query.candidates) \cap seen
  <2>1. pc # "idle" /\ ~External
    BY DEF Single, Waits, Polling, MInv, Sized
  <2>2. Range(todo) = Range(query.candidates) \cap seen
    BY DEF MInv, Covers
  <2>3. Types /\ Range(todo) \subseteq Keys
    BY DEF MInv, Types, Range
  <2> QED BY <2>1, <2>2, <2>3
<1>2. Success(SortRows(RowsOf(Range(todo))))
  <2>1. CASE CpuRerank
    BY <2>1, Zenon DEF CpuRerank, RowsOf, RowOf
  <2>2. CASE GpuRerank /\ todo = <<>> /\ Success(<<>>)
    <3>1. RowsOf(Range(todo)) = {}
      BY <2>2, RangeEmpty DEF RowsOf
    <3>2. Cardinality({}) = 0
      BY FS_EmptySet
    <3>3. SortRows({}) = <<>>
      BY <3>2 DEF SortRows
    <3> QED BY <2>2, <3>1, <3>3, Zenon
  <2>3. CASE Decode /\ Success(SortRows(Decoded)) /\ decode_response
    <3>1. pc = "decode" /\ conn.keys = todo
      BY <1>1, <2>3 DEF Decode, MInv, Answers, Waits
    <3>2. Decoded = RowsOf(Range(todo))
      BY <2>3, <3>1, DecodedRows DEF MInv
    <3> QED BY <2>3, <3>2
  <2> QED BY <2>1, <2>2, <2>3
<1>3. SortRows(RowsOf(Range(todo))) = Service!Nearest(Range(todo), Asking.k)
  BY <1>1, AllNearest
<1> QED BY <1>1, <1>2, <1>3, AnswersNearest, Zenon

LEMMA ServiceStep ==
    ASSUME MInv, [Next]_vars
    PROVE  [Service!Next]_(Service!service)
<1> USE DEF Polling, Waits, Batches
<1>1. CASE Begin
  BY <1>1, Asks DEF MInv, Service!Next
<1>2. CASE Touch
  <2>1. /\ UNCHANGED <<pc, query, seen, answer>> /\ \E S \in SUBSET live : live' = S
    BY <1>2 DEF Touch, request
  <2> QED BY <2>1, Zenon DEF Service!Next, Service!Change
<1>3. CASE Cancel
  <2>1. pc # "idle" /\ pc' = "idle" /\ answer' = Failed("cancelled") /\ UNCHANGED <<query, seen, live>>
    BY <1>3 DEF Cancel, request
  <2> QED BY <2>1, Refuses DEF Service!Next
<1>4. CASE UNCHANGED vars
  BY <1>4, Stutters DEF vars
<1>5. CASE write_interruptible \/ Reply \/ ReplyBody \/ Close \/ Tick
  <2>1. UNCHANGED <<query, seen, live, answer>> /\ (pc' = pc \/ (pc = "write" /\ pc' = "header"))
    BY <1>5, Zenon DEF write_interruptible, Reply, ReplyBody, Close, Tick, Continue, request
  <2>2. pc = "idle" <=> pc' = "idle"
    BY <2>1
  <2> QED BY <2>1, <2>2, Stutters
<1>6. CASE Client \/ connect_interruptible
  <2>1. pc # "idle"
    BY <1>6, Zenon
    DEF Client, Prepare, load_visible_descriptors, collect_external_batch, Fill, FillEnds,
        rerank_batches, GpuRerank, CpuRerank, connect_interruptible, read_header, read_body,
        Interrupted, Decode, Consume
  <2>2. CASE \E why : Error(why)
    <3>1. PICK why : Error(why)
      BY <2>2
    <3>2. UNCHANGED <<query, seen, live>> /\ (pc' = "idle" => answer' = Failed(why))
          /\ (pc' # "idle" => answer' = answer)
      BY <3>1 DEF Error, request
    <3>3. CASE pc' = "idle" BY <2>1, <3>2, <3>3, Refuses DEF Service!Next
    <3>4. CASE pc' # "idle" BY <2>1, <3>2, <3>4, Stutters
    <3> QED BY <3>3, <3>4
  <2>3. CASE ~\E why : Error(why)
    <3>1. CASE FillEnds /\ batch = <<>>
      BY <3>1, FillEndsAnswers DEF Service!Next
    <3>2. CASE CpuRerank \/ (GpuRerank /\ todo = <<>>) \/ (Decode /\ ~External)
      <4>1. \/ CpuRerank
            \/ GpuRerank /\ todo = <<>> /\ Success(<<>>)
            \/ Decode /\ Success(SortRows(Decoded)) /\ decode_response
        BY <2>3, <3>2, Zenon DEF GpuRerank, Decode
      <4>2. Single
        BY <3>2 DEF CpuRerank, GpuRerank, Decode, Single
      <4> QED BY <4>1, <4>2, SingleAnswers DEF Service!Next
    <3>3. CASE ~(FillEnds /\ batch = <<>>) /\ ~CpuRerank /\ ~(GpuRerank /\ todo = <<>>)
               /\ ~(Decode /\ ~External)
      <4>1. \E p : Continue(p) /\ p # "idle"
        <5>1. "load" # "idle" /\ "encode" # "idle" /\ "collect" # "idle" /\ "fill" # "idle"
              /\ "request" # "idle" /\ "connect" # "idle" /\ "write" # "idle" /\ "body" # "idle"
              /\ "decode" # "idle" /\ "consume" # "idle"
          OBVIOUS
        <5> QED
          BY <1>6, <2>3, <3>3, <5>1, Zenon
          DEF Client, Prepare, load_visible_descriptors, collect_external_batch, Fill, FillEnds,
              rerank_batches, GpuRerank, connect_interruptible, read_header, read_body, ReadPart,
              Interrupted, Decode, Consume
      <4> QED BY <2>1, <4>1, Stutters DEF Continue, request
    <3> QED BY <3>1, <3>2, <3>3
  <2> QED BY <2>2, <2>3
<1> QED BY <1>1, <1>2, <1>3, <1>4, <1>5, <1>6, Zenon DEF Next

\* The safety part of KeepsPromise: however the candidates are split into
\* batches, whatever the daemon answers and whichever rows change meanwhile, a
\* query is refused or it returns the k nearest of its candidates.
THEOREM KeepsSafety == Spec => Service!Safety
<1>1. Init => Service!Init
  <2>1. SUFFICES ASSUME Init PROVE Service!Init
    OBVIOUS
  <2>2. Range(query.candidates) = {} /\ query.mode = "none" /\ query.k = 0 /\ seen = {} /\ pc = "idle"
        /\ live = Keys
    <3>1. query = [mode |-> "none", k |-> 0, limit |-> 0, candidates |-> <<>>, fresh |-> FALSE]
      BY <2>1 DEF Init
    <3>2. query.candidates = <<>> /\ query.mode = "none" /\ query.k = 0
      BY <3>1
    <3> QED BY <2>1, <3>2, RangeEmpty, Zenon DEF Init
  <2>3. Asking = [candidates |-> {}, k |-> 0, seen |-> {}]
    BY <2>2, Zenon DEF Asking
  <2>4. [ok |-> answer.ok, rows |-> answer.rows] = [ok |-> TRUE, rows |-> <<>>]
    BY <2>1 DEF Init, NoAnswer
  <2> QED BY <2>2, <2>3, <2>4, Zenon DEF Service!Init, Asking
<1> QED BY <1>1, ServiceStep, Invariance, PTL DEF Spec, Service!Safety
=============================================================================
