---------------------------- MODULE TopKService ----------------------------
(* What a MaxSim query promises its caller: it is refused, or it returns the *)
(* k nearest of its candidates, by distance and then by identifier.  A row   *)
(* that is changed while the query runs may count or not; a row that stays   *)
(* as it was counts, and one that was gone before does not.                  *)
EXTENDS Integers, Sequences, FiniteSets

CONSTANTS Keys, Distance

VARIABLES phase, asked, live, answer
service == <<phase, asked, live, answer>>

Before(a, b) == Distance[a] < Distance[b] \/ (Distance[a] = Distance[b] /\ a < b)
Rank(a, S) == Cardinality({b \in S : Before(b, a)})
Nearest(S, k) ==
    [i \in 1..(IF k < Cardinality(S) THEN k ELSE Cardinality(S)) |->
        CHOOSE a \in S : Rank(a, S) = i - 1]

Init ==
    /\ phase = "idle" /\ live \in SUBSET Keys
    /\ asked = [candidates |-> {}, k |-> 0, seen |-> {}] /\ answer = [ok |-> TRUE, rows |-> <<>>]

Ask ==
    /\ phase = "idle" /\ phase' = "asked"
    /\ asked' \in [candidates : SUBSET Keys, k : Int, seen : {live}]
    /\ answer' = [ok |-> TRUE, rows |-> <<>>]
    /\ UNCHANGED live

Answer ==
    /\ phase = "asked" /\ phase' = "idle"
    /\ \E S \in SUBSET (asked.candidates \cap asked.seen) :
          /\ asked.candidates \cap asked.seen \cap live \subseteq S
          /\ answer' = [ok |-> TRUE, rows |-> Nearest(S, asked.k)]
    /\ UNCHANGED <<asked, live>>

Refuse ==
    /\ phase = "asked" /\ phase' = "idle"
    /\ answer' = [ok |-> FALSE, rows |-> <<>>]
    /\ UNCHANGED <<asked, live>>

Change ==
    /\ \E S \in SUBSET live : live' = S
    /\ UNCHANGED <<phase, asked, answer>>

Next == Ask \/ Answer \/ Refuse \/ Change
Safety == Init /\ [][Next]_service
Spec == Safety /\ WF_service(Answer \/ Refuse)
=============================================================================
