--------------------------- MODULE MCRequestQueue ---------------------------
(* Instances of RequestQueue for TLC.                                      *)
EXTENDS RequestQueue
CONSTANTS a, b, c
Req(t, p, cost, quanta, patience) ==
    [tenant |-> t, priority |-> p, cost |-> cost, quanta |-> quanta, patience |-> patience]

\* Tenants with weights, priorities that aging brings together, some impatient work.
MCWeight == [t \in Tenants |-> IF t = a THEN 2 ELSE 1]
Mixed == {Req(a, 0, 1, 2, 9), Req(b, 2, 3, 1, 9), Req(c, 0, 2, 2, 1)}

\* Priorities near their ceiling, which waiting reaches.
Urgent == {Req(a, 97, 1, 2, 9), Req(b, 98, 1, 1, 9), Req(b, 100, 1, 1, 9)}

MCWorkload == [p \in Policies |-> IF p = "priority" THEN Urgent ELSE Mixed]
MCMaxTime == [p \in Policies |-> CASE p = "fair" -> 1 [] p = "priority" -> 3 [] OTHER -> 2]
=============================================================================
