------------------------------ MODULE MCEngine ------------------------------
(* Instances of Engine for TLC.                                            *)
EXTENDS Engine
CONSTANTS k1, k2, k3, k4, t1, t2
MCBlocks == [k \in Keys |-> IF k \in {k1, k2} THEN 1 ELSE 2]
MCReservation == [t \in Tenants |-> IF t = t1 THEN 2 ELSE 0]
MCManifests == {<<k1, k1>>, <<k1, k2, k3>>}
=============================================================================
