-------------------------- MODULE MCParallelBuild --------------------------
(* Two workers and the leader, two heap tuples of which one makes two      *)
(* vectors, and as many lists as participants plus one.                    *)
EXTENDS ParallelBuild, TLC

CONSTANTS w1, w2, leader, t1, t2

MCWorkers == {w1, w2}
MCTuples == {t1, t2}
MCStoreLen == t1 :> 1 @@ t2 :> 2
=============================================================================
