-------------------------- MODULE MCVchordrqLists --------------------------
(* Instances of VchordrqLists for TLC.                                     *)
EXTENDS VchordrqLists, TLC

\* A vacuum rebuilds every list; the builders share the lists out.
MCChoice ==
    LET first == CHOOSE b \in Builders : TRUE
    IN  [m \in Maintainers |->
            IF m \in Vacuums THEN {1, 2}
            ELSE {l \in {1, 2} : (l % 2 = 1) <=> (m = first)}]

Scope(built, lists, appendable, inserts, vacuums, crashes) ==
    [building |-> built, lists |-> lists, appendable |-> appendable,
     inserts |-> inserts, vacuums |-> vacuums, crashes |-> crashes]

\* Pages of one tuple, so that every append needs another page.
Crowded == {Scope(FALSE, 1, 1, 3, 1, 0)}

\* Two lists, when the index is built and afterwards; and a crash while no append
\* needs another page.
TwoOrCrash ==
    {Scope(TRUE, 2, 1, 3, 2, 0), Scope(FALSE, 2, 1, 3, 2, 0), Scope(FALSE, 1, 4, 2, 2, 1)}

\* A crash while an append needs another page.
AppendCrash == {Scope(FALSE, 1, 1, 2, 0, 1)}

MCSymmetry == Permutations(Inserters) \cup Permutations(Payloads)
=============================================================================
