-------------------------- MODULE MCMaxsimClient --------------------------
(* Four rows, two of them at the same distance.  A frame of the first two    *)
(* descriptors fits to the byte, one with the third misses by two bytes, and *)
(* the tensor of the fourth never fits.                                      *)
EXTENDS MaxsimClient
MCDistance == <<5, 2, 5, 1>>
MCRows == <<1, 1, 3, 5>>
MCRefBytes == <<10, 12, 14, 10>>
\* The index gives candidates by approximate distance; a caller names any.
MCAsked ==
    [mode : {"search"}, k : {1, 2}, limit : {0, 3}, candidates : {<<3, 1, 2>>, <<1, 2>>},
     fresh : BOOLEAN]
    \cup [mode : {"rerank"}, k : {2}, limit : {0}, candidates : {<<2, 3, 1>>, <<1, 1>>, <<3, 4>>},
          fresh : BOOLEAN]
    \cup [mode : {"gpu", "auto"}, k : {0}, limit : {3}, candidates : {<<1, 2>>, <<2, 3, 1>>},
          fresh : {FALSE}]
=============================================================================
