------------------------- MODULE MCVchordgGraph -------------------------
EXTENDS VchordgGraph

MCTid == <<1, 2, 3>>
MCVector == <<0, 3, 4>>
MCAlpha == <<10, 12>>
=============================================================================
