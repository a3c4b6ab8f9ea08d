------------------------------ MODULE MCMemory ------------------------------
(* Programs of one or two segments, the second one past, or inside, the    *)
(* first.                                                                  *)
EXTENDS Memory

MCPrograms == {<<4>>, <<2, 6>>, <<6, 2>>}
MCDeltas == {-6, 6, 58}
=============================================================================
