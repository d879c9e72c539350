------------------------- MODULE MCCycleArithmetic --------------------------
(* Attach times at zero and on both sides of the sign boundary.            *)
EXTENDS CycleArithmetic
MCOffsets == {0, Half - 1, -Half}
=============================================================================
