----------------------------- MODULE MCNdsFrame -----------------------------
(* NdsFrame with the two consoles of the program.                          *)
EXTENDS NdsFrame

MCMachines == {0, 1}
=============================================================================
