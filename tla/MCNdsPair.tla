----------------------------- MODULE MCNdsPair ------------------------------
(* NdsPair with the two consoles of the program.                           *)
EXTENDS NdsPair

MCMachines == {0, 1}

\* Each console begins, and then sends, receives, listens as a host or ends.
MCMaxCalls == [m \in MCMachines |-> 2]
=============================================================================
