---------------------------- MODULE MCNdsMemory ----------------------------
(* Two games, with saves of four bytes and one, and earlier files.         *)
EXTENDS NdsMemory, TLC

MCSaveSize == 0 :> 4 @@ 1 :> 1

Played(i) == IF i = 0 THEN "x" ELSE FF
With(firmware) == [save |-> NoFile, firmware |-> firmware]

\* An address that cannot be used, with one that collides with its repair; and
\* a game that was player 2, with one whose file is rejected and which gets
\* the address of player 2 when it is.
MCDisks ==
  {0 :> [save |-> [i \in 0 .. 3 |-> Played(i)], firmware |-> <<"foreign", 1>>]
     @@ 1 :> With(<<"default", 0>>),
   0 :> With(<<"default", 1>>) @@ 1 :> With(Bad)}
=============================================================================
