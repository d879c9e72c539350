--------------------------- MODULE EngineContract ---------------------------
(***************************************************************************)
(* What struct dualboy_engine_ops promises its caller about a frame        *)
(* (src/src/frontend/engine.h): run_frame is a synchronous ownership       *)
(* boundary.  While the frontend owns the pair no worker touches a         *)
(* machine; a frame hands every machine to its worker once; and run_frame  *)
(* returns, successfully or not, only after every worker has let go.  A    *)
(* retired pair never starts another frame and a destroyed pair is never   *)
(* touched again.                                                          *)
(***************************************************************************)
CONSTANT Machines

VARIABLES owner,      \* who may use pair-owned memory
          touching,   \* machines a worker may still be reading or writing
          usable      \* FALSE once the engine has retired the pair

contractVars == <<owner, touching, usable>>

Init == /\ owner = "frontend"
        /\ touching = {}
        /\ usable = TRUE

\* The frontend enters run_frame: every machine is handed to its worker.
Begin == /\ owner = "frontend"
         /\ usable
         /\ owner' = "engine"
         /\ touching' = Machines
         /\ UNCHANGED usable

\* The worker of one machine has finished with pair-owned state.
LetGo(m) == /\ owner = "engine"
            /\ m \in touching
            /\ touching' = touching \ {m}
            /\ UNCHANGED <<owner, usable>>

\* run_frame returns; a failure may retire the pair for good.
Return == /\ owner = "engine"
          /\ touching = {}
          /\ owner' = "frontend"
          /\ usable' \in {usable, FALSE}
          /\ UNCHANGED touching

\* destroy_pair, from the frontend, with no worker left inside the pair.
Destroy == /\ owner = "frontend"
           /\ owner' = "gone"
           /\ usable' = FALSE
           /\ UNCHANGED touching

Next == \/ Begin
        \/ \E m \in Machines : LetGo(m)
        \/ Return
        \/ Destroy

Spec == Init /\ [][Next]_contractVars
=============================================================================
