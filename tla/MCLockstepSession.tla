-------------------------- MODULE MCLockstepSession --------------------------
(* An instance of LockstepSession for TLC.                                 *)
EXTENDS LockstepSession
=============================================================================
