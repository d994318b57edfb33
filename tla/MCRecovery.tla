----------------------------- MODULE MCRecovery -----------------------------
(* run_protected on a three-slot table. *)
EXTENDS Recovery, TLC
=============================================================================
