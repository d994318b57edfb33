----------------------------- MODULE MCScheduler -----------------------------
(* The scheduler on a three-slot table. *)
EXTENDS Scheduler, TLC

StackSymmetry == Permutations(Stacks)
=============================================================================
