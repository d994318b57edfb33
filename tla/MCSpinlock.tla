----------------------------- MODULE MCSpinlock -----------------------------
(* Two threads and one interrupt handler share two locks. *)
EXTENDS Spinlock
=============================================================================
