------------------------------- MODULE MCTcp -------------------------------
(* One slot, two connections one after the other, a ring of two slots.     *)
EXTENDS Tcp
=============================================================================
