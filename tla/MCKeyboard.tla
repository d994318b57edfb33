----------------------------- MODULE MCKeyboard -----------------------------
(* A ring of three slots, one key with a character and one without. *)
EXTENDS Keyboard
=============================================================================
