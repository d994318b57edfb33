-------------------------------- MODULE MCNet --------------------------------
(* Two stations, one of them gateway and name server, and one address beyond. *)
EXTENDS Net
=============================================================================
