-------------------------- MODULE MCCorazaRequest --------------------------
(* CorazaRequest on small instances. *)
EXTENDS CorazaRequest
=============================================================================
