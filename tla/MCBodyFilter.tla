--------------------------- MODULE MCBodyFilter ---------------------------
(* BodyFilter on small instances. *)
EXTENDS BodyFilter
=============================================================================
