--------------------------- MODULE MCRequestHeaders ---------------------------
(* RequestHeaders for bytes of two bits: U16_MAX is 15, INT_MAX 127. *)
EXTENDS RequestHeaders
=============================================================================
