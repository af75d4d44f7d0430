-------------------------- MODULE MCResponseHeaders --------------------------
(* ResponseHeaders for bytes of two bits: U16_MAX is 15, INT_MAX 127. *)
EXTENDS ResponseHeaders

\* A header that can be packed, one with a name that cannot, one with which the
\* batch is too long, and one whose value is longer than an int.
Lengths == {<<1, 1>>, <<16, 1>>, <<2, 127>>, <<1, 128>>}
=============================================================================
