----------------------------- MODULE MCFileSubmit -----------------------------
(* FileSubmit with chunks of two bytes and ranges of up to three of them. *)
EXTENDS FileSubmit
=============================================================================
