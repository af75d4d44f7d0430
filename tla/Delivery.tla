------------------------------ MODULE Delivery ------------------------------
(***************************************************************************)
(* What the body filter promises about one response, whatever buffers it   *)
(* arrives in: the client reads the origin's header and then the origin's  *)
(* data, unit by unit, or a replacement of the whole response, and nothing *)
(* follows a replacement or a reset.                                       *)
(***************************************************************************)
EXTENDS Naturals, Sequences

CONSTANT N              \* bound on the units of data in the origin's response

VARIABLES
  headers,              \* the headers the client has read
  data,                 \* the data the client has read
  closed                \* the connection was reset

Init == headers = <<>> /\ data = <<>> /\ closed = FALSE

\* The header of the origin's response, or of what replaces it.
Answer ==
  /\ ~closed /\ headers = <<>>
  /\ \E h \in {"origin", "redirect", "page"} : headers' = <<h>>
  /\ UNCHANGED <<data, closed>>

Deliver ==
  /\ ~closed /\ headers = <<"origin">> /\ Len(data) < N
  /\ data' = Append(data, Len(data) + 1)
  /\ UNCHANGED <<headers, closed>>

Close ==
  /\ ~closed /\ headers \in {<<>>, <<"origin">>}
  /\ closed' = TRUE
  /\ UNCHANGED <<headers, data>>

Next == Answer \/ Deliver \/ Close

Spec == Init /\ [][Next]_<<headers, data, closed>>
=============================================================================
