------------------------------ MODULE FileSubmit ------------------------------
(***************************************************************************)
(* The three loops that read a body from a file: a request body buffered   *)
(* in a temporary file ("request"), a file range of a response shown to    *)
(* the engine ("response"), and a file range copied to memory so that it   *)
(* can be held ("copy").  A read may return less than it was asked for,    *)
(* nothing or an error, and the file may shrink between two reads.         *)
(***************************************************************************)
EXTENDS Integers, Sequences, FiniteSets

CONSTANTS
  Chunk,        \* the size of the chunk buffer
  MaxRange      \* bound on the range

ASSUME FileAssumption == Chunk \in Nat \ {0} /\ MaxRange \in Nat

VARIABLES
  kind,         \* which loop
  error_page,   \* r->error_page
  directio,     \* buf->file->directio
  first, last,  \* the range: [first, last)
  eof,          \* the length of the file now
  pc,
  offset,
  data,         \* the offsets of the bytes appended or copied, in order
  held,         \* what has to be given back before the function returns
  rc,           \* the return value
  triggered     \* ctx->intervention_triggered

vars == <<kind, error_page, directio, first, last, eof, pc, offset, data, held,
          rc, triggered>>
input == <<kind, error_page, directio, first, last>>

\* A request body starts at offset 0.  The copy has no check for an inverted
\* range, and none is made for it.
Init ==
  /\ kind \in {"request", "response", "copy"}
  /\ error_page \in BOOLEAN /\ directio \in BOOLEAN /\ (directio => kind = "response")
  /\ first \in IF kind = "request" THEN {0} ELSE 0..1
  /\ last \in (IF kind = "copy" THEN first ELSE first - 1)..(first + MaxRange)
  /\ eof = last
  /\ pc = "start" /\ offset = first /\ data = <<>> /\ held = {}
  /\ rc = "none" /\ triggered = FALSE

-----------------------------------------------------------------------------
Return(r) == pc' = "returned" /\ rc' = r

\* Nothing to read, or a range that is none.
Empty ==
  /\ pc = "start"
  /\ \/ last = first /\ Return("ok") /\ UNCHANGED triggered
     \/ last < first /\ Return("error") /\ triggered' = TRUE
  /\ UNCHANGED <<input, eof, offset, data, held>>

\* A descriptor of its own, a scratch buffer or memory for the whole range.
Acquire ==
  /\ pc = "start" /\ first < last
  /\ held' = CASE kind = "request" -> {"fd"}
               [] kind = "response" -> {"scratch"}
               [] kind = "copy" -> {}
  /\ pc' = IF kind = "response" /\ directio THEN "directio" ELSE "read"
  /\ UNCHANGED <<input, eof, offset, data, rc, triggered>>

AcquireFails ==
  /\ pc = "start" /\ first < last
  /\ Return("error") /\ triggered' = (kind # "copy")
  /\ UNCHANGED <<input, eof, offset, data, held>>

\* A plain return from inside the loop.
EarlyReturn == "returned"

\* Every error leaves the loop by the label done.
ErrorExit == "done"

\* O_DIRECT is lifted from nginx's own descriptor, or cannot be.
DirectioOff ==
  /\ pc = "directio"
  /\ \/ held' = held \cup {"directio"} /\ pc' = "read" /\ UNCHANGED rc
     \/ pc' = ErrorExit /\ rc' = "error" /\ UNCHANGED held
  /\ UNCHANGED <<input, eof, offset, data, triggered>>

-----------------------------------------------------------------------------
Smaller(a, b) == IF a < b THEN a ELSE b

\* The size of the next read: the copy asks for the rest at once.
size == IF kind = "copy" THEN last - offset ELSE Smaller(Chunk, last - offset)

\* The loop that moves on by what it asked for.
AdvanceBySize(n) == offset + size

Advance(n) == offset + n

\* ngx_read_file() gets n bytes and they are appended.
Read ==
  /\ pc = "read" /\ offset < last
  /\ \E n \in 1..Smaller(size, eof - offset) :
       /\ data' = data \o [k \in 1..n |-> offset + k - 1]
       /\ offset' = Advance(n)
  /\ pc' = IF kind = "request" /\ offset' < last THEN "poll" ELSE "read"
  /\ UNCHANGED <<input, eof, held, rc, triggered>>

\* Nothing read taken for a short read: the loop tries again.
TryAgain == pc = "read" /\ offset < last /\ eof <= offset /\ UNCHANGED vars

\* ngx_read_file() finds the end of the file before the end of the range.
ReadNothing ==
  /\ pc = "read" /\ offset < last /\ eof <= offset
  /\ pc' = ErrorExit /\ rc' = "error"
  /\ UNCHANGED <<input, eof, offset, data, held, triggered>>

\* The read fails, or the engine does not take the chunk.
ReadFails ==
  /\ pc = "read" /\ offset < last
  /\ pc' = ErrorExit /\ rc' = "error"
  /\ UNCHANGED <<input, eof, offset, data, held, triggered>>

\* process_intervention() between two chunks; on an error page its result is
\* ignored and the handler yields.
Poll ==
  /\ pc = "poll"
  /\ \/ error_page /\ pc' = "done" /\ rc' = "declined" /\ UNCHANGED triggered
     \/ ~error_page /\ pc' = "read" /\ UNCHANGED <<rc, triggered>>
     \/ ~error_page /\ pc' = ErrorExit /\ rc' = "error" /\ UNCHANGED triggered
     \/ ~error_page /\ pc' = "done" /\ rc' = "blocked" /\ triggered' = TRUE
  /\ UNCHANGED <<input, eof, offset, data, held>>

ReadAll ==
  /\ pc = "read" /\ offset >= last
  /\ pc' = "done" /\ rc' = "ok"
  /\ UNCHANGED <<input, eof, offset, data, held, triggered>>

\* Only the poll sets the flag.
ArmsNever(r) == FALSE

\* The copy leaves the flag to its caller.
Arms(r) == kind # "copy" /\ r \notin {"ok", "declined"}

\* The label done: O_DIRECT is set again, which may fail with an alert in the
\* log, and the rest is given back.
Done ==
  /\ pc = "done" /\ pc' = "returned"
  /\ \/ held' = {}
     \/ "directio" \in held /\ held' = {"alert"}
  /\ triggered' = (triggered \/ Arms(rc))
  /\ UNCHANGED <<input, eof, offset, data, rc>>

\* Another process truncates the file.
Shrink ==
  /\ pc # "returned" /\ eof' \in 0..(eof - 1)
  /\ UNCHANGED <<input, pc, offset, data, held, rc, triggered>>

Code ==
  \/ Empty \/ Acquire \/ AcquireFails \/ DirectioOff
  \/ Read \/ ReadNothing \/ ReadFails \/ Poll \/ ReadAll \/ Done

Next == Code \/ Shrink

Spec == Init /\ [][Next]_vars

\* The function runs to its end: reads return, and every return is handled.
FairSpec ==
  /\ Spec
  /\ WF_vars(Empty) /\ WF_vars(Acquire) /\ WF_vars(DirectioOff) /\ WF_vars(Read)
  /\ WF_vars(ReadNothing) /\ WF_vars(Poll) /\ WF_vars(ReadAll) /\ WF_vars(Done)

-----------------------------------------------------------------------------
\* The bytes of the file in [lo, hi).
Bytes(lo, hi) == [k \in 1..(hi - lo) |-> lo + k - 1]

\* The types, and what the loops keep between two reads: the bytes they have
\* are the ones from the start of the range to the offset.
LoopInv ==
  /\ kind \in {"request", "response", "copy"} /\ error_page \in BOOLEAN
  /\ first \in Int /\ last \in Int /\ offset \in Int /\ eof \in Int
  /\ pc \in {"start", "directio", "read", "poll", "done", "returned"}
  /\ rc \in {"none", "ok", "error", "declined", "blocked"}
  /\ triggered \in BOOLEAN
  /\ first <= offset /\ (offset <= last \/ last < first)
  /\ data = Bytes(first, offset)
  /\ pc \in {"directio", "read", "poll"} => first < last
  /\ pc = "poll" => kind = "request"
  /\ pc \in {"done", "returned"} /\ rc = "ok" => offset = last
  /\ rc = "declined" => error_page /\ kind = "request"
  /\ pc \in {"done", "returned"} => rc # "none"
  /\ pc = "returned" => held \subseteq {"alert"}
  /\ pc = "returned" /\ kind # "copy" /\ rc \notin {"ok", "declined"} => triggered
  /\ pc = "start" => held = {}

\* When one of the loops reports success the engine, or the copy, has every
\* byte of the range once and in order, however the reads were cut and whatever
\* happened to the file meanwhile.
WholeRange == pc = "returned" /\ rc = "ok" => data = Bytes(first, last)

\* No way out of the functions keeps the descriptor of the temporary file, the
\* scratch buffer, or nginx's descriptor without its O_DIRECT.
GivenBack == pc = "returned" => held \subseteq {"alert"}

\* A body that was not shown to the engine as a whole is never let through:
\* the request or response is marked as blocked, but for the error page's yield
\* and the copy, whose caller answers the error.
PartialIsBlocked ==
  pc = "returned" /\ kind # "copy" /\ data # Bytes(first, last)
    => triggered \/ (error_page /\ kind = "request")

\* The loops end: a read that returns nothing is not repeated.
Ends == <>(pc = "returned")
=============================================================================
