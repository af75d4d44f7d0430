---------------------------- MODULE RequestHeaders ----------------------------
(***************************************************************************)
(* How the rewrite handler shows the request headers to the engine before  *)
(* phase 1: all of them packed into one call, or one call for each when    *)
(* packing, an allocation or the engine refuses the batch.  The i-th       *)
(* header is made of the bytes i, so headers that are cut, swapped or      *)
(* misaligned differ from the ones of the request.                         *)
(***************************************************************************)
EXTENDS HeaderPack

CONSTANTS
  MaxHeaders,   \* bound on the list
  NameLens,     \* the lengths of names and values, around U16_MAX and INT_MAX
  ValueLens

ASSUME LengthAssumption == MaxHeaders \in Nat /\ NameLens \cup ValueLens \subseteq Nat

VARIABLES
  headers,      \* r->headers_in.headers: lengths, and hash != 0
  pc,           \* bulk, each, then phase1 or the error
  i,            \* the loop of the fallback
  engine,       \* the headers the engine has
  lost          \* the elements it refused; nobody looks at the return value

vars == <<headers, pc, i, engine, lost>>

Entry == [nlen : NameLens, vlen : ValueLens, live : BOOLEAN]

Init ==
  /\ headers \in SeqOf(Entry, MaxHeaders)
  /\ pc = "bulk" /\ i = 1 /\ engine = <<>> /\ lost = {}

\* The strings the i-th element of the list points to.
Pair(k) ==
  [name |-> [b \in 1..headers[k].nlen |-> k % Base],
   value |-> [b \in 1..headers[k].vlen |-> k % Base]]

\* A list of pairs filled by a loop over the elements that takes those in S: how
\* far it is after each of them.
Filling(S) ==
  LET f[k \in 0..Len(headers)] ==
        IF k = 0 THEN <<>>
        ELSE IF k \in S THEN Append(f[k - 1], Pair(k)) ELSE f[k - 1]
  IN  f

\* The elements that nginx has not deleted.
Live == {k \in 1..Len(headers) : headers[k].live}

filled == Filling(Live)

\* pairs[] at the end of the loop that fills it.
pairs == filled[Len(headers)]

-----------------------------------------------------------------------------
NoHeaders ==
  /\ pc = "bulk" /\ pairs = <<>>
  /\ pc' = "phase1" /\ UNCHANGED <<headers, i, engine, lost>>

\* pairs[] or the packed buffer cannot be allocated, or the headers do not fit.
NotPacked ==
  /\ pc = "bulk" /\ pairs # <<>>
  /\ pc' = "each" /\ UNCHANGED <<headers, i, engine, lost>>

Accepted ==
  LET buf == Pack(pairs)
  IN  /\ pc = "bulk" /\ pairs # <<>> /\ PackFits(pairs)
      /\ Framed(buf, Narrow(Len(buf)), Narrow(Len(pairs)))
      /\ engine' = Unpack(buf, Narrow(Len(buf)), Narrow(Len(pairs))).pairs
      /\ pc' = "phase1" /\ UNCHANGED <<headers, i, lost>>

\* A negative return: the batch is left to the loop, which sends it again.
Rejected ==
  /\ pc = "bulk" /\ pairs # <<>> /\ PackFits(pairs)
  /\ pc' = "each" /\ UNCHANGED <<headers, i, engine, lost>>

\* The loop that trusts the lengths.
NeverTooLong(k) == FALSE

TooLong(k) == headers[k].nlen > INT_MAX \/ headers[k].vlen > INT_MAX

\* The loop that does not look at hash.
SkipNone(k) == FALSE

Skip(k) == ~headers[k].live

Each ==
  /\ pc = "each" /\ i <= Len(headers)
  /\ \/ Skip(i) /\ UNCHANGED <<pc, engine, lost>>
     \/ ~Skip(i) /\ TooLong(i) /\ pc' = "error" /\ UNCHANGED <<engine, lost>>
     \/ /\ ~Skip(i) /\ ~TooLong(i)
        /\ engine' = Append(engine, [name |-> Received(Pair(i).name),
                                     value |-> Received(Pair(i).value)])
        /\ UNCHANGED <<pc, lost>>
     \/ ~Skip(i) /\ ~TooLong(i) /\ lost' = lost \cup {i} /\ UNCHANGED <<pc, engine>>
  /\ i' = i + 1 /\ UNCHANGED headers

EachDone ==
  /\ pc = "each" /\ i > Len(headers)
  /\ pc' = "phase1" /\ UNCHANGED <<headers, i, engine, lost>>

Next == NoHeaders \/ NotPacked \/ Accepted \/ Rejected \/ Each \/ EachDone

Spec == Init /\ [][Next]_vars

-----------------------------------------------------------------------------
\* Phase 1 is evaluated on the request's own headers: every one nginx has not
\* deleted, once, in order and byte for byte, whichever path of the rewrite
\* handler carried them and however close their lengths are to a limit.  A header
\* that the engine refuses by itself is missing, unnoticed by the handler, and no
\* other one with it.
HeadersShown == pc = "phase1" => engine = Filling(Live \ lost)[Len(headers)]

\* A batch that pack_headers() accepts is never longer than an int and reads
\* back, field by field, as the headers it was made of: the engine has no
\* reason to reject it and takes no name or value for another.
PackedReadsBack ==
  pc = "bulk" /\ pairs # <<>> /\ PackFits(pairs) =>
    LET buf == Pack(pairs)
        len == Narrow(Len(buf))
    IN  Framed(buf, len, Len(pairs)) /\ Unpack(buf, len, Len(pairs)).pairs = pairs

\* The handler answers 500 only for a header that no int can measure; one that
\* is only too long to be packed is still inspected.
BlockedTooLong == pc = "error" => \E h \in Range(pairs) :
                                    Len(h.name) > INT_MAX \/ Len(h.value) > INT_MAX
=============================================================================
