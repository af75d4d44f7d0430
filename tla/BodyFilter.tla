----------------------------- MODULE BodyFilter -----------------------------
(***************************************************************************)
(* ngx_http_coraza_body_filter() on chains of buffers.  The producer (an   *)
(* upstream pipe or the static handler) builds a chain, hands it to the    *)
(* filter and reuses the storage of a buffer once it is consumed; the      *)
(* write filter keeps what the socket does not take in r->out and empties  *)
(* it later, on its own, by calling the filters with a NULL chain.         *)
(*                                                                         *)
(* A unit of data is the number of its place in the response, and counts   *)
(* for one byte of NGX_HTTP_CORAZA_MAX_DELAYED_BODY.                       *)
(***************************************************************************)
EXTENDS Integers, Sequences, FiniteSets, SequencesExt

CONSTANTS
  N,            \* bound on the units of data in the response
  Slot,         \* the producer's reusable storage (u->buffer, the temp file)
  Cap,          \* NGX_HTTP_CORAZA_MAX_DELAYED_BODY
  MaxChain,     \* bound on the buffers of a chain
  MaxEmpty      \* bound on the empty buffers among them, the end apart

ASSUME BodyAssumption ==
  /\ N \in Nat /\ Cap \in Nat /\ MaxChain \in Nat \ {0} /\ MaxEmpty \in Nat
  /\ IsFiniteSet(Slot) /\ "none" \notin Slot

VARIABLES
  made,         \* units the producer has put into buffers
  empties,      \* empty buffers it has made
  ended,        \* the buffer with last_buf has been made
  store,        \* what each slot holds
  busy,         \* the slots whose buffer is not consumed
  in,           \* the chain
  pc, i,        \* the filter: between calls, at buffer i, or over for good
  conf,         \* the response: its buffers, and what the header filter decided
  delayed,      \* ctx->headers_delayed
  pending,      \* ctx->pending_chain
  bytes,        \* ctx->pending_bytes
  triggered,    \* ctx->intervention_triggered
  swallow,      \* r->header_only: a redirect has been sent
  phase4,       \* calls of coraza_process_response_body()
  rout,         \* r->out, headers included
  client        \* what the client has read: headers and data

producer == <<made, empties, ended, store>>
filter   == <<delayed, pending, bytes, triggered, swallow, phase4>>
vars == <<producer, busy, in, pc, i, conf, filter, rout, client>>

\* A link of a chain: data in a reusable slot, data that stays where it is (a
\* range of a static file, a copy in the request pool), no data, or a header.
Link(kind, slot, unit, last) ==
  [kind |-> kind, slot |-> slot, unit |-> unit, last |-> last]
Header(what) == Link(what, "none", 0, FALSE)
Stable(unit, last) == Link("stable", "none", unit, last)
Headers == {"origin", "redirect", "page"}

Init ==
  /\ made = 0 /\ empties = 0 /\ ended = FALSE
  /\ store = [s \in Slot |-> 0] /\ busy = {}
  /\ in = <<>> /\ pc = "idle" /\ i = 1
  /\ conf \in [size : 0..N, file : BOOLEAN, delay : BOOLEAN,
               processable : BOOLEAN, error_page : BOOLEAN]
  /\ conf.delay => ~conf.error_page
  /\ delayed = conf.delay
  /\ pending = <<>> /\ bytes = 0 /\ triggered = FALSE /\ swallow = FALSE
  /\ phase4 = 0
  /\ rout = IF conf.delay THEN <<>> ELSE <<Header("origin")>>
  /\ client = [headers |-> <<>>, data |-> <<>>]

-----------------------------------------------------------------------------
(* nginx: the producer and the write filter *)

Filling == pc = "idle" /\ Len(in) < MaxChain

\* The next data of the response, in a free slot or as a range of a static
\* file; the last of it may carry last_buf.
FillData ==
  /\ Filling /\ made < conf.size
  /\ made' = made + 1
  /\ ended' \in {FALSE, made + 1 = conf.size}
  /\ \/ /\ conf.file
        /\ in' = Append(in, Stable(made + 1, ended'))
        /\ UNCHANGED <<store, busy>>
     \/ /\ ~conf.file
        /\ \E s \in Slot \ busy :
             /\ store' = [store EXCEPT ![s] = made + 1]
             /\ busy' = busy \cup {s}
             /\ in' = Append(in, Link("mem", s, 0, ended'))
  /\ UNCHANGED <<empties, pc, i, conf, filter, rout, client>>

\* A buffer of its own carries last_buf.
FillEnd ==
  /\ Filling /\ made = conf.size /\ ~ended
  /\ ended' = TRUE
  /\ in' = Append(in, Link("empty", "none", 0, TRUE))
  /\ UNCHANGED <<made, empties, store, busy, pc, i, conf, filter, rout, client>>

\* A flush, or an empty buffer another filter appends behind the end.
FillEmpty ==
  /\ Filling /\ empties < MaxEmpty
  /\ ended => in # <<>>
  /\ empties' = empties + 1
  /\ in' = Append(in, Link("empty", "none", 0, FALSE))
  /\ UNCHANGED <<made, ended, store, busy, pc, i, conf, filter, rout, client>>

Fill == FillData \/ FillEnd \/ FillEmpty

\* The socket takes the first link of r->out, which is consumed with that.
Contents(b) == IF b.kind = "mem" THEN store[b.slot] ELSE b.unit
Write ==
  /\ pc # "loop" /\ rout # <<>>
  /\ LET b == Head(rout) IN
     /\ client' =
          IF b.kind \in Headers
          THEN [client EXCEPT !.headers = Append(@, b.kind)]
          ELSE IF b.kind = "empty" THEN client
          ELSE [client EXCEPT !.data = Append(@, Contents(b))]
     /\ busy' = busy \ {b.slot}
  /\ rout' = Tail(rout)
  /\ UNCHANGED <<producer, in, pc, i, conf, filter>>

\* ngx_http_next_body_filter(): the chain joins r->out.
Out(chain) ==
  /\ rout' = rout \o chain
  /\ in' = <<>> /\ pc' = "idle"

\* The connection is closed; what r->out holds is never sent.
Reset ==
  /\ rout' = <<>> /\ in' = <<>> /\ pc' = "reset"

-----------------------------------------------------------------------------
(* ngx_http_coraza_body_filter() *)

\* Mutant of Consumed: nothing is marked consumed.
ConsumedNever(chain) == {}
\* ngx_http_coraza_body_filter_consume(), and the consumption of an original
\* that was copied: the slots that become free.
Consumed(chain) == {chain[j].slot : j \in 1..Len(chain)}

\* Mutant of Swallow: the chain is dropped with its buffers unconsumed.
SwallowUnconsumed ==
  /\ pc = "idle" /\ in # <<>> /\ triggered /\ swallow
  /\ in' = <<>>
  /\ UNCHANGED <<producer, busy, pc, i, conf, filter, rout, client>>
\* A chain arrives while an intervention is over: behind a header-only redirect
\* it is swallowed.
Swallow ==
  /\ pc = "idle" /\ in # <<>> /\ triggered /\ swallow
  /\ busy' = busy \ Consumed(in)
  /\ in' = <<>>
  /\ UNCHANGED <<producer, pc, i, conf, filter, rout, client>>

Enter ==
  /\ pc = "idle" /\ in # <<>> /\ ~triggered
  /\ pc' = "loop" /\ i' = 1
  /\ UNCHANGED <<producer, busy, in, conf, filter, rout, client>>

InLoop == pc = "loop" /\ i <= Len(in)

\* Mutant of RunsPhase4: gated on the flag that stays set after the last buffer.
RunsPhase4Sticky == \E j \in 1..i : in[j].last
\* Does this buffer run phase 4?
RunsPhase4 == in[i].last

\* Mutants of Held: the original buffer is kept instead of a copy; a file range
\* is not charged; a file range is charged with its end instead of its length.
HeldNoCopy(b) == [buf |-> b, charge |-> IF b.kind = "empty" THEN 0 ELSE 1]
HeldFileFree(b) ==
  [buf |-> IF b.kind = "mem" THEN Stable(store[b.slot], FALSE) ELSE b,
   charge |-> IF b.kind = "mem" THEN 1 ELSE 0]
HeldToFileEnd(b) ==
  [buf |-> IF b.kind = "mem" THEN Stable(store[b.slot], FALSE) ELSE b,
   charge |-> IF b.kind = "mem" THEN 1 ELSE b.unit]
\* The delayed form of a buffer that is not the last, and what it is charged:
\* data in memory and in temp files is copied to the request pool, a range of
\* another file is cloned, an empty buffer stays empty.
Held(b) ==
  [buf |-> IF b.kind = "mem" THEN Stable(store[b.slot], FALSE) ELSE b,
   charge |-> IF b.kind = "empty" THEN 0 ELSE 1]

\* The buffer is inspected, nothing intervenes, and while headers are delayed
\* it joins pending_chain: the last one as it is, any other in its held form,
\* with the original consumed.
StepPasses ==
  /\ InLoop /\ ~(conf.error_page /\ conf.processable)
  /\ ~(conf.error_page /\ RunsPhase4)
  /\ phase4' = IF RunsPhase4 THEN phase4 + 1 ELSE phase4
  /\ IF ~delayed THEN UNCHANGED <<pending, bytes, busy>>
     ELSE IF in[i].last
     THEN /\ pending' = Append(pending, in[i])
          /\ UNCHANGED <<bytes, busy>>
     ELSE /\ pending' = Append(pending, Held(in[i]).buf)
          /\ bytes' = bytes + Held(in[i]).charge
          /\ busy' = busy \ Consumed(<<in[i]>>)
  /\ i' = i + 1
  /\ UNCHANGED <<producer, in, pc, conf, delayed, triggered, swallow, rout, client>>

\* On an error page the first poll hands the whole chain on: after the append
\* of an inspected response, or after phase 4.
StepYields ==
  /\ InLoop /\ conf.error_page
  /\ conf.processable \/ RunsPhase4
  /\ phase4' = IF conf.processable THEN phase4 ELSE phase4 + 1
  /\ Out(in)
  /\ UNCHANGED <<producer, busy, i, conf, delayed, pending, bytes, triggered,
                 swallow, client>>

\* The filter refuses the response: an intervention (where inspection or phase
\* 4 polls), a failed append, read or allocation.  The pending chain is
\* dropped.
Refuse ==
  /\ InLoop
  /\ \/ (conf.processable \/ (delayed /\ ~RunsPhase4)) /\ phase4' = phase4
     \/ RunsPhase4 /\ phase4' = phase4 + 1
  /\ triggered' = TRUE /\ delayed' = FALSE
  /\ pending' = IF delayed THEN <<>> ELSE pending
  /\ bytes' = IF delayed THEN 0 ELSE bytes

\* ngx_http_coraza_body_filter_finalize(): a redirect can only be sent while
\* the headers are delayed; the chain is consumed and later ones swallowed.
StepRedirects ==
  /\ Refuse /\ delayed /\ (conf.processable \/ RunsPhase4)
  /\ swallow' = TRUE
  /\ busy' = busy \ Consumed(in)
  /\ Out(<<Header("redirect")>>)
  /\ UNCHANGED <<producer, i, conf, client>>

\* Anything else goes through ngx_http_filter_finalize_request(), which
\* answers the producer with an error: the page for the status while nothing
\* is sent, a reset otherwise.
StepFinalizes ==
  /\ Refuse
  /\ IF delayed
     THEN rout' = Append(rout, Header("page")) /\ in' = <<>> /\ pc' = "stopped"
     ELSE Reset
  /\ UNCHANGED <<producer, busy, i, conf, swallow, client>>

\* is_request_processed
SeenLast == \E j \in 1..Len(in) : in[j].last

AtEnd == pc = "loop" /\ i > Len(in)

\* Mutant of OverCap.
AtCap == bytes >= Cap
OverCap == bytes > Cap

\* Phase 4 is over or the cap is exceeded: the delayed header and the pending
\* chain go out; an NGX_AGAIN from the header does not keep the chain back.
Flushed == <<Header("origin")>> \o pending
Flush ==
  /\ AtEnd /\ delayed /\ (SeenLast \/ OverCap)
  /\ delayed' = FALSE /\ pending' = <<>>
  /\ Out(Flushed)
  /\ UNCHANGED <<producer, busy, i, conf, bytes, triggered, swallow, phase4, client>>

\* Writing the delayed header fails: NGX_ERROR.
FlushFails ==
  /\ AtEnd /\ delayed /\ (SeenLast \/ OverCap)
  /\ delayed' = FALSE
  /\ Reset
  /\ UNCHANGED <<producer, busy, i, conf, pending, bytes, triggered, swallow,
                 phase4, client>>

\* Under the cap: keep accumulating.
Hold ==
  /\ AtEnd /\ delayed /\ ~SeenLast /\ ~OverCap
  /\ in' = <<>> /\ pc' = "idle"
  /\ UNCHANGED <<producer, busy, i, conf, filter, rout, client>>

PassOn ==
  /\ AtEnd /\ ~delayed
  /\ Out(in)
  /\ UNCHANGED <<producer, busy, i, conf, filter, client>>

-----------------------------------------------------------------------------
Filter == Swallow \/ Enter \/ StepPasses \/ StepYields \/ StepRedirects
          \/ StepFinalizes \/ Flush \/ FlushFails \/ Hold \/ PassOn
Next == Fill \/ Write \/ Filter

\* The filter runs once called, the client reads and the origin goes on with
\* its response.
Spec == Init /\ [][Next]_vars /\ WF_vars(Filter) /\ WF_vars(Write) /\ WF_vars(Fill)

-----------------------------------------------------------------------------
(* Properties *)

\* Every variable has its type: no more is charged than was made, and links
\* hold no unit that does not exist.
TypeOK ==
  /\ made \in 0..N /\ empties \in 0..MaxEmpty /\ ended \in BOOLEAN
  /\ store \in [Slot -> 0..N] /\ busy \subseteq Slot
  /\ pc \in {"idle", "loop", "stopped", "reset"} /\ i \in 1..(MaxChain + 1)
  /\ {delayed, triggered, swallow} \subseteq BOOLEAN
  /\ bytes \in 0..N /\ phase4 \in Nat
  /\ \A b \in ToSet(in) \cup ToSet(pending) \cup ToSet(rout) :
       b \in [kind : {"mem", "stable", "empty"} \cup Headers,
              slot : Slot \cup {"none"}, unit : 0..N, last : BOOLEAN]
  /\ Len(in) <= MaxChain
  /\ client \in [headers : Seq(Headers), data : Seq(0..N)]

\* While headers are delayed and the filter has returned, pending_chain holds
\* no more data than NGX_HTTP_CORAZA_MAX_DELAYED_BODY, in whatever chains,
\* storage and order it came: worker memory is bounded on an endless response.
HeldWithinCap ==
  pc = "idle" /\ delayed =>
    Cardinality({j \in 1..Len(pending) : pending[j].kind # "empty"}) <= Cap

\* A delayed header of the origin is on its way to the client only once phase 4
\* let the response pass, or with more data held than the cap allows.
HeaderAwaitsPhase4 ==
  conf.delay /\ "origin" \in ToSet(client.headers) \cup {b.kind : b \in ToSet(rout)}
    => phase4 = 1 \/ bytes > Cap

\* Phase 4 is finalized at most once, also when a filter appends buffers behind
\* the last one.
PhaseFourOnce == phase4 <= 1

\* The filter implements Delivery: the client reads the header first, then the
\* origin's data in order and unaltered although the producer reuses its
\* storage, and nothing of the origin after a redirect or an error page.
D == INSTANCE Delivery WITH headers <- client.headers, data <- client.data,
                            closed <- pc = "reset"
Delivered == D!Spec

\* The client is always answered: with all of the origin's response, with a
\* replacement, or with a reset.  No buffer is stranded in pending_chain and
\* the producer never waits for a buffer nobody consumes: behind a redirect too,
\* where it hands in the rest of its response and gets every slot back although
\* nothing of it is sent.
NoStranding ==
  <>(\/ pc = "reset" \/ client.headers = <<"page">>
     \/ client.headers = <<"redirect">> /\ ended /\ in = <<>> /\ busy = {}
     \/ client.headers = <<"origin">> /\ Len(client.data) = conf.size)
=============================================================================
