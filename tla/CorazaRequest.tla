--------------------------- MODULE CorazaRequest ---------------------------
(***************************************************************************)
(* The life of one client request in an nginx worker that runs the Coraza  *)
(* connector: the rewrite and preaccess phase handlers, the header and     *)
(* body filters, the log handler and the pool cleanup, over every internal *)
(* redirect (a "pass") the request takes.                                  *)
(*                                                                         *)
(* Each pass creates at most one ngx_http_coraza_ctx_t and one libcoraza   *)
(* transaction, so both are indexed by the pass that created them.  A      *)
(* worker is single-threaded: a handler runs to its return, and each of    *)
(* the actions below is one path through one handler.  nginx and libcoraza *)
(* are external; they are modelled from the calls the connector makes.     *)
(***************************************************************************)
EXTENDS Integers, Sequences, FiniteSets, SequencesExt

CONSTANTS
  MaxPass,      \* bound on passes (nginx: NGX_HTTP_MAX_URI_CHANGES)
  MaxHop,       \* bound on location changes within a pass (rewrite ... last)
  MaxBody,      \* bound on the chunks of the request body
  MaxResp,      \* bound on the buffers of one response
  MaxDelayed,   \* NGX_HTTP_CORAZA_MAX_DELAYED_BODY, in buffers
  Hits,         \* the kinds of intervention rules may cause
  Origins,      \* the kinds of response content handlers give
  Reentry,      \* may another module re-run the PREACCESS phase?
  Faults        \* allocation failures that are allowed to happen

ASSUME BoundsAssumption ==
  /\ MaxPass \in Nat \ {0}
  /\ MaxHop \in Nat
  /\ MaxBody \in Nat
  /\ MaxResp \in Nat \ {0}
  /\ MaxDelayed \in Nat

ASSUME SwitchAssumption ==
  /\ Hits \subseteq {"deny", "deny3xx", "redirect", "allow"}
  /\ Origins \subseteq {"plain", "redirect", "stream"}
  /\ Reentry \in BOOLEAN
  /\ Faults \subseteq {"cleanup_add", "location"}

Pass == 1..MaxPass

\* What coraza_intervention() can report.  "redirect" is a 3xx with a target,
\* "deny3xx" a 3xx status without one, "allow" an intervention with status 200.
Denials == Hits \ {"allow"}

Locs == [enable : BOOLEAN, delay : BOOLEAN]

Control == {"rewrite", "post_rewrite", "preaccess", "submit", "wait_body",
            "content", "header", "body", "special", "log", "cleanup",
            "destroyed"}

\* The status a handler hands to ngx_http_finalize_request().
Statuses == Denials \cup {"500", "4xx"}

Kinds == {"origin", "special", "redirect"}

NoHeader == [kind |-> "none", pass |-> 0, status |-> "none", locations |-> {}]

VARIABLES
  pc,      \* where the request is
  pass,    \* the current pass
  hops,    \* location changes so far
  loc,     \* the location configuration in force
  r,       \* the ngx_http_request_t fields the connector reads or writes
  resp,    \* the response now going through the filters
  rc,      \* the status being finalized
  ctx,     \* r->ctx[ngx_http_coraza_module]: 0, or the pass that set it
  c,       \* the contexts
  t,       \* the libcoraza transactions
  reg,     \* the pool cleanups still registered
  out      \* what has been handed to the client

vars == <<pc, pass, hops, loc, r, resp, rc, ctx, c, t, reg, out>>

-----------------------------------------------------------------------------
(* State *)

\* ngx_pcalloc() of the context.
NewCtx == [triggered |-> FALSE, waiting |-> FALSE, requested |-> FALSE,
           submitted |-> FALSE, processed |-> FALSE, delayed |-> FALSE,
           processable |-> FALSE, logged |-> FALSE, pending |-> 0]

CtxType == [triggered : BOOLEAN, waiting : BOOLEAN, requested : BOOLEAN,
            submitted : BOOLEAN, processed : BOOLEAN, delayed : BOOLEAN,
            processable : BOOLEAN, logged : BOOLEAN, pending : Nat]

\* A libcoraza transaction: the rule phases it evaluated in order, the chunks
\* of request body it was given, its interruption, the status reported for the
\* audit log, the audit records written (audit holds the status of the last
\* one) and whether a call ever reached it through a dead handle.
NoTx == [handle |-> "none", owned |-> FALSE, ran |-> <<>>, appended |-> 0,
         hit |-> "none", code |-> "none", audit |-> "none", logs |-> 0,
         frees |-> 0, bad |-> FALSE]

TxType == [handle : {"none", "live", "freed"}, owned : BOOLEAN,
           ran : Seq(1..4), appended : Nat, hit : Hits \cup {"none"},
           code : Hits \cup {"none"}, audit : Hits \cup {"none"},
           logs : Nat, frees : Nat, bad : BOOLEAN]

RequestType == [error_page : BOOLEAN, header_sent : BOOLEAN,
                header_only : BOOLEAN, head : BOOLEAN,
                location : {"none", "origin", "waf"},
                locations : SUBSET {"origin", "waf"},
                body : {"unread", "read", "discarded"}, len : 0..MaxBody]

OutType == [hdr : [kind : Kinds \cup {"none"}, pass : 0..MaxPass,
                   status : Statuses \cup {"none", "origin"},
                   locations : SUBSET {"origin", "waf"}],
            units : Seq([kind : {"origin", "special"}, pass : Pass]),
            complete : BOOLEAN]

RespType == [kind : {"origin", "special"}, stream : BOOLEAN, seen : Nat]
NoResponse == [kind |-> "special", stream |-> FALSE, seen |-> 0]

Init ==
  /\ pc = "rewrite" /\ pass = 1 /\ hops = 0
  /\ loc \in Locs
  /\ r \in [error_page : {FALSE}, header_sent : {FALSE}, header_only : {FALSE},
            head : BOOLEAN, location : {"none"}, locations : {{}},
            body : {"unread"}, len : 0..MaxBody]
  /\ resp = NoResponse /\ rc = "500" /\ ctx = 0
  /\ c = [i \in Pass |-> NewCtx]
  /\ t = [i \in Pass |-> NoTx]
  /\ reg = {}
  /\ out = [hdr |-> NoHeader, units |-> <<>>, complete |-> FALSE]

-----------------------------------------------------------------------------
(* libcoraza, as the connector calls it *)

\* Any call on a handle that is not live is a call on a dead transaction.
Call(x) == [x EXCEPT !.bad = @ \/ x.handle # "live"]

\* The result of coraza_process_{request,response}_{headers,body}: an error,
\* or an evaluation that ends with or without an interruption.  An
\* interruption is never withdrawn.
Outcomes(x) == {"error"} \cup
               (IF x.hit = "none" THEN Hits \cup {"none"} ELSE {x.hit})

Evaluate(x, phase, o) ==
  IF o = "error" THEN Call(x)
  ELSE [Call(x) EXCEPT !.ran = Append(@, phase), !.hit = o]

\* coraza_append_{request,response}_body: a body limit may interrupt.
Appends(x) == IF x.hit = "none" THEN Hits \cup {"none"} ELSE {x.hit}

\* coraza_process_logging writes the audit record with the status last reported.
ProcessLogging(x) ==
  IF x.handle = "live" THEN [x EXCEPT !.logs = @ + 1, !.audit = x.code]
  ELSE Call(x)

FreeTransaction(x) == [Call(x) EXCEPT !.handle = "freed", !.frees = @ + 1]

-----------------------------------------------------------------------------
(* ngx_http_coraza_process_intervention() *)

\* Mutant of Intervene: the early log is written before the status is set.
InterveneLogsFirst(x, logged, early) ==
  IF x.hit \notin Denials THEN Call(x)
  ELSE LET y == IF early /\ loc.enable /\ ~logged THEN ProcessLogging(x) ELSE Call(x)
       IN  [y EXCEPT !.code = x.hit]

\* The transaction afterwards: the denial's status is reported for the audit
\* log, and the request-headers poll (early) writes the record at once.
\* The log handler it calls does nothing where the WAF is off or the
\* transaction is logged already.
Intervene(x, logged, early) ==
  IF x.hit \notin Denials THEN Call(x)
  ELSE LET y == [Call(x) EXCEPT !.code = x.hit]
       IN  IF early /\ loc.enable /\ ~logged THEN ProcessLogging(y) ELSE y

\* Mutant of InterveneCtx: the early log does not claim the transaction.
InterveneUnclaimed(cc, x, early) == cc

\* The context afterwards.
InterveneCtx(cc, x, early) ==
  [cc EXCEPT !.logged = @ \/ (early /\ x.hit \in Denials)]

\* The value returned: NGX_OK, NGX_ERROR once headers are out, or the status.
InterveneRet(x) ==
  IF x.hit \notin Denials THEN "ok"
  ELSE IF r.header_sent THEN "error" ELSE x.hit

\* The request afterwards: a redirect with a target adds a Location header,
\* which becomes headers_out.location unless its allocation failed.
Installs == IF "location" \in Faults THEN BOOLEAN ELSE {TRUE}
InterveneReq(x, installed) ==
  IF x.hit = "redirect" /\ ~r.header_sent /\ installed
  THEN [r EXCEPT !.location = "waf", !.locations = @ \cup {"waf"}]
  ELSE r

\* ngx_http_coraza_poll_after_process(): an engine error is a 500.
PollRet(x, o) == IF o = "error" THEN "500" ELSE InterveneRet(x)
Polled(x, o, logged, early) ==
  IF o = "error" THEN x ELSE Intervene(x, logged, early)
PolledCtx(cc, x, o, early) ==
  IF o = "error" THEN cc ELSE InterveneCtx(cc, x, early)
PolledReq(x, o, installed) ==
  IF o = "error" THEN r ELSE InterveneReq(x, installed)

\* What a phase handler does with the poll's result: an error page is never
\* interrupted again, an NGX_ERROR is a 500.
Verdict(ret) ==
  IF r.error_page \/ ret = "ok" THEN "declined"
  ELSE IF ret = "error" THEN "500" ELSE ret

\* nginx: a declined phase goes on to next, a status is finalized.
Proceed(v, next) ==
  /\ pc' = IF v = "declined" THEN next ELSE "special"
  /\ rc' = IF v = "declined" THEN rc ELSE v

-----------------------------------------------------------------------------
(* ngx_http_coraza_rewrite_handler() and ngx_http_coraza_create_ctx() *)

Inspected == loc.enable /\ ctx = 0

RewriteDeclined ==
  /\ pc = "rewrite" /\ ~Inspected
  /\ pc' = "post_rewrite"
  /\ UNCHANGED <<pass, hops, loc, r, resp, rc, ctx, c, t, reg, out>>

\* create_ctx() fails before the transaction exists (allocation, no WAF, the
\* transaction id's complex value, a zero handle).
CreateCtxFails ==
  /\ pc = "rewrite" /\ Inspected
  /\ Proceed("500", "post_rewrite")
  /\ UNCHANGED <<pass, hops, loc, r, resp, ctx, c, t, reg, out>>

\* ngx_pool_cleanup_add() fails: the transaction is freed and its handle
\* zeroed, but the context stays set.
CreateCtxUnregistered ==
  /\ "cleanup_add" \in Faults
  /\ pc = "rewrite" /\ Inspected
  /\ ctx' = pass
  /\ c' = [c EXCEPT ![pass] = NewCtx]
  /\ t' = [t EXCEPT ![pass] = [NoTx EXCEPT !.handle = "freed", !.frees = 1]]
  /\ Proceed("500", "post_rewrite")
  /\ UNCHANGED <<pass, hops, loc, r, resp, reg, out>>

\* The transaction with its cleanup registered.
Created == [NoTx EXCEPT !.handle = "live", !.owned = TRUE]

\* A later step fails before any rule ran: ngx_pstrdup() of the transaction
\* id, an address, the URI or the method (the flag stays clear), or a header
\* longer than INT_MAX (the flag is set).
RewriteFails ==
  /\ pc = "rewrite" /\ Inspected
  /\ ctx' = pass /\ reg' = reg \cup {pass}
  /\ t' = [t EXCEPT ![pass] = Created]
  /\ \E long \in BOOLEAN : c' = [c EXCEPT ![pass] = [NewCtx EXCEPT !.triggered = long]]
  /\ Proceed("500", "post_rewrite")
  /\ UNCHANGED <<pass, hops, loc, r, resp, out>>

\* Connection, URI and headers are submitted, phase 1 runs and is polled with
\* the early log.
RewriteInspects ==
  /\ pc = "rewrite" /\ Inspected
  /\ ctx' = pass /\ reg' = reg \cup {pass}
  /\ \E o \in Outcomes(Created), installed \in Installs :
       LET x == Evaluate(Created, 1, o)
           v == Verdict(PollRet(x, o))
       IN  /\ t' = [t EXCEPT ![pass] = Polled(x, o, FALSE, TRUE)]
           /\ c' = [c EXCEPT ![pass] = [PolledCtx(NewCtx, x, o, TRUE) EXCEPT
                                          !.triggered = v # "declined"]]
           /\ r' = PolledReq(x, o, installed)
           /\ Proceed(v, "post_rewrite")
  /\ UNCHANGED <<pass, hops, loc, resp, out>>

\* nginx's post-rewrite phase: on to PREACCESS, or, after `rewrite ... last`,
\* back to the rewrite phase of another location with r->ctx kept.
PostRewrite ==
  /\ pc = "post_rewrite"
  /\ \/ /\ pc' = "preaccess"
        /\ UNCHANGED <<hops, loc>>
     \/ /\ hops < MaxHop /\ hops' = hops + 1
        /\ loc' \in Locs
        /\ pc' = "rewrite"
  /\ UNCHANGED <<pass, r, resp, rc, ctx, c, t, reg, out>>

-----------------------------------------------------------------------------
(* ngx_http_coraza_pre_access_handler() *)

Inspecting == loc.enable /\ (ctx # 0 => ~c[ctx].triggered)

PreAccessDeclined ==
  /\ pc = "preaccess" /\ ~Inspecting
  /\ pc' = "content"
  /\ UNCHANGED <<pass, hops, loc, r, resp, rc, ctx, c, t, reg, out>>

\* Mutant of RequestBodyPhase: an engine error is only polled, not failed on.
RequestBodyPhaseFailsOpen(x, cc) ==
  \E o \in Outcomes(x), installed \in Installs :
    LET y == Evaluate(x, 2, o)
        v == Verdict(InterveneRet(y))
    IN  /\ t' = [t EXCEPT ![ctx] = Polled(y, o, cc.logged, FALSE)]
        /\ c' = [c EXCEPT ![ctx] = [cc EXCEPT !.triggered = @ \/ v # "declined"]]
        /\ r' = PolledReq(y, o, installed)
        /\ Proceed(v, "content")

\* ngx_http_coraza_process_request_body_phase() on transaction x, with the
\* context cc.
RequestBodyPhase(x, cc) ==
  \E o \in Outcomes(x), installed \in Installs :
    LET y == Evaluate(x, 2, o)
        v == IF o = "error" THEN "500" ELSE Verdict(InterveneRet(y))
    IN  /\ t' = [t EXCEPT ![ctx] = Polled(y, o, cc.logged, FALSE)]
        /\ c' = [c EXCEPT ![ctx] = [cc EXCEPT !.triggered = @ \/ v # "declined"]]
        /\ r' = PolledReq(y, o, installed)
        /\ Proceed(v, "content")

\* Without a context the handler can only answer 500; without request-body
\* access it evaluates phase 2 at once and leaves body_requested clear.
PreAccessPhase2 ==
  /\ pc = "preaccess" /\ Inspecting
  /\ IF ctx = 0
     THEN Proceed("500", "content") /\ UNCHANGED <<r, c, t>>
     ELSE ~c[ctx].requested /\ RequestBodyPhase(Call(t[ctx]), c[ctx])
  /\ UNCHANGED <<pass, hops, loc, resp, ctx, reg, out>>

\* ngx_http_read_client_request_body(): the whole body is there (or was read
\* or discarded in an earlier pass), it is still arriving, or it fails.
PreAccessReads ==
  /\ pc = "preaccess" /\ Inspecting
  /\ ctx # 0 /\ ~c[ctx].requested
  /\ \/ /\ r' = [r EXCEPT !.body = IF @ = "unread" THEN "read" ELSE @]
        /\ c' = [c EXCEPT ![ctx].requested = TRUE]
        /\ pc' = "submit" /\ rc' = rc
     \/ /\ r.body = "unread" /\ r.len > 0
        /\ c' = [c EXCEPT ![ctx].requested = TRUE, ![ctx].waiting = TRUE]
        /\ pc' = "wait_body" /\ rc' = rc
        /\ r' = r
     \/ /\ r.body = "unread" /\ r.len > 0
        /\ c' = [c EXCEPT ![ctx].requested = TRUE]
        /\ Proceed("4xx", "content")
        /\ r' = r
  /\ t' = [t EXCEPT ![ctx] = Call(@)]
  /\ UNCHANGED <<pass, hops, loc, resp, ctx, reg, out>>

\* Mutant of RequestRead: waiting_more_body is not cleared.
RequestReadKeepsWaiting ==
  /\ pc = "wait_body" /\ c[ctx].waiting
  /\ r' = [r EXCEPT !.body = "read"]
  /\ pc' = "preaccess"
  /\ UNCHANGED <<pass, hops, loc, resp, rc, ctx, c, t, reg, out>>

\* ngx_http_coraza_request_read(): the rest of the body has arrived and the
\* phases run again.
RequestRead ==
  /\ pc = "wait_body" /\ c[ctx].waiting
  /\ r' = [r EXCEPT !.body = "read"]
  /\ c' = [c EXCEPT ![ctx].waiting = FALSE]
  /\ pc' = "preaccess"
  /\ UNCHANGED <<pass, hops, loc, resp, rc, ctx, t, reg, out>>

\* The body fails while it is awaited (timeout, limit, malformed chunk):
\* nginx finalizes the request and never calls the read handler.
RequestReadFails ==
  /\ pc = "wait_body"
  /\ Proceed("4xx", "content")
  /\ UNCHANGED <<pass, hops, loc, r, resp, ctx, c, t, reg, out>>

\* The handler is entered with the body already requested: it goes on to
\* submit it, unless it is still waiting (NGX_DONE).
PreAccessResumes ==
  /\ pc = "preaccess" /\ Inspecting
  /\ ctx # 0 /\ c[ctx].requested
  /\ pc' = IF c[ctx].waiting THEN "wait_body" ELSE "submit"
  /\ UNCHANGED <<pass, hops, loc, r, resp, rc, ctx, c, t, reg, out>>

\* Mutant of ToSubmit: body_submitted is not consulted.
ToSubmitAgain == r.body # "discarded"

\* Is there a body still to be submitted?
ToSubmit == ~c[ctx].submitted /\ r.body # "discarded"

\* Submitted already, or r->request_body is NULL: phase 2 is not evaluated.
SubmitDeclined ==
  /\ pc = "submit" /\ ~ToSubmit
  /\ pc' = "content"
  /\ UNCHANGED <<pass, hops, loc, r, resp, rc, ctx, c, t, reg, out>>

\* Chunk k+1 cannot be read or appended: 500.  On an error page the first
\* chunk's poll yields, so only the first chunk can fail.
SubmitFails ==
  /\ pc = "submit" /\ ToSubmit /\ r.len > 0
  /\ \E k \in 0..(r.len - 1) :
       /\ r.error_page => k = 0
       /\ t' = [t EXCEPT ![ctx] = [Call(t[ctx]) EXCEPT !.appended = @ + k]]
  /\ c' = [c EXCEPT ![ctx].submitted = TRUE, ![ctx].triggered = TRUE]
  /\ Proceed("500", "content")
  /\ UNCHANGED <<pass, hops, loc, r, resp, ctx, reg, out>>

\* On an error page the poll after the first chunk (or the final poll of a
\* body of at most one chunk) yields with NGX_DECLINED.
SubmitYields ==
  /\ pc = "submit" /\ ToSubmit /\ r.error_page
  /\ \E h \in Appends(t[ctx]), installed \in Installs :
       LET k == IF r.len = 0 THEN 0 ELSE 1
           x == [Call(t[ctx]) EXCEPT !.appended = @ + k,
                                     !.hit = IF k = 0 THEN @ ELSE h]
       IN  /\ t' = [t EXCEPT ![ctx] = Intervene(x, c[ctx].logged, FALSE)]
           /\ r' = InterveneReq(x, installed)
  /\ c' = [c EXCEPT ![ctx].submitted = TRUE]
  /\ pc' = "content"
  /\ UNCHANGED <<pass, hops, loc, resp, rc, ctx, reg, out>>

\* The poll after chunk k finds an interruption (the body limit).
SubmitInterrupted ==
  /\ pc = "submit" /\ ToSubmit /\ ~r.error_page
  /\ \E k \in 1..r.len, h \in Appends(t[ctx]) \cap Denials, installed \in Installs :
       LET x == [Call(t[ctx]) EXCEPT !.appended = @ + k, !.hit = h]
       IN  /\ t' = [t EXCEPT ![ctx] = Intervene(x, c[ctx].logged, FALSE)]
           /\ r' = InterveneReq(x, installed)
           /\ Proceed(Verdict(InterveneRet(x)), "content")
  /\ c' = [c EXCEPT ![ctx].submitted = TRUE, ![ctx].triggered = TRUE]
  /\ UNCHANGED <<pass, hops, loc, resp, ctx, reg, out>>

\* Every chunk is appended, no poll finds a denial, and phase 2 runs.
SubmitCompletes ==
  /\ pc = "submit" /\ ToSubmit /\ ~r.error_page
  /\ \E h \in Appends(t[ctx]) \ Denials :
       RequestBodyPhase(
         [Call(t[ctx]) EXCEPT !.appended = @ + r.len,
                              !.hit = IF r.len = 0 THEN @ ELSE h],
         [c[ctx] EXCEPT !.submitted = TRUE])
  /\ UNCHANGED <<pass, hops, loc, resp, ctx, reg, out>>

\* A module of a later PREACCESS slot re-runs the phase.
PreAccessAgain ==
  /\ Reentry /\ pc = "content"
  /\ hops < MaxHop /\ hops' = hops + 1
  /\ pc' = "preaccess"
  /\ UNCHANGED <<pass, loc, r, resp, rc, ctx, c, t, reg, out>>

-----------------------------------------------------------------------------
(* nginx: the content handler, special responses, internal redirects *)

\* A content handler may read or discard a body nobody asked for.
BodyAfterContent ==
  IF r.body = "unread" THEN {"unread", "read", "discarded"} ELSE {r.body}

\* The content handler has a response: a plain one, one with a Location of its
\* own, or a stream (101 Switching Protocols, text/event-stream).
OriginResponds ==
  /\ pc = "content"
  /\ \E b \in BodyAfterContent, o \in Origins :
       /\ r' = [r EXCEPT !.body = b,
                         !.location = IF o = "redirect" THEN "origin" ELSE @,
                         !.locations = IF o = "redirect" THEN @ \cup {"origin"} ELSE @]
       /\ resp' = [kind |-> "origin", stream |-> o = "stream", seen |-> 0]
  /\ pc' = "header"
  /\ UNCHANGED <<pass, hops, loc, rc, ctx, c, t, reg, out>>

\* The content handler answers with an error status.
OriginFails ==
  /\ pc = "content"
  /\ \E b \in BodyAfterContent : r' = [r EXCEPT !.body = b]
  /\ Proceed("4xx", "content")
  /\ UNCHANGED <<pass, hops, loc, resp, ctx, c, t, reg, out>>

\* Mutant of StartPass: the contexts survive the redirect.
StartPassKeepsCtx(error_page, body) ==
  /\ pass < MaxPass /\ pass' = pass + 1
  /\ loc' \in Locs
  /\ r' = [r EXCEPT !.error_page = error_page, !.body = body]
  /\ pc' = "rewrite"
  /\ UNCHANGED <<hops, resp, rc, ctx, c, t, reg, out>>

\* ngx_http_internal_redirect() or ngx_http_named_location(): every module
\* context is forgotten and the phases start again in another location.
StartPass(error_page, body) ==
  /\ pass < MaxPass /\ pass' = pass + 1
  /\ loc' \in Locs
  /\ ctx' = 0
  /\ r' = [r EXCEPT !.error_page = error_page, !.body = body]
  /\ pc' = "rewrite"
  /\ UNCHANGED <<hops, resp, rc, c, t, reg, out>>

\* try_files, index, X-Accel-Redirect.
InternalRedirect ==
  /\ pc = "content"
  /\ \E b \in BodyAfterContent : StartPass(r.error_page, b)

\* ngx_http_special_response_handler(): the configured error page, unless the
\* request is on one already (recursive_error_pages keeps the flag clear) ...
ErrorPage ==
  /\ pc = "special" /\ ~r.error_page
  /\ \E recursive \in BOOLEAN : StartPass(~recursive, r.body)

\* ... or the built-in page; configured error pages that do not match the
\* status set the flag as well.
DefaultPage ==
  /\ pc = "special"
  /\ \E flag \in {r.error_page, TRUE} : r' = [r EXCEPT !.error_page = flag]
  /\ resp' = [kind |-> "special", stream |-> FALSE, seen |-> 0]
  /\ pc' = "header"
  /\ UNCHANGED <<pass, hops, loc, rc, ctx, c, t, reg, out>>

\* The client goes away, a timeout fires or the origin breaks off.
Terminate ==
  /\ pc \in {"wait_body", "content", "body"}
  /\ pc' = "log"
  /\ UNCHANGED <<pass, hops, loc, r, resp, rc, ctx, c, t, reg, out>>

-----------------------------------------------------------------------------
(* ngx_http_coraza_header_filter() *)

\* The next header filter writes the header; it marks a HEAD response as
\* header-only.
HeaderOf(kind, status, rr) ==
  [kind |-> kind, pass |-> pass, status |-> status, locations |-> rr.locations]
SendHeader(kind, status, rr) ==
  /\ r' = [rr EXCEPT !.header_sent = TRUE, !.header_only = @ \/ rr.head]
  /\ out' = [out EXCEPT !.hdr = HeaderOf(kind, status, rr)]

RespStatus == IF resp.kind = "special" THEN rc ELSE "origin"

\* ngx_http_filter_finalize_request(): the headers are cleared and the special
\* response for the status replaces the one in flight.
FilterFinalize(status, rr) ==
  /\ r' = [rr EXCEPT !.location = "none", !.locations = {}]
  /\ pc' = "special" /\ rc' = status
  /\ out' = out

\* Mutants of IsRedirectStatus: a status is forgotten; the header alone decides.
IsRedirectWithout302(status) == status = "deny3xx"
IsRedirectAny(status) == TRUE
\* ngx_http_coraza_is_redirect_status()
IsRedirectStatus(status) == status \in {"deny3xx", "redirect"}

PrepareRedirectWithBody(rr) == rr                   \* mutant of PrepareRedirect
\* ngx_http_coraza_prepare_redirect()
PrepareRedirect(rr) == [rr EXCEPT !.header_only = TRUE]

\* nginx refuses to send a second header.
HeaderRefused ==
  /\ pc = "header" /\ r.header_sent
  /\ pc' = "log"
  /\ UNCHANGED <<pass, hops, loc, r, resp, rc, ctx, c, t, reg, out>>

Bypassed == IF ctx = 0 THEN TRUE ELSE c[ctx].triggered \/ c[ctx].processed

HeaderBypass ==
  /\ pc = "header" /\ ~r.header_sent /\ Bypassed
  /\ SendHeader(resp.kind, RespStatus, r)
  /\ pc' = IF r'.header_only THEN "log" ELSE "body"
  /\ UNCHANGED <<pass, hops, loc, resp, rc, ctx, c, t, reg>>

\* A header cannot be collected or submitted: the filter returns NGX_ERROR.
HeaderFails ==
  /\ pc = "header" /\ ~r.header_sent /\ ~Bypassed
  /\ c' = [c EXCEPT ![ctx].processed = TRUE]
  /\ t' = [t EXCEPT ![ctx] = Call(@)]
  /\ pc' = "log"
  /\ UNCHANGED <<pass, hops, loc, r, resp, rc, ctx, reg, out>>

\* When the headers are held back until phase 4.
Delays(rr) ==
  /\ loc.delay /\ ~rr.head /\ ~rr.header_only /\ ~rr.error_page
  /\ ~resp.stream

\* Phase 3 runs, body processability is asked, and the poll lets the response
\* pass: it is held back or forwarded.
HeaderInspects ==
  /\ pc = "header" /\ ~r.header_sent /\ ~Bypassed
  /\ \E o \in Outcomes(t[ctx]), proc \in BOOLEAN, installed \in Installs :
       LET x   == Evaluate(t[ctx], 3, o)
           ret == PollRet(x, o)
           rr  == PolledReq(x, o, installed)
           cc  == [c[ctx] EXCEPT !.processed = TRUE, !.processable = proc]
       IN  /\ r.error_page \/ ret = "ok"
           /\ t' = [t EXCEPT ![ctx] = Polled(x, o, cc.logged, FALSE)]
           /\ IF Delays(rr)
              THEN /\ c' = [c EXCEPT ![ctx] = [cc EXCEPT !.delayed = TRUE, !.pending = 0]]
                   /\ pc' = "body"
                   /\ UNCHANGED <<r, out>>
              ELSE /\ c' = [c EXCEPT ![ctx] = cc]
                   /\ SendHeader(resp.kind, RespStatus, rr)
                   /\ pc' = IF r'.header_only THEN "log" ELSE "body"
  /\ UNCHANGED <<pass, hops, loc, resp, rc, ctx, reg>>

\* The poll blocks the response: a redirect is sent from here, anything else
\* is finalized.
HeaderBlocks ==
  /\ pc = "header" /\ ~r.header_sent /\ ~Bypassed /\ ~r.error_page
  /\ \E o \in Outcomes(t[ctx]), proc \in BOOLEAN, installed \in Installs :
       LET x   == Evaluate(t[ctx], 3, o)
           ret == PollRet(x, o)
           rr  == PolledReq(x, o, installed)
       IN  /\ ret # "ok"
           /\ t' = [t EXCEPT ![ctx] = Polled(x, o, c[ctx].logged, FALSE)]
           /\ c' = [c EXCEPT ![ctx] = [@ EXCEPT !.processed = TRUE,
                                                !.processable = proc,
                                                !.triggered = TRUE]]
           /\ IF IsRedirectStatus(ret) /\ rr.location # "none"
              THEN /\ SendHeader("redirect", ret, PrepareRedirect(rr))
                   /\ pc' \in {"body", "log"} /\ rc' = rc
              ELSE FilterFinalize(ret, rr)
  /\ UNCHANGED <<pass, hops, loc, resp, ctx, reg>>

-----------------------------------------------------------------------------
(* ngx_http_coraza_body_filter(), for chains of one buffer *)

\* The producer hands on one buffer; a special page is a single last buffer.
LastFlags ==
  IF resp.kind = "special" \/ resp.seen = MaxResp - 1 THEN {TRUE} ELSE BOOLEAN
Unit == [kind |-> resp.kind, pass |-> pass]
NextBuffer(last) ==
  /\ resp' = [resp EXCEPT !.seen = @ + 1]
  /\ pc' = IF last THEN "log" ELSE "body"
Sent(o, n, last) ==
  [o EXCEPT !.units = @ \o [j \in 1..n |-> Unit], !.complete = last]

\* No context, or an intervention already took over: a buffer that follows a
\* header-only redirect is swallowed, any other is forwarded.
TakenOver == IF ctx = 0 THEN TRUE ELSE c[ctx].triggered
SwallowNothing == FALSE                                 \* mutant of Swallows
Swallows == ctx # 0 /\ r.header_only
BodyBypass ==
  /\ pc = "body" /\ TakenOver
  /\ \E last \in LastFlags :
       /\ NextBuffer(last)
       /\ out' = IF Swallows THEN out ELSE Sent(out, 1, last)
  /\ UNCHANGED <<pass, hops, loc, r, rc, ctx, c, t, reg>>

\* The buffer is appended and polled, when the response is to be inspected ...
Buffered(x, cc) ==
  IF cc.processable
  THEN {Intervene([Call(x) EXCEPT !.hit = h], cc.logged, FALSE) : h \in Appends(x)}
  ELSE {x}
\* Mutants of Finished: phase 4 runs on every buffer; phase 4 runs only when the
\* body is inspected.
FinishedAlways(x, cc, last) ==
  {Intervene(Evaluate(x, 4, o), cc.logged, FALSE) : o \in Outcomes(x) \ {"error"}}
FinishedIfProcessable(x, cc, last) ==
  IF last /\ cc.processable /\ ~r.error_page
  THEN {Intervene(Evaluate(x, 4, o), cc.logged, FALSE) : o \in Outcomes(x) \ {"error"}}
  ELSE {x}
\* ... and the last buffer runs phase 4, unless the poll just before it was
\* made on an error page and the filter returned there.
Finished(x, cc, last) ==
  IF last /\ ~(r.error_page /\ cc.processable)
  THEN {Intervene(Evaluate(x, 4, o), cc.logged, FALSE) : o \in Outcomes(x) \ {"error"}}
  ELSE {x}
Passes(x) == r.error_page \/ InterveneRet(x) = "ok"

\* The transactions with which the loop body ends without a return.
Inspections(x, cc, last) ==
  UNION {{z \in Finished(y, cc, last) : Passes(z)} :
           y \in {w \in Buffered(x, cc) : Passes(w)}}

BodyForwards ==
  /\ pc = "body" /\ ~TakenOver /\ ~c[ctx].delayed
  /\ \E last \in LastFlags :
       /\ \E x \in Inspections(t[ctx], c[ctx], last) : t' = [t EXCEPT ![ctx] = x]
       /\ NextBuffer(last)
       /\ out' = Sent(out, 1, last)
  /\ UNCHANGED <<pass, hops, loc, r, rc, ctx, c, reg>>

\* The headers are delayed and neither the last buffer nor the cap is reached:
\* the buffer is copied to pending_chain.
BodyHolds ==
  /\ pc = "body" /\ ~TakenOver /\ c[ctx].delayed
  /\ FALSE \in LastFlags
  /\ c[ctx].pending < MaxDelayed
  /\ \E x \in Inspections(t[ctx], c[ctx], FALSE) : t' = [t EXCEPT ![ctx] = x]
  /\ c' = [c EXCEPT ![ctx].pending = @ + 1]
  /\ NextBuffer(FALSE)
  /\ UNCHANGED <<pass, hops, loc, r, rc, ctx, reg, out>>

\* Phase 4 is over, or more is pending than the cap allows: headers and
\* pending buffers go out, the current one last.
BodyFlushes ==
  /\ pc = "body" /\ ~TakenOver /\ c[ctx].delayed
  /\ \E last \in LastFlags :
       /\ last \/ c[ctx].pending >= MaxDelayed
       /\ \E x \in Inspections(t[ctx], c[ctx], last) : t' = [t EXCEPT ![ctx] = x]
       /\ NextBuffer(last)
       /\ r' = [r EXCEPT !.header_sent = TRUE]
       /\ out' = Sent([out EXCEPT !.hdr = HeaderOf(resp.kind, RespStatus, r)],
                      c[ctx].pending + 1, last)
  /\ c' = [c EXCEPT ![ctx].delayed = FALSE, ![ctx].pending = 0]
  /\ UNCHANGED <<pass, hops, loc, rc, ctx, reg>>

\* The returns from the loop body: the transaction and the status finalized.
\* A failed append or phase 4 and an allocation failure while buffering are a
\* 500; so is an interruption once the headers are out.
BlockStatus(x) == IF InterveneRet(x) = "error" THEN "500" ELSE InterveneRet(x)
Refusals(x, cc, last) ==
  LET appended == Buffered(x, cc)
      passed   == {y \in appended : Passes(y)}
      finished == UNION {Finished(y, cc, last) : y \in passed}
      broken   == (IF cc.processable THEN {Call(x)} ELSE {})
                  \cup (IF last /\ ~(r.error_page /\ cc.processable)
                        THEN {Call(y) : y \in passed} ELSE {})
                  \cup (IF cc.delayed THEN {z \in finished : Passes(z)} ELSE {})
  IN  {[tx |-> y, status |-> "500"] : y \in broken}
      \cup {[tx |-> y, status |-> BlockStatus(y)] :
              y \in {z \in appended \cup finished : ~Passes(z)}}

\* ngx_http_coraza_body_filter_finalize(): only a delayed redirect can still be
\* sent from here; the producer may go on delivering buffers after it.
BodyBlocks ==
  /\ pc = "body" /\ ~TakenOver
  /\ \E last \in LastFlags, installed \in Installs :
     \E b \in Refusals(t[ctx], c[ctx], last) :
       LET rr == IF b.status = "redirect" THEN InterveneReq(b.tx, installed) ELSE r
       IN  /\ t' = [t EXCEPT ![ctx] = b.tx]
           /\ IF c[ctx].delayed /\ IsRedirectStatus(b.status) /\ rr.location # "none"
              THEN /\ SendHeader("redirect", b.status, PrepareRedirect(rr))
                   /\ NextBuffer(last) /\ rc' = rc
              ELSE FilterFinalize(b.status, rr) /\ resp' = resp
  /\ c' = [c EXCEPT ![ctx] = [@ EXCEPT !.triggered = TRUE, !.delayed = FALSE,
                                       !.pending = 0]]
  /\ UNCHANGED <<pass, hops, loc, ctx, reg>>

-----------------------------------------------------------------------------
(* ngx_http_coraza_log_handler() and ngx_http_coraza_cleanup() *)

Logs == loc.enable /\ ctx # 0 /\ (ctx # 0 => ~c[ctx].logged)

\* ngx_http_free_request() runs the LOG phase ...
LogHandler ==
  /\ pc = "log"
  /\ IF Logs
     THEN /\ t' = [t EXCEPT ![ctx] = ProcessLogging(@)]
          /\ c' = [c EXCEPT ![ctx].logged = TRUE]
     ELSE UNCHANGED <<c, t>>
  /\ pc' = "cleanup"
  /\ UNCHANGED <<pass, hops, loc, r, resp, rc, ctx, reg, out>>

\* Mutant of CleanUp: the transaction is freed before it is logged.
CleanUpFreesFirst(x, logged) ==
  IF logged THEN FreeTransaction(x) ELSE ProcessLogging(FreeTransaction(x))

\* ... and then destroys the pool, last registered cleanup first.
CleanUp(x, logged) ==
  FreeTransaction(IF logged THEN x ELSE ProcessLogging(x))

Cleanup ==
  /\ pc = "cleanup"
  /\ \E i \in reg :
       /\ \A j \in reg : j <= i
       /\ t' = [t EXCEPT ![i] = CleanUp(@, c[i].logged)]
       /\ c' = [c EXCEPT ![i].logged = TRUE]
       /\ reg' = reg \ {i}
  /\ UNCHANGED <<pc, pass, hops, loc, r, resp, rc, ctx, out>>

PoolDestroyed ==
  /\ pc = "cleanup" /\ reg = {}
  /\ pc' = "destroyed"
  /\ UNCHANGED <<pass, hops, loc, r, resp, rc, ctx, c, t, reg, out>>

-----------------------------------------------------------------------------
Rewrite   == RewriteDeclined \/ CreateCtxFails \/ CreateCtxUnregistered
             \/ RewriteFails \/ RewriteInspects
PreAccess == PreAccessDeclined \/ PreAccessPhase2 \/ PreAccessReads
             \/ PreAccessResumes \/ SubmitDeclined \/ SubmitFails
             \/ SubmitYields \/ SubmitInterrupted \/ SubmitCompletes
             \/ RequestRead
HeaderFilter == HeaderBypass \/ HeaderFails \/ HeaderInspects \/ HeaderBlocks
BodyFilter == BodyBypass \/ BodyForwards \/ BodyHolds \/ BodyFlushes \/ BodyBlocks
Nginx == PostRewrite \/ PreAccessAgain \/ RequestReadFails \/ OriginResponds
         \/ OriginFails \/ InternalRedirect \/ ErrorPage \/ DefaultPage
         \/ Terminate \/ HeaderRefused \/ PoolDestroyed

Next == Rewrite \/ PreAccess \/ HeaderFilter \/ BodyFilter \/ LogHandler
        \/ Cleanup \/ Nginx

\* nginx's event loop serves every request: handlers return, the client and the
\* origin answer or run into a timeout.
Spec == Init /\ [][Next]_vars /\ WF_vars(Next)

-----------------------------------------------------------------------------
(* Properties *)

\* Every variable has its type; the context belongs to the current pass.
TypeOK ==
  /\ pc \in Control /\ pass \in Pass /\ hops \in 0..MaxHop
  /\ loc \in Locs
  /\ r \in RequestType
  /\ resp \in RespType
  /\ rc \in Statuses
  /\ ctx \in {0, pass}
  /\ c \in [Pass -> CtxType]
  /\ t \in [Pass -> TxType]
  /\ reg \subseteq Pass
  /\ out \in OutType

\* The audit record of every transaction whose cleanup is registered is
\* written exactly once and before the transaction is freed, which happens
\* exactly once: the early log of process_intervention(), the LOG phase and
\* the pool cleanup share the work, whichever pass the request ended in and
\* whatever became of r->ctx.
AuditOnce ==
  \A i \in Pass : t[i].owned =>
    /\ t[i].logs <= 1 /\ t[i].frees <= 1
    /\ t[i].frees = 1 => t[i].logs = 1
    /\ pc = "destroyed" => t[i].frees = 1

\* No handler or filter calls libcoraza on a transaction that was freed, as
\* long as its cleanup could be registered: it is freed by nothing else, after
\* the last filter and the LOG phase.
NoUseAfterFree == \A i \in Pass : t[i].bad => ~t[i].owned

\* The connector evaluates each rule phase of a transaction at most once and
\* in ascending order, over body reads that suspend the handler, error pages
\* and special responses that re-enter the filters.
PhaseOrder ==
  \A i \in Pass : \A j \in 1..(Len(t[i].ran) - 1) :
    t[i].ran[j] < t[i].ran[j + 1]

\* In a location with the WAF on, and off an error page, the content handler
\* runs only after phases 1 and 2 were evaluated, all of the body that was
\* asked for was submitted, and no denial is outstanding.  The one way around
\* phase 2 is a body that nginx discarded in an earlier pass.
RequestGate ==
  pc = "content" /\ loc.enable /\ ~r.error_page =>
    /\ ctx # 0
    /\ ~c[ctx].triggered /\ t[ctx].hit \notin Denials
    /\ Contains(t[ctx].ran, 1)
    /\ \/ Contains(t[ctx].ran, 2) /\ (c[ctx].submitted => t[ctx].appended = r.len)
       \/ c[ctx].requested /\ ~c[ctx].submitted /\ r.body = "discarded"

\* The request body is given to the engine at most once, even when the
\* PREACCESS phase is re-run.
BodySubmittedOnce == \A i \in Pass : t[i].appended <= r.len

\* Off an error page, an inspected pass sends a response of its own only after
\* phase 3 was evaluated, and completes it only after phase 4 was.
ResponseGate ==
  LET i == out.hdr.pass
  IN  out.hdr.kind = "origin" /\ t[i].handle # "none" /\ ~r.error_page =>
        /\ Contains(t[i].ran, 3)
        /\ out.complete => Contains(t[i].ran, 4)

\* What is on the wire is one response: every body buffer belongs to the
\* response whose header was sent, and a redirect has none.
OneResponse ==
  \A j \in 1..Len(out.units) :
    out.units[j] = [kind |-> out.hdr.kind, pass |-> out.hdr.pass]

\* Nothing of the response an intervention replaced is sent from the moment
\* the intervention triggers.
OriginSent(i) ==
  <<out.hdr.kind = "origin" /\ out.hdr.pass = i,
    Cardinality({j \in 1..Len(out.units) :
                   out.units[j] = [kind |-> "origin", pass |-> i]})>>
BlockIsFinal ==
  [][\A i \in Pass : c'[i].triggered => OriginSent(i)' = OriginSent(i)]_vars

\* The audit record of a transaction the connector blocked carries the status
\* of its denial, also when it is only written by the cleanup.
AuditStatus ==
  \A i \in Pass :
    t[i].logs > 0 /\ c[i].triggered /\ t[i].hit \in Denials =>
      t[i].audit = t[i].hit

\* A redirect intervention reaches the client with the Location the rule
\* asked for, from whichever phase it came.
RedirectLocation == out.hdr.status = "redirect" => "waf" \in out.hdr.locations

\* An error page, and a denial whose status is no redirect, never sends the client
\* to the target of the response it replaces, in whichever phase the rule hit and
\* whether or not the headers were delayed.
DenialTarget ==
  out.hdr.kind = "special" \/ out.hdr.status \in {"deny", "500", "4xx"}
    => "origin" \notin out.hdr.locations

\* What the comment on prepare_redirect() says: the redirect that replaces a
\* response carries the Location process_intervention() installed.
RedirectIsOurs == out.hdr.kind = "redirect" => "waf" \in out.hdr.locations

\* A request is freed: no handler waits for ever.
RequestFreed == <>(pc = "destroyed")

\* No call reaches libcoraza through a handle that is not live, whatever
\* allocation failed: create_ctx() promises to fail closed.
HandleLive == \A i \in Pass : ~t[i].bad

\* The README: a location with `coraza off` processes no request through the
\* WAF, so no rule phase is evaluated there.
OffMeansOff ==
  [][\A i \in Pass : ~loc.enable => t'[i].ran = t[i].ran]_vars
=============================================================================
