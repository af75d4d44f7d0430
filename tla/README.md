# A TLA+ verification project for coraza-nginx

coraza-nginx is an nginx HTTP module (the *connector*) that feeds requests and
responses to libcoraza, a web application firewall engine. This directory holds
TLA+ models of the connector, the TLC configurations that check them on small
instances, and theorems with proofs that TLAPS checks for every value of the
constants. Source paths are relative to the repository root; all of the
connector's code is in `src/`.

## 1. Inventory

### Components

| Component | Source | State it keeps | Operations |
|---|---|---|---|
| Request handlers | `ngx_http_coraza_rewrite.c`, `_pre_access.c`, `_log.c`, part of `_module.c` | `ngx_http_coraza_ctx_t` per pass of a request (flags `intervention_triggered`, `waiting_more_body`, `body_requested`, `body_submitted`, `logged`), the libcoraza transaction it owns, the pool cleanup | rewrite handler (phase 1), preaccess handler and its body read callback (phase 2), `process_intervention`, log handler, cleanup |
| Header filter | `_header_filter.c` | `processed`, `response_body_processable`, `headers_delayed`, response `Location` | phase 3, block, redirect, delay of the header |
| Body filter | `_body_filter.c` | `pending_chain`, `pending_bytes`, `headers_delayed` | append, phase 4, hold, flush, swallow, finalize |
| Configuration and worker | `_module.c` | rules arrays of each context, `mmcf->waf`, `conf->waf`, `conf->waf_owner` | rules directives, `merge_conf`, `validate_rules`, `init_process`, `exit_process` |
| Rules scanner | `_module.c` | `rules_scan_t`: line counters, three flags, two bytes, one bounded word | feed a byte, end a line, finish |
| Header packing | `_utils.c` | none (pure) | pack headers with u16 and u32 lengths, in at most an int of bytes |
| Header submission | `_rewrite.c`, `_header_filter.c` | `resp_hdr_collect` | walk of the lists, resolvers, bulk call, per-header fallback |
| File loops | `_pre_access.c`, `_body_filter.c` | the offset in a file range, a descriptor, a scratch buffer, `O_DIRECT` | read a chunk, append it, poll, clean up |
| Library loader | `_dl.c`, `dynlib.h` | the library handle and its symbols | open, resolve, version gate, forward a call |

### How they interact

A worker is single-threaded. nginx calls the rewrite handler, the preaccess
handler, the content handler, the filters and the log handler of a request in
that order, but not once each. `rewrite ... last` re-runs the rewrite phase with
the context kept. An internal redirect (`error_page`, `try_files`, a named
location) starts a *pass* of its own: nginx wipes `r->ctx`, the old context and
its transaction live on in the request pool, and a new one is created. A special response runs the filters a
second time with the context of the response it replaces. A body that has not
arrived suspends the preaccess handler until its read callback runs. Every
transaction is freed by a pool cleanup, in reverse order of registration, after
the LOG phase.

The body filter shares buffers with the producer of the response, which reuses
a buffer's storage as soon as the buffer is marked consumed, and with the write
filter, which empties `r->out` on its own later.

The configuration is parsed and merged in the master process. Workers compile
it after the fork, share a WAF between contexts with equal rules, and free each
WAF on exit. A request takes the WAF of its location, or the main one.

### What is hard here, and what correctness means

* *The audit record.* The early log, the LOG phase and the cleanup may each
  write it, and the context they coordinate through disappears on redirects.
  Each transaction must be logged exactly once, with the status of its denial,
  and freed exactly once, after that (`AuditOnce`, `AuditStatus`,
  `NoUseAfterFree`).
* *Phases.* Suspended handlers, re-entered filters and error pages must neither
  skip, repeat nor reorder the rule phases (`PhaseOrder`, `RequestGate`,
  `ResponseGate`, `BodySubmittedOnce`).
* *Blocking.* Once a response is blocked nothing of it reaches the client, though
  its producer goes on, the client reads one response, a redirect has the rule's
  target, and a denial not the target of the response it replaces
  (`BlockIsFinal`, `OneResponse`, `RedirectLocation`, `DenialTarget`).
* *Delayed responses.* Data must be copied before its storage is reused, held
  within a cap, sent in order, and never stranded; what is dropped behind a
  redirect must be consumed, or its producer waits for ever (`Delivered`,
  `HeldWithinCap`, `HeaderAwaitsPhase4`, `PhaseFourOnce`, `NoStranding`).
* *Shared WAFs.* Arrays are shared, copied and compared; handles are owned or
  borrowed. Every location must be served by its own merged rules, and every
  WAF freed once (`RulesInForce`, `FreedOnce`, `Deduped`).
* *What the engine is shown.* Headers cross in one packed call or one by one,
  from lists with deleted elements and from fields that alias them, with lengths
  that are narrowed; bodies are read from files in pieces. The engine must judge
  what the server and the client get (`HeadersShown`, `PackedReadsBack`,
  `SentIsInspected`, `SentBytesInspected`, `InspectedIsSent`, `WholeRange`), and
  what could not be shown is blocked (`PartialIsBlocked`, `BlockedTooLong`).
* *The scan of rules.* A few bytes of state must judge a text as the engine's
  parser does with all of it (`NoFalseRefusal`, `NoBypass`, `RefusedAtItsLine`).
* *Failures in the middle.* A build or a file loop that fails half-way leaves
  nothing behind (`BuildLeavesNothing`, `WafHasRules`, `CallsResolved`,
  `GivenBack`).
* *Progress.* Every request ends (`RequestFreed`), and so does every file loop
  (`Ends`).

`PROJECT.json` lists each hazard with the line where it bites.

## 2. The modules

| Module | Models |
|---|---|
| `CorazaRequest` | the life of one request: handlers, filters, log and cleanup over all its passes |
| `CorazaRequestProofs` | type correctness, the audit guarantee, no call on a freed transaction |
| `CorazaGatesProofs` | the gates before content handler and client, the response on the wire, blocking, order of the phases, status of the audit record; on top of `CorazaRequestProofs` |
| `Delivery` | abstract: what the client may read of one response |
| `BodyFilter` | the body filter on chains of buffers, with producer and write filter; implements `Delivery` |
| `BodyFilterProofs` | type correctness, the cap, the delayed header, phase 4 once, and that `BodyFilter` implements `Delivery` |
| `WorkerWafs` | directives, merge, compilation, sharing and freeing of WAFs |
| `WorkerWafsProofs` | type correctness, freed once, rules in force, no ruleset compiled twice |
| `FileSubmit` | the three loops that read a body from a file |
| `FileSubmitProofs` | a success read the whole range, nothing acquired is kept, a part is blocked |
| `HeaderPack` | operators: the packed encoding, its limits, and what the engine reads of it |
| `RequestHeaders` | how the rewrite handler submits the request headers; uses `HeaderPack` |
| `RequestHeadersProofs` | the packed encoding reads back, for every base and every batch; what phase 1 is shown; what is blocked |
| `ResponseHeaders` | how the header filter submits the response headers; uses `HeaderPack` |
| `SecLangParser` | external: how the engine assembles records from a rules text |
| `RulesScan` | the connector's scan of a rules text, in step with `SecLangParser` |
| `RulesScanProofs` | type correctness, no false refusal, the reported line, no bypass |
| `WafBuild` | loading libcoraza and building one WAF, call by call |
| `WafBuildProofs` | no unresolved call, nothing left behind, all of the rules in a WAF |
| `MC...` | the roots of the TLC runs |

### CorazaRequest

A pass creates at most one context and one transaction, so both are functions of
the pass that created them: `c[i]` is the context (its fields are the flags of
`ngx_http_coraza_ctx_t`), `t[i]` the transaction, `ctx` the pass whose context
`r->ctx` points to, or 0. `reg` is the set of registered cleanups, `r` the
request fields the connector reads or writes, `loc` the location's
configuration, `out` what was handed to the client. `pc` says which handler runs
next. A transaction records the phases it ran, the body chunks it was given, its
interruption, the status reported and the status in its audit record, and
whether a call ever reached it through a dead handle.

Each action is one path through one handler, from its entry to its return:

| Code | Actions |
|---|---|
| `rewrite_handler`, `create_ctx` | `RewriteDeclined`, `CreateCtxFails`, `CreateCtxUnregistered`, `RewriteFails`, `RewriteInspects` |
| `pre_access_handler`, `request_read`, `process_request_body_phase` | `PreAccessDeclined`, `PreAccessPhase2`, `PreAccessReads`, `PreAccessResumes`, `Submit...`, `RequestRead` |
| `header_filter` | `HeaderBypass`, `HeaderFails`, `HeaderInspects`, `HeaderBlocks` |
| `body_filter` | `BodyBypass`, `BodyForwards`, `BodyHolds`, `BodyFlushes`, `BodyBlocks` |
| `log_handler`, `cleanup` | `LogHandler`, `Cleanup` |
| nginx (external) | `PostRewrite`, `PreAccessAgain`, `RequestReadFails`, `OriginResponds`, `OriginFails`, `InternalRedirect`, `ErrorPage`, `DefaultPage`, `Terminate`, `HeaderRefused`, `PoolDestroyed` |

`process_intervention()` is four operators (`Intervene`, `InterveneCtx`,
`InterveneRet`, `InterveneReq`), one for each thing it changes or returns.
libcoraza is external: a phase ends in an error or an evaluation, an evaluation
may interrupt, and an interruption is never withdrawn. Statuses are abstracted to
what the connector tells apart: a denial, a 3xx denial with and without a target,
an intervention with status 200, 500 and the 4xx of a failed body read. Body
filter calls have one buffer here; chains are the business of `BodyFilter`.

### BodyFilter and Delivery

The response is the sequence of units 1, 2, ..., each charged as one byte of
`NGX_HTTP_CORAZA_MAX_DELAYED_BODY`. A unit sits in one of the producer's reusable
slots, or is stable (a range of a static file, a copy in the request pool). A
link only names its slot, so a client that reads it after the slot was reused
reads the wrong unit: this is what makes the copy in `Held` matter. `Fill...`
builds a chain, `Enter` calls the filter, `Step...` is one iteration of its loop,
and `Flush`, `FlushFails`, `Hold`, `PassOn` are what follows the loop. Producer
and write filter run between the calls, in any order (`Fill`, `Write`). `conf` is chosen in
`Init`: the size of the response, whether it is a static file, and what the
header filter decided.

`Delivery` allows the client to read one header, then the origin's units in
order if the header was the origin's, and nothing after a reset. The refinement
maps its variables to `client.headers`, `client.data` and `pc = "reset"`.

### WorkerWafs

Contexts are numbered in the order nginx merges them, so a parent precedes its
children; `Init` chooses the tree. `rules[s]` is a pointer into `array`, as
`conf->rules` is: merging may share the parent's array or make a new one.
`engine[h]` is the WAF built for context `h`: its rules and how often it was
freed. `has_rules[s]` is the flag the code tests in place of the array: `TypeOK`
says that they agree whenever a handler returns, though `merge_conf()` copies the
one and shares the other. No directive fills `mmcf->rules`, so the test of
`init_process()` for a context with the main rules never holds, and the model has
no such step. `InitSkips`, `InitBorrows` and `InitBuilds` are the three ways through
the loop of `init_process()`, `ExitLocConf` one round of `exit_process()`,
`ExitMain` the rest of it.

### FileSubmit

`kind` says which loop runs: `append_request_body_file()`,
`append_response_body_file()` or `read_body_data()`. The data is the sequence of
offsets of the bytes appended so far. Every read may return any number of bytes
up to what was asked for and what the file still has, nothing, or an error, and
`Shrink` truncates the file at any time. `held` is what has to be given back.
`CorazaRequest` and `BodyFilter` have such a loop as one append that succeeds
or fails; `WholeRange` and `PartialIsBlocked` justify that.

### HeaderPack, RequestHeaders and ResponseHeaders

A header is a pair of byte strings. The base of the length fields is a constant,
256 in the code; with base 4 a name has at most 15 bytes to be packed and an int
holds 127, so both limits are crossed by small strings while the encoding stays
the same formula. `Narrow` is the conversion of `size_t` to `int`. The loops of
`pack_headers()` are recursive functions: `PackedTotals` is the running total of
the first, `Packed` the buffer of the second, `Header` what one round of it
writes. `Unpack` is the engine's way back, one `ReadPair` for each header.

`RequestHeaders` has the bulk path and the fallback of the rewrite handler. The
i-th header consists of bytes i, so a header cut or read from the wrong place is
not the header sent. `ResponseHeaders` has one operator per resolver, the walk
with its test for aliased elements, and the collected, replayed and direct
paths. `Init` lets each of the fields point at an element of its name or at none,
and lets any element be deleted, as other modules do. `Sent` is what nginx's own
header filter writes (external). Texts are abstracted to the one nginx would
write (`Own`) and another one.

libcoraza is taken to accept or reject a batch as a whole.

### RulesScan and SecLangParser

`Feed`, `Newline` and `EndOfText` give each byte to the scanner and to the
parser. `SecLangParser` is external and follows the comment at
`ngx_http_coraza_module.c:280`: it holds the line and the record. The five blank
bytes are one. A chunk boundary leaves no trace, since everything the scanner
knows is in `s`; a read error is possible after every byte.

### WafBuild

`WorkerWafs` builds a WAF in one step. Here every call of `dl_open()` and
`build_waf()` is a step of its own that may fail; `library` is what is installed:
complete, or lacking one symbol, and new enough or not. `cstr` and `error` count how
often the string was made and freed. `CallsResolved` is about all of the table
`dl_open()` resolves: the calls of `build_waf()` and those a request makes later. An empty array is the
main WAF, which `init_process()` builds with the same calls.

## 3. The runs

Deadlock checking is off in every run: a freed request, a delivered response, a
refused configuration and an exited worker really stop.

| Run | Bounds | Shows |
|---|---|---|
| `request` | 2 passes, 1 chunk, 2 buffers, cap 1, denials, cleanup registration may fail | `TypeOK`, `AuditOnce`, `NoUseAfterFree`, `AuditStatus`, `PhaseOrder`, `RequestFreed` |
| `request_blocks` | 1 pass, 1 rewrite or re-run of PREACCESS, 2 chunks, 3 buffers, cap 1, all interventions, redirecting origins, streams | `RequestGate`, `OneResponse`, `ResponseGate`, `RedirectLocation`, `DenialTarget`, `BodySubmittedOnce`, `BlockIsFinal` |
| `body_filter` | 4 units, 2 slots, cap 2, chains of 2, 2 empty buffers | `TypeOK`, `HeldWithinCap`, `HeaderAwaitsPhase4`, `PhaseFourOnce`, `Delivered`, `NoStranding` |
| `worker_wafs` | 4 contexts, 3 directives, every tree | `TypeOK`, `RulesInForce`, `FreedOnce`, `Deduped` |
| `file_submit` | ranges of up to 5 bytes, chunks of 2 | `WholeRange`, `GivenBack`, `PartialIsBlocked`, `Ends` |
| `request_headers` | 2 headers, base 4, lengths on both sides of 15, 121 and 127 and above 256 | `HeadersShown`, `PackedReadsBack`, `BlockedTooLong` |
| `response_headers` | lists of 2, base 4, every field, alias and deletion | `SentIsInspected`, `SentBytesInspected`, `InspectedIsSent` |
| `rules_scan` | texts of 7 bytes, a directive of 2 letters, a word buffer of 3 | `TypeOK`, `NoFalseRefusal`, `RefusedAtItsLine`, `NoBypass` |
| `waf_build` | 3 entries, 7 symbols | `CallsResolved`, `BuildLeavesNothing`, `WafHasRules` |

Three more runs end in a violation, each on a small instance that has the case:
`handle_live`, `coraza_off` and `redirect_target`; see section 5.

*Why the bounds are enough to be interesting.* Two passes are needed for a
context that is wiped while its transaction lives; a third repeats the second.
Two chunks tell a partly submitted body from a whole one. With three buffers and
cap 1 a response is held, exceeds the cap and goes on after that. In
`BodyFilter` four units against two slots force every slot to be reused, cap 2
is exceeded both in the middle and at the end of a chain, chains of two have
buffers behind the last one, and two empty buffers reach both sides of it. Four
contexts give chains and siblings at two depths, and three directives a merged
array equal by content to another. Five bytes against chunks
of two give a read of a whole chunk, a short one and a last one. Two headers are
enough for one to be misaligned by the other, and 6 + 121 is the longest packed
header. Two list elements are an alias and its double. Seven bytes hold a
directive cut by a continuation with a blank or a comment line between its parts,
an action list around it, and a word longer than the buffer. The bounds are
constants named in the
modules, used only in guards of the environment's actions.

*Fairness.* `CorazaRequest` assumes `WF_vars(Next)`: a worker's event loop goes
on, handlers return, and the client and the origin answer or run into nginx's
timeouts, which are actions of the model (`RequestReadFails`, `OriginFails`,
`Terminate`). `BodyFilter` assumes weak fairness of the filter (it runs once
called), of the write filter (the client reads, or the send timeout ends the
request, outside the model) and of the producer, which may still be blocked for
want of a free slot: this is the deadlock `NoStranding` is about. It is not enough
that the client reads a redirect: the producer must also come to the end of its
response, with its buffers back, so what is dropped behind the redirect has to be
marked consumed. Fairness plays
no part in the safety properties. `FileSubmit` assumes weak fairness of the steps
of the running function, but not of its failures nor of `Shrink`: a function on a
single thread runs on. The other modules have none.

*Mutants.* Beside many definitions stands a mutated form (`...KeepsCtx`,
`...FailsOpen`, `HeldNoCopy`, `FreesAny`, ...): a plausible bug in the code that
the property listed with it in `PROJECT.json` detects under the same
configuration.

## 4. What is proved

All theorems hold for every value of the constants, under the assumptions of the
modules: `BoundsAssumption` and `SwitchAssumption` (bounds are naturals, a
request has at least one pass and a response a buffer, the sets of
interventions, origins and faults hold the known kinds), `WafAssumption` (there
is an http context), `FileAssumption` (a chunk has at least one byte),
`BodyAssumption` (sizes are naturals, a chain may have a buffer, storage is
finite), `BuildAssumption` (every function the connector calls is in the table
of `_dl.c`), `BaseAssumption` and `LengthAssumption` (a byte has at least two
values, lengths are naturals), and `DirectiveAssumption` and `ScanAssumption` (a
directive is a word of letters, none of them a byte the grammar uses, and shorter
than the scanner's buffer, 32 bytes in the code). No
fairness is used.

**CorazaRequestProofs.**
`TypeCorrect`: `Spec => []TypeOK`, in particular that the context on a request
belongs to the current pass. `AuditCorrect`: `Spec => []AuditOnce`.
`HandleCorrect`: `Spec => []NoUseAfterFree`.
`AuditOnce` alone is not inductive: it says nothing of transactions that are
still live. `AuditInv(i)` ties the records to the flags: a cleanup is registered
exactly while an owned transaction is live, a live one has a record iff its
context says `logged`, a freed one exists only during the pool's destruction and
has its record, and passes to come have no transaction. `IInv` adds that a pass
without a context has no transaction yet, and that a body is only awaited or
submitted for a context. The lemmas `...Same` show that no call but logging and
freeing touches that bookkeeping; one lemma per action follows from them.

**CorazaGatesProofs.**
`RequestGateTheorem`, `ResponseGateTheorem`, `OneResponseTheorem`,
`BodySubmittedOnceTheorem`, `AuditStatusTheorem` and the action property
`BlockIsFinalTheorem` hold without further hypotheses. Two need one:

* `PhaseOrderTheorem` assumes `~Reentry`. Where another module re-runs PREACCESS,
  phase 2 is evaluated again without request-body access (section 5), and TLC
  shows the property false.
* `RedirectLocationTheorem` assumes `"location" \notin Faults`. When the header
  cannot be allocated the code answers with the status alone.

`GInv` is inductive relative to `IInv`. Its parts and what each is there for:

| Part | Says |
|---|---|
| `ContextInv` | contexts and transactions exist together; a triggered context never reaches the content handler; a header is delayed only once the filters run |
| `RecordInv` | a denial is reported in the step that finds it, so a record written early carries it; what was appended is bounded by the body, and nothing is before `body_submitted` |
| `RequestInv` | off an error page a context before the content handler has no denial and ran phase 1, and phase 2 with the whole body once it submitted one |
| `WireInv` | before the header nothing is out; in the body filter the header is either delayed or out, of this pass, and of the response the filter is called with, unless a redirect took its place |
| `ResponseInv` | a response in the body filter ran phase 3 |
| `OrderInv` | phases rise, and bound those to come by the place of `pc` (with `~Reentry`) |
| `LocationInv` | the status of a redirect travels with its `Location` (without that fault) |

The proof has two layers. One lemma for each group of actions states its *effect*
(`PreAccessEffect`, `CreateEffect`, `HeaderEffect`, `BodyEffect`, `RecordEffect`,
`MoveEffect`, `PassEffect`): what it may do to one transaction, one context and
the wire. `StepEffect` says that every step has one of them. Each part of the
invariant is then preserved by every effect (`ContextStep`, `RecordStep`,
`RequestStep`, `WireStep`, `ResponseStep`, `OrderStep`, `LocationStep`), and
`FinalStep` gives `BlockIsFinal`.

**BodyFilterProofs.**
`TypeOKTheorem`, `HeldWithinCapTheorem`, `HeaderAwaitsPhase4Theorem`,
`PhaseFourOnceTheorem`, and `DeliveredTheorem`: `Spec => Delivered`, the
refinement. `StreamInv` carries the refinement: what the client has not read yet
lies, held or on its way and then in the chain, as the units that follow in
order without a gap, and no storage it lies in is free. A producer can only write
to free storage, so no step changes what will be read; without the copy in `Held`
this is what fails. `HeaderInv` says which header is out or on its way in every
state of the flags, `LastInv` that no buffer after the current one is the last
once phase 4 ran, and `BytesInv` that the units held are stable and numbered up to
`bytes`: the cap on a counter becomes a bound on the links by an injection. With
the invariant, a step of `Write` is `Answer`, `Deliver` or a stutter,
`StepFinalizes` and `FlushFails` are `Close` or a stutter, and every other step is
a stutter.

**WafBuildProofs.**
`CallsResolvedTheorem`, `BuildLeavesNothingTheorem`, `WafHasRulesTheorem`. The
invariant gives what holds at each call: the symbols before the k-th are resolved,
the configuration holds the entries before the i-th, how often each string was
made and freed, and how often the configuration was freed.

**WorkerWafsProofs.**
`WafTypeCorrect`, `FreedOnceCorrect`, `RulesInForceCorrect`, `DedupedCorrect`:
the four invariants of the run `worker_wafs`; `TypeOK` includes that `has_rules`
agrees with the array. The induction runs along the three
loops of the code. `MergeInv` says that a context not merged yet has its own
array, that a merged one holds its parent's rules and then its own, and that no
pointer leads to an array that a later merge will write; the last part is what
makes sharing by pointer harmless. `WafInv` says that
handles belong to contexts below the http one, for the contexts `init_process()`
has worked on that the owner of a WAF is the context that built it, that a
context's handle leads to a WAF with exactly the rules in force there, and that no
two WAFs are equal; and for those `exit_process()` has worked on that their WAFs
are freed once.

**FileSubmitProofs.**
`WholeRangeTheorem`, `GivenBackTheorem`, `PartialIsBlockedTheorem`: the three
invariants of the run `file_submit`, for every chunk size and every range. They
follow from `LoopInv`, which says that the bytes appended are those of the range
up to the offset, that the offset stays within the range, and that a return value
of success is only set at its end; one lemma per action preserves it.

**RulesScanProofs.**
`ScannerTypes`, `RefusalIsTrue`, `RefusalHasItsLine` and `NothingPassesTheScan`:
the four invariants of the run `rules_scan`, for texts of every length, every
directive and every buffer that holds it. `Scanning` is what ties the scanner's
few bytes to the parser's whole text between two bytes:

| Part | Says |
|---|---|
| `LineInv` | the scanner's first and last byte are those of the line with its blanks trimmed |
| `RecordInv` | a record is open for both or for neither, started at the same line, and is in an action list for both or for neither; the list's backtick lies in the record |
| `WordInv` | what the word is to `Seen`, the record with the trimmed part of this line |
| `VerdictInv` | no verdict is outstanding, but for a record excused as loose |

`WordInv` is the heart of it. While the word is collected it is all of the record.
Once it is done, it was too long for any directive (`Overran`), or a blank inside
the record ended it (`Cut`), or the blank is so far the end of the line (`Pending`):
the parser trims it, and the next byte decides. When the line ends there and the
record goes on, the next line joins a word that the scanner holds for complete.
Either that word has a backtick, and neither side takes it for a directive
(`Ticked`), or the line ended in a backslash before its blanks, which is the
exception of section 5 (`Loose`). The proof has one lemma for a blank, one for any
other byte, one for the end of a line and one for the end of the text.

**RequestHeadersProofs.**
`PhaseOneSeesTheHeaders`, `OnlyTooLongIsBlocked` and `AcceptedBatchReadsBack`: the
three invariants of the run `request_headers`, for bytes to every base and lists
of every size. What the recursive functions compute needs induction. The
provers cannot instantiate the library's theorems, which take the property as an
operator, so `UpTo` states induction for the *set* of numbers that have it, from
the well-foundedness of `<`, and `Recursion` gives a recursive function from its
step as a function. From these:

1. `TwoDigits` and `FourDigits`: length fields read back as what was written, by
   division to the base alone.
2. `Totals` and `Buffers`: the two functions of `HeaderPack` satisfy the equations
   they are written with. `Layout`: the k-th header starts where the total of those
   before it ends, and is not written over.
3. `ReadOne`: reading behind the first k - 1 headers yields the k-th and ends where
   it does, without leaving the buffer, since an accepted batch is not longer than
   an int and its lengths fit their fields. `RoundTrip`: hence all of them.
4. `HInv`: nothing is shown before the batch; before the i-th round of the fallback
   the engine has what `pairs[]` held after i - 1, without what it refused.
   `FillingPrefix`: an element refused later does not change that.

`RoundTrip` is about `HeaderPack` alone, and so holds for the batches of the
response too.

*Only model-checked.* Liveness (`RequestFreed`, `NoStranding`, `Ends`), which
TLAPS does not reach. `DenialTarget`, which needs one more part of `GInv` on
where a `Location` of the origin can be. The three invariants of `ResponseHeaders`: two of them count
the headers of each name in two sequences that are filtered and put together in
different orders, and TLAPS knows neither a theorem on `SelectSeq` nor one on the
cardinality of such index sets; the third needs the same facts on `SelectSeq`. The
three runs of section 5.

## 5. Where code and comments disagree

Three runs end in a violation of what a comment or a document says; `PROJECT.json`
quotes the lines.

* `handle_live`: when `ngx_pool_cleanup_add()` fails, `create_ctx()` leaves a
  context with a zeroed handle on the request, and the filters and the log
  handler call libcoraza with it. `NoUseAfterFree` holds for every transaction
  whose cleanup was registered.
* `coraza_off`: a request rewritten from a location with `coraza on` into one
  with `coraza off` still runs phases 3 and 4 there.
* `redirect_target`: a 3xx denial without a target, on a response with a
  `Location`, is sent as a redirect to the origin's target
  (`_header_filter.c:671`, against 763). `RedirectLocation` is therefore about
  interventions with a target, and `DenialTarget` about denials that are no
  redirect and about error pages.

The passing properties have exceptions where the code differs from its comments
in smaller ways, and are false without them:

* `ResponseGate` holds off error pages: on an inspected error page the body
  filter returns before phase 4 (`_body_filter.c:472`, against the comment at
  486).
* `BodySubmittedOnce` is about the body: without request-body access a re-run of
  PREACCESS evaluates phase 2 again (`_pre_access.c:277`, against 334).
* `InitMain` builds an empty WAF: no directive fills `mmcf->rules`
  (`_module.c:1140`, against `t/coraza-http-level-rules.t:3`).
* `NoBypass` leaves out records with blanks behind a continuing backslash
  (`p.loose`): the blank ends the word before the line is known to continue
  (`_module.c:403`, against "each line is trimmed" at 282). The carriage return
  of a CRLF file is such a blank.
* `HeadersShown` expects phase 1 without the headers that the engine refuses in
  the fallback (`lost`), and with all others: the return value is not looked at
  (`_rewrite.c:303`, against 311).
* `InspectedIsSent` leaves out a field that points at a deleted element, which
  the resolvers of `Server`, `Date` and `Last-Modified` show all the same
  (`_header_filter.c:152`, against `t/coraza-deleted-headers.t:18`), and a
  `Content-Length` in the list, which is shown twice (`_header_filter.c:546`,
  against 541).
* `SentBytesInspected` leaves out a `Last-Modified` with a text of its own, whose
  time is shown in nginx's format (`_header_filter.c:298`, against 526), and
  values no int can measure: the replay narrows their length unchecked
  (`_header_filter.c:118`, against `_utils.c:46`).

## 6. What is not modelled

* `ngx_http_filter_finalize_request()` is taken to answer the producer with
  `NGX_ERROR` (`FilterFinalize`, `StepFinalizes`). nginx does so when the special
  response was sent or failed, but returns `NGX_AGAIN` as it is when the page could
  not be written at once. What a producer does with that is its own code.
* Subrequests: each is a request with a context of its own, whose header is
  never delayed.
* The text comparison that recognises an event stream (`is_sse_response`): the
  request model has its answer as the kind of the origin. Logging, and the
  truncation of a redirect target at a control character.
* The forwarding wrappers of the loader beyond the fact that their pointers are
  resolved; `dl_close()`, which does nothing.
* Which of nginx's producers build inverted or endlessly empty buffers; empty
  buffers are bounded by `MaxEmpty`.
* `Include`d rules files, which the scanner does not follow either. NUL bytes in a
  rules text: the scanner uses 0 for "no byte yet".
* One worker and one configuration cycle: workers share nothing after the fork,
  and a reload starts new ones.
* Tests, fuzzers, lint rules and packaging were read as statements of intent.

## 7. Plan

1. The invariants of `ResponseHeaders`: lemmas on `SelectSeq` by the induction of
   `UpTo`, then `SentBytesInspected` with `RoundTrip`, then the two that count.
2. Subrequests in `CorazaRequest`.
