------------------------ MODULE CorazaRequestProofs ------------------------
(***************************************************************************)
(* Proofs about CorazaRequest: type correctness, the audit record's         *)
(* exactly-once guarantee and the absence of calls on freed transactions,   *)
(* for any number of passes, chunks, buffers and any set of interventions.  *)
(***************************************************************************)
EXTENDS CorazaRequest, TLAPS

\* The audit bookkeeping of one transaction i.
AuditInv(i) ==
  /\ t[i].owned => t[i].handle # "none"
  /\ i \in reg <=> t[i].owned /\ t[i].handle = "live"
  /\ t[i].owned /\ t[i].handle = "live" =>
       t[i].frees = 0 /\ t[i].logs = (IF c[i].logged THEN 1 ELSE 0)
  /\ t[i].owned /\ t[i].handle = "freed" =>
       t[i].frees = 1 /\ t[i].logs = 1 /\ pc \in {"cleanup", "destroyed"}
  /\ t[i].bad => ~t[i].owned
  /\ i > pass => t[i].handle = "none"

\* The inductive invariant: besides, a pass that has no context yet has no
\* transaction, and a body is only awaited or submitted for a context.
IInv ==
  /\ TypeOK
  /\ \A i \in Pass : AuditInv(i)
  /\ pc \in {"rewrite", "post_rewrite"} /\ ctx = 0 => t[pass].handle = "none"
  /\ pc = "destroyed" => reg = {}
  /\ pc \in {"submit", "wait_body"} => ctx # 0

-----------------------------------------------------------------------------
(* What the calls of libcoraza leave alone *)

\* y is transaction x after calls that neither log nor free it.
Same(x, y) ==
  /\ y \in TxType
  /\ y.handle = x.handle /\ y.owned = x.owned
  /\ y.logs = x.logs /\ y.frees = x.frees
  /\ y.bad => x.bad \/ x.handle # "live"

\* Chains of such calls compose.
LEMMA SameTrans ==
  ASSUME NEW x, NEW y, NEW z, Same(x, y), Same(y, z)
  PROVE  Same(x, z)
  BY DEF Same

\* Any single call.
LEMMA CallSame ==
  ASSUME NEW x \in TxType
  PROVE  Same(x, Call(x))
  BY DEF Same, Call, TxType

\* The evaluation of a rule phase.
LEMMA EvaluateSame ==
  ASSUME NEW x \in TxType, NEW phase \in 1..4, NEW o \in Outcomes(x)
  PROVE  Same(x, Evaluate(x, phase, o))
<1>1. CASE o = "error"
  BY <1>1, CallSame DEF Evaluate
<1>2. CASE o # "error"
  <2>1. o \in Hits \cup {"none"}
    BY <1>2 DEF Outcomes, TxType
  <2>2. Call(x) \in TxType
    BY CallSame DEF Same
  <2>3. Append(Call(x).ran, phase) \in Seq(1..4)
    BY <2>2 DEF TxType
  <2>4. Evaluate(x, phase, o) = [Call(x) EXCEPT !.ran = Append(@, phase), !.hit = o]
    BY <1>2 DEF Evaluate
  <2>5. Evaluate(x, phase, o) \in TxType
    BY <2>1, <2>2, <2>3, <2>4 DEF TxType
  <2> QED
    BY <2>2, <2>4, <2>5, CallSame DEF Same, TxType
<1> QED
  BY <1>1, <1>2

\* A call that appends k chunks of the request body and may interrupt.
LEMMA AppendSame ==
  ASSUME NEW x \in TxType, NEW k \in Nat, NEW h \in Hits \cup {"none"}
  PROVE  /\ Same(x, [Call(x) EXCEPT !.appended = @ + k, !.hit = h])
         /\ Same(x, [Call(x) EXCEPT !.appended = @ + k])
         /\ Same(x, [Call(x) EXCEPT !.hit = h])
<1>1. Call(x) \in TxType /\ Same(x, Call(x))
  BY CallSame DEF Same
<1>2. Call(x).appended + k \in Nat
  BY <1>1 DEF TxType
<1>3. Same(x, [Call(x) EXCEPT !.appended = @ + k, !.hit = h])
  BY <1>1, <1>2 DEF Same, TxType
<1>4. Same(x, [Call(x) EXCEPT !.appended = @ + k])
  BY <1>1, <1>2 DEF Same, TxType
<1>5. Same(x, [Call(x) EXCEPT !.hit = h])
  BY <1>1 DEF Same, TxType
<1> QED
  BY <1>3, <1>4, <1>5

\* An intervention poll without the early log.
LEMMA InterveneSame ==
  ASSUME NEW x \in TxType, NEW logged
  PROVE  Same(x, Intervene(x, logged, FALSE))
<1>1. CASE x.hit \notin Denials
  BY <1>1, CallSame DEF Intervene
<1>2. CASE x.hit \in Denials
  <2>1. Intervene(x, logged, FALSE) = [Call(x) EXCEPT !.code = x.hit]
    BY <1>2 DEF Intervene
  <2>2. Call(x) \in TxType /\ Same(x, Call(x))
    BY CallSame DEF Same
  <2>3. x.hit \in Hits \cup {"none"}
    BY DEF TxType
  <2>4. Same(x, [Call(x) EXCEPT !.code = x.hit])
    BY <2>2, <2>3, <1>2 DEF Same, TxType
  <2> QED
    BY <2>1, <2>4
<1> QED
  BY <1>1, <1>2

\* The audit record is written through a live handle.
LEMMA LoggingEffect ==
  ASSUME NEW x \in TxType, x.handle = "live"
  PROVE  /\ ProcessLogging(x) \in TxType
         /\ ProcessLogging(x).handle = "live"
         /\ ProcessLogging(x).owned = x.owned
         /\ ProcessLogging(x).logs = x.logs + 1
         /\ ProcessLogging(x).frees = x.frees
         /\ ProcessLogging(x).bad = x.bad
<1>1. x.logs + 1 \in Nat /\ x.code \in Hits \cup {"none"}
  BY DEF TxType
<1>2. ProcessLogging(x) = [x EXCEPT !.logs = x.logs + 1, !.audit = x.code]
  BY DEF ProcessLogging
<1>3. ProcessLogging(x) \in TxType
  BY <1>1, <1>2 DEF TxType
<1> QED
  BY <1>2, <1>3 DEF TxType

\* A poll by ngx_http_coraza_poll_after_process() without the early log.
LEMMA PolledSame ==
  ASSUME NEW x \in TxType, NEW o, NEW logged
  PROVE  Same(x, Polled(x, o, logged, FALSE))
  BY InterveneSame DEF Polled, Same

\* The body filter's loop.
LEMMA BufferedSame ==
  ASSUME NEW x \in TxType, NEW cc \in CtxType, NEW y \in Buffered(x, cc)
  PROVE  Same(x, y)
<1>1. CASE ~cc.processable
  BY <1>1 DEF Buffered, Same
<1>2. CASE cc.processable
  <2>1. PICK h \in Appends(x) : y = Intervene([Call(x) EXCEPT !.hit = h], cc.logged, FALSE)
    BY <1>2 DEF Buffered
  <2>2. h \in Hits \cup {"none"}
    BY <2>1 DEF Appends, TxType
  <2>3. Same(x, [Call(x) EXCEPT !.hit = h])
    BY <2>2, AppendSame, 0 \in Nat
  <2>4. Same([Call(x) EXCEPT !.hit = h], y)
    BY <2>1, <2>3, InterveneSame DEF Same
  <2> QED
    BY <2>3, <2>4, SameTrans
<1> QED
  BY <1>1, <1>2

\* The phase-4 step of the body filter's loop keeps the transaction's record
\* and handle.
LEMMA FinishedSame ==
  ASSUME NEW x \in TxType, NEW cc \in CtxType, NEW last, NEW y \in Finished(x, cc, last)
  PROVE  Same(x, y)
<1>1. CASE y = x
  BY <1>1 DEF Same
<1>2. CASE y # x
  <2>1. PICK o \in Outcomes(x) \ {"error"} : y = Intervene(Evaluate(x, 4, o), cc.logged, FALSE)
    BY <1>2 DEF Finished
  <2>2. Same(x, Evaluate(x, 4, o))
    BY <2>1, EvaluateSame, 4 \in 1..4
  <2>3. Same(Evaluate(x, 4, o), y)
    BY <2>1, <2>2, InterveneSame DEF Same
  <2> QED
    BY <2>2, <2>3, SameTrans
<1> QED
  BY <1>1, <1>2

\* So does an iteration of the loop that does not return ...
LEMMA InspectionsSame ==
  ASSUME NEW x \in TxType, NEW cc \in CtxType, NEW last, NEW z \in Inspections(x, cc, last)
  PROVE  Same(x, z)
<1>1. PICK y \in Buffered(x, cc) : z \in Finished(y, cc, last)
  BY DEF Inspections
<1>2. Same(x, y)
  BY <1>1, BufferedSame
<1>3. Same(y, z)
  BY <1>1, <1>2, FinishedSame DEF Same
<1> QED
  BY <1>2, <1>3, SameTrans

\* ... and one that returns, whose status is one of Statuses.
LEMMA RefusalsSame ==
  ASSUME NEW x \in TxType, NEW cc \in CtxType, NEW last, NEW b \in Refusals(x, cc, last)
  PROVE  Same(x, b.tx) /\ b.status \in Statuses
<1> DEFINE appended == Buffered(x, cc)
           passed   == {y \in appended : Passes(y)}
           finished == UNION {Finished(y, cc, last) : y \in passed}
<1>1. \A y \in appended : Same(x, y)
  BY BufferedSame
<1>2. \A y \in finished : Same(x, y)
  <2>1. SUFFICES ASSUME NEW y \in appended, NEW z \in Finished(y, cc, last)
                 PROVE  Same(x, z)
    OBVIOUS
  <2>2. Same(x, y)
    BY <1>1
  <2>3. Same(y, z)
    BY <2>2, FinishedSame DEF Same
  <2> QED
    BY <2>2, <2>3, SameTrans
<1>3. \A y \in appended : Same(x, Call(y))
  <2>1. TAKE y \in appended
  <2>2. Same(x, y)
    BY <1>1
  <2>3. Same(y, Call(y))
    BY <2>2, CallSame DEF Same
  <2> QED
    BY <2>2, <2>3, SameTrans
<1>4. \/ b.status = "500" /\ (b.tx = Call(x) \/ (\E y \in appended : b.tx = Call(y)) \/ b.tx \in finished)
      \/ b.tx \in appended \cup finished /\ ~Passes(b.tx) /\ b.status = BlockStatus(b.tx)
  BY DEF Refusals
<1>5. Same(x, b.tx)
  BY <1>1, <1>2, <1>3, <1>4, CallSame
<1>6. b.status \in Statuses
  BY <1>4 DEF BlockStatus, Passes, InterveneRet, Statuses
<1> QED
  BY <1>5, <1>6

-----------------------------------------------------------------------------
(* Types of what the operators return *)

\* A Location header leaves the request well typed.
LEMMA RequestTypes ==
  ASSUME TypeOK, NEW x \in TxType, NEW o, NEW installed
  PROVE  /\ InterveneReq(x, installed) \in RequestType
         /\ PolledReq(x, o, installed) \in RequestType
  BY DEF TypeOK, InterveneReq, PolledReq, RequestType

\* A poll returns NGX_OK, NGX_ERROR or a status, and the handler then declines
\* the phase or finalizes with a status.
LEMMA VerdictTypes ==
  ASSUME NEW x \in TxType, NEW o
  PROVE  /\ InterveneRet(x) \in Denials \cup {"ok", "error"}
         /\ PollRet(x, o) \in Denials \cup {"ok", "error", "500"}
         /\ Verdict(InterveneRet(x)) \in Statuses \cup {"declined"}
         /\ Verdict(PollRet(x, o)) \in Statuses \cup {"declined"}
  BY DEF InterveneRet, PollRet, Verdict, Statuses

\* The next header filter.
LEMMA SendHeaderTypes ==
  ASSUME TypeOK, NEW kind \in Kinds, NEW status \in Statuses \cup {"origin"},
         NEW rr \in RequestType, SendHeader(kind, status, rr)
  PROVE  r' \in RequestType /\ out' \in OutType
<1>1. r' \in RequestType
  BY DEF SendHeader, RequestType
<1>2. HeaderOf(kind, status, rr) \in
        [kind : Kinds \cup {"none"}, pass : 0..MaxPass,
         status : Statuses \cup {"none", "origin"},
         locations : SUBSET {"origin", "waf"}]
  BY BoundsAssumption DEF HeaderOf, TypeOK, Pass, RequestType
<1>3. out' \in OutType
  BY <1>2 DEF SendHeader, OutType, TypeOK
<1> QED
  BY <1>1, <1>3

\* Buffers handed to the next body filter.
LEMMA SentTypes ==
  ASSUME TypeOK, NEW o \in OutType, NEW n \in Nat, NEW last \in BOOLEAN
  PROVE  Sent(o, n, last) \in OutType
<1>1. Unit \in [kind : {"origin", "special"}, pass : Pass]
  BY DEF Unit, TypeOK, RespType
<1>2. [j \in 1..n |-> Unit] \in Seq([kind : {"origin", "special"}, pass : Pass])
  BY <1>1
<1>3. o.units \o [j \in 1..n |-> Unit] \in Seq([kind : {"origin", "special"}, pass : Pass])
  BY <1>2 DEF OutType
<1> QED
  BY <1>3 DEF Sent, OutType

-----------------------------------------------------------------------------
(* Steps that neither create, log nor free a transaction *)

\* A step that changes at most contexts and transactions in ways that keep
\* every record keeps the inductive invariant.
LEMMA QuietStep ==
  ASSUME IInv, TypeOK',
         reg' = reg, pass' = pass, ctx' = ctx,
         \A i \in Pass : Same(t[i], t'[i]) /\ c'[i].logged = c[i].logged,
         pc \notin {"cleanup", "destroyed"}, pc' # "destroyed",
         pc' \in {"rewrite", "post_rewrite"} => pc \in {"rewrite", "post_rewrite"},
         pc' \in {"submit", "wait_body"} => ctx # 0
  PROVE  IInv'
<1>1. ASSUME NEW i \in Pass
      PROVE  AuditInv(i)'
  <2>1. AuditInv(i) /\ Same(t[i], t'[i]) /\ c'[i].logged = c[i].logged
    BY DEF IInv
  <2>2. t[i] \in TxType /\ t'[i] \in TxType
    BY DEF IInv, TypeOK
  <2> QED
    BY <2>1, <2>2 DEF AuditInv, Same, TxType
<1>2. pass \in Pass
  BY DEF IInv, TypeOK
<1>3. (pc \in {"rewrite", "post_rewrite"} /\ ctx = 0 => t[pass].handle = "none")'
  BY <1>2 DEF IInv, Same
<1> QED
  BY <1>1, <1>3 DEF IInv

\* The step changes at most the context and the transaction of ctx.
LEMMA CtxStep ==
  ASSUME IInv, ctx # 0,
         NEW y, NEW cc, Same(t[ctx], y), cc \in CtxType, cc.logged = c[ctx].logged,
         t' = [t EXCEPT ![ctx] = y], c' = [c EXCEPT ![ctx] = cc]
  PROVE  /\ \A i \in Pass : Same(t[i], t'[i]) /\ c'[i].logged = c[i].logged
         /\ t' \in [Pass -> TxType] /\ c' \in [Pass -> CtxType]
<1>1. ctx \in Pass
  BY DEF IInv, TypeOK
<1>2. \A i \in Pass : t[i] \in TxType /\ Same(t[i], t[i])
  BY DEF IInv, TypeOK, Same
<1> QED
  BY <1>1, <1>2 DEF IInv, TypeOK, Same

\* The step changes no context and no transaction.
LEMMA StillStep ==
  ASSUME IInv, t' = t, c' = c
  PROVE  \A i \in Pass : Same(t[i], t'[i]) /\ c'[i].logged = c[i].logged
  BY DEF IInv, TypeOK, Same

-----------------------------------------------------------------------------
(* One lemma per group of actions *)

\* The handlers' paths that only move the request on.
LEMMA MoveSteps ==
  ASSUME IInv,
         \/ RewriteDeclined \/ CreateCtxFails \/ PostRewrite \/ PreAccessDeclined
         \/ RequestReadFails \/ PreAccessResumes \/ SubmitDeclined \/ PreAccessAgain
         \/ OriginResponds \/ OriginFails \/ DefaultPage \/ Terminate \/ HeaderRefused
  PROVE  IInv'
<1> USE DEF Control, Statuses, Proceed
<1>1. /\ TypeOK'
      /\ t' = t /\ c' = c /\ reg' = reg /\ pass' = pass /\ ctx' = ctx
      /\ pc \notin {"cleanup", "destroyed"} /\ pc' # "destroyed"
      /\ pc' \in {"rewrite", "post_rewrite"} => pc \in {"rewrite", "post_rewrite"}
      /\ pc' \in {"submit", "wait_body"} => ctx # 0
  <2>1. CASE RewriteDeclined
    BY <2>1 DEF IInv, TypeOK, RewriteDeclined
  <2>2. CASE CreateCtxFails
    BY <2>2 DEF IInv, TypeOK, CreateCtxFails
  <2>3. CASE PostRewrite
    BY <2>3, BoundsAssumption DEF IInv, TypeOK, PostRewrite
  <2>4. CASE PreAccessDeclined
    BY <2>4 DEF IInv, TypeOK, PreAccessDeclined
  <2>5. CASE RequestReadFails
    BY <2>5 DEF IInv, TypeOK, RequestReadFails
  <2>6. CASE PreAccessResumes
    BY <2>6 DEF IInv, TypeOK, PreAccessResumes
  <2>7. CASE SubmitDeclined
    BY <2>7 DEF IInv, TypeOK, SubmitDeclined
  <2>8. CASE PreAccessAgain
    BY <2>8, BoundsAssumption DEF IInv, TypeOK, PreAccessAgain
  <2>9. CASE OriginResponds
    <3>1. PICK b \in BodyAfterContent, o \in Origins :
            /\ r' = [r EXCEPT !.body = b,
                       !.location = IF o = "redirect" THEN "origin" ELSE @,
                       !.locations = IF o = "redirect" THEN @ \cup {"origin"} ELSE @]
            /\ resp' = [kind |-> "origin", stream |-> o = "stream", seen |-> 0]
      BY <2>9 DEF OriginResponds
    <3>2. r \in RequestType /\ b \in {"unread", "read", "discarded"}
      BY <3>1 DEF IInv, TypeOK, BodyAfterContent, RequestType
    <3>3. r' \in RequestType
      BY <3>1, <3>2 DEF RequestType
    <3>4. resp' \in RespType
      BY <3>1 DEF RespType
    <3> QED
      BY <2>9, <3>3, <3>4 DEF IInv, TypeOK, OriginResponds
  <2>10. CASE OriginFails
    <3>1. r' \in RequestType
      BY <2>10 DEF IInv, TypeOK, OriginFails, BodyAfterContent, RequestType
    <3> QED
      BY <2>10, <3>1 DEF IInv, TypeOK, OriginFails
  <2>11. CASE DefaultPage
    <3>1. r' \in RequestType
      BY <2>11 DEF IInv, TypeOK, DefaultPage, RequestType
    <3>2. resp' \in RespType
      BY <2>11 DEF DefaultPage, RespType
    <3> QED
      BY <2>11, <3>1, <3>2 DEF IInv, TypeOK, DefaultPage
  <2>12. CASE Terminate
    BY <2>12 DEF IInv, TypeOK, Terminate
  <2>13. CASE HeaderRefused
    BY <2>13 DEF IInv, TypeOK, HeaderRefused
  <2> QED
    BY <2>1, <2>2, <2>3, <2>4, <2>5, <2>6, <2>7, <2>8, <2>9, <2>10, <2>11,
       <2>12, <2>13
<1> QED
  BY <1>1, StillStep, QuietStep

\* A transaction is created: the pass had none.
LEMMA CreateSteps ==
  ASSUME IInv, CreateCtxUnregistered \/ RewriteFails \/ RewriteInspects
  PROVE  IInv'
<1> DEFINE new == t'[pass]
<1>1. /\ pc = "rewrite" /\ ctx = 0 /\ loc.enable /\ pass \in Pass
      /\ t[pass].handle = "none" /\ ~t[pass].owned /\ pass \notin reg
  BY DEF IInv, TypeOK, AuditInv, CreateCtxUnregistered, RewriteFails,
         RewriteInspects, Inspected, TxType
<1>2. NoTx \in TxType /\ Created \in TxType /\ NewCtx \in CtxType
  <2>1. <<>> \in Seq(1..4)
    OBVIOUS
  <2>2. NoTx \in TxType
    BY <2>1 DEF NoTx, TxType
  <2>3. Created \in TxType
    BY <2>2 DEF Created, TxType
  <2>4. NewCtx \in CtxType
    BY DEF NewCtx, CtxType
  <2> QED
    BY <2>2, <2>3, <2>4
<1>3. /\ TypeOK'
      /\ \A i \in Pass \ {pass} : t'[i] = t[i] /\ c'[i] = c[i]
      /\ pass' = pass /\ ctx' = pass
      /\ pc' \in {"post_rewrite", "special"}
      /\ \/ /\ reg' = reg
            /\ new.handle = "freed" /\ ~new.owned /\ new.frees = 1
         \/ /\ reg' = reg \cup {pass}
            /\ new.handle = "live" /\ new.owned /\ new.frees = 0 /\ ~new.bad
            /\ new.logs = (IF c'[pass].logged THEN 1 ELSE 0)
  <2>1. CASE CreateCtxUnregistered
    BY <1>1, <1>2, <2>1, ZenonT(60) DEF IInv, TypeOK, CreateCtxUnregistered, Proceed, Control,
         Statuses, NoTx, TxType
  <2>2. CASE RewriteFails
    <3>1. PICK long \in BOOLEAN :
            c' = [c EXCEPT ![pass] = [NewCtx EXCEPT !.triggered = long]]
      BY <2>2 DEF RewriteFails
    <3>2. c'[pass] \in CtxType /\ ~c'[pass].logged
      BY <1>1, <3>1 DEF IInv, TypeOK, NewCtx, CtxType
    <3> QED
      BY <1>1, <1>2, <2>2, <3>1, <3>2
      DEF IInv, TypeOK, RewriteFails, Proceed, Control, Statuses, Created, NoTx
  <2>3. CASE RewriteInspects
    <3>1. PICK o \in Outcomes(Created), installed \in Installs :
            LET x == Evaluate(Created, 1, o)
                v == Verdict(PollRet(x, o))
            IN  /\ t' = [t EXCEPT ![pass] = Polled(x, o, FALSE, TRUE)]
                /\ c' = [c EXCEPT ![pass] = [PolledCtx(NewCtx, x, o, TRUE) EXCEPT
                                               !.triggered = v # "declined"]]
                /\ r' = PolledReq(x, o, installed)
                /\ Proceed(v, "post_rewrite")
      BY <2>3 DEF RewriteInspects
    <3> DEFINE x == Evaluate(Created, 1, o)
               v == Verdict(PollRet(x, o))
               y == Polled(x, o, FALSE, TRUE)
               cc == [PolledCtx(NewCtx, x, o, TRUE) EXCEPT !.triggered = v # "declined"]
    <3>2. Same(Created, x)
      BY <1>2, EvaluateSame, 1 \in 1..4
    <3>3. /\ x \in TxType /\ x.handle = "live" /\ x.owned /\ x.logs = 0
          /\ x.frees = 0 /\ ~x.bad
      BY <1>2, <3>2 DEF Same, Created, NoTx
    <3> HIDE DEF x
    <3>4. /\ y \in TxType /\ y.handle = "live" /\ y.owned /\ y.frees = 0 /\ ~y.bad
          /\ cc \in CtxType
          /\ y.logs = (IF cc.logged THEN 1 ELSE 0)
      <4>1. CASE o = "error" \/ x.hit \notin Denials
        BY <3>3, <4>1 DEF Polled, Intervene, Call, PolledCtx, InterveneCtx, NewCtx,
             TxType, CtxType
      <4>2. CASE o # "error" /\ x.hit \in Denials
        <5>1. Call(x) = [x EXCEPT !.bad = FALSE]
          BY <3>3 DEF Call, TxType
        <5>2. y = ProcessLogging([Call(x) EXCEPT !.code = x.hit])
          BY <1>1, <4>2 DEF Polled, Intervene
        <5> DEFINE z == [Call(x) EXCEPT !.code = x.hit]
        <5>a. /\ z \in TxType /\ z.handle = "live" /\ z.owned /\ z.logs = 0
              /\ z.frees = 0 /\ ~z.bad
          BY <3>3, <5>1 DEF TxType
        <5> HIDE DEF z
        <5>b. y = ProcessLogging(z)
          BY <5>2 DEF z
        <5> HIDE DEF y
        <5>3. /\ y.handle = "live" /\ y.owned /\ y.frees = 0 /\ ~y.bad /\ y.logs = 1
              /\ y \in TxType
          BY <5>a, <5>b, LoggingEffect
        <5>4. cc \in CtxType /\ cc.logged
          BY <1>2, <4>2 DEF PolledCtx, InterveneCtx, CtxType
        <5> QED
          BY <5>3, <5>4
      <4> QED
        BY <4>1, <4>2
    <3>5. r' \in RequestType
      BY <3>1, <3>3, RequestTypes DEF IInv, x
    <3>6. v \in Statuses \cup {"declined"}
      BY <3>3, VerdictTypes
    <3>7. pc' \in {"post_rewrite", "special"} /\ rc' \in Statuses
      BY <3>1, <3>6 DEF Proceed, x, IInv, TypeOK
    <3>8. t' = [t EXCEPT ![pass] = y] /\ c' = [c EXCEPT ![pass] = cc]
      BY <3>1 DEF x
    <3> HIDE DEF y, cc, v
    <3> QED
      BY <1>1, <2>3, <3>4, <3>5, <3>7, <3>8 DEF IInv, TypeOK, RewriteInspects, Control
  <2> QED
    BY <2>1, <2>2, <2>3
<1>4. ASSUME NEW i \in Pass
      PROVE  AuditInv(i)'
  <2>1. CASE i = pass
    <3>1. t'[i] \in TxType
      BY <1>3 DEF TypeOK
    <3> QED
      BY <1>1, <1>3, <2>1, <3>1 DEF AuditInv, TxType, Pass
  <2>2. CASE i # pass
    <3>1. AuditInv(i)
      BY DEF IInv
    <3> QED
      BY <1>1, <1>3, <2>2, <3>1 DEF AuditInv
  <2> QED
    BY <2>1, <2>2
<1> QED
  BY <1>1, <1>3, <1>4, BoundsAssumption DEF IInv, Pass

\* The request body: phase 2 with or without a body, and its submission.
LEMMA RequestBodyPhaseStep ==
  ASSUME IInv, ctx # 0, NEW x, NEW cc, Same(t[ctx], x), cc \in CtxType,
         cc.logged = c[ctx].logged, RequestBodyPhase(x, cc)
  PROVE  /\ \A i \in Pass : Same(t[i], t'[i]) /\ c'[i].logged = c[i].logged
         /\ t' \in [Pass -> TxType] /\ c' \in [Pass -> CtxType]
         /\ r' \in RequestType /\ rc' \in Statuses /\ pc' \in {"content", "special"}
<1>1. PICK o \in Outcomes(x), installed \in Installs :
        LET y == Evaluate(x, 2, o)
            v == IF o = "error" THEN "500" ELSE Verdict(InterveneRet(y))
        IN  /\ t' = [t EXCEPT ![ctx] = Polled(y, o, cc.logged, FALSE)]
            /\ c' = [c EXCEPT ![ctx] = [cc EXCEPT !.triggered = @ \/ v # "declined"]]
            /\ r' = PolledReq(y, o, installed)
            /\ Proceed(v, "content")
  BY DEF RequestBodyPhase
<1> DEFINE y == Evaluate(x, 2, o)
           v == IF o = "error" THEN "500" ELSE Verdict(InterveneRet(y))
           z == Polled(y, o, cc.logged, FALSE)
           d == [cc EXCEPT !.triggered = @ \/ v # "declined"]
<1>2. Same(t[ctx], y) /\ y \in TxType
  <2>1. Same(x, y)
    BY EvaluateSame, 2 \in 1..4 DEF Same
  <2> QED
    BY <2>1, SameTrans DEF Same
<1> HIDE DEF y
<1>3. Same(t[ctx], z)
  BY <1>2, PolledSame, SameTrans
<1>4. d \in CtxType /\ d.logged = c[ctx].logged
  BY DEF CtxType
<1>5. r' \in RequestType
  BY <1>1, <1>2, RequestTypes DEF IInv, y
<1>6. v \in Statuses \cup {"declined"}
  BY <1>2, VerdictTypes DEF Statuses
<1>7. rc' \in Statuses /\ pc' \in {"content", "special"}
  BY <1>1, <1>6 DEF Proceed, y, IInv, TypeOK
<1>8. t' = [t EXCEPT ![ctx] = z] /\ c' = [c EXCEPT ![ctx] = d]
  BY <1>1 DEF y
<1> HIDE DEF z, d, v
<1> QED
  BY <1>3, <1>4, <1>5, <1>7, <1>8, CtxStep

\* The preaccess handler and its read handler.
LEMMA PreAccessSteps ==
  ASSUME IInv, \/ PreAccessPhase2 \/ PreAccessReads \/ RequestRead \/ SubmitFails
               \/ SubmitYields \/ SubmitInterrupted \/ SubmitCompletes
  PROVE  IInv'
<1> USE DEF Control
<1>0. /\ ctx # 0 => /\ ctx \in Pass /\ t[ctx] \in TxType /\ c[ctx] \in CtxType
                    /\ Same(t[ctx], t[ctx]) /\ Same(t[ctx], Call(t[ctx]))
      /\ r \in RequestType /\ r.len \in Nat
  BY BoundsAssumption, CallSame DEF IInv, TypeOK, Same, RequestType
<1>1. /\ \A i \in Pass : Same(t[i], t'[i]) /\ c'[i].logged = c[i].logged
      /\ t' \in [Pass -> TxType] /\ c' \in [Pass -> CtxType]
      /\ r' \in RequestType /\ rc' \in Statuses
      /\ pc' \in {"content", "special", "submit", "wait_body", "preaccess"}
  <2>1. CASE PreAccessPhase2
    <3>1. CASE ctx = 0
      BY <1>0, <2>1, <3>1, StillStep DEF PreAccessPhase2, Proceed, IInv, TypeOK, Statuses
    <3>2. CASE ctx # 0
      BY <1>0, <2>1, <3>2, RequestBodyPhaseStep DEF PreAccessPhase2
    <3> QED
      BY <3>1, <3>2
  <2>2. CASE PreAccessReads
    <3>1. ctx # 0 /\ t' = [t EXCEPT ![ctx] = Call(t[ctx])]
      BY <2>2, <1>0 DEF PreAccessReads
    <3>2. PICK cc \in CtxType :
            c' = [c EXCEPT ![ctx] = cc] /\ cc.logged = c[ctx].logged
      <4>1. CASE c' = [c EXCEPT ![ctx].requested = TRUE]
        <5> DEFINE cc == [c[ctx] EXCEPT !.requested = TRUE]
        <5>1. cc \in CtxType /\ cc.logged = c[ctx].logged
          BY <1>0, <3>1 DEF CtxType
        <5> QED
          BY <4>1, <5>1
      <4>2. CASE c' = [c EXCEPT ![ctx].requested = TRUE, ![ctx].waiting = TRUE]
        <5> DEFINE cc == [c[ctx] EXCEPT !.requested = TRUE, !.waiting = TRUE]
        <5>1. cc \in CtxType /\ cc.logged = c[ctx].logged
          BY <1>0, <3>1 DEF CtxType
        <5>2. c' = [c EXCEPT ![ctx] = cc]
          BY <1>0, <3>1, <4>2 DEF IInv, TypeOK
        <5> QED
          BY <5>1, <5>2
      <4> QED
        BY <2>2, <4>1, <4>2 DEF PreAccessReads
    <3>3. r' \in RequestType
      BY <2>2, <1>0 DEF PreAccessReads, RequestType
    <3>4. rc' \in Statuses /\ pc' \in {"submit", "wait_body", "special"}
      BY <2>2 DEF PreAccessReads, Proceed, Statuses, IInv, TypeOK
    <3> QED
      BY <1>0, <3>1, <3>2, <3>3, <3>4, CtxStep
  <2>3. CASE RequestRead
    <3>1. pc = "wait_body" /\ c' = [c EXCEPT ![ctx].waiting = FALSE] /\ t' = t
      BY <2>3 DEF RequestRead
    <3>2. r' \in RequestType /\ rc' \in Statuses /\ pc' = "preaccess"
      BY <2>3, <1>0, ZenonT(60) DEF RequestRead, RequestType, IInv, TypeOK
    <3>3. t' \in [Pass -> TxType] /\ c' \in [Pass -> CtxType]
      BY <3>1, ZenonT(60) DEF IInv, TypeOK, CtxType
    <3>4. \A i \in Pass : c'[i].logged = c[i].logged
      BY <3>1 DEF IInv, TypeOK, CtxType
    <3>5. \A i \in Pass : Same(t[i], t'[i])
      BY <3>1 DEF IInv, TypeOK, Same
    <3> QED
      BY <3>2, <3>3, <3>4, <3>5
  <2>4. CASE SubmitFails
    <3>1. PICK k \in 0..(r.len - 1) :
            t' = [t EXCEPT ![ctx] = [Call(t[ctx]) EXCEPT !.appended = @ + k]]
      BY <1>0, <2>4 DEF SubmitFails
    <3> DEFINE y == [Call(t[ctx]) EXCEPT !.appended = @ + k]
               cc == [c[ctx] EXCEPT !.submitted = TRUE, !.triggered = TRUE]
    <3>2. ctx # 0 /\ k \in Nat
      BY <1>0, <2>4, <3>1 DEF IInv, SubmitFails
    <3>3. Same(t[ctx], y)
      BY <1>0, <3>2, AppendSame
    <3>4. cc \in CtxType /\ cc.logged = c[ctx].logged
      BY <1>0, <3>2 DEF CtxType
    <3>5. c' = [c EXCEPT ![ctx] = cc]
      BY <1>0, <2>4, <3>2 DEF SubmitFails, IInv, TypeOK
    <3>6. r' \in RequestType /\ rc' \in Statuses /\ pc' \in {"content", "special"}
      BY <1>0, <2>4 DEF SubmitFails, Proceed, Statuses, IInv, TypeOK
    <3> HIDE DEF y, cc
    <3> QED
      BY <3>1, <3>2, <3>3, <3>4, <3>5, <3>6, CtxStep DEF y
  <2>5. CASE SubmitYields
    <3> DEFINE k == IF r.len = 0 THEN 0 ELSE 1
               x(h) == [Call(t[ctx]) EXCEPT !.appended = @ + k, !.hit = IF k = 0 THEN @ ELSE h]
               y(h) == Intervene(x(h), c[ctx].logged, FALSE)
               cc == [c[ctx] EXCEPT !.submitted = TRUE]
    <3>1. PICK h \in Appends(t[ctx]), installed \in Installs :
            t' = [t EXCEPT ![ctx] = y(h)] /\ r' = InterveneReq(x(h), installed)
      BY <2>5 DEF SubmitYields
    <3>2. ctx # 0 /\ k \in Nat /\ h \in Hits \cup {"none"}
      BY <1>0, <2>5, <3>1 DEF IInv, SubmitYields, Appends, TxType
    <3>3. Same(t[ctx], x(h))
      <4>1. CASE k = 0
        <5>1. x(h) = [Call(t[ctx]) EXCEPT !.appended = @ + k, !.hit = Call(t[ctx]).hit]
          BY <4>1
        <5>2. Call(t[ctx]).hit \in Hits \cup {"none"}
          BY <1>0, <3>2 DEF Same, TxType
        <5> QED
          BY <1>0, <3>2, <5>1, <5>2, AppendSame
      <4>2. CASE k # 0
        <5>1. x(h) = [Call(t[ctx]) EXCEPT !.appended = @ + k, !.hit = h]
          BY <4>2
        <5> QED
          BY <1>0, <3>2, <5>1, AppendSame
      <4> QED
        BY <4>1, <4>2
    <3> HIDE DEF x
    <3>4. Same(t[ctx], y(h))
      BY <3>3, InterveneSame, SameTrans DEF Same
    <3>5. cc \in CtxType /\ cc.logged = c[ctx].logged
      BY <1>0, <3>2 DEF CtxType
    <3>6. c' = [c EXCEPT ![ctx] = cc]
      BY <1>0, <2>5, <3>2 DEF SubmitYields, IInv, TypeOK
    <3>7. r' \in RequestType
      BY <3>1, <3>3, RequestTypes DEF IInv, Same
    <3>8. rc' \in Statuses /\ pc' = "content"
      BY <2>5 DEF SubmitYields, IInv, TypeOK
    <3> HIDE DEF y, cc
    <3> QED
      BY <3>1, <3>2, <3>4, <3>5, <3>6, <3>7, <3>8, CtxStep
  <2>6. CASE SubmitInterrupted
    <3> DEFINE x(k, h) == [Call(t[ctx]) EXCEPT !.appended = @ + k, !.hit = h]
               y(k, h) == Intervene(x(k, h), c[ctx].logged, FALSE)
               cc == [c[ctx] EXCEPT !.submitted = TRUE, !.triggered = TRUE]
    <3>1. PICK k \in 1..r.len, h \in Appends(t[ctx]) \cap Denials, installed \in Installs :
            /\ t' = [t EXCEPT ![ctx] = y(k, h)]
            /\ r' = InterveneReq(x(k, h), installed)
            /\ Proceed(Verdict(InterveneRet(x(k, h))), "content")
      BY <2>6 DEF SubmitInterrupted
    <3>a. ctx # 0
      BY <2>6 DEF IInv, SubmitInterrupted
    <3>b. k \in Nat
      BY <1>0
    <3>c. h \in Hits \cup {"none"}
      BY DEF Denials
    <3>2. ctx # 0 /\ k \in Nat /\ h \in Hits \cup {"none"}
      BY <3>a, <3>b, <3>c
    <3>3. Same(t[ctx], x(k, h))
      BY <1>0, <3>2, AppendSame
    <3> HIDE DEF x
    <3>4. Same(t[ctx], y(k, h))
      BY <3>3, InterveneSame, SameTrans DEF Same
    <3>5. cc \in CtxType /\ cc.logged = c[ctx].logged
      BY <1>0, <3>2 DEF CtxType
    <3>6. c' = [c EXCEPT ![ctx] = cc]
      BY <1>0, <2>6, <3>2 DEF SubmitInterrupted, IInv, TypeOK
    <3>7. r' \in RequestType
      BY <3>1, <3>3, RequestTypes DEF IInv, Same
    <3>8. Verdict(InterveneRet(x(k, h))) \in Statuses \cup {"declined"}
      BY <3>3, VerdictTypes DEF Same
    <3>9. rc' \in Statuses /\ pc' \in {"content", "special"}
      BY <3>1, <3>8 DEF Proceed, IInv, TypeOK
    <3> HIDE DEF y, cc
    <3> QED
      BY <3>1, <3>2, <3>4, <3>5, <3>6, <3>7, <3>9, CtxStep
  <2>7. CASE SubmitCompletes
    <3> DEFINE x(h) == [Call(t[ctx]) EXCEPT !.appended = @ + r.len,
                                            !.hit = IF r.len = 0 THEN @ ELSE h]
               cc == [c[ctx] EXCEPT !.submitted = TRUE]
    <3>1. PICK h \in Appends(t[ctx]) \ Denials : RequestBodyPhase(x(h), cc)
      BY <2>7 DEF SubmitCompletes
    <3>2. ctx # 0 /\ h \in Hits \cup {"none"}
      BY <1>0, <2>7, <3>1 DEF IInv, SubmitCompletes, Appends, TxType
    <3>3. Same(t[ctx], x(h))
      <4>1. CASE r.len = 0
        <5>1. x(h) = [Call(t[ctx]) EXCEPT !.appended = @ + r.len, !.hit = Call(t[ctx]).hit]
          BY <4>1
        <5>2. Call(t[ctx]).hit \in Hits \cup {"none"}
          BY <1>0, <3>2 DEF Same, TxType
        <5> QED
          BY <1>0, <3>2, <5>1, <5>2, AppendSame
      <4>2. CASE r.len # 0
        <5>1. x(h) = [Call(t[ctx]) EXCEPT !.appended = @ + r.len, !.hit = h]
          BY <4>2
        <5> QED
          BY <1>0, <3>2, <5>1, AppendSame
      <4> QED
        BY <4>1, <4>2
    <3>4. cc \in CtxType /\ cc.logged = c[ctx].logged
      BY <1>0, <3>2 DEF CtxType
    <3> HIDE DEF x, cc
    <3> QED
      BY <3>1, <3>2, <3>3, <3>4, RequestBodyPhaseStep
  <2> QED
    BY <2>1, <2>2, <2>3, <2>4, <2>5, <2>6, <2>7
<1>2. /\ pc \in {"preaccess", "submit", "wait_body"}
      /\ pass' = pass /\ hops' = hops /\ loc' = loc /\ resp' = resp
      /\ ctx' = ctx /\ reg' = reg /\ out' = out
      /\ pc' \in {"submit", "wait_body"} => ctx # 0
  BY ZenonT(60) DEF PreAccessPhase2, PreAccessReads, RequestRead, SubmitFails,
         SubmitYields, SubmitInterrupted, SubmitCompletes, Proceed, RequestBodyPhase
<1>3. TypeOK'
  BY <1>1, <1>2 DEF IInv, TypeOK
<1> QED
  BY <1>1, <1>2, <1>3, QuietStep

\* A handler that finalizes leaves a status and clears the headers.
LEMMA FinalizeTypes ==
  ASSUME TypeOK, NEW status \in Statuses, NEW rr \in RequestType,
         FilterFinalize(status, rr)
  PROVE  r' \in RequestType /\ pc' = "special" /\ rc' \in Statuses /\ out' \in OutType
  BY DEF FilterFinalize, RequestType, TypeOK

\* A prepared redirect leaves the request well typed.
LEMMA RedirectTypes ==
  ASSUME NEW rr \in RequestType
  PROVE  PrepareRedirect(rr) \in RequestType
  BY DEF PrepareRedirect, RequestType

\* The header filter.
LEMMA HeaderSteps ==
  ASSUME IInv, HeaderBypass \/ HeaderFails \/ HeaderInspects \/ HeaderBlocks
  PROVE  IInv'
<1> USE DEF Control
<1>0. /\ ctx # 0 => /\ ctx \in Pass /\ t[ctx] \in TxType /\ c[ctx] \in CtxType
                    /\ Same(t[ctx], t[ctx]) /\ Same(t[ctx], Call(t[ctx]))
      /\ r \in RequestType /\ TypeOK
      /\ resp.kind \in Kinds /\ RespStatus \in Statuses \cup {"origin"}
  BY CallSame DEF IInv, TypeOK, Same, RespType, Kinds, RespStatus
<1>1. /\ \A i \in Pass : Same(t[i], t'[i]) /\ c'[i].logged = c[i].logged
      /\ t' \in [Pass -> TxType] /\ c' \in [Pass -> CtxType]
      /\ r' \in RequestType /\ rc' \in Statuses /\ out' \in OutType
      /\ pc' \in {"log", "body", "special"}
  <2>1. CASE HeaderBypass
    <3>1. SendHeader(resp.kind, RespStatus, r)
      BY <2>1 DEF HeaderBypass
    <3>2. r' \in RequestType /\ out' \in OutType
      BY <1>0, <3>1, SendHeaderTypes
    <3> QED
      BY <1>0, <2>1, <3>2, StillStep DEF HeaderBypass, IInv, TypeOK
  <2>2. CASE HeaderFails
    <3> DEFINE cc == [c[ctx] EXCEPT !.processed = TRUE]
    <3>1. ctx # 0
      BY <2>2 DEF HeaderFails, Bypassed
    <3>2. cc \in CtxType /\ cc.logged = c[ctx].logged
      BY <1>0, <3>1 DEF CtxType
    <3>3. t' = [t EXCEPT ![ctx] = Call(t[ctx])] /\ c' = [c EXCEPT ![ctx] = cc]
      BY <1>0, <2>2, <3>1 DEF HeaderFails
    <3>4. r' \in RequestType /\ rc' \in Statuses /\ out' \in OutType /\ pc' = "log"
      BY <1>0, <2>2 DEF HeaderFails, TypeOK
    <3> HIDE DEF cc
    <3> QED
      BY <1>0, <3>1, <3>2, <3>3, <3>4, CtxStep
  <2>3. CASE HeaderInspects
    <3> DEFINE x(o) == Evaluate(t[ctx], 3, o)
               rr(o, n) == PolledReq(x(o), o, n)
               y(o) == Polled(x(o), o, c[ctx].logged, FALSE)
               cc(p) == [c[ctx] EXCEPT !.processed = TRUE, !.processable = p]
               dd(p) == [cc(p) EXCEPT !.delayed = TRUE, !.pending = 0]
    <3>1. ctx # 0
      BY <2>3 DEF HeaderInspects, Bypassed
    <3>c. \A p \in BOOLEAN : /\ cc(p) \in CtxType /\ cc(p).logged = c[ctx].logged
                             /\ dd(p) \in CtxType /\ dd(p).logged = c[ctx].logged
      BY <1>0, <3>1 DEF CtxType
    <3>2. PICK o \in Outcomes(t[ctx]), p \in BOOLEAN, n \in Installs :
            /\ t' = [t EXCEPT ![ctx] = Polled(x(o), o, cc(p).logged, FALSE)]
            /\ \/ /\ c' = [c EXCEPT ![ctx] = dd(p)]
                  /\ pc' = "body" /\ r' = r /\ out' = out
               \/ /\ c' = [c EXCEPT ![ctx] = cc(p)]
                  /\ SendHeader(resp.kind, RespStatus, rr(o, n))
                  /\ pc' \in {"log", "body"}
      BY <2>3, ZenonT(60) DEF HeaderInspects
    <3>3. Same(t[ctx], x(o)) /\ x(o) \in TxType
      BY <1>0, <3>1, EvaluateSame, 3 \in 1..4 DEF Same
    <3> HIDE DEF x
    <3>4. Same(t[ctx], y(o)) /\ t' = [t EXCEPT ![ctx] = y(o)]
      BY <3>2, <3>3, <3>c, PolledSame, SameTrans
    <3>5. rr(o, n) \in RequestType
      BY <1>0, <3>3, RequestTypes
    <3> HIDE DEF rr, y
    <3>6. rc' \in Statuses
      BY <1>0, <2>3 DEF HeaderInspects, TypeOK
    <3>7. r' \in RequestType /\ out' \in OutType /\ pc' \in {"log", "body"}
      BY <1>0, <3>2, <3>5, SendHeaderTypes, SMTT(30) DEF TypeOK
    <3>8. PICK d : d \in CtxType /\ d.logged = c[ctx].logged /\ c' = [c EXCEPT ![ctx] = d]
      BY <3>2, <3>c
    <3> QED
      BY <3>1, <3>4, <3>6, <3>7, <3>8, CtxStep
  <2>4. CASE HeaderBlocks
    <3> DEFINE x(o) == Evaluate(t[ctx], 3, o)
               rr(o, n) == PolledReq(x(o), o, n)
               y(o) == Polled(x(o), o, c[ctx].logged, FALSE)
               cc(p) == [c[ctx] EXCEPT !.processed = TRUE, !.processable = p,
                                       !.triggered = TRUE]
               ret(o) == PollRet(x(o), o)
    <3>1. ctx # 0 /\ ~r.header_sent
      BY <2>4 DEF HeaderBlocks, Bypassed
    <3>2. PICK o \in Outcomes(t[ctx]), p \in BOOLEAN, n \in Installs :
            /\ ret(o) # "ok"
            /\ t' = [t EXCEPT ![ctx] = y(o)]
            /\ c' = [c EXCEPT ![ctx] = cc(p)]
            /\ \/ /\ SendHeader("redirect", ret(o), PrepareRedirect(rr(o, n)))
                  /\ pc' \in {"body", "log"} /\ rc' = rc
               \/ FilterFinalize(ret(o), rr(o, n))
      BY <2>4 DEF HeaderBlocks
    <3>3. Same(t[ctx], x(o)) /\ x(o) \in TxType
      BY <1>0, <3>1, EvaluateSame, 3 \in 1..4 DEF Same
    <3> HIDE DEF x
    <3>4. Same(t[ctx], y(o))
      BY <3>3, PolledSame, SameTrans
    <3>5. rr(o, n) \in RequestType /\ PrepareRedirect(rr(o, n)) \in RequestType
      BY <1>0, <3>3, RequestTypes, RedirectTypes
    <3>6. ret(o) \in Statuses
      BY <3>1, <3>2 DEF PollRet, InterveneRet, Statuses
    <3>7. cc(p) \in CtxType /\ cc(p).logged = c[ctx].logged
      BY <1>0, <3>1 DEF CtxType
    <3> HIDE DEF rr, y, cc, ret
    <3>8. r' \in RequestType /\ out' \in OutType /\ rc' \in Statuses
          /\ pc' \in {"log", "body", "special"}
      BY <1>0, <3>2, <3>5, <3>6, SendHeaderTypes, FinalizeTypes DEF TypeOK, Kinds
    <3> QED
      BY <3>1, <3>2, <3>4, <3>7, <3>8, CtxStep
  <2> QED
    BY <2>1, <2>2, <2>3, <2>4
<1>2. /\ pc = "header"
      /\ pass' = pass /\ hops' = hops /\ loc' = loc /\ resp' = resp
      /\ ctx' = ctx /\ reg' = reg
  BY ZenonT(60) DEF HeaderBypass, HeaderFails, HeaderInspects, HeaderBlocks
<1>3. TypeOK'
  BY <1>1, <1>2 DEF IInv, TypeOK
<1> QED
  BY <1>1, <1>2, <1>3, QuietStep

\* The body filter.
LEMMA BodySteps ==
  ASSUME IInv, BodyBypass \/ BodyForwards \/ BodyHolds \/ BodyFlushes \/ BodyBlocks
  PROVE  IInv'
<1> USE DEF Control
<1>0. /\ ctx # 0 => /\ ctx \in Pass /\ t[ctx] \in TxType /\ c[ctx] \in CtxType
                    /\ Same(t[ctx], t[ctx])
      /\ r \in RequestType /\ out \in OutType /\ TypeOK
      /\ resp.kind \in Kinds /\ RespStatus \in Statuses \cup {"origin"}
      /\ LastFlags \subseteq BOOLEAN
  BY DEF IInv, TypeOK, Same, RespType, Kinds, RespStatus, LastFlags
<1>n. ASSUME NEW last \in BOOLEAN, NextBuffer(last)
      PROVE  resp' \in RespType /\ pc' \in {"log", "body"}
  BY <1>0, <1>n DEF NextBuffer, RespType, TypeOK
<1>1. /\ \A i \in Pass : Same(t[i], t'[i]) /\ c'[i].logged = c[i].logged
      /\ t' \in [Pass -> TxType] /\ c' \in [Pass -> CtxType]
      /\ r' \in RequestType /\ rc' \in Statuses /\ out' \in OutType
      /\ resp' \in RespType /\ pc' \in {"log", "body", "special"}
  <2>1. CASE BodyBypass
    <3>1. PICK last \in LastFlags :
            NextBuffer(last) /\ out' \in {out, Sent(out, 1, last)}
      BY <2>1 DEF BodyBypass
    <3>2. out' \in OutType
      BY <1>0, <3>1, SentTypes
    <3>3. t' \in [Pass -> TxType] /\ c' \in [Pass -> CtxType] /\ r' \in RequestType /\ rc' \in Statuses
      BY <1>0, <2>1 DEF BodyBypass, TypeOK
    <3> QED
      BY <1>0, <1>n, <2>1, <3>1, <3>2, <3>3, StillStep DEF BodyBypass
  <2>2. CASE BodyForwards
    <3>a. PICK last \in LastFlags :
            /\ \E x \in Inspections(t[ctx], c[ctx], last) : t' = [t EXCEPT ![ctx] = x]
            /\ NextBuffer(last) /\ out' = Sent(out, 1, last)
      BY <2>2 DEF BodyForwards
    <3>1. PICK x \in Inspections(t[ctx], c[ctx], last) :
            t' = [t EXCEPT ![ctx] = x] /\ NextBuffer(last) /\ out' = Sent(out, 1, last)
      BY <3>a
    <3>2. ctx # 0
      BY <2>2 DEF BodyForwards, TakenOver
    <3>3. Same(t[ctx], x) /\ last \in BOOLEAN
      BY <1>0, <3>1, <3>2, InspectionsSame
    <3>4. c' = [c EXCEPT ![ctx] = c[ctx]]
      BY <1>0, <2>2, <3>2 DEF BodyForwards, TypeOK
    <3>5. out' \in OutType
      BY <1>0, <3>1, <3>3, SentTypes
    <3>6. r' \in RequestType /\ rc' \in Statuses
      BY <1>0, <2>2 DEF BodyForwards, TypeOK
    <3> QED
      BY <1>0, <1>n, <3>1, <3>2, <3>3, <3>4, <3>5, <3>6, CtxStep
  <2>3. CASE BodyHolds
    <3> DEFINE cc == [c[ctx] EXCEPT !.pending = @ + 1]
    <3>1. PICK x \in Inspections(t[ctx], c[ctx], FALSE) : t' = [t EXCEPT ![ctx] = x]
      BY <2>3 DEF BodyHolds
    <3>2. ctx # 0
      BY <2>3 DEF BodyHolds, TakenOver
    <3>3. Same(t[ctx], x)
      BY <1>0, <3>1, <3>2, InspectionsSame
    <3>4. cc \in CtxType /\ cc.logged = c[ctx].logged
      <4>1. c[ctx].pending + 1 \in Nat
        BY <1>0, <3>2 DEF CtxType
      <4> QED
        BY <1>0, <3>2, <4>1 DEF CtxType
    <3>5. c' = [c EXCEPT ![ctx] = cc]
      BY <1>0, <2>3, <3>2 DEF BodyHolds, TypeOK
    <3>6. r' \in RequestType /\ rc' \in Statuses /\ out' \in OutType /\ NextBuffer(FALSE)
      BY <1>0, <2>3 DEF BodyHolds, TypeOK
    <3> HIDE DEF cc
    <3> QED
      BY <1>0, <1>n, <3>1, <3>2, <3>3, <3>4, <3>5, <3>6, CtxStep
  <2>4. CASE BodyFlushes
    <3> DEFINE cc == [c[ctx] EXCEPT !.delayed = FALSE, !.pending = 0]
               o == [out EXCEPT !.hdr = HeaderOf(resp.kind, RespStatus, r)]
    <3>a. PICK last \in LastFlags :
            /\ \E x \in Inspections(t[ctx], c[ctx], last) : t' = [t EXCEPT ![ctx] = x]
            /\ NextBuffer(last)
            /\ r' = [r EXCEPT !.header_sent = TRUE]
            /\ out' = Sent(o, c[ctx].pending + 1, last)
      BY <2>4 DEF BodyFlushes
    <3>1. PICK x \in Inspections(t[ctx], c[ctx], last) :
            /\ t' = [t EXCEPT ![ctx] = x] /\ NextBuffer(last)
            /\ r' = [r EXCEPT !.header_sent = TRUE]
            /\ out' = Sent(o, c[ctx].pending + 1, last)
      BY <3>a
    <3>2. ctx # 0
      BY <2>4 DEF BodyFlushes, TakenOver
    <3>3. Same(t[ctx], x) /\ last \in BOOLEAN
      BY <1>0, <3>1, <3>2, InspectionsSame
    <3>4. cc \in CtxType /\ cc.logged = c[ctx].logged
      BY <1>0, <3>2 DEF CtxType
    <3>5. c' = [c EXCEPT ![ctx] = cc]
      BY <1>0, <2>4, <3>2 DEF BodyFlushes, TypeOK
    <3>6. o \in OutType
      <4>1. HeaderOf(resp.kind, RespStatus, r) \in
              [kind : Kinds \cup {"none"}, pass : 0..MaxPass,
               status : Statuses \cup {"none", "origin"},
               locations : SUBSET {"origin", "waf"}]
        BY <1>0, BoundsAssumption DEF HeaderOf, TypeOK, Pass, RequestType
      <4> QED
        BY <1>0, <4>1 DEF OutType
    <3>7. c[ctx].pending + 1 \in Nat
      BY <1>0, <3>2 DEF CtxType
    <3> HIDE DEF cc, o
    <3>8. out' \in OutType
      BY <1>0, <3>1, <3>3, <3>6, <3>7, SentTypes
    <3>9. r' \in RequestType /\ rc' \in Statuses
      BY <1>0, <2>4, <3>1 DEF BodyFlushes, TypeOK, RequestType
    <3> QED
      BY <1>0, <1>n, <3>1, <3>2, <3>3, <3>4, <3>5, <3>8, <3>9, CtxStep
  <2>5. CASE BodyBlocks
    <3> DEFINE cc == [c[ctx] EXCEPT !.triggered = TRUE, !.delayed = FALSE, !.pending = 0]
               rr(b, n) == IF b.status = "redirect" THEN InterveneReq(b.tx, n) ELSE r
    <3>a. PICK last \in LastFlags, n \in Installs :
            \E b \in Refusals(t[ctx], c[ctx], last) :
              /\ t' = [t EXCEPT ![ctx] = b.tx]
              /\ \/ /\ SendHeader("redirect", b.status, PrepareRedirect(rr(b, n)))
                    /\ NextBuffer(last) /\ rc' = rc
                 \/ FilterFinalize(b.status, rr(b, n)) /\ resp' = resp
      BY <2>5 DEF BodyBlocks
    <3>1. PICK b \in Refusals(t[ctx], c[ctx], last) :
            /\ t' = [t EXCEPT ![ctx] = b.tx]
            /\ \/ /\ SendHeader("redirect", b.status, PrepareRedirect(rr(b, n)))
                  /\ NextBuffer(last) /\ rc' = rc
               \/ FilterFinalize(b.status, rr(b, n)) /\ resp' = resp
      BY <3>a
    <3>2. ctx # 0
      BY <2>5 DEF BodyBlocks, TakenOver
    <3>3. Same(t[ctx], b.tx) /\ b.status \in Statuses /\ last \in BOOLEAN
      BY <1>0, <3>1, <3>2, RefusalsSame
    <3>4. cc \in CtxType /\ cc.logged = c[ctx].logged
      BY <1>0, <3>2 DEF CtxType
    <3>5. c' = [c EXCEPT ![ctx] = cc]
      BY <1>0, <2>5, <3>2 DEF BodyBlocks, TypeOK
    <3>6. rr(b, n) \in RequestType /\ PrepareRedirect(rr(b, n)) \in RequestType
      BY <1>0, <3>3, RequestTypes, RedirectTypes DEF Same
    <3> HIDE DEF cc, rr
    <3>7. CASE SendHeader("redirect", b.status, PrepareRedirect(rr(b, n)))
               /\ NextBuffer(last) /\ rc' = rc
      <4>1. r' \in RequestType /\ out' \in OutType
        BY <1>0, <3>3, <3>6, <3>7, SendHeaderTypes DEF Kinds
      <4>2. resp' \in RespType /\ pc' \in {"log", "body"} /\ rc' \in Statuses
        BY <1>0, <1>n, <3>3, <3>7 DEF TypeOK
      <4> QED
        BY <3>1, <3>2, <3>3, <3>4, <3>5, <4>1, <4>2, CtxStep
    <3>8. CASE FilterFinalize(b.status, rr(b, n)) /\ resp' = resp
      <4>1. r' \in RequestType /\ pc' = "special" /\ rc' \in Statuses /\ out' \in OutType
        BY <1>0, <3>3, <3>6, <3>8, FinalizeTypes
      <4>2. resp' \in RespType
        BY <1>0, <3>8 DEF TypeOK
      <4> QED
        BY <3>1, <3>2, <3>3, <3>4, <3>5, <4>1, <4>2, CtxStep
    <3> QED
      BY <3>1, <3>7, <3>8
  <2> QED
    BY <2>1, <2>2, <2>3, <2>4, <2>5
<1>2. /\ pc = "body"
      /\ pass' = pass /\ hops' = hops /\ loc' = loc /\ ctx' = ctx /\ reg' = reg
  BY DEF BodyBypass, BodyForwards, BodyHolds, BodyFlushes, BodyBlocks
<1>3. TypeOK'
  BY <1>1, <1>2 DEF IInv, TypeOK
<1> QED
  BY <1>1, <1>2, <1>3, QuietStep

\* A new pass forgets the context and finds no transaction.
LEMMA PassSteps ==
  ASSUME IInv, InternalRedirect \/ ErrorPage
  PROVE  IInv'
<1>1. PICK e \in BOOLEAN, b \in {"unread", "read", "discarded"} : StartPass(e, b)
  BY DEF InternalRedirect, ErrorPage, BodyAfterContent, IInv, TypeOK, RequestType
<1>2. pc \in {"content", "special"}
  BY DEF InternalRedirect, ErrorPage
<1>3. r' \in RequestType
  BY <1>1 DEF StartPass, IInv, TypeOK, RequestType
<1>4. pass \in Pass /\ pass' \in Pass /\ pass' = pass + 1
  BY <1>1, BoundsAssumption DEF StartPass, IInv, TypeOK, Pass
<1>5. TypeOK'
  BY <1>1, <1>3, <1>4 DEF StartPass, IInv, TypeOK, Control
<1>6. ASSUME NEW i \in Pass
      PROVE  AuditInv(i)'
  <2>1. AuditInv(i)
    BY DEF IInv
  <2> QED
    BY <1>1, <1>2, <1>4, <2>1 DEF AuditInv, StartPass, Pass
<1>7. t'[pass'].handle = "none"
  BY <1>1, <1>4 DEF IInv, AuditInv, StartPass, Pass
<1> QED
  BY <1>1, <1>5, <1>6, <1>7 DEF IInv, StartPass

\* The LOG phase logs the transaction of the last pass.
LEMMA LogStep ==
  ASSUME IInv, LogHandler
  PROVE  IInv'
<1> USE DEF Control
<1>1. pc = "log" /\ pc' = "cleanup" /\ pass' = pass /\ ctx' = ctx /\ reg' = reg
  BY DEF LogHandler
<1>2. CASE ~Logs
  <2>1. t' = t /\ c' = c
    BY <1>2 DEF LogHandler
  <2>2. TypeOK'
    BY <2>1 DEF LogHandler, IInv, TypeOK
  <2> QED
    BY <1>1, <2>1, <2>2, StillStep, QuietStep
<1>3. CASE Logs
  <2> DEFINE x == ProcessLogging(t[ctx])
  <2>1. /\ ctx \in Pass /\ t[ctx] \in TxType /\ c[ctx] \in CtxType /\ ~c[ctx].logged
        /\ t' = [t EXCEPT ![ctx] = x] /\ c' = [c EXCEPT ![ctx].logged = TRUE]
    BY <1>3 DEF LogHandler, Logs, IInv, TypeOK
  <2>2. c' \in [Pass -> CtxType] /\ c'[ctx].logged
        /\ \A i \in Pass \ {ctx} : c'[i] = c[i] /\ t'[i] = t[i]
    BY <2>1 DEF IInv, TypeOK, CtxType
  <2>3. t'[ctx] = x
    BY <2>1 DEF IInv, TypeOK
  <2>4. CASE t[ctx].handle = "live"
    <3>1. /\ x \in TxType /\ x.handle = "live" /\ x.owned = t[ctx].owned
          /\ x.logs = t[ctx].logs + 1 /\ x.frees = t[ctx].frees /\ x.bad = t[ctx].bad
      BY <2>1, <2>4, LoggingEffect
    <3> HIDE DEF x
    <3>2. TypeOK'
      BY <2>1, <2>2, <3>1 DEF LogHandler, IInv, TypeOK
    <3>3. ASSUME NEW i \in Pass
          PROVE  AuditInv(i)'
      <4>0. AuditInv(i)
        BY DEF IInv
      <4>1. CASE i = ctx
        BY <1>1, <2>1, <2>2, <2>3, <2>4, <3>1, <4>0, <4>1 DEF AuditInv, TxType
      <4>2. CASE i # ctx
        BY <1>1, <2>2, <4>0, <4>2 DEF AuditInv
      <4> QED
        BY <4>1, <4>2
    <3> QED
      BY <1>1, <3>2, <3>3 DEF IInv
  <2>5. CASE t[ctx].handle # "live"
    <3>1. x = Call(t[ctx])
      BY <2>5 DEF ProcessLogging
    <3>2. Same(t[ctx], x)
      BY <2>1, <3>1, CallSame
    <3> HIDE DEF x
    <3>3. TypeOK'
      BY <2>1, <2>2, <3>2 DEF LogHandler, IInv, TypeOK, Same
    <3>4. ASSUME NEW i \in Pass
          PROVE  AuditInv(i)'
      <4>0. AuditInv(i)
        BY DEF IInv
      <4>1. CASE i = ctx
        <5>1. ~t[ctx].owned /\ x \in TxType
          BY <1>1, <2>1, <2>5, <3>2, <4>0, <4>1 DEF AuditInv, TxType, Same
        <5> QED
          BY <1>1, <2>1, <2>3, <2>5, <3>2, <4>0, <4>1, <5>1 DEF AuditInv, Same, TxType
      <4>2. CASE i # ctx
        BY <1>1, <2>2, <4>0, <4>2 DEF AuditInv
      <4> QED
        BY <4>1, <4>2
    <3> QED
      BY <1>1, <3>3, <3>4 DEF IInv
  <2> QED
    BY <2>4, <2>5
<1> QED
  BY <1>2, <1>3

\* The pool runs a cleanup: the transaction is logged if nobody logged it, and
\* freed.
LEMMA CleanupStep ==
  ASSUME IInv, Cleanup
  PROVE  IInv'
<1> USE DEF Control
<1>1. PICK i \in reg : /\ t' = [t EXCEPT ![i] = CleanUp(t[i], c[i].logged)]
                       /\ c' = [c EXCEPT ![i].logged = TRUE]
                       /\ reg' = reg \ {i}
  BY DEF Cleanup, IInv, TypeOK
<1>2. /\ i \in Pass /\ t[i] \in TxType /\ c[i] \in CtxType /\ AuditInv(i)
      /\ pc = "cleanup" /\ pc' = "cleanup" /\ pass' = pass /\ ctx' = ctx
  BY <1>1 DEF Cleanup, IInv, TypeOK
<1>3. /\ t[i].owned /\ t[i].handle = "live" /\ t[i].frees = 0 /\ ~t[i].bad
      /\ t[i].logs = (IF c[i].logged THEN 1 ELSE 0)
  BY <1>1, <1>2 DEF AuditInv, TxType
<1> DEFINE x == IF c[i].logged THEN t[i] ELSE ProcessLogging(t[i])
           y == FreeTransaction(x)
<1>4. x \in TxType /\ x.owned /\ x.handle = "live" /\ x.frees = 0 /\ ~x.bad /\ x.logs = 1
  <2>1. CASE c[i].logged
    BY <1>2, <1>3, <2>1
  <2>2. CASE ~c[i].logged
    <3>1. x = ProcessLogging(t[i]) /\ t[i].logs = 0
      BY <1>3, <2>2
    <3> HIDE DEF x
    <3> QED
      BY <1>2, <1>3, <3>1, LoggingEffect
  <2> QED
    BY <2>1, <2>2
<1> HIDE DEF x
<1>5. y \in TxType /\ y.owned /\ y.handle = "freed" /\ y.frees = 1 /\ ~y.bad /\ y.logs = 1
  <2>1. Call(x) \in TxType /\ Same(x, Call(x))
    BY <1>4, CallSame DEF Same
  <2>2. Call(x).frees = 0 /\ ~Call(x).bad /\ Call(x).owned /\ Call(x).logs = 1
    BY <1>4, <2>1 DEF Same
  <2>3. y = [Call(x) EXCEPT !.handle = "freed", !.frees = Call(x).frees + 1]
    BY <2>1 DEF FreeTransaction, TxType
  <2> HIDE DEF y
  <2>4. /\ y.owned = Call(x).owned /\ y.handle = "freed" /\ y.frees = Call(x).frees + 1
        /\ y.bad = Call(x).bad /\ y.logs = Call(x).logs
    BY <2>1, <2>3 DEF TxType
  <2>5. y \in TxType
    <3>1. Call(x).frees + 1 \in Nat
      BY <2>2
    <3> QED
      BY <2>1, <2>3, <3>1 DEF TxType
  <2> QED
    BY <2>2, <2>4, <2>5
<1>6. t' = [t EXCEPT ![i] = y]
  BY <1>1 DEF CleanUp, x
<1> HIDE DEF y
<1>7. /\ t' \in [Pass -> TxType] /\ t'[i] = y
      /\ c' \in [Pass -> CtxType]
      /\ \A j \in Pass \ {i} : t'[j] = t[j] /\ c'[j] = c[j]
  BY <1>1, <1>2, <1>5, <1>6 DEF IInv, TypeOK, CtxType
<1>8. TypeOK'
  BY <1>1, <1>7 DEF Cleanup, IInv, TypeOK
<1>9. ASSUME NEW j \in Pass
      PROVE  AuditInv(j)'
  <2>1. AuditInv(j)
    BY DEF IInv
  <2>2. CASE j = i
    BY <1>1, <1>2, <1>3, <1>5, <1>7, <2>1, <2>2 DEF AuditInv
  <2>3. CASE j # i
    BY <1>1, <1>2, <1>7, <2>1, <2>3 DEF AuditInv
  <2> QED
    BY <2>2, <2>3
<1> QED
  BY <1>2, <1>8, <1>9 DEF IInv

\* The pool is gone once no cleanup is registered.
LEMMA DestroyStep ==
  ASSUME IInv, PoolDestroyed
  PROVE  IInv'
  BY DEF IInv, TypeOK, AuditInv, PoolDestroyed, Control

-----------------------------------------------------------------------------
(* Theorems *)

\* The inductive invariant holds initially ...
LEMMA InitIInv == Init => IInv
<1> SUFFICES ASSUME Init PROVE IInv
  OBVIOUS
<1>1. <<>> \in Seq(1..4) /\ <<>> \in Seq([kind : {"origin", "special"}, pass : Pass])
  OBVIOUS
<1>2. NoTx \in TxType
  BY <1>1 DEF NoTx, TxType
<1>3. NewCtx \in CtxType
  BY DEF NewCtx, CtxType
<1>4. r \in RequestType
  BY DEF Init, RequestType
<1>5. out \in OutType
  BY <1>1, BoundsAssumption DEF Init, OutType, NoHeader
<1>6. resp \in RespType
  BY DEF Init, NoResponse, RespType
<1>7. 1 \in Pass /\ 0 \in 0..MaxHop
  BY BoundsAssumption DEF Pass
<1>8. TypeOK
  BY <1>2, <1>3, <1>4, <1>5, <1>6, <1>7 DEF Init, TypeOK, Control, Statuses
<1>9. ASSUME NEW i \in Pass
      PROVE  AuditInv(i)
  BY DEF Init, AuditInv, NoTx
<1> QED
  BY <1>7, <1>8, <1>9 DEF Init, IInv, NoTx

\* ... and every step of Next keeps it.
LEMMA NextIInv == IInv /\ [Next]_vars => IInv'
<1> SUFFICES ASSUME IInv, [Next]_vars
             PROVE  IInv'
  OBVIOUS
<1>1. CASE Rewrite
  BY <1>1, MoveSteps, CreateSteps DEF Rewrite
<1>2. CASE PreAccess
  BY <1>2, MoveSteps, PreAccessSteps DEF PreAccess
<1>3. CASE HeaderFilter
  BY <1>3, HeaderSteps DEF HeaderFilter
<1>4. CASE BodyFilter
  BY <1>4, BodySteps DEF BodyFilter
<1>5. CASE LogHandler
  BY <1>5, LogStep
<1>6. CASE Cleanup
  BY <1>6, CleanupStep
<1>7. CASE Nginx
  BY <1>7, MoveSteps, PassSteps, DestroyStep DEF Nginx
<1>8. CASE UNCHANGED vars
  BY <1>8 DEF IInv, TypeOK, AuditInv, vars
<1> QED
  BY <1>1, <1>2, <1>3, <1>4, <1>5, <1>6, <1>7, <1>8 DEF Next

\* Type correctness: every reachable state of the request, whatever the
\* configuration, the rules and the clients do, has the types of
\* ngx_http_coraza_ctx_t and of the transaction it owns.
THEOREM TypeCorrect == Spec => []TypeOK
<1>1. IInv => TypeOK
  BY DEF IInv
<1> QED
  BY <1>1, InitIInv, NextIInv, PTL DEF Spec

\* For any number of internal redirects, error pages and interventions, each
\* registered transaction is logged exactly once before it is freed exactly
\* once by the pool cleanup.
THEOREM AuditCorrect == Spec => []AuditOnce
<1>1. IInv => AuditOnce
  <2> SUFFICES ASSUME IInv, NEW i \in Pass, t[i].owned
               PROVE  /\ t[i].logs <= 1 /\ t[i].frees <= 1
                      /\ t[i].frees = 1 => t[i].logs = 1
                      /\ pc = "destroyed" => t[i].frees = 1
    BY DEF AuditOnce
  <2>1. AuditInv(i) /\ t[i] \in TxType
    BY DEF IInv, TypeOK
  <2> QED
    BY <2>1 DEF AuditInv, IInv, TxType
<1> QED
  BY <1>1, InitIInv, NextIInv, PTL DEF Spec

\* No handler, filter, log handler or cleanup calls libcoraza on a transaction
\* after the pool cleanup freed it.
THEOREM HandleCorrect == Spec => []NoUseAfterFree
<1>1. IInv => NoUseAfterFree
  BY DEF IInv, AuditInv, NoUseAfterFree
<1> QED
  BY <1>1, InitIInv, NextIInv, PTL DEF Spec

=============================================================================
