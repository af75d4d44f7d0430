------------------------- MODULE CorazaGatesProofs -------------------------
(***************************************************************************)
(* For any number of passes, chunks and buffers, and whatever rules do:    *)
(* what a request must have passed before the origin sees it and before a  *)
(* response leaves, what a response consists of, and what is recorded.     *)
(***************************************************************************)
EXTENDS CorazaRequestProofs

\* Up to the content handler; and until a response goes through the filters.
Early == {"rewrite", "post_rewrite", "preaccess", "submit", "wait_body", "content"}
Unsent == Early \cup {"special", "header"}

\* A context and its transaction exist together; a context that triggered never
\* gets as far as the content handler, and one that did not has its phase 3
\* still to come.
ContextInv ==
  /\ \A i \in Pass : t[i].handle = "none" => t[i] = NoTx /\ c[i] = NewCtx
  /\ ctx = 0 => t[pass].handle = "none"
  /\ ctx # 0 => t[ctx].handle # "none"
  /\ pc \in Early /\ ctx # 0 => ~c[ctx].triggered
  /\ pc \in Unsent /\ ctx # 0 => ~c[ctx].delayed /\ (c[ctx].processed => c[ctx].triggered)
  /\ pc \in {"submit", "wait_body"} => c[ctx].requested /\ loc.enable
  /\ pc \in Early \ {"rewrite"} /\ loc.enable => ctx # 0

\* What is recorded of a transaction: a denial is reported as soon as it is
\* found and, before the LOG phase, is what wrote the audit record.
RecordInv ==
  \A i \in Pass :
    /\ t[i].hit \in Denials => t[i].code = t[i].hit
    /\ t[i].logs > 0 => t[i].hit \in Denials \/ pc \in {"cleanup", "destroyed"}
    /\ t[i].logs > 0 /\ t[i].hit \in Denials => t[i].audit = t[i].hit
    /\ t[i].appended <= r.len
    /\ ~c[i].submitted => t[i].appended = 0

\* Off an error page, a context on its way to the content handler.
RequestInv ==
  /\ pc \in Early /\ ctx # 0 /\ ~r.error_page =>
       /\ t[ctx].hit \notin Denials /\ Contains(t[ctx].ran, 1)
       /\ c[ctx].submitted => Contains(t[ctx].ran, 2) /\ t[ctx].appended = r.len
  /\ RequestGate

\* The phases evaluated so far are in order, and below the ones to come.
Rising(s) == \A j \in 1..(Len(s) - 1) : s[j] < s[j + 1]
UpTo(s, k) == \A j \in 1..Len(s) : s[j] <= k
OrderInv ==
  /\ \A i \in Pass : Rising(t[i].ran)
  /\ ctx # 0 =>
       /\ pc \in Early \ {"content"} => UpTo(t[ctx].ran, 1)
       /\ pc \in {"content", "special", "header"} /\ ~c[ctx].triggered => UpTo(t[ctx].ran, 2)
       /\ pc = "body" /\ ~c[ctx].triggered => UpTo(t[ctx].ran, 3)

\* The response on the wire and the one in the filters.
WireInv ==
  /\ ~r.header_sent => out.hdr = NoHeader /\ out.units = <<>> /\ out.complete = FALSE
  /\ r.header_sent => out.hdr.kind # "none" /\ out.hdr.pass # 0
  /\ out.hdr.pass <= pass /\ (pc \in Early => out.hdr.pass < pass)
  /\ OneResponse
  /\ pc = "header" /\ ctx # 0 /\ c[ctx].triggered => resp.kind = "special"
  /\ pc = "body" =>
       IF ctx # 0 /\ c[ctx].delayed
       THEN ~r.header_sent /\ ~c[ctx].triggered
       ELSE /\ r.header_sent /\ out.hdr.pass = pass
            /\ \/ /\ out.hdr.kind = resp.kind
                  /\ ctx # 0 /\ c[ctx].triggered => resp.kind = "special"
               \/ out.hdr.kind = "redirect" /\ ctx # 0 /\ c[ctx].triggered /\ r.header_only

\* Off an error page, phase 3 is behind what the body filter forwards.
ResponseInv ==
  /\ pc = "body" /\ ctx # 0 /\ ~c[ctx].triggered /\ ~r.error_page => Contains(t[ctx].ran, 3)
  /\ ResponseGate

\* The status of a redirect is on its way together with its Location.
LocationInv == (rc = "redirect" => "waf" \in r.locations) /\ RedirectLocation

GInv == ContextInv /\ RecordInv /\ RequestInv /\ WireInv /\ ResponseInv

-----------------------------------------------------------------------------
(* What the calls of libcoraza do to the verdict and to the phases *)

\* y is x after calls that evaluate at most one phase, one of P, and neither
\* log nor append a request body.
Effect(x, y, P) ==
  /\ x.hit # "none" => y.hit = x.hit
  /\ y.logs = x.logs /\ y.audit = x.audit /\ y.appended = x.appended
  /\ y.ran = x.ran \/ \E k \in P : y.ran = Append(x.ran, k)

\* A denial has been reported with coraza_intervention()'s status.
Reported(x) == x.hit \in Denials => x.code = x.hit

\* Any single call.
LEMMA CallEffect ==
  ASSUME NEW x \in TxType
  PROVE  LET y == Call(x)
         IN  /\ y \in TxType /\ Effect(x, y, {}) /\ y.hit = x.hit /\ y.code = x.code
             /\ y.ran = x.ran /\ y.appended = x.appended
<1>1. Call(x) \in TxType
  BY CallSame DEF Same
<1> QED
  BY <1>1 DEF Call, Effect, TxType

\* The evaluation of a phase.
LEMMA EvaluateEffect ==
  ASSUME NEW x \in TxType, NEW k \in 1..4, NEW o \in Outcomes(x)
  PROVE  LET y == Evaluate(x, k, o)
         IN  /\ y \in TxType /\ Effect(x, y, {k})
             /\ o = "error" => y.ran = x.ran /\ y.hit = x.hit /\ y.code = x.code
             /\ o # "error" => y.ran = Append(x.ran, k) /\ y.hit = o
             /\ o # "error" /\ x.hit # "none" => o = x.hit
<1> DEFINE w == Call(x)
           y == Evaluate(x, k, o)
<1>1. /\ w \in TxType /\ Effect(x, w, {}) /\ w.hit = x.hit /\ w.code = x.code
      /\ w.ran = x.ran /\ w.appended = x.appended
  BY CallEffect
<1>2. y \in TxType
  BY EvaluateSame DEF Same
<1> HIDE DEF w
<1>3. CASE o = "error"
  <2>1. y = w
    BY <1>3 DEF Evaluate, w
  <2> QED
    BY <1>1, <1>3, <2>1 DEF Effect
<1>4. CASE o # "error"
  <2>1. y = [w EXCEPT !.ran = Append(w.ran, k), !.hit = o]
    BY <1>1, <1>4 DEF Evaluate, w, TxType
  <2>2. x.hit # "none" => o = x.hit
    BY <1>4 DEF Outcomes
  <2>3. /\ y.ran = Append(x.ran, k) /\ y.hit = o /\ y.logs = w.logs /\ y.audit = w.audit
        /\ y.appended = w.appended
    BY <1>1, <2>1 DEF TxType
  <2> HIDE DEF y
  <2> QED
    BY <1>1, <1>2, <1>4, <2>2, <2>3 DEF Effect, y
<1> QED
  BY <1>3, <1>4

\* A poll without the early log.
LEMMA InterveneEffect ==
  ASSUME NEW x \in TxType, NEW logged
  PROVE  LET y == Intervene(x, logged, FALSE)
         IN  /\ y \in TxType /\ Effect(x, y, {}) /\ Reported(y) /\ y.hit = x.hit
             /\ y.ran = x.ran /\ y.appended = x.appended
<1> DEFINE w == Call(x)
           y == Intervene(x, logged, FALSE)
<1>1. /\ w \in TxType /\ Effect(x, w, {}) /\ w.hit = x.hit /\ w.ran = x.ran
      /\ w.appended = x.appended
  BY CallEffect
<1>2. y \in TxType
  BY InterveneSame DEF Same
<1> HIDE DEF w
<1>3. CASE x.hit \notin Denials
  <2>1. y = w
    BY <1>3 DEF Intervene, w
  <2> QED
    BY <1>1, <1>2, <1>3, <2>1 DEF Reported
<1>4. CASE x.hit \in Denials
  <2>1. y = [w EXCEPT !.code = x.hit]
    BY <1>4 DEF Intervene, w
  <2>2. /\ y.code = x.hit /\ y.hit = w.hit /\ y.ran = w.ran /\ y.appended = w.appended
        /\ y.logs = w.logs /\ y.audit = w.audit
    BY <1>1, <2>1 DEF TxType
  <2> HIDE DEF y
  <2> QED
    BY <1>1, <1>2, <2>2 DEF Effect, Reported, y
<1> QED
  BY <1>3, <1>4

\* A phase with its poll.
LEMMA PolledEffect ==
  ASSUME NEW x \in TxType, NEW k \in 1..4, NEW o \in Outcomes(x), NEW logged
  PROVE  LET y == Evaluate(x, k, o)
             z == Polled(y, o, logged, FALSE)
         IN  /\ z \in TxType /\ Effect(x, z, {k}) /\ (Reported(x) => Reported(z))
             /\ z.hit = y.hit /\ z.appended = x.appended
             /\ o = "error" => z.ran = x.ran /\ z.hit = x.hit
             /\ o # "error" => z.ran = Append(x.ran, k)
<1> DEFINE y == Evaluate(x, k, o)
           z == Polled(y, o, logged, FALSE)
<1>1. /\ y \in TxType /\ Effect(x, y, {k})
      /\ o = "error" => y.ran = x.ran /\ y.hit = x.hit /\ y.code = x.code
      /\ o # "error" => y.ran = Append(x.ran, k) /\ y.hit = o
  BY ZenonT(60), EvaluateEffect
<1> HIDE DEF y
<1>2. CASE o = "error"
  <2>1. z = y
    BY <1>2 DEF Polled
  <2> QED
    BY <1>1, <1>2, <2>1 DEF y, Reported, Effect
<1>3. CASE o # "error"
  <2>1. z = Intervene(y, logged, FALSE)
    BY <1>3 DEF Polled
  <2>2. /\ z \in TxType /\ Effect(y, z, {}) /\ Reported(z) /\ z.hit = y.hit
        /\ z.ran = y.ran /\ z.appended = y.appended
    BY ZenonT(60), <1>1, <2>1, InterveneEffect
  <2> HIDE DEF z
  <2>3. Effect(x, z, {k})
    BY <1>1, <2>2 DEF Effect
  <2>4. z.appended = x.appended
    BY <1>1, <2>2 DEF Effect
  <2> QED
    BY <1>1, <1>3, <2>2, <2>3, <2>4 DEF y, z
<1> QED
  BY <1>2, <1>3

\* The body filter's loop: the append and its poll ...
LEMMA BufferedEffect ==
  ASSUME NEW x \in TxType, NEW cc \in CtxType, NEW y \in Buffered(x, cc)
  PROVE  /\ y \in TxType /\ Effect(x, y, {}) /\ (Reported(x) => Reported(y))
         /\ y.ran = x.ran
<1>1. CASE ~cc.processable
  <2>1. y = x
    BY <1>1 DEF Buffered
  <2> QED
    BY <2>1 DEF Effect
<1>2. CASE cc.processable
  <2>1. PICK h \in Appends(x) : y = Intervene([Call(x) EXCEPT !.hit = h], cc.logged, FALSE)
    BY <1>2 DEF Buffered
  <2> DEFINE w == Call(x)
             v == [w EXCEPT !.hit = h]
  <2>2. h \in Hits \cup {"none"} /\ (x.hit # "none" => h = x.hit)
    BY <2>1 DEF Appends, TxType
  <2>3. /\ w \in TxType /\ Effect(x, w, {}) /\ w.ran = x.ran
    BY CallEffect
  <2> HIDE DEF w
  <2>4. v \in TxType /\ v.hit = h /\ v.ran = w.ran /\ v.logs = w.logs /\ v.audit = w.audit
        /\ v.appended = w.appended
    BY <2>2, <2>3 DEF TxType
  <2>5. y = Intervene(v, cc.logged, FALSE)
    BY <2>1 DEF w
  <2> HIDE DEF v
  <2>6. /\ y \in TxType /\ Effect(v, y, {}) /\ Reported(y) /\ y.hit = v.hit /\ y.ran = v.ran
    BY <2>4, <2>5, InterveneEffect
  <2> QED
    BY <2>2, <2>3, <2>4, <2>6 DEF Effect
<1> QED
  BY <1>1, <1>2

\* ... and phase 4 on the last buffer.
LEMMA FinishedEffect ==
  ASSUME NEW x \in TxType, NEW cc \in CtxType, NEW last, NEW y \in Finished(x, cc, last)
  PROVE  /\ y \in TxType /\ Effect(x, y, {4}) /\ (Reported(x) => Reported(y))
         /\ last /\ ~r.error_page => y.ran = Append(x.ran, 4)
         /\ ~last => y.ran = x.ran
<1>1. CASE last /\ ~(r.error_page /\ cc.processable)
  <2>1. PICK o \in Outcomes(x) \ {"error"} : y = Intervene(Evaluate(x, 4, o), cc.logged, FALSE)
    BY <1>1 DEF Finished
  <2> DEFINE w == Evaluate(x, 4, o)
  <2>2. w \in TxType /\ Effect(x, w, {4}) /\ w.ran = Append(x.ran, 4)
    BY <2>1, EvaluateEffect, 4 \in 1..4
  <2> HIDE DEF w
  <2>3. y = Intervene(w, cc.logged, FALSE)
    BY <2>1 DEF w
  <2>4. /\ y \in TxType /\ Effect(w, y, {}) /\ Reported(y) /\ y.hit = w.hit /\ y.ran = w.ran
    BY <2>2, <2>3, InterveneEffect
  <2> QED
    BY <1>1, <2>2, <2>4 DEF Effect
<1>2. CASE ~(last /\ ~(r.error_page /\ cc.processable))
  <2>1. y = x
    BY <1>2 DEF Finished
  <2> QED
    BY <1>2, <2>1 DEF Effect
<1> QED
  BY <1>1, <1>2

LEMMA EffectAfter ==
  ASSUME NEW x, NEW y, NEW z, NEW P, Effect(x, y, {}), Effect(y, z, P)
  PROVE  Effect(x, z, P)
BY DEF Effect

\* An iteration of the loop that goes on.
LEMMA InspectionsEffect ==
  ASSUME NEW x \in TxType, NEW cc \in CtxType, NEW last, NEW z \in Inspections(x, cc, last)
  PROVE  /\ z \in TxType /\ Effect(x, z, {4}) /\ (Reported(x) => Reported(z))
         /\ last /\ ~r.error_page => z.ran = Append(x.ran, 4)
         /\ ~last => z.ran = x.ran
<1>1. PICK y \in Buffered(x, cc) : z \in Finished(y, cc, last)
  BY DEF Inspections
<1>2. y \in TxType /\ Effect(x, y, {}) /\ (Reported(x) => Reported(y)) /\ y.ran = x.ran
  BY <1>1, BufferedEffect
<1>3. /\ z \in TxType /\ Effect(y, z, {4}) /\ (Reported(y) => Reported(z))
      /\ last /\ ~r.error_page => z.ran = Append(y.ran, 4)
      /\ ~last => z.ran = y.ran
  BY <1>1, <1>2, FinishedEffect
<1>4. Effect(x, z, {4})
  BY <1>2, <1>3, EffectAfter
<1> QED
  BY <1>2, <1>3, <1>4

\* An iteration that returns: a redirect is returned only before the headers
\* are out.
LEMMA RefusalsEffect ==
  ASSUME NEW x \in TxType, NEW cc \in CtxType, NEW last, NEW b \in Refusals(x, cc, last)
  PROVE  /\ b.tx \in TxType /\ Effect(x, b.tx, {4}) /\ (Reported(x) => Reported(b.tx))
         /\ b.status = "redirect" => b.tx.hit = "redirect" /\ ~r.header_sent
<1> DEFINE appended == Buffered(x, cc)
           passed   == {y \in appended : Passes(y)}
           finished == UNION {Finished(y, cc, last) : y \in passed}
           Fine(y) == y \in TxType /\ Effect(x, y, {4}) /\ (Reported(x) => Reported(y))
<1>1. \A y \in appended : Fine(y) /\ Effect(x, y, {})
  <2> TAKE y \in appended
  <2>1. y \in TxType /\ Effect(x, y, {}) /\ (Reported(x) => Reported(y))
    BY BufferedEffect
  <2> QED
    BY <2>1 DEF Effect
<1>2. \A z \in finished : Fine(z)
  <2> SUFFICES ASSUME NEW y \in appended, NEW z \in Finished(y, cc, last) PROVE Fine(z)
    OBVIOUS
  <2>1. y \in TxType /\ Effect(x, y, {}) /\ (Reported(x) => Reported(y))
    BY <1>1
  <2>2. z \in TxType /\ Effect(y, z, {4}) /\ (Reported(y) => Reported(z))
    BY <2>1, FinishedEffect
  <2> QED
    BY <2>1, <2>2, EffectAfter
<1>3. \A y \in appended \cup {x} : Fine(Call(y))
  <2> TAKE y \in appended \cup {x}
  <2>1. y \in TxType /\ Effect(x, y, {}) /\ (Reported(x) => Reported(y))
    BY <1>1 DEF Effect
  <2>2. Call(y) \in TxType /\ Effect(y, Call(y), {}) /\ (Reported(y) => Reported(Call(y)))
    BY <2>1, CallEffect DEF Reported
  <2>3. Effect(x, Call(y), {})
    BY <2>1, <2>2, EffectAfter
  <2> QED
    BY <2>1, <2>2, <2>3 DEF Effect
<1>4. \/ b.status = "500" /\ ((\E y \in appended \cup {x} : b.tx = Call(y)) \/ b.tx \in finished)
      \/ b.tx \in appended \cup finished /\ ~Passes(b.tx) /\ b.status = BlockStatus(b.tx)
  BY DEF Refusals
<1>5. Fine(b.tx)
  <2> HIDE DEF Fine
  <2> QED
    BY <1>1, <1>2, <1>3, <1>4
<1>6. b.status = "redirect" => b.tx.hit = "redirect" /\ ~r.header_sent
  BY <1>4 DEF BlockStatus, InterveneRet
<1> QED
  BY <1>5, <1>6

-----------------------------------------------------------------------------
(* What the handlers and filters do to the request *)

\* Only the transaction and the context of the current pass change.
CtxOnly ==
  /\ ctx # 0 /\ ctx \in Pass /\ ctx = pass
  /\ ctx' = ctx /\ pass' = pass /\ loc' = loc
  /\ t'[ctx].handle = t[ctx].handle
  /\ \A i \in Pass \ {ctx} : t'[i] = t[i] /\ c'[i] = c[i]

\* rr is the request, with a Location header at most.
Relocated(rr) ==
  /\ rr.header_sent = r.header_sent /\ rr.header_only = r.header_only
  /\ rr.head = r.head /\ rr.len = r.len /\ rr.error_page = r.error_page
  /\ r.locations \subseteq rr.locations

\* A redirect is finalized with its Location.
Located ==
  "location" \notin Faults /\ rc' = "redirect" => rc' = rc \/ "waf" \in r'.locations

\* The request after a poll.
LEMMA RequestEffect ==
  ASSUME IInv, NEW x, NEW o, NEW n \in Installs
  PROVE  /\ Relocated(InterveneReq(x, n)) /\ Relocated(PolledReq(x, o, n)) /\ Relocated(r)
         /\ "location" \notin Faults /\ x.hit = "redirect" /\ ~r.header_sent =>
              "waf" \in InterveneReq(x, n).locations /\ InterveneReq(x, n).location = "waf"
         /\ o # "error" => PolledReq(x, o, n) = InterveneReq(x, n)
<1>1. r \in RequestType
  BY DEF IInv, TypeOK
<1>2. "location" \notin Faults => n = TRUE
  BY DEF Installs
<1>3. Relocated(r)
  BY DEF Relocated
<1>4. InterveneReq(x, n) = r
      \/ InterveneReq(x, n) = [r EXCEPT !.location = "waf", !.locations = @ \cup {"waf"}]
  BY DEF InterveneReq
<1>5. Relocated(InterveneReq(x, n))
  BY <1>1, <1>3, <1>4 DEF Relocated, RequestType
<1>6. Relocated(PolledReq(x, o, n))
  BY <1>3, <1>5 DEF PolledReq
<1>7. ASSUME "location" \notin Faults, x.hit = "redirect", ~r.header_sent
      PROVE  "waf" \in InterveneReq(x, n).locations /\ InterveneReq(x, n).location = "waf"
  BY <1>1, <1>2, <1>7 DEF InterveneReq, RequestType
<1> QED
  BY <1>3, <1>5, <1>6, <1>7 DEF PolledReq

\* Phase 2 on transaction x, with the context cc.
LEMMA BodyPhaseEffect ==
  ASSUME IInv, ctx # 0, NEW x \in TxType, NEW cc \in CtxType, RequestBodyPhase(x, cc)
  PROVE  LET y == t'[ctx]
             d == c'[ctx]
         IN  /\ y \in TxType /\ Effect(x, y, {2}) /\ (Reported(x) => Reported(y))
             /\ d.submitted = cc.submitted /\ d.processed = cc.processed
             /\ d.delayed = cc.delayed /\ d.requested = cc.requested
             /\ \A i \in Pass \ {ctx} : t'[i] = t[i] /\ c'[i] = c[i]
             /\ Relocated(r') /\ Located /\ pc' \in {"content", "special"}
             /\ pc' = "content" => /\ d.triggered = cc.triggered
                                   /\ y.ran = Append(x.ran, 2)
                                   /\ ~r.error_page => y.hit \notin Denials
<1>1. PICK o \in Outcomes(x), n \in Installs :
        LET y == Evaluate(x, 2, o)
            v == IF o = "error" THEN "500" ELSE Verdict(InterveneRet(y))
        IN  /\ t' = [t EXCEPT ![ctx] = Polled(y, o, cc.logged, FALSE)]
            /\ c' = [c EXCEPT ![ctx] = [cc EXCEPT !.triggered = @ \/ v # "declined"]]
            /\ r' = PolledReq(y, o, n)
            /\ Proceed(v, "content")
  BY DEF RequestBodyPhase
<1> DEFINE y == Evaluate(x, 2, o)
           v == IF o = "error" THEN "500" ELSE Verdict(InterveneRet(y))
           z == Polled(y, o, cc.logged, FALSE)
           d == [cc EXCEPT !.triggered = @ \/ v # "declined"]
<1>2. /\ z \in TxType /\ Effect(x, z, {2}) /\ (Reported(x) => Reported(z)) /\ z.hit = y.hit
      /\ o # "error" => z.ran = Append(x.ran, 2)
  <2>1. 2 \in 1..4
    OBVIOUS
  <2> QED
    BY ZenonT(60), <2>1, PolledEffect
<1>3. /\ t' = [t EXCEPT ![ctx] = z] /\ c' = [c EXCEPT ![ctx] = d]
      /\ r' = PolledReq(y, o, n)
      /\ pc' = (IF v = "declined" THEN "content" ELSE "special")
      /\ rc' = (IF v = "declined" THEN rc ELSE v)
  BY <1>1 DEF Proceed
<1>4. /\ d.submitted = cc.submitted /\ d.processed = cc.processed /\ d.delayed = cc.delayed
      /\ d.requested = cc.requested /\ (v = "declined" => d.triggered = cc.triggered)
  BY DEF CtxType
<1>5. ctx \in Pass /\ t \in [Pass -> TxType] /\ c \in [Pass -> CtxType]
  BY DEF IInv, TypeOK
<1> HIDE DEF y, z, d
<1>6. /\ t'[ctx] = z /\ c'[ctx] = d
      /\ \A i \in Pass \ {ctx} : t'[i] = t[i] /\ c'[i] = c[i]
  BY <1>3, <1>5
<1>7. v = "declined" => o # "error" /\ (~r.error_page => y.hit \notin Denials)
  BY SwitchAssumption DEF Verdict, InterveneRet, Denials
<1>8. Relocated(r')
  BY <1>3, RequestEffect
<1>9. Located
  <2> SUFFICES ASSUME "location" \notin Faults, v = "redirect" PROVE "waf" \in r'.locations
    BY <1>3 DEF Located
  <2>1. o # "error" /\ y.hit = "redirect" /\ ~r.header_sent
    BY SwitchAssumption DEF Verdict, InterveneRet, Denials
  <2> QED
    BY <1>3, <2>1, RequestEffect
<1> QED
  BY <1>2, <1>3, <1>4, <1>6, <1>7, <1>8, <1>9

\* The preaccess handler, where it reads, submits or evaluates.
PreAccessWork == PreAccessPhase2 \/ PreAccessReads \/ RequestRead \/ SubmitFails
                 \/ SubmitYields \/ SubmitInterrupted \/ SubmitCompletes
PreAccessEffect ==
  LET x == t[ctx]
      y == t'[ctx]
      cc == c[ctx]
      d == c'[ctx]
  IN  /\ CtxOnly /\ Relocated(r') /\ Located /\ out' = out /\ resp' = resp
      /\ pc \in {"preaccess", "submit", "wait_body"}
      /\ pc' \in {"preaccess", "submit", "wait_body", "content", "special"}
      /\ x.hit # "none" => y.hit = x.hit
      /\ y.logs = x.logs /\ y.audit = x.audit /\ (Reported(x) => Reported(y))
      /\ y.ran = x.ran \/ (y.ran = Append(x.ran, 2) /\ pc' \in {"content", "special"})
      /\ \/ y.appended = x.appended /\ d.submitted = cc.submitted
         \/ ~cc.submitted /\ d.submitted /\ y.appended <= x.appended + r.len
      /\ d.processed = cc.processed /\ d.delayed = cc.delayed
      /\ pc' # "special" => d.triggered = cc.triggered
      /\ pc' \in {"submit", "wait_body"} => d.requested /\ loc.enable
      /\ pc' # "special" /\ ~r.error_page =>
           /\ y.hit \in Denials => x.hit \in Denials
           /\ pc' # "content" => y.ran = x.ran /\ y.appended = x.appended
                                 /\ d.submitted = cc.submitted
           /\ pc' = "content" =>
                /\ y.ran = Append(x.ran, 2)
                /\ d.submitted => \/ cc.submitted /\ y.appended = x.appended
                                  \/ y.appended = x.appended + r.len

\* The step changes the context and the transaction of ctx to d and y.
LEMMA CtxOnlyStep ==
  ASSUME IInv, ctx # 0, NEW y \in TxType, NEW d \in CtxType, y.handle = t[ctx].handle,
         t' = [t EXCEPT ![ctx] = y], c' = [c EXCEPT ![ctx] = d],
         ctx' = ctx, pass' = pass, loc' = loc
  PROVE  CtxOnly /\ t'[ctx] = y /\ c'[ctx] = d
<1>1. ctx \in Pass /\ ctx = pass /\ t \in [Pass -> TxType] /\ c \in [Pass -> CtxType]
  BY DEF IInv, TypeOK
<1>2. /\ t'[ctx] = y /\ c'[ctx] = d
      /\ \A i \in Pass \ {ctx} : t'[i] = t[i] /\ c'[i] = c[i]
  BY <1>1
<1> QED
  BY <1>1, <1>2 DEF CtxOnly

LEMMA PreAccessPhase2Effect ==
  ASSUME IInv, ContextInv, PreAccessPhase2
  PROVE  PreAccessEffect
<1> DEFINE x == Call(t[ctx])
<1>1. pc = "preaccess" /\ loc.enable /\ pass' = pass /\ loc' = loc /\ ctx' = ctx /\ out' = out
      /\ resp' = resp
  BY DEF PreAccessPhase2, Inspecting
<1>2. ctx # 0
  BY <1>1 DEF ContextInv, Early
<1>3. RequestBodyPhase(x, c[ctx])
  BY <1>2 DEF PreAccessPhase2
<1>4. ctx \in Pass /\ ctx = pass /\ t[ctx] \in TxType /\ c[ctx] \in CtxType
  BY <1>2 DEF IInv, TypeOK
<1>5. /\ x \in TxType /\ Effect(t[ctx], x, {}) /\ x.hit = t[ctx].hit /\ x.code = t[ctx].code
      /\ x.ran = t[ctx].ran /\ x.appended = t[ctx].appended
  BY <1>4, CallEffect
<1>6. Same(t[ctx], x)
  BY <1>4, CallSame
<1> HIDE DEF x
<1>7. /\ t'[ctx] \in TxType /\ Effect(x, t'[ctx], {2}) /\ (Reported(x) => Reported(t'[ctx]))
      /\ c'[ctx].submitted = c[ctx].submitted /\ c'[ctx].processed = c[ctx].processed
      /\ c'[ctx].delayed = c[ctx].delayed
      /\ \A i \in Pass \ {ctx} : t'[i] = t[i] /\ c'[i] = c[i]
      /\ Relocated(r') /\ Located /\ pc' \in {"content", "special"}
      /\ pc' = "content" => /\ c'[ctx].triggered = c[ctx].triggered
                            /\ t'[ctx].ran = Append(x.ran, 2)
                            /\ ~r.error_page => t'[ctx].hit \notin Denials
  BY <1>2, <1>3, <1>4, <1>5, BodyPhaseEffect
<1>8. Same(t[ctx], t'[ctx])
  BY <1>2, <1>3, <1>4, <1>6, RequestBodyPhaseStep
<1>9. CtxOnly
  BY <1>1, <1>2, <1>4, <1>7, <1>8 DEF CtxOnly, Same
<1>10. Reported(t[ctx]) => Reported(t'[ctx])
  BY <1>5, <1>7 DEF Reported
<1> QED
  BY <1>1, <1>5, <1>7, <1>9, <1>10 DEF PreAccessEffect, Effect

LEMMA PreAccessReadsEffect ==
  ASSUME IInv, ContextInv, PreAccessReads \/ RequestRead
  PROVE  PreAccessEffect
<1>1. /\ ctx # 0 /\ pc \in {"preaccess", "wait_body"} /\ loc.enable /\ pass' = pass
      /\ loc' = loc /\ ctx' = ctx /\ out' = out /\ resp' = resp
  BY DEF PreAccessReads, Inspecting, RequestRead, ContextInv, IInv
<1>2. /\ ctx \in Pass /\ ctx = pass /\ t[ctx] \in TxType /\ c[ctx] \in CtxType /\ r \in RequestType
      /\ t \in [Pass -> TxType] /\ c \in [Pass -> CtxType]
  BY <1>1 DEF IInv, TypeOK
<1>3. /\ Call(t[ctx]) \in TxType /\ Effect(t[ctx], Call(t[ctx]), {})
      /\ Call(t[ctx]).hit = t[ctx].hit /\ Call(t[ctx]).code = t[ctx].code
      /\ Call(t[ctx]).handle = t[ctx].handle /\ Call(t[ctx]).ran = t[ctx].ran
  BY <1>2, CallEffect, CallSame DEF Same
<1>4. Effect(t[ctx], t[ctx], {})
  BY DEF Effect
<1>5. PICK y \in {t[ctx], Call(t[ctx])} : t' = [t EXCEPT ![ctx] = y]
  BY <1>2 DEF PreAccessReads, RequestRead
<1>6. /\ y \in TxType /\ Effect(t[ctx], y, {}) /\ y.hit = t[ctx].hit /\ y.code = t[ctx].code
      /\ y.handle = t[ctx].handle /\ y.ran = t[ctx].ran
  BY <1>2, <1>3, <1>4, <1>5
<1>7. Relocated(r')
  BY <1>2 DEF PreAccessReads, RequestRead, Relocated, RequestType
<1>8. Located
  <2>1. rc' = rc \/ rc' = "4xx"
    BY DEF PreAccessReads, RequestRead, Proceed
  <2> QED
    BY <2>1 DEF Located
<1>9. PICK w \in BOOLEAN, q \in BOOLEAN :
        /\ c' = [c EXCEPT ![ctx] = [c[ctx] EXCEPT !.requested = q, !.waiting = w]]
        /\ pc' \in {"preaccess", "submit", "wait_body", "special"}
        /\ pc' \in {"submit", "wait_body"} => q
  <2>1. CASE PreAccessReads
    <3>1. CASE c' = [c EXCEPT ![ctx].requested = TRUE]
      <4>1. c' = [c EXCEPT ![ctx] = [c[ctx] EXCEPT !.requested = TRUE, !.waiting = c[ctx].waiting]]
        BY <1>2, <3>1 DEF CtxType
      <4>2. c[ctx].waiting \in BOOLEAN
        BY <1>2 DEF CtxType
      <4> QED
        BY <2>1, <4>1, <4>2 DEF PreAccessReads, Proceed
    <3>2. CASE c' = [c EXCEPT ![ctx].requested = TRUE, ![ctx].waiting = TRUE]
      <4>1. c' = [c EXCEPT ![ctx] = [c[ctx] EXCEPT !.requested = TRUE, !.waiting = TRUE]]
        BY <1>2, <3>2 DEF CtxType
      <4> QED
        BY <2>1, <4>1 DEF PreAccessReads, Proceed
    <3> QED
      BY <2>1, <3>1, <3>2 DEF PreAccessReads
  <2>2. CASE RequestRead
    <3>1. c' = [c EXCEPT ![ctx] = [c[ctx] EXCEPT !.requested = c[ctx].requested, !.waiting = FALSE]]
      BY <1>2, <2>2 DEF CtxType, RequestRead
    <3>2. c[ctx].requested \in BOOLEAN
      BY <1>2 DEF CtxType
    <3> QED
      BY <2>2, <3>1, <3>2 DEF RequestRead
  <2> QED
    BY <2>1, <2>2
<1> DEFINE d == [c[ctx] EXCEPT !.requested = q, !.waiting = w]
<1>10. /\ d \in CtxType /\ d.requested = q /\ d.submitted = c[ctx].submitted
       /\ d.processed = c[ctx].processed /\ d.delayed = c[ctx].delayed
       /\ d.triggered = c[ctx].triggered
  BY <1>2 DEF CtxType
<1> HIDE DEF d
<1>11. CtxOnly /\ t'[ctx] = y /\ c'[ctx] = d
  BY <1>1, <1>5, <1>6, <1>9, <1>10, CtxOnlyStep DEF d
<1>12. /\ y.logs = t[ctx].logs /\ y.audit = t[ctx].audit /\ y.appended = t[ctx].appended
       /\ Reported(t[ctx]) => Reported(y)
  BY <1>6 DEF Effect, Reported
<1>13. pc' # "content"
  BY <1>9
<1>14. /\ t'[ctx].hit = t[ctx].hit /\ t'[ctx].ran = t[ctx].ran
       /\ t'[ctx].logs = t[ctx].logs /\ t'[ctx].audit = t[ctx].audit
       /\ t'[ctx].appended = t[ctx].appended /\ (Reported(t[ctx]) => Reported(t'[ctx]))
  BY <1>6, <1>11, <1>12
<1>15. /\ c'[ctx].submitted = c[ctx].submitted /\ c'[ctx].processed = c[ctx].processed
       /\ c'[ctx].delayed = c[ctx].delayed /\ c'[ctx].triggered = c[ctx].triggered
       /\ pc' \in {"submit", "wait_body"} => c'[ctx].requested
  BY <1>9, <1>10, <1>11
<1>16. /\ pc \in {"preaccess", "submit", "wait_body"}
       /\ pc' \in {"preaccess", "submit", "wait_body", "content", "special"}
  BY <1>1, <1>9
<1> QED
  BY <1>1, <1>7, <1>8, <1>11, <1>13, <1>14, <1>15, <1>16 DEF PreAccessEffect

\* k chunks are appended, and the hit is h.
Appended(x, k, h) == [Call(x) EXCEPT !.appended = @ + k, !.hit = h]
LEMMA AppendEffect ==
  ASSUME NEW x \in TxType, NEW k \in Nat, NEW h \in Hits \cup {"none"},
         x.hit # "none" => h = x.hit
  PROVE  LET y == Appended(x, k, h)
         IN  /\ y \in TxType /\ y.hit = h /\ y.appended = x.appended + k
             /\ y.ran = x.ran /\ y.logs = x.logs /\ y.audit = x.audit /\ y.code = x.code
             /\ y.handle = x.handle
<1> DEFINE w == Call(x)
           y == Appended(x, k, h)
<1>1. /\ w \in TxType /\ Effect(x, w, {}) /\ w.code = x.code /\ w.ran = x.ran
      /\ w.appended = x.appended /\ w.handle = x.handle
  BY CallEffect, CallSame DEF Same
<1>2. y = [w EXCEPT !.appended = w.appended + k, !.hit = h]
  BY DEF Appended
<1>3. w.appended + k \in Nat
  BY <1>1 DEF TxType
<1> HIDE DEF w, y
<1>4. y \in TxType /\ y.hit = h /\ y.appended = w.appended + k /\ y.ran = w.ran
      /\ y.logs = w.logs /\ y.audit = w.audit /\ y.code = w.code /\ y.handle = w.handle
  BY <1>1, <1>2, <1>3 DEF TxType
<1> QED
  BY <1>1, <1>4 DEF Effect, w, y

\* The context is marked, and the transaction becomes y.
LEMMA SubmitStep ==
  ASSUME IInv, ContextInv, pc = "submit", ToSubmit,
         NEW y \in TxType, NEW k \in Nat, NEW b \in BOOLEAN,
         y.handle = t[ctx].handle, t[ctx].hit # "none" => y.hit = t[ctx].hit,
         y.ran = t[ctx].ran, y.logs = t[ctx].logs, y.audit = t[ctx].audit,
         y.appended = t[ctx].appended + k, k <= r.len,
         Reported(t[ctx]) => Reported(y),
         t' = [t EXCEPT ![ctx] = y],
         c' = [c EXCEPT ![ctx] = [c[ctx] EXCEPT !.submitted = TRUE, !.triggered = @ \/ b]],
         pc' = "special" \/ (pc' = "content" /\ r.error_page /\ ~b),
         Relocated(r'), Located,
         ctx' = ctx, pass' = pass, loc' = loc, out' = out, resp' = resp
  PROVE  PreAccessEffect
<1>1. ctx # 0 /\ ~c[ctx].submitted
  BY DEF IInv, ToSubmit
<1>2. ctx \in Pass /\ t[ctx] \in TxType /\ c[ctx] \in CtxType /\ r \in RequestType
  BY <1>1 DEF IInv, TypeOK
<1> DEFINE d == [c[ctx] EXCEPT !.submitted = TRUE, !.triggered = @ \/ b]
<1>3. /\ d \in CtxType /\ d.submitted = TRUE /\ d.processed = c[ctx].processed
      /\ d.delayed = c[ctx].delayed /\ (~b => d.triggered = c[ctx].triggered)
  BY <1>2 DEF CtxType
<1>4. c' = [c EXCEPT ![ctx] = d]
  OBVIOUS
<1> HIDE DEF d
<1>5. CtxOnly /\ t'[ctx] = y /\ c'[ctx] = d
  BY <1>1, <1>3, <1>4, CtxOnlyStep
<1>6. y.appended <= t[ctx].appended + r.len
  BY <1>2 DEF TxType, RequestType
<1> QED
  BY <1>1, <1>3, <1>5, <1>6 DEF PreAccessEffect

\* nginx's finalization with a status of libcoraza's.
LEMMA StatusNotDeclined ==
  /\ "none" \notin Denials /\ "declined" \notin Denials /\ "500" \notin Denials
  /\ "ok" \notin Denials /\ "error" \notin Denials /\ "4xx" \notin Denials
  /\ "origin" \notin Denials /\ "allow" \notin Denials
BY SwitchAssumption DEF Denials

LEMMA SubmitFailsEffect ==
  ASSUME IInv, ContextInv, SubmitFails
  PROVE  PreAccessEffect
<1>1. /\ pc = "submit" /\ ToSubmit /\ pc' = "special" /\ rc' = "500" /\ r' = r
      /\ ctx' = ctx /\ pass' = pass /\ loc' = loc /\ out' = out /\ resp' = resp
  BY DEF SubmitFails, Proceed
<1>2. ctx # 0
  BY <1>1 DEF IInv
<1>3. /\ ctx \in Pass /\ t[ctx] \in TxType /\ c[ctx] \in CtxType /\ r \in RequestType
      /\ c \in [Pass -> CtxType]
  BY <1>2 DEF IInv, TypeOK
<1>4. PICK k \in 0..(r.len - 1) :
        t' = [t EXCEPT ![ctx] = [Call(t[ctx]) EXCEPT !.appended = @ + k]]
  BY DEF SubmitFails
<1>5. k \in Nat /\ k <= r.len
  BY <1>3 DEF RequestType
<1> DEFINE y == Appended(t[ctx], k, t[ctx].hit)
<1>6. t[ctx].hit \in Hits \cup {"none"} /\ Call(t[ctx]).hit = t[ctx].hit /\ Call(t[ctx]) \in TxType
  BY <1>3, CallEffect DEF TxType
<1>7. y = [Call(t[ctx]) EXCEPT !.appended = @ + k]
  BY <1>6 DEF TxType, Appended
<1>8. /\ y \in TxType /\ y.hit = t[ctx].hit /\ y.appended = t[ctx].appended + k
      /\ y.ran = t[ctx].ran /\ y.logs = t[ctx].logs /\ y.audit = t[ctx].audit
      /\ y.code = t[ctx].code /\ y.handle = t[ctx].handle
  BY <1>3, <1>5, <1>6, AppendEffect
<1>9. t' = [t EXCEPT ![ctx] = y]
  BY <1>4, <1>7
<1> HIDE DEF y
<1>10. Reported(t[ctx]) => Reported(y)
  BY <1>8 DEF Reported
<1>11. c' = [c EXCEPT ![ctx] = [c[ctx] EXCEPT !.submitted = TRUE, !.triggered = @ \/ TRUE]]
  BY <1>3 DEF SubmitFails, CtxType
<1>12. Relocated(r') /\ Located
  BY <1>1 DEF Relocated, Located
<1> QED
  BY <1>1, <1>5, <1>8, <1>9, <1>10, <1>11, <1>12, SubmitStep

LEMMA SubmitYieldsEffect ==
  ASSUME IInv, ContextInv, SubmitYields
  PROVE  PreAccessEffect
<1>1. /\ pc = "submit" /\ ToSubmit /\ r.error_page /\ pc' = "content" /\ rc' = rc
      /\ ctx' = ctx /\ pass' = pass /\ loc' = loc /\ out' = out /\ resp' = resp
  BY DEF SubmitYields
<1>2. ctx # 0
  BY <1>1 DEF IInv
<1>3. /\ ctx \in Pass /\ t[ctx] \in TxType /\ c[ctx] \in CtxType /\ r \in RequestType
      /\ c \in [Pass -> CtxType]
  BY <1>2 DEF IInv, TypeOK
<1> DEFINE k == IF r.len = 0 THEN 0 ELSE 1
<1>4. PICK h \in Appends(t[ctx]), n \in Installs :
        LET x == [Call(t[ctx]) EXCEPT !.appended = @ + k, !.hit = IF k = 0 THEN @ ELSE h]
        IN  /\ t' = [t EXCEPT ![ctx] = Intervene(x, c[ctx].logged, FALSE)]
            /\ r' = InterveneReq(x, n)
  BY DEF SubmitYields
<1> DEFINE g == IF k = 0 THEN t[ctx].hit ELSE h
           x == Appended(t[ctx], k, g)
           y == Intervene(x, c[ctx].logged, FALSE)
<1>5. k \in Nat /\ k <= r.len
  BY <1>3 DEF RequestType
<1>6. g \in Hits \cup {"none"} /\ (t[ctx].hit # "none" => g = t[ctx].hit)
  BY <1>3 DEF TxType, Appends
<1>7. Call(t[ctx]).hit = t[ctx].hit
  BY <1>3, CallEffect
<1> HIDE DEF k
<1>8. t' = [t EXCEPT ![ctx] = y] /\ r' = InterveneReq(x, n)
  BY <1>4, <1>7 DEF Appended
<1> HIDE DEF g
<1>9. /\ x \in TxType /\ x.hit = g /\ x.appended = t[ctx].appended + k /\ x.ran = t[ctx].ran
      /\ x.logs = t[ctx].logs /\ x.audit = t[ctx].audit /\ x.handle = t[ctx].handle
  BY <1>3, <1>5, <1>6, AppendEffect
<1> HIDE DEF x
<1>10. /\ y \in TxType /\ Effect(x, y, {}) /\ Reported(y) /\ y.hit = x.hit
       /\ y.ran = x.ran /\ y.appended = x.appended /\ y.handle = x.handle
  BY <1>9, InterveneEffect, InterveneSame DEF Same
<1> HIDE DEF y
<1>11. y.logs = t[ctx].logs /\ y.audit = t[ctx].audit
  BY <1>9, <1>10 DEF Effect
<1>12. c' = [c EXCEPT ![ctx] = [c[ctx] EXCEPT !.submitted = TRUE, !.triggered = @ \/ FALSE]]
  BY <1>3 DEF SubmitYields, CtxType
<1>13. Relocated(r') /\ Located
  BY <1>1, <1>8, RequestEffect DEF Located
<1> QED
  BY <1>1, <1>5, <1>6, <1>8, <1>9, <1>10, <1>11, <1>12, <1>13, SubmitStep

LEMMA SubmitInterruptedEffect ==
  ASSUME IInv, ContextInv, SubmitInterrupted
  PROVE  PreAccessEffect
<1>1. /\ pc = "submit" /\ ToSubmit /\ ~r.error_page
      /\ ctx' = ctx /\ pass' = pass /\ loc' = loc /\ out' = out /\ resp' = resp
  BY DEF SubmitInterrupted
<1>2. ctx # 0
  BY <1>1 DEF IInv
<1>3. /\ ctx \in Pass /\ t[ctx] \in TxType /\ c[ctx] \in CtxType /\ r \in RequestType
      /\ c \in [Pass -> CtxType]
  BY <1>2 DEF IInv, TypeOK
<1>4. PICK k \in 1..r.len, h \in Appends(t[ctx]) \cap Denials, n \in Installs :
        LET x == [Call(t[ctx]) EXCEPT !.appended = @ + k, !.hit = h]
        IN  /\ t' = [t EXCEPT ![ctx] = Intervene(x, c[ctx].logged, FALSE)]
            /\ r' = InterveneReq(x, n)
            /\ Proceed(Verdict(InterveneRet(x)), "content")
  BY DEF SubmitInterrupted
<1> DEFINE x == Appended(t[ctx], k, h)
           y == Intervene(x, c[ctx].logged, FALSE)
<1>5. k \in Nat /\ k <= r.len
  BY <1>3 DEF RequestType
<1>6. h \in Hits \cup {"none"} /\ (t[ctx].hit # "none" => h = t[ctx].hit) /\ h \in Denials
  BY <1>3 DEF TxType, Appends
<1>7. /\ t' = [t EXCEPT ![ctx] = y] /\ r' = InterveneReq(x, n)
      /\ Proceed(Verdict(InterveneRet(x)), "content")
  BY <1>4 DEF Appended
<1>8. /\ x \in TxType /\ x.hit = h /\ x.appended = t[ctx].appended + k /\ x.ran = t[ctx].ran
      /\ x.logs = t[ctx].logs /\ x.audit = t[ctx].audit /\ x.handle = t[ctx].handle
  BY <1>3, <1>5, <1>6, AppendEffect
<1> HIDE DEF x
<1>9. /\ y \in TxType /\ Effect(x, y, {}) /\ Reported(y) /\ y.hit = x.hit
      /\ y.ran = x.ran /\ y.appended = x.appended /\ y.handle = x.handle
  BY <1>8, InterveneEffect, InterveneSame DEF Same
<1> HIDE DEF y
<1>10. y.logs = t[ctx].logs /\ y.audit = t[ctx].audit
  BY <1>8, <1>9 DEF Effect
<1>11. c' = [c EXCEPT ![ctx] = [c[ctx] EXCEPT !.submitted = TRUE, !.triggered = @ \/ TRUE]]
  BY <1>3 DEF SubmitInterrupted, CtxType
<1>12. pc' = "special" /\ (rc' = "500" \/ (rc' = h /\ ~r.header_sent))
  BY <1>1, <1>6, <1>7, <1>8, StatusNotDeclined DEF Proceed, Verdict, InterveneRet
<1>13. Relocated(r')
  BY <1>7, RequestEffect
<1>14. Located
  BY <1>7, <1>8, <1>12, RequestEffect DEF Located
<1> QED
  BY <1>1, <1>5, <1>6, <1>7, <1>8, <1>9, <1>10, <1>11, <1>12, <1>13, <1>14, SubmitStep

LEMMA SubmitCompletesEffect ==
  ASSUME IInv, ContextInv, SubmitCompletes
  PROVE  PreAccessEffect
<1>1. /\ pc = "submit" /\ ToSubmit /\ ~r.error_page
      /\ ctx' = ctx /\ pass' = pass /\ loc' = loc /\ out' = out /\ resp' = resp
  BY DEF SubmitCompletes
<1>2. ctx # 0 /\ ~c[ctx].submitted
  BY <1>1 DEF IInv, ToSubmit
<1>3. /\ ctx \in Pass /\ ctx = pass /\ t[ctx] \in TxType /\ c[ctx] \in CtxType
      /\ r \in RequestType
  BY <1>2 DEF IInv, TypeOK
<1>4. PICK h \in Appends(t[ctx]) \ Denials :
        RequestBodyPhase([Call(t[ctx]) EXCEPT !.appended = @ + r.len,
                                              !.hit = IF r.len = 0 THEN @ ELSE h],
                         [c[ctx] EXCEPT !.submitted = TRUE])
  BY DEF SubmitCompletes
<1> DEFINE g == IF r.len = 0 THEN t[ctx].hit ELSE h
           x == Appended(t[ctx], r.len, g)
           d == [c[ctx] EXCEPT !.submitted = TRUE]
<1>5. r.len \in Nat
  BY <1>3 DEF RequestType
<1>6. g \in Hits \cup {"none"} /\ (t[ctx].hit # "none" => g = t[ctx].hit)
  BY <1>3 DEF TxType, Appends
<1>7. Call(t[ctx]).hit = t[ctx].hit
  BY <1>3, CallEffect
<1>8. RequestBodyPhase(x, d)
  BY <1>4, <1>7 DEF Appended
<1> HIDE DEF g
<1>9. /\ x \in TxType /\ x.hit = g /\ x.appended = t[ctx].appended + r.len
      /\ x.ran = t[ctx].ran /\ x.logs = t[ctx].logs /\ x.audit = t[ctx].audit
      /\ x.code = t[ctx].code /\ x.handle = t[ctx].handle
  BY <1>3, <1>5, <1>6, AppendEffect
<1>10. /\ d \in CtxType /\ d.submitted = TRUE /\ d.processed = c[ctx].processed
       /\ d.delayed = c[ctx].delayed /\ d.triggered = c[ctx].triggered
       /\ d.logged = c[ctx].logged
  BY <1>3 DEF CtxType
<1>11. Same(t[ctx], x)
  BY <1>3, <1>5, <1>6, AppendSame DEF Appended
<1> HIDE DEF x, d
<1>12. /\ t'[ctx] \in TxType /\ Effect(x, t'[ctx], {2}) /\ (Reported(x) => Reported(t'[ctx]))
       /\ c'[ctx].submitted = d.submitted /\ c'[ctx].processed = d.processed
       /\ c'[ctx].delayed = d.delayed
       /\ \A i \in Pass \ {ctx} : t'[i] = t[i] /\ c'[i] = c[i]
       /\ Relocated(r') /\ Located /\ pc' \in {"content", "special"}
       /\ pc' = "content" => /\ c'[ctx].triggered = d.triggered
                             /\ t'[ctx].ran = Append(x.ran, 2)
                             /\ ~r.error_page => t'[ctx].hit \notin Denials
  BY <1>2, <1>8, <1>9, <1>10, BodyPhaseEffect
<1>13. Same(t[ctx], t'[ctx])
  BY <1>2, <1>3, <1>8, <1>10, <1>11, RequestBodyPhaseStep
<1>14. CtxOnly
  BY <1>1, <1>2, <1>3, <1>12, <1>13 DEF CtxOnly, Same
<1>15. /\ t[ctx].hit # "none" => t'[ctx].hit = t[ctx].hit
       /\ t'[ctx].logs = t[ctx].logs /\ t'[ctx].audit = t[ctx].audit
       /\ t'[ctx].ran = t[ctx].ran \/ t'[ctx].ran = Append(t[ctx].ran, 2)
       /\ t'[ctx].appended = t[ctx].appended + r.len
  BY <1>6, <1>9, <1>12 DEF Effect
<1>16. Reported(t[ctx]) => Reported(t'[ctx])
  <2>1. CASE t[ctx].hit # "none"
    BY <1>6, <1>9, <1>12, <2>1 DEF Reported
  <2>2. CASE t[ctx].hit = "none"
    <3>1. g \notin Denials
      BY <2>2, StatusNotDeclined DEF g
    <3> QED
      BY <1>9, <1>12, <3>1 DEF Reported
  <2> QED
    BY <2>1, <2>2
<1>17. t'[ctx].appended <= t[ctx].appended + r.len
  BY <1>3, <1>5, <1>15 DEF TxType
<1> QED
  BY <1>1, <1>2, <1>9, <1>10, <1>12, <1>14, <1>15, <1>16, <1>17 DEF PreAccessEffect

\* The preaccess handler as a whole.
LEMMA PreAccessWorkEffect ==
  ASSUME IInv, ContextInv, PreAccessWork
  PROVE  PreAccessEffect
BY PreAccessPhase2Effect, PreAccessReadsEffect, SubmitFailsEffect, SubmitYieldsEffect,
   SubmitInterruptedEffect, SubmitCompletesEffect DEF PreAccessWork

-----------------------------------------------------------------------------
(* The creation of a context *)

LEMMA ContainsAppend ==
  ASSUME NEW s \in Seq(1..4), NEW k \in 1..4, NEW z, z = Append(s, k)
  PROVE  Contains(z, k) /\ \A j : Contains(s, j) => Contains(z, j)
BY DEF Contains

CreateEffect ==
  LET y == t'[pass]
      d == c'[pass]
  IN  /\ pc = "rewrite" /\ ctx = 0 /\ loc.enable /\ pass \in Pass
      /\ ctx' = pass /\ pass' = pass /\ loc' = loc /\ out' = out /\ resp' = resp
      /\ \A i \in Pass \ {pass} : t'[i] = t[i] /\ c'[i] = c[i]
      /\ Relocated(r') /\ Located /\ pc' \in {"post_rewrite", "special"}
      /\ y.handle # "none" /\ y.appended = 0 /\ Reported(y)
      /\ y.logs > 0 => y.hit \in Denials /\ y.audit = y.hit
      /\ y.ran = <<>> \/ y.ran = <<1>>
      /\ ~d.submitted /\ ~d.processed /\ ~d.delayed
      /\ pc' = "post_rewrite" =>
           ~d.triggered /\ (~r.error_page => y.hit \notin Denials /\ Contains(y.ran, 1))

\* The transaction exists but no rule runs.
LEMMA CreateBareEffect ==
  ASSUME IInv, ContextInv, CreateCtxUnregistered \/ RewriteFails
  PROVE  CreateEffect
<1>1. /\ pc = "rewrite" /\ ctx = 0 /\ loc.enable /\ ctx' = pass /\ pass' = pass /\ loc' = loc
      /\ out' = out /\ resp' = resp /\ r' = r /\ pc' = "special" /\ rc' = "500"
  BY DEF CreateCtxUnregistered, RewriteFails, Inspected, Proceed
<1>2. pass \in Pass /\ t \in [Pass -> TxType] /\ c \in [Pass -> CtxType]
  BY DEF IInv, TypeOK
<1>3. PICK b \in BOOLEAN : c' = [c EXCEPT ![pass] = [NewCtx EXCEPT !.triggered = b]]
  BY DEF CreateCtxUnregistered, RewriteFails, NewCtx
<1>4. c'[pass] = [NewCtx EXCEPT !.triggered = b] /\ \A i \in Pass \ {pass} : c'[i] = c[i]
  BY <1>2, <1>3
<1>5. ~c'[pass].submitted /\ ~c'[pass].processed /\ ~c'[pass].delayed
  BY <1>4 DEF NewCtx
<1>6. PICK y \in {[NoTx EXCEPT !.handle = "freed", !.frees = 1], Created} :
        t' = [t EXCEPT ![pass] = y]
  BY DEF CreateCtxUnregistered, RewriteFails
<1>7. t'[pass] = y /\ \A i \in Pass \ {pass} : t'[i] = t[i]
  BY <1>2, <1>6
<1>8. y.handle # "none" /\ y.appended = 0 /\ y.hit = "none" /\ y.logs = 0 /\ y.ran = <<>>
  BY <1>6 DEF NoTx, Created
<1>9. Reported(y)
  BY <1>8, StatusNotDeclined DEF Reported
<1>10. Relocated(r') /\ Located
  BY <1>1 DEF Relocated, Located
<1> QED
  BY <1>1, <1>2, <1>4, <1>5, <1>7, <1>8, <1>9, <1>10 DEF CreateEffect

\* Phase 1 runs, with the early log.
LEMMA RewriteInspectsEffect ==
  ASSUME IInv, ContextInv, RewriteInspects
  PROVE  CreateEffect
<1>1. /\ pc = "rewrite" /\ ctx = 0 /\ loc.enable /\ ctx' = pass /\ pass' = pass /\ loc' = loc
      /\ out' = out /\ resp' = resp
  BY DEF RewriteInspects, Inspected
<1>2. pass \in Pass /\ t \in [Pass -> TxType] /\ c \in [Pass -> CtxType] /\ r \in RequestType
  BY DEF IInv, TypeOK
<1>3. PICK o \in Outcomes(Created), n \in Installs :
        LET x == Evaluate(Created, 1, o)
            v == Verdict(PollRet(x, o))
        IN  /\ t' = [t EXCEPT ![pass] = Polled(x, o, FALSE, TRUE)]
            /\ c' = [c EXCEPT ![pass] = [PolledCtx(NewCtx, x, o, TRUE) EXCEPT
                                           !.triggered = v # "declined"]]
            /\ r' = PolledReq(x, o, n)
            /\ Proceed(v, "post_rewrite")
  BY DEF RewriteInspects
<1> DEFINE x == Evaluate(Created, 1, o)
           v == Verdict(PollRet(x, o))
           y == Polled(x, o, FALSE, TRUE)
           d == [PolledCtx(NewCtx, x, o, TRUE) EXCEPT !.triggered = v # "declined"]
<1>4. /\ t' = [t EXCEPT ![pass] = y] /\ c' = [c EXCEPT ![pass] = d]
      /\ r' = PolledReq(x, o, n) /\ Proceed(v, "post_rewrite")
  BY <1>3
<1>5. /\ Created \in TxType /\ Created.handle = "live" /\ Created.hit = "none"
      /\ Created.logs = 0 /\ Created.appended = 0 /\ Created.ran = <<>>
      /\ Created.code = "none" /\ Created.audit = "none"
  <2>1. <<>> \in Seq(1..4)
    OBVIOUS
  <2> QED
    BY <2>1 DEF Created, NoTx, TxType
<1>6. /\ x \in TxType /\ Effect(Created, x, {1}) /\ x.handle = "live"
      /\ o = "error" => x.ran = Created.ran /\ x.hit = Created.hit
      /\ o # "error" => x.ran = Append(Created.ran, 1) /\ x.hit = o
  BY <1>5, EvaluateEffect, EvaluateSame, 1 \in 1..4 DEF Same
<1>7. /\ x.logs = 0 /\ x.appended = 0 /\ (o = "error" => x.ran = <<>> /\ x.hit = "none")
      /\ o # "error" => x.ran = <<1>>
  BY <1>5, <1>6 DEF Effect
<1>8. /\ ~d.submitted /\ ~d.processed /\ ~d.delayed /\ (v = "declined" => ~d.triggered)
  BY DEF PolledCtx, InterveneCtx, NewCtx
<1> HIDE DEF x, d
<1>9. /\ y.handle # "none" /\ y.appended = 0 /\ Reported(y) /\ y.ran = x.ran /\ y.hit = x.hit
      /\ y.logs > 0 => y.hit \in Denials /\ y.audit = y.hit
  <2>1. CASE o = "error"
    <3>1. y = x
      BY <2>1 DEF Polled
    <3> HIDE DEF y
    <3> QED
      BY <1>6, <1>7, <2>1, <3>1, StatusNotDeclined DEF Reported
  <2>2. CASE o # "error" /\ x.hit \notin Denials
    <3>1. y = Call(x)
      BY <2>2 DEF Polled, Intervene
    <3> HIDE DEF y
    <3>2. /\ Effect(x, y, {}) /\ y.hit = x.hit /\ y.handle = x.handle /\ y.ran = x.ran
      BY <1>6, <3>1, CallEffect, CallSame DEF Same
    <3> QED
      BY <1>6, <1>7, <2>2, <3>2 DEF Effect, Reported
  <2>3. CASE o # "error" /\ x.hit \in Denials
    <3> DEFINE u == [Call(x) EXCEPT !.code = x.hit]
    <3>1. u = Intervene(x, FALSE, FALSE)
      BY <2>3 DEF Intervene
    <3>2. y = ProcessLogging(u)
      BY <1>1, <2>3 DEF Polled, Intervene
    <3>3. /\ u \in TxType /\ Effect(x, u, {}) /\ Reported(u) /\ u.hit = x.hit
          /\ u.ran = x.ran /\ u.appended = x.appended
      <4> HIDE DEF u
      <4> QED
        BY <1>6, <3>1, InterveneEffect
    <3>4. u.handle = "live"
      BY <1>6, <3>1, InterveneSame DEF Same
    <3> HIDE DEF u
    <3>5. y = [u EXCEPT !.logs = u.logs + 1, !.audit = u.code]
      BY <3>2, <3>4 DEF ProcessLogging
    <3>6. /\ y.handle = u.handle /\ y.appended = u.appended /\ y.hit = u.hit /\ y.ran = u.ran
          /\ y.code = u.code /\ y.audit = u.code
      BY <3>3, <3>5 DEF TxType
    <3> QED
      BY <1>7, <2>3, <3>3, <3>4, <3>6 DEF Reported
  <2> QED
    BY <2>1, <2>2, <2>3
<1> HIDE DEF y
<1>10. /\ t'[pass] = y /\ c'[pass] = d
       /\ \A i \in Pass \ {pass} : t'[i] = t[i] /\ c'[i] = c[i]
  BY <1>2, <1>4
<1>11. /\ pc' = (IF v = "declined" THEN "post_rewrite" ELSE "special")
       /\ rc' = (IF v = "declined" THEN rc ELSE v)
  BY <1>4 DEF Proceed
<1>12. v = "declined" /\ ~r.error_page => o # "error" /\ x.hit \notin Denials
  BY StatusNotDeclined DEF Verdict, PollRet, InterveneRet
<1>13. Relocated(r')
  BY <1>4, RequestEffect
<1>14. Located
  <2> SUFFICES ASSUME "location" \notin Faults, v = "redirect" PROVE "waf" \in r'.locations
    BY <1>11 DEF Located
  <2>1. o # "error" /\ x.hit = "redirect" /\ ~r.header_sent
    BY DEF Verdict, PollRet, InterveneRet
  <2> QED
    BY <1>4, <2>1, RequestEffect
<1>15. o # "error" => Contains(y.ran, 1)
  <2>1. o # "error" => y.ran = Append(<<>>, 1) /\ <<>> \in Seq(1..4)
    BY <1>5, <1>6, <1>9
  <2> QED
    BY <2>1, ContainsAppend, 1 \in 1..4
<1>16. y.ran = <<>> \/ y.ran = <<1>>
  BY <1>7, <1>9
<1> HIDE DEF v
<1>17. pc' = "post_rewrite" => ~d.triggered /\ (~r.error_page => y.hit \notin Denials /\ Contains(y.ran, 1))
  BY <1>8, <1>9, <1>11, <1>12, <1>15
<1> QED
  BY <1>1, <1>2, <1>8, <1>9, <1>10, <1>11, <1>13, <1>14, <1>16, <1>17 DEF CreateEffect

LEMMA CreationEffect ==
  ASSUME IInv, ContextInv, CreateCtxUnregistered \/ RewriteFails \/ RewriteInspects
  PROVE  CreateEffect
BY CreateBareEffect, RewriteInspectsEffect

-----------------------------------------------------------------------------
(* The header and body filters *)

\* A transaction whose context has not triggered goes through one iteration
\* that evaluates at most a phase of P.
Ran(P) ==
  /\ CtxOnly /\ ~c[ctx].triggered
  /\ Effect(t[ctx], t'[ctx], P) /\ (Reported(t[ctx]) => Reported(t'[ctx]))
  /\ c'[ctx].submitted = c[ctx].submitted

\* There is no context, or it has triggered.
Aside ==
  /\ t' = t /\ c' = c /\ ctx' = ctx /\ pass' = pass /\ loc' = loc
  /\ ctx # 0 => c[ctx].triggered

\* A header with Location headers L goes out; the rest of the request stays.
HeaderOut(kind, status, L) ==
  /\ out'.hdr = [kind |-> kind, pass |-> pass, status |-> status, locations |-> L]
  /\ r'.header_sent /\ r'.locations = L /\ r'.error_page = r.error_page /\ r'.len = r.len
  /\ r.locations \subseteq L

\* n buffers of the response in flight go out.
Units(n) == out.units \o [j \in 1..n |-> Unit]

\* What one run of the header filter amounts to ...
HeaderAside ==
  /\ Aside /\ HeaderOut(resp.kind, RespStatus, r.locations)
  /\ out'.units = out.units /\ out'.complete = out.complete
  /\ pc' \in {"log", "body"} /\ rc' = rc
HeaderError ==
  /\ Ran({}) /\ r' = r /\ out' = out /\ pc' = "log" /\ rc' = rc
HeaderForward(L) ==
  /\ Ran({3}) /\ (~r.error_page => Contains(t'[ctx].ran, 3))
  /\ ~c'[ctx].triggered /\ ~c'[ctx].delayed
  /\ HeaderOut(resp.kind, RespStatus, L)
  /\ out'.units = out.units /\ out'.complete = out.complete
  /\ pc' \in {"log", "body"} /\ rc' = rc
HeaderDelay ==
  /\ Ran({3}) /\ (~r.error_page => Contains(t'[ctx].ran, 3))
  /\ ~c'[ctx].triggered /\ c'[ctx].delayed
  /\ r' = r /\ out' = out /\ pc' = "body" /\ rc' = rc
Redirected(status, L) ==
  /\ Ran({3, 4}) /\ (pc = "body" => Ran({4})) /\ c'[ctx].triggered /\ ~c'[ctx].delayed
  /\ HeaderOut("redirect", status, L) /\ r'.header_only
  /\ "location" \notin Faults /\ status = "redirect" => "waf" \in L
  /\ out'.units = out.units /\ out'.complete = out.complete
  /\ pc' \in {"log", "body"} /\ rc' = rc
Finalized ==
  /\ Ran({3, 4}) /\ (pc = "body" => Ran({4})) /\ c'[ctx].triggered /\ ~c'[ctx].delayed
  /\ r'.header_sent = r.header_sent /\ r'.error_page = r.error_page /\ r'.len = r.len
  /\ "location" \notin Faults => rc' # "redirect"
  /\ out' = out /\ pc' = "special"
HeaderEffect ==
  /\ pc = "header" /\ ~r.header_sent /\ resp' = resp
  /\ \/ HeaderAside \/ HeaderError \/ HeaderDelay \/ Finalized
     \/ \E L : HeaderForward(L) \/ \E status : Redirected(status, L)

LEMMA HeaderOutFacts ==
  ASSUME IInv, NEW kind, NEW status, NEW rr \in RequestType, Relocated(rr),
         SendHeader(kind, status, rr)
  PROVE  /\ HeaderOut(kind, status, rr.locations)
         /\ out'.units = out.units /\ out'.complete = out.complete
<1>1. out \in OutType /\ r \in RequestType
  BY DEF IInv, TypeOK
<1>2. out' = [out EXCEPT !.hdr = HeaderOf(kind, status, rr)]
      /\ r' = [rr EXCEPT !.header_sent = TRUE, !.header_only = rr.header_only \/ rr.head]
  BY DEF SendHeader
<1>3. out'.hdr = HeaderOf(kind, status, rr) /\ out'.units = out.units
      /\ out'.complete = out.complete
  BY <1>1, <1>2 DEF OutType
<1>4. r'.header_sent /\ r'.locations = rr.locations /\ r'.error_page = rr.error_page
      /\ r'.len = rr.len
  BY <1>2 DEF RequestType
<1> QED
  BY <1>3, <1>4 DEF HeaderOut, HeaderOf, Relocated

LEMMA RedirectOutFacts ==
  ASSUME IInv, NEW status, NEW rr \in RequestType, Relocated(rr),
         SendHeader("redirect", status, PrepareRedirect(rr))
  PROVE  /\ HeaderOut("redirect", status, rr.locations) /\ r'.header_only
         /\ out'.units = out.units /\ out'.complete = out.complete
<1>1. out \in OutType /\ r \in RequestType
  BY DEF IInv, TypeOK
<1> DEFINE q == PrepareRedirect(rr)
<1>2. /\ q \in RequestType /\ q.header_only = TRUE /\ q.locations = rr.locations
      /\ q.error_page = rr.error_page /\ q.len = rr.len
  BY DEF PrepareRedirect, RequestType
<1> HIDE DEF q
<1>3. out' = [out EXCEPT !.hdr = HeaderOf("redirect", status, q)]
      /\ r' = [q EXCEPT !.header_sent = TRUE, !.header_only = q.header_only \/ q.head]
  BY DEF SendHeader, q
<1>4. out'.hdr = HeaderOf("redirect", status, q) /\ out'.units = out.units
      /\ out'.complete = out.complete
  BY <1>1, <1>3 DEF OutType
<1>5. r'.header_sent /\ r'.locations = rr.locations /\ r'.error_page = rr.error_page
      /\ r'.len = rr.len /\ r'.header_only
  BY <1>2, <1>3 DEF RequestType
<1> QED
  BY <1>2, <1>4, <1>5 DEF HeaderOut, HeaderOf, Relocated

\* The context and the transaction of ctx become d and y.
LEMMA RanStep ==
  ASSUME IInv, ctx # 0, ~c[ctx].triggered, NEW P, NEW y \in TxType, NEW d \in CtxType,
         y.handle = t[ctx].handle, Effect(t[ctx], y, P), Reported(t[ctx]) => Reported(y),
         d.submitted = c[ctx].submitted,
         t' = [t EXCEPT ![ctx] = y], c' = [c EXCEPT ![ctx] = d],
         ctx' = ctx, pass' = pass, loc' = loc
  PROVE  Ran(P) /\ t'[ctx] = y /\ c'[ctx] = d
<1>1. CtxOnly /\ t'[ctx] = y /\ c'[ctx] = d
  BY CtxOnlyStep
<1> QED
  BY <1>1 DEF Ran

\* Not passed by: a context that has not triggered.
LEMMA NotBypassed ==
  ASSUME IInv, ContextInv, pc = "header", ~Bypassed
  PROVE  /\ ctx # 0 /\ ctx \in Pass /\ ~c[ctx].triggered /\ ~c[ctx].delayed
         /\ t[ctx] \in TxType /\ c[ctx] \in CtxType /\ r \in RequestType
<1>1. ctx # 0 /\ ~c[ctx].triggered
  BY DEF Bypassed
<1> QED
  BY <1>1 DEF IInv, TypeOK, ContextInv, Unsent

LEMMA HeaderBypassEffect ==
  ASSUME IInv, ContextInv, HeaderBypass
  PROVE  HeaderEffect
<1>1. /\ pc = "header" /\ ~r.header_sent /\ Bypassed /\ SendHeader(resp.kind, RespStatus, r)
      /\ pc' \in {"log", "body"} /\ pass' = pass /\ loc' = loc /\ resp' = resp /\ rc' = rc
      /\ ctx' = ctx /\ c' = c /\ t' = t
  BY DEF HeaderBypass
<1>2. ctx # 0 => c[ctx].triggered
  BY <1>1 DEF Bypassed, ContextInv, Unsent
<1>3. /\ HeaderOut(resp.kind, RespStatus, r.locations)
      /\ out'.units = out.units /\ out'.complete = out.complete
  <2>1. r \in RequestType /\ Relocated(r)
    BY DEF IInv, TypeOK, Relocated
  <2> QED
    BY <1>1, <2>1, HeaderOutFacts
<1> QED
  BY <1>1, <1>2, <1>3 DEF HeaderEffect, HeaderAside, Aside

LEMMA HeaderFailsEffect ==
  ASSUME IInv, ContextInv, HeaderFails
  PROVE  HeaderEffect
<1>1. /\ pc = "header" /\ ~r.header_sent /\ ~Bypassed /\ pc' = "log" /\ r' = r /\ out' = out
      /\ c' = [c EXCEPT ![ctx].processed = TRUE] /\ t' = [t EXCEPT ![ctx] = Call(t[ctx])]
      /\ pass' = pass /\ loc' = loc /\ resp' = resp /\ rc' = rc /\ ctx' = ctx
  BY DEF HeaderFails
<1>2. /\ ctx # 0 /\ ctx \in Pass /\ ~c[ctx].triggered /\ t[ctx] \in TxType /\ c[ctx] \in CtxType
  BY <1>1, NotBypassed
<1> DEFINE d == [c[ctx] EXCEPT !.processed = TRUE]
           y == Call(t[ctx])
<1>3. d \in CtxType /\ d.submitted = c[ctx].submitted
  BY <1>2 DEF CtxType
<1>4. y \in TxType /\ Effect(t[ctx], y, {}) /\ y.handle = t[ctx].handle
      /\ (Reported(t[ctx]) => Reported(y))
  BY <1>2, CallEffect, CallSame DEF Same, Reported
<1>5. c' = [c EXCEPT ![ctx] = d] /\ t' = [t EXCEPT ![ctx] = y]
  BY <1>1
<1> HIDE DEF d, y
<1>6. Ran({})
  BY <1>1, <1>2, <1>3, <1>4, <1>5, RanStep
<1> QED
  BY <1>1, <1>6 DEF HeaderEffect, HeaderError

\* Phase 3 and its poll, on the way to d.
LEMMA Phase3Effect ==
  ASSUME IInv, ContextInv, pc = "header", ~Bypassed,
         NEW o \in Outcomes(t[ctx]), NEW n \in Installs, NEW d \in CtxType,
         d.submitted = c[ctx].submitted,
         t' = [t EXCEPT ![ctx] = Polled(Evaluate(t[ctx], 3, o), o, c[ctx].logged, FALSE)],
         c' = [c EXCEPT ![ctx] = d], ctx' = ctx, pass' = pass, loc' = loc
  PROVE  LET x == Evaluate(t[ctx], 3, o)
             rr == PolledReq(x, o, n)
         IN  /\ Ran({3}) /\ c'[ctx] = d /\ rr \in RequestType /\ Relocated(rr)
             /\ o # "error" => Contains(t'[ctx].ran, 3)
             /\ "location" \notin Faults /\ ~r.header_sent /\ PollRet(x, o) = "redirect" =>
                  "waf" \in rr.locations /\ rr.location = "waf"
<1> DEFINE x == Evaluate(t[ctx], 3, o)
           y == Polled(x, o, c[ctx].logged, FALSE)
           rr == PolledReq(x, o, n)
<1>1. /\ ctx # 0 /\ ctx \in Pass /\ ~c[ctx].triggered /\ t[ctx] \in TxType /\ c[ctx] \in CtxType
      /\ r \in RequestType
  BY NotBypassed
<1>2. /\ x \in TxType /\ Same(t[ctx], x)
  BY <1>1, EvaluateSame, 3 \in 1..4 DEF Same
<1>3. /\ y \in TxType /\ Effect(t[ctx], y, {3}) /\ (Reported(t[ctx]) => Reported(y))
      /\ o # "error" => y.ran = Append(t[ctx].ran, 3)
  <2>1. 3 \in 1..4
    OBVIOUS
  <2> QED
    BY ZenonT(60), <1>1, <2>1, PolledEffect
<1>4. t' = [t EXCEPT ![ctx] = y]
  OBVIOUS
<1> HIDE DEF x
<1>5. y.handle = t[ctx].handle
  BY <1>2, PolledSame DEF Same
<1>6. rr \in RequestType /\ Relocated(rr)
  BY <1>2, RequestTypes, RequestEffect DEF IInv
<1>7. "location" \notin Faults /\ ~r.header_sent /\ PollRet(x, o) = "redirect" =>
        "waf" \in rr.locations /\ rr.location = "waf"
  <2> SUFFICES ASSUME "location" \notin Faults, ~r.header_sent, PollRet(x, o) = "redirect"
               PROVE  "waf" \in rr.locations /\ rr.location = "waf"
    OBVIOUS
  <2>1. o # "error" /\ x.hit = "redirect"
    BY DEF PollRet, InterveneRet
  <2> QED
    BY <2>1, RequestEffect
<1> HIDE DEF y
<1>8. Ran({3}) /\ c'[ctx] = d /\ t'[ctx] = y
  <2>1. CtxOnly /\ c'[ctx] = d /\ t'[ctx] = y
    BY <1>1, <1>3, <1>4, <1>5, CtxOnlyStep
  <2> QED
    BY <1>1, <1>3, <2>1 DEF Ran
<1>9. o # "error" => Contains(y.ran, 3)
  BY <1>1, <1>3, ContainsAppend, 3 \in 1..4 DEF TxType
<1> QED
  BY <1>6, <1>7, <1>8, <1>9 DEF x

LEMMA HeaderInspectsEffect ==
  ASSUME IInv, ContextInv, HeaderInspects
  PROVE  HeaderEffect
<1>1. /\ pc = "header" /\ ~r.header_sent /\ ~Bypassed /\ pass' = pass /\ loc' = loc
      /\ resp' = resp /\ rc' = rc /\ ctx' = ctx
  BY DEF HeaderInspects
<1>2. PICK o \in Outcomes(t[ctx]), proc \in BOOLEAN, n \in Installs :
        LET x   == Evaluate(t[ctx], 3, o)
            ret == PollRet(x, o)
            rr  == PolledReq(x, o, n)
            cc  == [c[ctx] EXCEPT !.processed = TRUE, !.processable = proc]
        IN  /\ r.error_page \/ ret = "ok"
            /\ t' = [t EXCEPT ![ctx] = Polled(x, o, cc.logged, FALSE)]
            /\ IF Delays(rr)
               THEN /\ c' = [c EXCEPT ![ctx] = [cc EXCEPT !.delayed = TRUE, !.pending = 0]]
                    /\ pc' = "body"
                    /\ UNCHANGED <<r, out>>
               ELSE /\ c' = [c EXCEPT ![ctx] = cc]
                    /\ SendHeader(resp.kind, RespStatus, rr)
                    /\ pc' = IF r'.header_only THEN "log" ELSE "body"
  BY DEF HeaderInspects
<1>3. /\ ctx # 0 /\ ctx \in Pass /\ ~c[ctx].triggered /\ ~c[ctx].delayed
      /\ t[ctx] \in TxType /\ c[ctx] \in CtxType /\ r \in RequestType
  BY <1>1, NotBypassed
<1> DEFINE x == Evaluate(t[ctx], 3, o)
           y == Polled(x, o, c[ctx].logged, FALSE)
           rr == PolledReq(x, o, n)
           cc == [c[ctx] EXCEPT !.processed = TRUE, !.processable = proc]
           dd == [cc EXCEPT !.delayed = TRUE, !.pending = 0]
<1>4. /\ cc \in CtxType /\ cc.logged = c[ctx].logged /\ cc.triggered = FALSE
      /\ cc.delayed = FALSE /\ cc.submitted = c[ctx].submitted
  BY <1>3 DEF CtxType
<1>5. /\ dd \in CtxType /\ dd.triggered = FALSE /\ dd.delayed = TRUE
      /\ dd.submitted = c[ctx].submitted
  BY <1>3 DEF CtxType
<1>6. ~r.error_page => o # "error"
  BY <1>2 DEF PollRet
<1>7. /\ t' = [t EXCEPT ![ctx] = y]
      /\ \/ c' = [c EXCEPT ![ctx] = dd] /\ pc' = "body" /\ r' = r /\ out' = out
         \/ /\ c' = [c EXCEPT ![ctx] = cc] /\ SendHeader(resp.kind, RespStatus, rr)
            /\ pc' \in {"log", "body"}
  BY <1>2, <1>4
<1> HIDE DEF cc, dd
<1>8. CASE c' = [c EXCEPT ![ctx] = dd] /\ pc' = "body" /\ r' = r /\ out' = out
  <2>1. Ran({3}) /\ c'[ctx] = dd /\ (o # "error" => Contains(t'[ctx].ran, 3))
    BY <1>1, <1>5, <1>7, <1>8, Phase3Effect
  <2>2. HeaderDelay
    BY <1>1, <1>5, <1>6, <1>8, <2>1 DEF HeaderDelay
  <2> QED
    BY <1>1, <2>2 DEF HeaderEffect
<1>9. CASE /\ c' = [c EXCEPT ![ctx] = cc] /\ SendHeader(resp.kind, RespStatus, rr)
           /\ pc' \in {"log", "body"}
  <2>1. /\ Ran({3}) /\ c'[ctx] = cc /\ (o # "error" => Contains(t'[ctx].ran, 3))
        /\ rr \in RequestType /\ Relocated(rr)
    BY <1>1, <1>4, <1>7, <1>9, Phase3Effect
  <2> HIDE DEF rr
  <2>2. /\ HeaderOut(resp.kind, RespStatus, rr.locations)
        /\ out'.units = out.units /\ out'.complete = out.complete
    BY <1>9, <2>1, HeaderOutFacts
  <2>3. HeaderForward(rr.locations)
    BY <1>1, <1>4, <1>6, <1>9, <2>1, <2>2 DEF HeaderForward
  <2> QED
    BY <1>1, <2>3 DEF HeaderEffect
<1> QED
  BY <1>7, <1>8, <1>9

LEMMA HeaderBlocksEffect ==
  ASSUME IInv, ContextInv, HeaderBlocks
  PROVE  HeaderEffect
<1>1. /\ pc = "header" /\ ~r.header_sent /\ ~Bypassed /\ pass' = pass /\ loc' = loc
      /\ resp' = resp /\ ctx' = ctx
  BY DEF HeaderBlocks
<1>2. PICK o \in Outcomes(t[ctx]), proc \in BOOLEAN, n \in Installs :
        LET x   == Evaluate(t[ctx], 3, o)
            ret == PollRet(x, o)
            rr  == PolledReq(x, o, n)
        IN  /\ ret # "ok"
            /\ t' = [t EXCEPT ![ctx] = Polled(x, o, c[ctx].logged, FALSE)]
            /\ c' = [c EXCEPT ![ctx] = [c[ctx] EXCEPT !.processed = TRUE,
                                                      !.processable = proc,
                                                      !.triggered = TRUE]]
            /\ IF IsRedirectStatus(ret) /\ rr.location # "none"
               THEN /\ SendHeader("redirect", ret, PrepareRedirect(rr))
                    /\ pc' \in {"body", "log"} /\ rc' = rc
               ELSE FilterFinalize(ret, rr)
  BY DEF HeaderBlocks
<1>3. /\ ctx # 0 /\ ctx \in Pass /\ ~c[ctx].triggered /\ ~c[ctx].delayed
      /\ t[ctx] \in TxType /\ c[ctx] \in CtxType /\ r \in RequestType
  BY <1>1, NotBypassed
<1> DEFINE x == Evaluate(t[ctx], 3, o)
           ret == PollRet(x, o)
           rr == PolledReq(x, o, n)
           d == [c[ctx] EXCEPT !.processed = TRUE, !.processable = proc, !.triggered = TRUE]
<1>4. /\ d \in CtxType /\ d.triggered = TRUE /\ d.delayed = FALSE
      /\ d.submitted = c[ctx].submitted
  BY <1>3 DEF CtxType
<1>5. /\ t' = [t EXCEPT ![ctx] = Polled(x, o, c[ctx].logged, FALSE)]
      /\ c' = [c EXCEPT ![ctx] = d]
      /\ IF IsRedirectStatus(ret) /\ rr.location # "none"
         THEN SendHeader("redirect", ret, PrepareRedirect(rr)) /\ pc' \in {"body", "log"} /\ rc' = rc
         ELSE FilterFinalize(ret, rr)
  BY <1>2
<1> HIDE DEF d
<1>6. /\ Ran({3}) /\ c'[ctx] = d /\ rr \in RequestType /\ Relocated(rr)
      /\ "location" \notin Faults /\ ret = "redirect" => "waf" \in rr.locations /\ rr.location = "waf"
  BY <1>1, <1>4, <1>5, Phase3Effect
<1>7. Ran({3, 4})
  BY <1>6 DEF Ran, Effect
<1> HIDE DEF ret, rr
<1>8. CASE IsRedirectStatus(ret) /\ rr.location # "none"
  <2>1. /\ HeaderOut("redirect", ret, rr.locations) /\ r'.header_only
        /\ out'.units = out.units /\ out'.complete = out.complete
    BY <1>5, <1>6, <1>8, RedirectOutFacts
  <2>2. Redirected(ret, rr.locations)
    BY <1>1, <1>4, <1>5, <1>6, <1>7, <1>8, <2>1 DEF Redirected
  <2> QED
    BY <1>1, <2>2 DEF HeaderEffect
<1>9. CASE ~(IsRedirectStatus(ret) /\ rr.location # "none")
  <2>1. r' = [rr EXCEPT !.location = "none", !.locations = {}] /\ pc' = "special"
        /\ rc' = ret /\ out' = out
    BY <1>5, <1>9 DEF FilterFinalize
  <2>2. r'.header_sent = r.header_sent /\ r'.error_page = r.error_page /\ r'.len = r.len
    BY <1>6, <2>1 DEF RequestType, Relocated
  <2>3. "location" \notin Faults => ret # "redirect"
    BY <1>6, <1>9 DEF IsRedirectStatus
  <2>4. Finalized
    BY <1>1, <1>4, <1>6, <1>7, <2>1, <2>2, <2>3 DEF Finalized
  <2> QED
    BY <1>1, <2>4 DEF HeaderEffect
<1> QED
  BY <1>8, <1>9

LEMMA HeaderFilterEffect ==
  ASSUME IInv, ContextInv, HeaderFilter
  PROVE  HeaderEffect
BY HeaderBypassEffect, HeaderFailsEffect, HeaderInspectsEffect, HeaderBlocksEffect
   DEF HeaderFilter

\* ... and what one run of the body filter does.
Completed == out'.complete /\ ~r.error_page => Contains(t'[ctx].ran, 4)
Onwards == pc' \in {"log", "body"} /\ rc' = rc
BodyAside ==
  /\ Aside /\ Onwards /\ r' = r /\ out'.hdr = out.hdr
  /\ IF Swallows THEN out' = out ELSE out'.units = Units(1)
BodyForward ==
  /\ Ran({4}) /\ Onwards /\ Completed /\ (pc' = "body" => t'[ctx].ran = t[ctx].ran)
  /\ ~c[ctx].delayed /\ ~c'[ctx].delayed /\ ~c'[ctx].triggered
  /\ r' = r /\ out'.hdr = out.hdr /\ out'.units = Units(1)
BodyHold ==
  /\ Ran({4}) /\ Onwards /\ t'[ctx].ran = t[ctx].ran
  /\ c'[ctx].delayed /\ ~c'[ctx].triggered /\ c[ctx].delayed
  /\ r' = r /\ out' = out
BodyFlush ==
  /\ Ran({4}) /\ Onwards /\ Completed /\ (pc' = "body" => t'[ctx].ran = t[ctx].ran)
  /\ ~r.header_sent /\ ~c'[ctx].delayed /\ ~c'[ctx].triggered
  /\ HeaderOut(resp.kind, RespStatus, r.locations)
  /\ \E n \in Nat : out'.units = Units(n)
BodyEffect ==
  /\ pc = "body" /\ resp'.kind = resp.kind
  /\ \/ BodyAside \/ BodyForward \/ BodyHold \/ BodyFlush \/ Finalized
     \/ ~r.header_sent /\ \E L, status : Redirected(status, L)

LEMMA NotTakenOver ==
  ASSUME IInv, ~TakenOver
  PROVE  /\ ctx # 0 /\ ctx \in Pass /\ ~c[ctx].triggered
         /\ t[ctx] \in TxType /\ c[ctx] \in CtxType
<1>1. ctx # 0 /\ ~c[ctx].triggered
  BY DEF TakenOver
<1> QED
  BY <1>1 DEF IInv, TypeOK

LEMMA NextBufferFacts ==
  ASSUME IInv, NEW last, NextBuffer(last)
  PROVE  resp'.kind = resp.kind /\ pc' \in {"log", "body"} /\ (last => pc' = "log")
         /\ (~last => pc' = "body")
<1>1. resp \in RespType
  BY DEF IInv, TypeOK
<1> QED
  BY <1>1 DEF NextBuffer, RespType

LEMMA SentFacts ==
  ASSUME IInv, NEW n \in Nat, NEW last, out' = Sent(out, n, last)
  PROVE  out'.hdr = out.hdr /\ out'.complete = last /\ out'.units = Units(n)
<1>1. out \in OutType
  BY DEF IInv, TypeOK
<1>2. out' = [out EXCEPT !.units = Units(n), !.complete = last]
  BY DEF Sent, Units
<1> QED
  BY <1>1, <1>2 DEF OutType

LEMMA BodyBypassEffect ==
  ASSUME IInv, BodyBypass
  PROVE  BodyEffect
<1>1. /\ pc = "body" /\ TakenOver /\ pass' = pass /\ loc' = loc /\ r' = r /\ rc' = rc
      /\ ctx' = ctx /\ c' = c /\ t' = t
  BY DEF BodyBypass
<1>2. PICK last \in LastFlags :
        NextBuffer(last) /\ out' = (IF Swallows THEN out ELSE Sent(out, 1, last))
  BY DEF BodyBypass
<1>3. resp'.kind = resp.kind /\ pc' \in {"log", "body"}
  BY <1>2, NextBufferFacts
<1>4. out'.hdr = out.hdr /\ (IF Swallows THEN out' = out ELSE out'.units = Units(1))
  <2>1. CASE Swallows
    BY <1>2, <2>1
  <2>2. CASE ~Swallows
    <3>1. out' = Sent(out, 1, last) /\ out \in OutType
      BY <1>2, <2>2 DEF IInv, TypeOK
    <3> QED
      BY <2>2, <3>1, SentFacts, 1 \in Nat
  <2> QED
    BY <2>1, <2>2
<1>5. ctx # 0 => c[ctx].triggered
  BY <1>1 DEF TakenOver
<1> QED
  BY <1>1, <1>3, <1>4, <1>5 DEF BodyEffect, BodyAside, Aside, Onwards

\* An iteration that ends with x, on the way to d.
LEMMA InspectedEffect ==
  ASSUME IInv, ~TakenOver, NEW last \in BOOLEAN, NEW x \in Inspections(t[ctx], c[ctx], last),
         NEW d \in CtxType, d.submitted = c[ctx].submitted,
         t' = [t EXCEPT ![ctx] = x], c' = [c EXCEPT ![ctx] = d],
         ctx' = ctx, pass' = pass, loc' = loc
  PROVE  /\ Ran({4}) /\ c'[ctx] = d /\ (~last => t'[ctx].ran = t[ctx].ran)
         /\ last /\ ~r.error_page => Contains(t'[ctx].ran, 4)
<1>1. /\ ctx # 0 /\ ctx \in Pass /\ ~c[ctx].triggered
      /\ t[ctx] \in TxType /\ c[ctx] \in CtxType
  BY NotTakenOver
<1>2. /\ x \in TxType /\ Effect(t[ctx], x, {4}) /\ (Reported(t[ctx]) => Reported(x))
      /\ last /\ ~r.error_page => x.ran = Append(t[ctx].ran, 4)
      /\ ~last => x.ran = t[ctx].ran
  BY <1>1, InspectionsEffect
<1>3. x.handle = t[ctx].handle
  BY <1>1, InspectionsSame DEF Same
<1>4. Ran({4}) /\ t'[ctx] = x /\ c'[ctx] = d
  <2>1. CtxOnly /\ c'[ctx] = d /\ t'[ctx] = x
    BY <1>1, <1>2, <1>3, CtxOnlyStep
  <2> QED
    BY <1>1, <1>2, <2>1 DEF Ran
<1>5. last /\ ~r.error_page => Contains(x.ran, 4)
  BY <1>1, <1>2, ContainsAppend, 4 \in 1..4 DEF TxType
<1> QED
  BY <1>2, <1>4, <1>5

LEMMA BodyForwardsEffect ==
  ASSUME IInv, BodyForwards
  PROVE  BodyEffect
<1>1. /\ pc = "body" /\ ~TakenOver /\ ~c[ctx].delayed /\ pass' = pass /\ loc' = loc
      /\ r' = r /\ rc' = rc /\ ctx' = ctx /\ c' = c
  BY DEF BodyForwards
<1>2. PICK last \in LastFlags :
        /\ \E x \in Inspections(t[ctx], c[ctx], last) : t' = [t EXCEPT ![ctx] = x]
        /\ NextBuffer(last) /\ out' = Sent(out, 1, last)
  BY DEF BodyForwards
<1>3. PICK x \in Inspections(t[ctx], c[ctx], last) : t' = [t EXCEPT ![ctx] = x]
  BY <1>2
<1>4. /\ ctx # 0 /\ ctx \in Pass /\ ~c[ctx].triggered /\ c[ctx] \in CtxType
      /\ c \in [Pass -> CtxType] /\ out \in OutType
  BY <1>1, NotTakenOver DEF IInv, TypeOK
<1>5. c' = [c EXCEPT ![ctx] = c[ctx]]
  BY <1>1, <1>4
<1>6. last \in BOOLEAN
  BY <1>2 DEF LastFlags
<1>7. /\ Ran({4}) /\ c'[ctx] = c[ctx] /\ (~last => t'[ctx].ran = t[ctx].ran)
      /\ last /\ ~r.error_page => Contains(t'[ctx].ran, 4)
  BY <1>1, <1>3, <1>4, <1>5, <1>6, InspectedEffect
<1>8. resp'.kind = resp.kind /\ pc' \in {"log", "body"} /\ (pc' = "body" => ~last)
  BY <1>2, NextBufferFacts
<1>9. out'.hdr = out.hdr /\ out'.complete = last /\ out'.units = Units(1)
  BY <1>2, SentFacts, 1 \in Nat
<1>10. BodyForward
  BY <1>1, <1>4, <1>7, <1>8, <1>9 DEF BodyForward, Onwards, Completed
<1> QED
  BY <1>1, <1>8, <1>10 DEF BodyEffect

LEMMA BodyHoldsEffect ==
  ASSUME IInv, BodyHolds
  PROVE  BodyEffect
<1>1. /\ pc = "body" /\ ~TakenOver /\ c[ctx].delayed /\ pass' = pass /\ loc' = loc
      /\ r' = r /\ rc' = rc /\ ctx' = ctx /\ out' = out /\ NextBuffer(FALSE)
      /\ c' = [c EXCEPT ![ctx].pending = @ + 1]
  BY DEF BodyHolds
<1>2. PICK x \in Inspections(t[ctx], c[ctx], FALSE) : t' = [t EXCEPT ![ctx] = x]
  BY DEF BodyHolds
<1>3. /\ ctx # 0 /\ ctx \in Pass /\ ~c[ctx].triggered /\ c[ctx] \in CtxType
      /\ c \in [Pass -> CtxType] /\ c[ctx].pending + 1 \in Nat
  BY <1>1, NotTakenOver DEF IInv, TypeOK, CtxType
<1> DEFINE d == [c[ctx] EXCEPT !.pending = @ + 1]
<1>4. /\ d \in CtxType /\ d.submitted = c[ctx].submitted /\ d.triggered = c[ctx].triggered
      /\ d.delayed = c[ctx].delayed
  BY <1>3 DEF CtxType
<1>5. c' = [c EXCEPT ![ctx] = d]
  BY <1>1
<1> HIDE DEF d
<1>6. Ran({4}) /\ c'[ctx] = d /\ t'[ctx].ran = t[ctx].ran
  BY <1>1, <1>2, <1>4, <1>5, InspectedEffect
<1>7. resp'.kind = resp.kind /\ pc' = "body"
  BY <1>1, NextBufferFacts
<1>8. BodyHold
  BY <1>1, <1>3, <1>4, <1>6, <1>7 DEF BodyHold, Onwards
<1> QED
  BY <1>1, <1>7, <1>8 DEF BodyEffect

LEMMA BodyFlushesEffect ==
  ASSUME IInv, WireInv, BodyFlushes
  PROVE  BodyEffect
<1>1. /\ pc = "body" /\ ~TakenOver /\ c[ctx].delayed /\ pass' = pass /\ loc' = loc
      /\ rc' = rc /\ ctx' = ctx
      /\ c' = [c EXCEPT ![ctx].delayed = FALSE, ![ctx].pending = 0]
  BY DEF BodyFlushes
<1>2. PICK last \in LastFlags :
        /\ \E x \in Inspections(t[ctx], c[ctx], last) : t' = [t EXCEPT ![ctx] = x]
        /\ NextBuffer(last)
        /\ r' = [r EXCEPT !.header_sent = TRUE]
        /\ out' = Sent([out EXCEPT !.hdr = HeaderOf(resp.kind, RespStatus, r)],
                       c[ctx].pending + 1, last)
  BY DEF BodyFlushes
<1>3. PICK x \in Inspections(t[ctx], c[ctx], last) : t' = [t EXCEPT ![ctx] = x]
  BY <1>2
<1>4. /\ ctx # 0 /\ ctx \in Pass /\ ~c[ctx].triggered /\ c[ctx] \in CtxType
      /\ c \in [Pass -> CtxType] /\ out \in OutType /\ r \in RequestType
      /\ c[ctx].pending + 1 \in Nat
  BY <1>1, NotTakenOver DEF IInv, TypeOK, CtxType
<1>5. ~r.header_sent
  BY <1>1, <1>4 DEF WireInv
<1> DEFINE d == [c[ctx] EXCEPT !.delayed = FALSE, !.pending = 0]
           o == [out EXCEPT !.hdr = HeaderOf(resp.kind, RespStatus, r)]
<1>6. /\ d \in CtxType /\ d.submitted = c[ctx].submitted /\ d.triggered = FALSE
      /\ d.delayed = FALSE
  BY <1>4 DEF CtxType
<1>7. c' = [c EXCEPT ![ctx] = d]
  BY <1>1, <1>4
<1>8. last \in BOOLEAN
  BY <1>2 DEF LastFlags
<1> HIDE DEF d
<1>9. /\ Ran({4}) /\ c'[ctx] = d /\ (~last => t'[ctx].ran = t[ctx].ran)
      /\ last /\ ~r.error_page => Contains(t'[ctx].ran, 4)
  BY <1>1, <1>3, <1>6, <1>7, <1>8, InspectedEffect
<1>10. resp'.kind = resp.kind /\ pc' \in {"log", "body"} /\ (pc' = "body" => ~last)
  BY <1>2, NextBufferFacts
<1>11. o.hdr = HeaderOf(resp.kind, RespStatus, r) /\ o.units = out.units
  BY <1>4 DEF OutType
<1>12. /\ out'.hdr = HeaderOf(resp.kind, RespStatus, r) /\ out'.complete = last
       /\ out'.units = Units(c[ctx].pending + 1)
  <2>1. o.units \o [j \in 1..(c[ctx].pending + 1) |-> Unit] = Units(c[ctx].pending + 1)
    BY <1>11 DEF Units
  <2>2. out' = [o EXCEPT !.units = o.units \o [j \in 1..(c[ctx].pending + 1) |-> Unit],
                         !.complete = last]
    BY <1>2 DEF Sent
  <2>3. o = [hdr |-> o.hdr, units |-> o.units, complete |-> out.complete]
    BY <1>4 DEF OutType
  <2> HIDE DEF o
  <2>4. out'.hdr = o.hdr /\ out'.complete = last
        /\ out'.units = o.units \o [j \in 1..(c[ctx].pending + 1) |-> Unit]
    BY <2>2, <2>3
  <2> QED
    BY <1>11, <2>1, <2>4
<1>13. HeaderOut(resp.kind, RespStatus, r.locations)
  BY <1>2, <1>4, <1>12 DEF HeaderOut, HeaderOf, RequestType
<1>14. BodyFlush
  BY <1>1, <1>4, <1>5, <1>6, <1>9, <1>10, <1>12, <1>13 DEF BodyFlush, Onwards, Completed
<1> QED
  BY <1>1, <1>10, <1>14 DEF BodyEffect

LEMMA BodyBlocksEffect ==
  ASSUME IInv, WireInv, BodyBlocks
  PROVE  BodyEffect
<1>1. /\ pc = "body" /\ ~TakenOver /\ pass' = pass /\ loc' = loc /\ ctx' = ctx
      /\ c' = [c EXCEPT ![ctx] = [c[ctx] EXCEPT !.triggered = TRUE, !.delayed = FALSE,
                                                !.pending = 0]]
  BY DEF BodyBlocks
<1>2. PICK last \in LastFlags, n \in Installs :
        \E b \in Refusals(t[ctx], c[ctx], last) :
          LET rr == IF b.status = "redirect" THEN InterveneReq(b.tx, n) ELSE r
          IN  /\ t' = [t EXCEPT ![ctx] = b.tx]
              /\ IF c[ctx].delayed /\ IsRedirectStatus(b.status) /\ rr.location # "none"
                 THEN /\ SendHeader("redirect", b.status, PrepareRedirect(rr))
                      /\ NextBuffer(last) /\ rc' = rc
                 ELSE FilterFinalize(b.status, rr) /\ resp' = resp
  BY DEF BodyBlocks
<1>b. PICK b \in Refusals(t[ctx], c[ctx], last) :
        LET rr == IF b.status = "redirect" THEN InterveneReq(b.tx, n) ELSE r
        IN  /\ t' = [t EXCEPT ![ctx] = b.tx]
            /\ IF c[ctx].delayed /\ IsRedirectStatus(b.status) /\ rr.location # "none"
               THEN /\ SendHeader("redirect", b.status, PrepareRedirect(rr))
                    /\ NextBuffer(last) /\ rc' = rc
               ELSE FilterFinalize(b.status, rr) /\ resp' = resp
  BY <1>2
<1>3. /\ ctx # 0 /\ ctx \in Pass /\ ~c[ctx].triggered /\ c[ctx] \in CtxType
      /\ t[ctx] \in TxType /\ r \in RequestType
  BY <1>1, NotTakenOver DEF IInv, TypeOK
<1> DEFINE rr == IF b.status = "redirect" THEN InterveneReq(b.tx, n) ELSE r
           d == [c[ctx] EXCEPT !.triggered = TRUE, !.delayed = FALSE, !.pending = 0]
<1>4. /\ d \in CtxType /\ d.submitted = c[ctx].submitted /\ d.triggered = TRUE
      /\ d.delayed = FALSE
  BY <1>3 DEF CtxType
<1>5. c' = [c EXCEPT ![ctx] = d] /\ t' = [t EXCEPT ![ctx] = b.tx]
  BY <1>1, <1>b
<1> HIDE DEF d
<1>6. /\ b.tx \in TxType /\ Effect(t[ctx], b.tx, {4}) /\ (Reported(t[ctx]) => Reported(b.tx))
      /\ b.status = "redirect" => b.tx.hit = "redirect" /\ ~r.header_sent
  BY <1>3, RefusalsEffect
<1>7. b.tx.handle = t[ctx].handle
  BY <1>3, RefusalsSame DEF Same
<1>8. Ran({4}) /\ c'[ctx] = d
  <2>1. CtxOnly /\ c'[ctx] = d /\ t'[ctx] = b.tx
    BY <1>1, <1>3, <1>4, <1>5, <1>6, <1>7, CtxOnlyStep
  <2> QED
    BY <1>3, <1>4, <1>6, <2>1 DEF Ran
<1>9. Ran({3, 4})
  BY <1>8 DEF Ran, Effect
<1>10. rr \in RequestType /\ Relocated(rr)
  BY <1>3, <1>6, RequestTypes, RequestEffect DEF IInv
<1>11. "location" \notin Faults /\ b.status = "redirect" =>
         ~r.header_sent /\ "waf" \in rr.locations /\ rr.location = "waf"
  BY <1>6, RequestEffect
<1>12. c[ctx].delayed <=> ~r.header_sent
  BY <1>1, <1>3 DEF WireInv
<1> HIDE DEF rr
<1>13. CASE c[ctx].delayed /\ IsRedirectStatus(b.status) /\ rr.location # "none"
  <2>1. SendHeader("redirect", b.status, PrepareRedirect(rr)) /\ NextBuffer(last) /\ rc' = rc
    BY <1>b, <1>13 DEF rr
  <2>2. /\ HeaderOut("redirect", b.status, rr.locations) /\ r'.header_only
        /\ out'.units = out.units /\ out'.complete = out.complete
    BY <1>10, <2>1, RedirectOutFacts
  <2>3. resp'.kind = resp.kind /\ pc' \in {"log", "body"}
    BY <2>1, NextBufferFacts
  <2>4. Redirected(b.status, rr.locations)
    BY <1>4, <1>8, <1>9, <1>11, <2>1, <2>2, <2>3 DEF Redirected
  <2> QED
    BY <1>1, <1>12, <1>13, <2>3, <2>4 DEF BodyEffect
<1>14. CASE ~(c[ctx].delayed /\ IsRedirectStatus(b.status) /\ rr.location # "none")
  <2>1. r' = [rr EXCEPT !.location = "none", !.locations = {}] /\ pc' = "special"
        /\ rc' = b.status /\ out' = out /\ resp' = resp
    BY <1>b, <1>14 DEF rr, FilterFinalize
  <2>2. r'.header_sent = r.header_sent /\ r'.error_page = r.error_page /\ r'.len = r.len
    BY <1>10, <2>1 DEF RequestType, Relocated
  <2>3. "location" \notin Faults => b.status # "redirect"
    BY <1>11, <1>12, <1>14 DEF IsRedirectStatus
  <2>4. Finalized
    BY <1>4, <1>8, <1>9, <2>1, <2>2, <2>3 DEF Finalized
  <2> QED
    BY <1>1, <2>1, <2>4 DEF BodyEffect
<1> QED
  BY <1>13, <1>14

LEMMA BodyFilterEffect ==
  ASSUME IInv, WireInv, BodyFilter
  PROVE  BodyEffect
BY BodyBypassEffect, BodyForwardsEffect, BodyHoldsEffect, BodyFlushesEffect, BodyBlocksEffect
   DEF BodyFilter

-----------------------------------------------------------------------------
(* The other steps, and all of them together *)

\* The audit record is written, or a transaction freed.
Recorded(i) ==
  /\ t[i].handle # "none" /\ t'[i].handle # "none"
  /\ t'[i].ran = t[i].ran /\ t'[i].hit = t[i].hit /\ t'[i].code = t[i].code
  /\ t'[i].appended = t[i].appended
  /\ c'[i].submitted = c[i].submitted /\ c'[i].triggered = c[i].triggered
  /\ \/ t'[i].logs = t[i].logs /\ t'[i].audit = t[i].audit
     \/ t'[i].audit = t[i].code
RecordEffect ==
  /\ pc \in {"log", "cleanup"} /\ pc' = "cleanup"
  /\ UNCHANGED <<pass, loc, r, resp, rc, ctx, out>>
  /\ \A i \in Pass : (t'[i] = t[i] /\ c'[i] = c[i]) \/ Recorded(i)

LEMMA LoggingFields ==
  ASSUME NEW x \in TxType, NEW y, y = ProcessLogging(x)
  PROVE  /\ y \in TxType /\ y.handle = x.handle /\ y.ran = x.ran /\ y.hit = x.hit
         /\ y.code = x.code /\ y.appended = x.appended
         /\ (y.logs = x.logs /\ y.audit = x.audit) \/ y.audit = x.code
<1>1. CASE x.handle = "live"
  <2>1. y = [x EXCEPT !.logs = x.logs + 1, !.audit = x.code]
    BY <1>1 DEF ProcessLogging
  <2>2. y \in TxType
    BY <1>1, LoggingEffect
  <2> QED
    BY <2>1, <2>2 DEF TxType
<1>2. CASE x.handle # "live"
  <2>1. y = Call(x)
    BY <1>2 DEF ProcessLogging
  <2> QED
    BY <2>1, CallEffect, CallSame DEF Same, Effect
<1> QED
  BY <1>1, <1>2

LEMMA LogEffect ==
  ASSUME IInv, ContextInv, LogHandler
  PROVE  RecordEffect
<1>1. /\ pc = "log" /\ pc' = "cleanup" /\ UNCHANGED <<pass, loc, r, resp, rc, ctx, out>>
  BY DEF LogHandler
<1>2. CASE ~Logs
  BY <1>1, <1>2 DEF LogHandler, RecordEffect
<1>3. CASE Logs
  <2>1. ctx # 0
    BY <1>3 DEF Logs
  <2>2. /\ ctx \in Pass /\ t \in [Pass -> TxType] /\ c \in [Pass -> CtxType]
        /\ t[ctx] \in TxType /\ c[ctx] \in CtxType /\ t[ctx].handle # "none"
    BY <2>1 DEF IInv, TypeOK, ContextInv
  <2> DEFINE y == ProcessLogging(t[ctx])
             d == [c[ctx] EXCEPT !.logged = TRUE]
  <2>3. t' = [t EXCEPT ![ctx] = y] /\ c' = [c EXCEPT ![ctx] = d]
    BY <1>3 DEF LogHandler
  <2>4. /\ y.handle = t[ctx].handle /\ y.ran = t[ctx].ran /\ y.hit = t[ctx].hit
        /\ y.code = t[ctx].code /\ y.appended = t[ctx].appended
        /\ (y.logs = t[ctx].logs /\ y.audit = t[ctx].audit) \/ y.audit = t[ctx].code
    <3> HIDE DEF y
    <3> QED
      BY <2>2, LoggingFields DEF y
  <2>5. d.submitted = c[ctx].submitted /\ d.triggered = c[ctx].triggered
    BY <2>2 DEF CtxType
  <2> HIDE DEF y, d
  <2>6. /\ t'[ctx] = y /\ c'[ctx] = d
        /\ \A i \in Pass \ {ctx} : t'[i] = t[i] /\ c'[i] = c[i]
    BY <2>2, <2>3
  <2>7. Recorded(ctx)
    BY <2>2, <2>4, <2>5, <2>6 DEF Recorded
  <2> QED
    BY <1>1, <2>6, <2>7 DEF RecordEffect
<1> QED
  BY <1>2, <1>3

LEMMA CleanupEffect ==
  ASSUME IInv, Cleanup
  PROVE  RecordEffect
<1>1. /\ pc = "cleanup" /\ pc' = "cleanup" /\ UNCHANGED <<pass, loc, r, resp, rc, ctx, out>>
  BY DEF Cleanup
<1>2. PICK i \in reg : /\ t' = [t EXCEPT ![i] = CleanUp(t[i], c[i].logged)]
                       /\ c' = [c EXCEPT ![i].logged = TRUE]
  BY DEF Cleanup
<1>3. /\ i \in Pass /\ t \in [Pass -> TxType] /\ c \in [Pass -> CtxType]
      /\ t[i] \in TxType /\ c[i] \in CtxType
  BY DEF IInv, TypeOK
<1>4. t[i].handle # "none"
  BY <1>3 DEF IInv, AuditInv
<1> DEFINE x == IF c[i].logged THEN t[i] ELSE ProcessLogging(t[i])
           w == Call(x)
           y == CleanUp(t[i], c[i].logged)
           d == [c[i] EXCEPT !.logged = TRUE]
<1>5. /\ x \in TxType /\ x.ran = t[i].ran /\ x.hit = t[i].hit
      /\ x.code = t[i].code /\ x.appended = t[i].appended
      /\ (x.logs = t[i].logs /\ x.audit = t[i].audit) \/ x.audit = t[i].code
  BY <1>3, LoggingFields
<1> HIDE DEF x
<1>6. /\ w \in TxType /\ w.ran = x.ran /\ w.hit = x.hit /\ w.code = x.code
      /\ w.appended = x.appended /\ w.logs = x.logs /\ w.audit = x.audit
  BY <1>5, CallEffect DEF Effect
<1>7. y = [w EXCEPT !.handle = "freed", !.frees = w.frees + 1]
  BY DEF CleanUp, FreeTransaction, x
<1> HIDE DEF w, y
<1>8. /\ y.ran = w.ran /\ y.hit = w.hit /\ y.code = w.code /\ y.handle = "freed"
      /\ y.appended = w.appended /\ y.logs = w.logs /\ y.audit = w.audit
  BY <1>6, <1>7 DEF TxType
<1>9. d.submitted = c[i].submitted /\ d.triggered = c[i].triggered
  BY <1>3 DEF CtxType
<1>10. t' = [t EXCEPT ![i] = y] /\ c' = [c EXCEPT ![i] = d]
  BY <1>2 DEF y
<1> HIDE DEF d
<1>11. /\ t'[i] = y /\ c'[i] = d
       /\ \A j \in Pass \ {i} : t'[j] = t[j] /\ c'[j] = c[j]
  BY <1>3, <1>10
<1>12. Recorded(i)
  BY <1>4, <1>5, <1>6, <1>8, <1>9, <1>11 DEF Recorded
<1> QED
  BY <1>1, <1>11, <1>12 DEF RecordEffect

\* A step of nginx's, or a handler's path that leaves the transactions alone.
MoveEffect ==
  /\ t' = t /\ c' = c /\ ctx' = ctx /\ pass' = pass /\ out' = out
  /\ r'.header_sent = r.header_sent /\ r'.header_only = r.header_only /\ r'.len = r.len
  /\ r.locations \subseteq r'.locations /\ (r.error_page => r'.error_page)
  /\ rc' = rc \/ rc' # "redirect"
  /\ pc' \in Early \ {"rewrite"} => loc' = loc
  /\ \/ pc = "rewrite" /\ pc' = "post_rewrite" /\ ~Inspected
     \/ pc = "post_rewrite" /\ pc' \in {"rewrite", "preaccess"}
     \/ pc = "preaccess" /\ pc' = "content" /\ ~Inspecting
     \/ pc = "preaccess" /\ pc' \in {"submit", "wait_body"} /\ c[ctx].requested /\ loc.enable
     \/ pc = "submit" /\ pc' = "content" /\ ~ToSubmit /\ r' = r
     \/ pc = "content" /\ pc' = "preaccess" /\ Reentry
     \/ pc = "content" /\ pc' = "header" /\ resp'.kind = "origin"
     \/ pc \in {"rewrite", "wait_body", "content"} /\ pc' = "special"
     \/ pc = "special" /\ pc' = "header" /\ resp'.kind = "special"
     \/ pc \in {"wait_body", "content", "body", "header"} /\ pc' = "log"
     \/ pc = "cleanup" /\ pc' = "destroyed"

LEMMA NginxMoves ==
  ASSUME IInv, \/ OriginResponds \/ OriginFails \/ DefaultPage \/ PostRewrite
               \/ CreateCtxFails \/ RequestReadFails
  PROVE  MoveEffect
<1>1. r \in RequestType
  BY DEF IInv, TypeOK
<1>2. CASE OriginResponds
  <2>1. PICK b \in BodyAfterContent, o \in Origins :
          /\ r' = [r EXCEPT !.body = b,
                            !.location = IF o = "redirect" THEN "origin" ELSE @,
                            !.locations = IF o = "redirect" THEN @ \cup {"origin"} ELSE @]
          /\ resp' = [kind |-> "origin", stream |-> o = "stream", seen |-> 0]
    BY <1>2 DEF OriginResponds
  <2>2. /\ r'.header_sent = r.header_sent /\ r'.header_only = r.header_only /\ r'.len = r.len
        /\ r.locations \subseteq r'.locations /\ r'.error_page = r.error_page
        /\ resp'.kind = "origin"
    BY <1>1, <2>1 DEF RequestType
  <2> QED
    BY <1>2, <2>2 DEF OriginResponds, MoveEffect, Early
<1>3. CASE OriginFails
  <2>1. PICK b \in BodyAfterContent : r' = [r EXCEPT !.body = b]
    BY <1>3 DEF OriginFails
  <2>2. /\ r'.header_sent = r.header_sent /\ r'.header_only = r.header_only /\ r'.len = r.len
        /\ r.locations \subseteq r'.locations /\ r'.error_page = r.error_page
    BY <1>1, <2>1 DEF RequestType
  <2> QED
    BY <1>3, <2>2 DEF OriginFails, Proceed, MoveEffect, Early
<1>4. CASE DefaultPage
  <2>1. PICK f \in {r.error_page, TRUE} : r' = [r EXCEPT !.error_page = f]
    BY <1>4 DEF DefaultPage
  <2>2. /\ r'.header_sent = r.header_sent /\ r'.header_only = r.header_only /\ r'.len = r.len
        /\ r.locations \subseteq r'.locations /\ (r.error_page => r'.error_page)
    BY <1>1, <2>1 DEF RequestType
  <2>3. resp'.kind = "special"
    BY <1>4 DEF DefaultPage
  <2> QED
    BY <1>4, <2>2, <2>3 DEF DefaultPage, MoveEffect, Early
<1>5. CASE PostRewrite
  BY <1>5 DEF PostRewrite, MoveEffect, Early
<1>6. CASE CreateCtxFails \/ RequestReadFails
  BY <1>6 DEF CreateCtxFails, RequestReadFails, Proceed, MoveEffect, Early
<1> QED
  BY <1>2, <1>3, <1>4, <1>5, <1>6

LEMMA OtherMoves ==
  ASSUME IInv, \/ RewriteDeclined \/ PreAccessDeclined \/ PreAccessResumes \/ SubmitDeclined
               \/ PreAccessAgain \/ Terminate \/ HeaderRefused \/ PoolDestroyed
  PROVE  MoveEffect
<1>1. CASE RewriteDeclined \/ PreAccessDeclined \/ SubmitDeclined \/ PreAccessAgain
  BY <1>1 DEF RewriteDeclined, PreAccessDeclined, SubmitDeclined, PreAccessAgain,
              MoveEffect, Early
<1>2. CASE PreAccessResumes
  BY <1>2 DEF PreAccessResumes, Inspecting, MoveEffect, Early
<1>3. CASE Terminate \/ HeaderRefused \/ PoolDestroyed
  BY <1>3 DEF Terminate, HeaderRefused, PoolDestroyed, MoveEffect, Early
<1> QED
  BY <1>1, <1>2, <1>3

\* An internal redirect.
PassEffect ==
  /\ pc \in {"content", "special"} /\ pc' = "rewrite" /\ ctx' = 0
  /\ pass' = pass + 1 /\ pass' \in Pass
  /\ t' = t /\ c' = c /\ out' = out /\ rc' = rc /\ resp' = resp
  /\ r'.header_sent = r.header_sent /\ r'.header_only = r.header_only /\ r'.len = r.len
  /\ r'.locations = r.locations /\ (r.error_page => r'.error_page)

LEMMA StartPassEffect ==
  ASSUME IInv, InternalRedirect \/ ErrorPage
  PROVE  PassEffect
<1>1. PICK e \in BOOLEAN, b \in {"unread", "read", "discarded"} :
        StartPass(e, b) /\ (r.error_page => e)
  BY DEF InternalRedirect, ErrorPage, BodyAfterContent, IInv, TypeOK, RequestType
<1>2. pc \in {"content", "special"}
  BY DEF InternalRedirect, ErrorPage
<1>3. r \in RequestType /\ pass \in Pass
  BY DEF IInv, TypeOK
<1>4. pass' \in Pass
  BY <1>1, <1>3, BoundsAssumption DEF StartPass, Pass
<1>5. /\ r'.header_sent = r.header_sent /\ r'.header_only = r.header_only /\ r'.len = r.len
      /\ r'.locations = r.locations /\ (r.error_page => r'.error_page)
  BY <1>1, <1>3 DEF StartPass, RequestType
<1> QED
  BY <1>1, <1>2, <1>4, <1>5 DEF StartPass, PassEffect

\* Every step is one of these.
AnyEffect ==
  \/ UNCHANGED vars \/ MoveEffect \/ PassEffect \/ CreateEffect \/ PreAccessEffect
  \/ HeaderEffect \/ BodyEffect \/ RecordEffect

LEMMA StepEffect ==
  ASSUME IInv, ContextInv, WireInv, [Next]_vars
  PROVE  AnyEffect
<1>1. CASE Rewrite
  BY <1>1, OtherMoves, NginxMoves, CreationEffect DEF Rewrite, AnyEffect
<1>2. CASE PreAccess
  BY <1>2, OtherMoves, PreAccessWorkEffect DEF PreAccess, PreAccessWork, AnyEffect
<1>3. CASE HeaderFilter
  BY <1>3, HeaderFilterEffect DEF AnyEffect
<1>4. CASE BodyFilter
  BY <1>4, BodyFilterEffect DEF AnyEffect
<1>5. CASE LogHandler \/ Cleanup
  BY <1>5, LogEffect, CleanupEffect DEF AnyEffect
<1>6. CASE Nginx
  BY <1>6, OtherMoves, NginxMoves, StartPassEffect DEF Nginx, AnyEffect
<1>7. CASE UNCHANGED vars
  BY <1>7 DEF AnyEffect
<1> QED
  BY <1>1, <1>2, <1>3, <1>4, <1>5, <1>6, <1>7 DEF Next

-----------------------------------------------------------------------------
(* The invariants, one at a time *)

\* Either filter.
LEMMA FilterKeeps ==
  ASSUME HeaderEffect \/ BodyEffect
  PROVE  /\ Aside \/ Ran({3, 4})
         /\ pc \in {"header", "body"} /\ pc' \in {"log", "body", "special"}
         /\ pc' = "special" => ctx # 0 /\ ctx' = ctx /\ c'[ctx].triggered /\ ~c'[ctx].delayed
         /\ r'.error_page = r.error_page /\ r'.len = r.len
<1>1. ASSUME NEW P \in SUBSET {3, 4}, Ran(P) PROVE Ran({3, 4})
  BY <1>1 DEF Ran, Effect
<1>2. {} \in SUBSET {3, 4} /\ {3} \in SUBSET {3, 4} /\ {4} \in SUBSET {3, 4}
  OBVIOUS
<1>3. Ran({3, 4}) => ctx # 0 /\ ctx' = ctx
  BY DEF Ran, CtxOnly
<1>4. CASE HeaderAside \/ BodyAside
  BY <1>4 DEF HeaderAside, BodyAside, Onwards, HeaderOut, HeaderEffect, BodyEffect
<1>5. CASE HeaderError \/ HeaderDelay \/ \E L : HeaderForward(L)
  BY <1>1, <1>2, <1>5 DEF HeaderError, HeaderDelay, HeaderForward, HeaderOut, HeaderEffect,
                          BodyEffect
<1>6. CASE BodyForward \/ BodyHold \/ BodyFlush
  BY <1>1, <1>2, <1>6 DEF BodyForward, BodyHold, BodyFlush, Onwards, HeaderOut, HeaderEffect,
                          BodyEffect
<1>7. CASE Finalized \/ \E L, status : Redirected(status, L)
  BY <1>3, <1>7 DEF Finalized, Redirected, HeaderOut, HeaderEffect, BodyEffect
<1> QED
  BY <1>4, <1>5, <1>6, <1>7 DEF HeaderEffect, BodyEffect

LEMMA ContextStep ==
  ASSUME IInv, IInv', ContextInv, WireInv, AnyEffect
  PROVE  ContextInv'
<1>0. pass \in Pass /\ pass' \in Pass /\ (ctx # 0 => ctx \in Pass /\ ctx = pass)
  BY DEF IInv, TypeOK
<1>1. CASE UNCHANGED vars
  BY <1>1 DEF vars, ContextInv
<1>2. CASE MoveEffect
  <2>1. pc' \in Early /\ ctx # 0 => ~c[ctx].triggered
    BY <1>2 DEF MoveEffect, ContextInv, Early
  <2>2. pc' \in Unsent => pc \in Unsent
    BY <1>2 DEF MoveEffect, Unsent, Early
  <2>3. pc' \in {"submit", "wait_body"} => c[ctx].requested /\ loc'.enable
    BY <1>2 DEF MoveEffect, ContextInv, Early
  <2>4. pc' \in Early \ {"rewrite"} /\ loc'.enable => ctx # 0
    BY <1>2 DEF MoveEffect, ContextInv, Inspected, Early
  <2>5. t' = t /\ c' = c /\ ctx' = ctx /\ pass' = pass
    BY <1>2 DEF MoveEffect
  <2> QED
    BY <2>1, <2>2, <2>3, <2>4, <2>5 DEF ContextInv
<1>3. CASE PassEffect
  <2>1. t' = t /\ c' = c /\ ctx' = 0 /\ pass' = pass + 1 /\ pc' = "rewrite"
    BY <1>3 DEF PassEffect
  <2>2. t[pass'].handle = "none"
    BY <1>0, <2>1 DEF IInv, AuditInv, Pass
  <2> QED
    BY <2>1, <2>2 DEF ContextInv
<1>4. CASE CreateEffect
  <2>1. /\ ctx' = pass /\ pass' = pass /\ pc' \in {"post_rewrite", "special"}
        /\ t'[pass].handle # "none" /\ ~c'[pass].processed /\ ~c'[pass].delayed
        /\ pc' = "post_rewrite" => ~c'[pass].triggered
        /\ \A i \in Pass \ {pass} : t'[i] = t[i] /\ c'[i] = c[i]
    BY <1>4 DEF CreateEffect
  <2>2. pass # 0
    BY <1>0, BoundsAssumption DEF Pass
  <2> QED
    BY <2>1, <2>2 DEF ContextInv, Early
<1>5. CASE PreAccessEffect
  <2>1. /\ CtxOnly /\ pc \in {"preaccess", "submit", "wait_body"}
        /\ pc' \in {"preaccess", "submit", "wait_body", "content", "special"}
        /\ c'[ctx].processed = c[ctx].processed /\ c'[ctx].delayed = c[ctx].delayed
        /\ pc' # "special" => c'[ctx].triggered = c[ctx].triggered
        /\ pc' \in {"submit", "wait_body"} => c'[ctx].requested /\ loc.enable
    BY <1>5 DEF PreAccessEffect
  <2>2. ~c[ctx].processed /\ ~c[ctx].triggered /\ ~c[ctx].delayed
    BY <2>1 DEF ContextInv, CtxOnly, Unsent, Early
  <2> QED
    BY <2>1, <2>2 DEF CtxOnly, ContextInv, Early, Unsent
<1>6. CASE HeaderEffect \/ BodyEffect
  <2>1. /\ Aside \/ Ran({3, 4})
        /\ pc' \in {"log", "body", "special"}
        /\ pc' = "special" => ctx # 0 /\ ctx' = ctx /\ c'[ctx].triggered /\ ~c'[ctx].delayed
    BY <1>6, FilterKeeps
  <2>2. CASE Aside
    BY <2>1, <2>2 DEF Aside, ContextInv, Early, Unsent
  <2>3. CASE Ran({3, 4})
    <3>1. CtxOnly
      BY <2>3 DEF Ran
    <3> QED
      BY <2>1, <3>1 DEF CtxOnly, ContextInv, Early, Unsent
  <2> QED
    BY <2>1, <2>2, <2>3
<1>7. CASE RecordEffect
  <2>1. /\ pc' = "cleanup" /\ pass' = pass /\ ctx' = ctx
        /\ \A i \in Pass : (t'[i] = t[i] /\ c'[i] = c[i]) \/ Recorded(i)
    BY <1>7 DEF RecordEffect
  <2>2. \A i \in Pass : t'[i].handle = "none" => t'[i] = t[i] /\ c'[i] = c[i]
    BY <2>1 DEF Recorded
  <2>3. \A i \in Pass : t[i].handle = "none" <=> t'[i].handle = "none"
    BY <2>1 DEF Recorded
  <2>4. (ctx # 0 => ctx \in Pass) /\ pass \in Pass
    BY DEF IInv, TypeOK
  <2> QED
    BY <2>1, <2>2, <2>3, <2>4 DEF ContextInv, Early, Unsent
<1> QED
  BY <1>1, <1>2, <1>3, <1>4, <1>5, <1>6, <1>7 DEF AnyEffect

\* What is recorded of one transaction.
TxRecord(i) ==
  /\ Reported(t[i])
  /\ t[i].logs > 0 => t[i].hit \in Denials \/ pc \in {"cleanup", "destroyed"}
  /\ t[i].logs > 0 /\ t[i].hit \in Denials => t[i].audit = t[i].hit
  /\ t[i].appended <= r.len
  /\ ~c[i].submitted => t[i].appended = 0

LEMMA RecordIsEach == RecordInv <=> \A i \in Pass : TxRecord(i)
BY DEF RecordInv, TxRecord, Reported

\* A transaction that the step leaves alone keeps its record.
LEMMA TxRecordKept ==
  ASSUME NEW i \in Pass, TxRecord(i), t'[i] = t[i], c'[i] = c[i], r'.len = r.len,
         pc \in {"cleanup", "destroyed"} => pc' \in {"cleanup", "destroyed"}
  PROVE  TxRecord(i)'
BY DEF TxRecord, Reported

LEMMA RecordStep ==
  ASSUME IInv, IInv', ContextInv, RecordInv, AnyEffect
  PROVE  RecordInv'
<1> SUFFICES ASSUME NEW i \in Pass PROVE TxRecord(i)'
  BY RecordIsEach DEF RecordInv, TxRecord, Reported
<1>0. TxRecord(i) /\ t[i] \in TxType /\ t'[i] \in TxType /\ r \in RequestType
  BY RecordIsEach DEF IInv, TypeOK
<1>1. CASE UNCHANGED vars
  BY <1>0, <1>1 DEF vars, TxRecord, Reported
<1>2. CASE MoveEffect \/ PassEffect
  BY <1>0, <1>2, TxRecordKept DEF MoveEffect, PassEffect
<1>3. CASE CreateEffect
  <2>1. i # pass => TxRecord(i)'
    BY <1>0, <1>3, TxRecordKept DEF CreateEffect, Relocated
  <2>2. CASE i = pass
    <3>1. /\ Reported(t'[i]) /\ (t'[i].logs > 0 => t'[i].hit \in Denials /\ t'[i].audit = t'[i].hit)
          /\ t'[i].appended = 0 /\ r'.len = r.len
      BY <1>3, <2>2 DEF CreateEffect, Relocated
    <3>2. 0 <= r.len
      BY <1>0 DEF RequestType
    <3> QED
      BY <3>1, <3>2 DEF TxRecord, Reported
  <2> QED
    BY <2>1, <2>2
<1>4. CASE PreAccessEffect
  <2>1. /\ CtxOnly /\ pc \in {"preaccess", "submit", "wait_body"} /\ r'.len = r.len
        /\ t[ctx].hit # "none" => t'[ctx].hit = t[ctx].hit
        /\ t'[ctx].logs = t[ctx].logs /\ t'[ctx].audit = t[ctx].audit
        /\ Reported(t[ctx]) => Reported(t'[ctx])
        /\ \/ t'[ctx].appended = t[ctx].appended /\ c'[ctx].submitted = c[ctx].submitted
           \/ /\ ~c[ctx].submitted /\ c'[ctx].submitted
              /\ t'[ctx].appended <= t[ctx].appended + r.len
    BY <1>4 DEF PreAccessEffect, Relocated
  <2>2. i # ctx => TxRecord(i)'
    BY <1>0, <2>1, TxRecordKept DEF CtxOnly
  <2>3. CASE i = ctx
    <3>1. Reported(t'[i])
      BY <1>0, <2>1, <2>3 DEF TxRecord
    <3>2. t'[i].logs > 0 => t'[i].hit \in Denials /\ t'[i].audit = t'[i].hit
      BY <1>0, <2>1, <2>3, StatusNotDeclined DEF TxRecord
    <3>3. t'[i].appended <= r'.len /\ (~c'[i].submitted => t'[i].appended = 0)
      BY <1>0, <2>1, <2>3 DEF TxRecord, TxType, RequestType
    <3> QED
      BY <3>1, <3>2, <3>3 DEF TxRecord, Reported
  <2> QED
    BY <2>2, <2>3
<1>5. CASE HeaderEffect \/ BodyEffect
  <2>1. (Aside \/ Ran({3, 4})) /\ pc \in {"header", "body"} /\ r'.len = r.len
    BY <1>5, FilterKeeps
  <2>2. CASE Aside
    BY <1>0, <2>1, <2>2, TxRecordKept DEF Aside
  <2>3. CASE Ran({3, 4})
    <3>1. i # ctx => TxRecord(i)'
      BY <1>0, <2>1, <2>3, TxRecordKept DEF Ran, CtxOnly
    <3>2. CASE i = ctx
      <4>1. /\ Effect(t[i], t'[i], {3, 4}) /\ (Reported(t[i]) => Reported(t'[i]))
            /\ c'[i].submitted = c[i].submitted
        BY <2>3, <3>2 DEF Ran
      <4>2. Reported(t'[i])
        BY <1>0, <4>1 DEF TxRecord
      <4>3. t'[i].logs > 0 => t'[i].hit \in Denials /\ t'[i].audit = t'[i].hit
        BY <1>0, <2>1, <4>1, StatusNotDeclined DEF TxRecord, Effect
      <4>4. t'[i].appended = t[i].appended
        BY <4>1 DEF Effect
      <4> QED
        BY <1>0, <2>1, <4>1, <4>2, <4>3, <4>4 DEF TxRecord, Reported
    <3> QED
      BY <3>1, <3>2
  <2> QED
    BY <2>1, <2>2, <2>3
<1>6. CASE RecordEffect
  <2>1. pc' = "cleanup" /\ r' = r /\ ((t'[i] = t[i] /\ c'[i] = c[i]) \/ Recorded(i))
    BY <1>6 DEF RecordEffect
  <2>2. CASE t'[i] = t[i] /\ c'[i] = c[i]
    BY <1>0, <2>1, <2>2, TxRecordKept
  <2>3. CASE Recorded(i)
    <3>1. Reported(t'[i])
      BY <1>0, <2>3 DEF TxRecord, Reported, Recorded
    <3>2. t'[i].logs > 0 /\ t'[i].hit \in Denials => t'[i].audit = t'[i].hit
      BY <1>0, <2>3 DEF TxRecord, Reported, Recorded
    <3> QED
      BY <1>0, <2>1, <2>3, <3>1, <3>2 DEF TxRecord, Reported, Recorded
  <2> QED
    BY <2>1, <2>2, <2>3
<1> QED
  BY <1>1, <1>2, <1>3, <1>4, <1>5, <1>6 DEF AnyEffect

LEMMA RequestStep ==
  ASSUME IInv, IInv', ContextInv, RecordInv, RequestInv, AnyEffect
  PROVE  RequestInv'
<1> DEFINE Fine == /\ t[ctx].hit \notin Denials /\ Contains(t[ctx].ran, 1)
                   /\ c[ctx].submitted => Contains(t[ctx].ran, 2) /\ t[ctx].appended = r.len
<1>1. CASE UNCHANGED vars
  BY <1>1 DEF vars, RequestInv, RequestGate
<1>2. CASE MoveEffect
  <2>1. t' = t /\ c' = c /\ ctx' = ctx /\ r'.len = r.len /\ (r.error_page => r'.error_page)
    BY <1>2 DEF MoveEffect
  <2>2. pc' \in Early => pc \in Early
    BY <1>2 DEF MoveEffect, Early
  <2>3. pc' \in Early /\ ctx # 0 /\ ~r'.error_page => Fine
    BY <2>1, <2>2 DEF RequestInv
  <2>4. RequestGate'
    <3> SUFFICES ASSUME pc' = "content", loc'.enable, ~r'.error_page PROVE RequestGate'
      BY DEF RequestGate
    <3>1. loc' = loc /\ ((pc = "preaccess" /\ ~Inspecting) \/ (pc = "submit" /\ ~ToSubmit /\ r' = r))
      BY <1>2 DEF MoveEffect, Early
    <3>2. ctx # 0 /\ ~c[ctx].triggered
      BY <3>1 DEF ContextInv, Early
    <3>3. pc = "submit" /\ ~ToSubmit /\ r' = r
      BY <3>1, <3>2 DEF Inspecting
    <3>4. c[ctx].requested
      BY <3>3 DEF ContextInv
    <3>5. Fine
      BY <2>3, <3>2 DEF Early
    <3> QED
      BY <2>1, <3>2, <3>3, <3>4, <3>5 DEF RequestGate, ToSubmit
  <2> QED
    BY <2>1, <2>3, <2>4 DEF RequestInv
<1>3. CASE PassEffect
  BY <1>3 DEF PassEffect, RequestInv, RequestGate
<1>4. CASE CreateEffect
  <2>1. /\ ctx' = pass /\ pc' \in {"post_rewrite", "special"} /\ ~c'[pass].submitted
        /\ r'.error_page = r.error_page
        /\ pc' = "post_rewrite" /\ ~r.error_page =>
             t'[pass].hit \notin Denials /\ Contains(t'[pass].ran, 1)
    BY <1>4 DEF CreateEffect, Relocated
  <2> QED
    BY <2>1 DEF RequestInv, RequestGate, Early
<1>5. CASE PreAccessEffect
  <2>1. /\ ctx # 0 /\ ctx \in Pass /\ ctx' = ctx /\ loc' = loc
        /\ r'.error_page = r.error_page /\ r'.len = r.len
        /\ pc \in {"preaccess", "submit", "wait_body"}
        /\ pc' \in {"preaccess", "submit", "wait_body", "content", "special"}
    BY <1>5 DEF PreAccessEffect, CtxOnly, Relocated
  <2> SUFFICES ASSUME pc' # "special", ~r.error_page
               PROVE  /\ t'[ctx].hit \notin Denials /\ Contains(t'[ctx].ran, 1)
                      /\ c'[ctx].submitted => Contains(t'[ctx].ran, 2) /\ t'[ctx].appended = r.len
                      /\ pc' = "content" => ~c'[ctx].triggered /\ Contains(t'[ctx].ran, 2)
    BY <2>1 DEF RequestInv, RequestGate, Early
  <2>2. /\ ~c[ctx].triggered /\ Fine /\ (~c[ctx].submitted => t[ctx].appended = 0)
    BY <2>1 DEF ContextInv, RequestInv, RecordInv, Early
  <2>3. /\ c'[ctx].triggered = c[ctx].triggered
        /\ t'[ctx].hit \in Denials => t[ctx].hit \in Denials
        /\ pc' # "content" => /\ t'[ctx].ran = t[ctx].ran /\ t'[ctx].appended = t[ctx].appended
                              /\ c'[ctx].submitted = c[ctx].submitted
        /\ pc' = "content" =>
             /\ t'[ctx].ran = Append(t[ctx].ran, 2)
             /\ c'[ctx].submitted => \/ c[ctx].submitted /\ t'[ctx].appended = t[ctx].appended
                                     \/ t'[ctx].appended = t[ctx].appended + r.len
        /\ \/ t'[ctx].appended = t[ctx].appended /\ c'[ctx].submitted = c[ctx].submitted
           \/ ~c[ctx].submitted
    BY <1>5 DEF PreAccessEffect
  <2>4. t[ctx] \in TxType /\ r \in RequestType /\ t[ctx].ran \in Seq(1..4)
    BY <2>1 DEF IInv, TypeOK, TxType
  <2>5. CASE pc' = "content"
    <3>1. Contains(t'[ctx].ran, 2) /\ Contains(t'[ctx].ran, 1)
      BY <2>2, <2>3, <2>4, <2>5, ContainsAppend, 2 \in 1..4
    <3>2. c'[ctx].submitted => t'[ctx].appended = r.len
      <4>1. CASE c[ctx].submitted
        BY <2>2, <2>3, <4>1
      <4>2. CASE ~c[ctx].submitted
        <5>1. c'[ctx].submitted => t'[ctx].appended = 0 + r.len
          BY <2>2, <2>3, <2>5, <4>2
        <5>2. 0 + r.len = r.len
          BY <2>4 DEF RequestType
        <5> QED
          BY <5>1, <5>2
      <4> QED
        BY <4>1, <4>2
    <3> QED
      BY <2>2, <2>3, <3>1, <3>2
  <2>6. CASE pc' # "content"
    BY <2>2, <2>3, <2>6
  <2> QED
    BY <2>5, <2>6
<1>6. CASE HeaderEffect \/ BodyEffect
  <2>1. pc' \in {"log", "body", "special"}
    BY <1>6, FilterKeeps
  <2> QED
    BY <2>1 DEF RequestInv, RequestGate, Early
<1>7. CASE RecordEffect
  BY <1>7 DEF RecordEffect, RequestInv, RequestGate, Early
<1> QED
  BY <1>1, <1>2, <1>3, <1>4, <1>5, <1>6, <1>7 DEF AnyEffect

\* The buffers on the wire, when n more go out.
LEMMA UnitsFacts ==
  ASSUME IInv, NEW n \in Nat, NEW u, u = Units(n)
  PROVE  /\ Len(u) = Len(out.units) + n /\ Len(out.units) \in Nat
         /\ \A j \in 1..Len(u) : u[j] = IF j <= Len(out.units) THEN out.units[j] ELSE Unit
<1>1. out.units \in Seq([kind : {"origin", "special"}, pass : Pass])
  BY DEF IInv, TypeOK, OutType
<1> DEFINE v == [j \in 1..n |-> Unit]
           S == [kind : {"origin", "special"}, pass : Pass]
<1>2. Unit \in S
  BY DEF IInv, TypeOK, Unit, RespType
<1> HIDE DEF S
<1>3. out.units \in Seq(S) /\ v \in Seq(S) /\ Len(v) = n /\ \A j \in 1..n : v[j] = Unit
  BY <1>1, <1>2 DEF S
<1>4. u = out.units \o v
  BY DEF Units
<1> HIDE DEF v
<1>5. Len(u) = Len(out.units) + n /\ Len(out.units) \in Nat
  BY <1>3, <1>4
<1>6. ASSUME NEW j \in 1..Len(u)
      PROVE  u[j] = IF j <= Len(out.units) THEN out.units[j] ELSE Unit
  BY <1>3, <1>4, <1>5
<1> QED
  BY <1>5, <1>6

\* They still belong to the one header.
LEMMA OneResponseGrows ==
  ASSUME IInv, NEW n \in Nat, out'.units = Units(n),
         \/ OneResponse /\ out'.hdr = out.hdr
         \/ out.units = <<>>,
         out'.hdr.kind = resp.kind, out'.hdr.pass = pass
  PROVE  OneResponse'
<1>1. /\ Len(out'.units) = Len(out.units) + n /\ Len(out.units) \in Nat
      /\ \A j \in 1..Len(out'.units) :
           out'.units[j] = IF j <= Len(out.units) THEN out.units[j] ELSE Unit
  BY UnitsFacts
<1>2. Unit = [kind |-> out'.hdr.kind, pass |-> out'.hdr.pass]
  BY DEF Unit
<1> HIDE DEF Unit
<1>3. \A j \in 1..Len(out.units) :
        out.units[j] = [kind |-> out'.hdr.kind, pass |-> out'.hdr.pass]
  <2>1. CASE OneResponse /\ out'.hdr = out.hdr
    BY <2>1 DEF OneResponse
  <2>2. CASE out.units = <<>>
    BY <2>2
  <2> QED
    BY <2>1, <2>2
<1>4. \A j \in 1..Len(out'.units) : j <= Len(out.units) => j \in 1..Len(out.units)
  BY <1>1
<1>5. \A j \in 1..Len(out'.units) :
        out'.units[j] = [kind |-> out'.hdr.kind, pass |-> out'.hdr.pass]
  BY <1>1, <1>2, <1>3, <1>4
<1> QED
  BY <1>5 DEF OneResponse

LEMMA OneResponseEmpty ==
  ASSUME out'.units = <<>>
  PROVE  OneResponse'
BY DEF OneResponse

\* Where the response is with respect to the filters.
InFlight ==
  /\ pc = "header" /\ ctx # 0 /\ c[ctx].triggered => resp.kind = "special"
  /\ pc = "body" =>
       IF ctx # 0 /\ c[ctx].delayed
       THEN ~r.header_sent /\ ~c[ctx].triggered
       ELSE /\ r.header_sent /\ out.hdr.pass = pass
            /\ \/ /\ out.hdr.kind = resp.kind
                  /\ ctx # 0 /\ c[ctx].triggered => resp.kind = "special"
               \/ out.hdr.kind = "redirect" /\ ctx # 0 /\ c[ctx].triggered /\ r.header_only
OnWire ==
  /\ ~r.header_sent => out.hdr = NoHeader /\ out.units = <<>> /\ out.complete = FALSE
  /\ r.header_sent => out.hdr.kind # "none" /\ out.hdr.pass # 0
  /\ out.hdr.pass <= pass /\ (pc \in Early => out.hdr.pass < pass)
  /\ OneResponse

LEMMA WireIsBoth == WireInv <=> OnWire /\ InFlight
BY DEF WireInv, OnWire, InFlight

\* Nothing goes out and the request stays in its pass.
LEMMA WireKept ==
  ASSUME OnWire, out' = out, r'.header_sent = r.header_sent, pass' = pass,
         pc' \in Early => pc \in Early
  PROVE  OnWire'
BY DEF OnWire, OneResponse

\* The first header goes out, with no buffers yet or with the ones held back.
LEMMA WireHeader ==
  ASSUME IInv, OnWire, ~r.header_sent, pass' = pass, pc' \notin Early,
         NEW kind \in Kinds, NEW status, NEW L, HeaderOut(kind, status, L),
         \/ out'.units = out.units
         \/ kind = resp.kind /\ \E n \in Nat : out'.units = Units(n)
  PROVE  OnWire'
<1>1. pass \in Pass /\ pass # 0 /\ pass \in Int
  BY BoundsAssumption DEF IInv, TypeOK, Pass
<1>2. /\ out'.hdr.kind = kind /\ out'.hdr.pass = pass /\ r'.header_sent
      /\ out.units = <<>>
  BY DEF HeaderOut, OnWire
<1>3. OneResponse'
  BY <1>2, OneResponseEmpty, OneResponseGrows
<1>4. kind # "none"
  BY DEF Kinds
<1> QED
  BY <1>1, <1>2, <1>3, <1>4 DEF OnWire

\* A buffer of the response in flight goes out.
LEMMA WireBuffer ==
  ASSUME IInv, OnWire, InFlight, pc = "body", pass' = pass, pc' \notin Early,
         r' = r, out'.hdr = out.hdr, out'.units = Units(1),
         ctx # 0 => ~c[ctx].delayed, ~(ctx # 0 /\ c[ctx].triggered /\ r.header_only)
  PROVE  OnWire'
<1>1. r.header_sent /\ out.hdr.pass = pass /\ out.hdr.kind = resp.kind
  BY DEF InFlight
<1>2. OneResponse'
  BY <1>1, OneResponseGrows, 1 \in Nat DEF OnWire
<1> QED
  BY <1>1, <1>2 DEF OnWire

LEMMA OnWireStep ==
  ASSUME IInv, ContextInv, OnWire, InFlight, AnyEffect
  PROVE  OnWire'
<1>0. resp.kind \in Kinds /\ "redirect" \in Kinds /\ pass \in Nat /\ out.hdr.pass \in Nat
  BY BoundsAssumption DEF IInv, TypeOK, RespType, Kinds, Pass, OutType
<1>1. CASE UNCHANGED vars
  BY <1>1 DEF vars, OnWire, OneResponse
<1>2. CASE MoveEffect \/ CreateEffect \/ PreAccessEffect \/ RecordEffect
  <2>1. out' = out /\ r'.header_sent = r.header_sent /\ pass' = pass
    BY <1>2 DEF MoveEffect, CreateEffect, PreAccessEffect, RecordEffect, Relocated, CtxOnly
  <2>2. pc' \in Early => pc \in Early
    BY <1>2 DEF MoveEffect, CreateEffect, PreAccessEffect, RecordEffect, Early
  <2> QED
    BY <2>1, <2>2, WireKept
<1>3. CASE PassEffect
  <2>1. out' = out /\ r'.header_sent = r.header_sent /\ pass' = pass + 1
    BY <1>3 DEF PassEffect
  <2>2. out.hdr.pass < pass' /\ out.hdr.pass <= pass'
    BY <1>0, <2>1 DEF OnWire
  <2> QED
    BY <2>1, <2>2 DEF OnWire, OneResponse
<1>4. CASE HeaderEffect \/ BodyEffect
  <2>1. pass' = pass /\ pc' \notin Early
    BY <1>4, FilterKeeps DEF Aside, Ran, CtxOnly, Early
  <2>2. CASE pc = "header" /\ ~r.header_sent /\ HeaderAside
    BY <1>0, <2>1, <2>2, WireHeader DEF HeaderAside
  <2>3. CASE HeaderError \/ HeaderDelay \/ BodyHold \/ Finalized
    BY <2>1, <2>3, WireKept DEF HeaderError, HeaderDelay, BodyHold, Finalized
  <2>4. ASSUME ~r.header_sent, NEW L, HeaderForward(L) PROVE OnWire'
    BY <1>0, <2>1, <2>4, WireHeader DEF HeaderForward
  <2>5. ASSUME ~r.header_sent, NEW L, NEW status, Redirected(status, L) PROVE OnWire'
    BY <1>0, <2>1, <2>5, WireHeader DEF Redirected
  <2>6. CASE pc = "body" /\ BodyAside
    <3>1. CASE Swallows
      BY <2>1, <2>6, <3>1, WireKept DEF BodyAside
    <3>2. CASE ~Swallows
      <4>1. out'.units = Units(1) /\ out'.hdr = out.hdr /\ r' = r /\ (ctx # 0 => c[ctx].triggered)
        BY <2>6, <3>2 DEF BodyAside, Aside
      <4>2. ctx # 0 => ~c[ctx].delayed
        BY <2>6, <4>1 DEF InFlight
      <4>3. ~(ctx # 0 /\ c[ctx].triggered /\ r.header_only)
        BY <3>2 DEF Swallows
      <4> QED
        BY <2>1, <2>6, <4>1, <4>2, <4>3, WireBuffer
    <3> QED
      BY <3>1, <3>2
  <2>7. CASE pc = "body" /\ BodyForward
    BY <2>1, <2>7, WireBuffer DEF BodyForward, Ran
  <2>8. CASE BodyFlush
    BY <1>0, <2>1, <2>8, WireHeader DEF BodyFlush
  <2> QED
    BY <1>4, <2>2, <2>3, <2>4, <2>5, <2>6, <2>7, <2>8 DEF HeaderEffect, BodyEffect
<1> QED
  BY <1>1, <1>2, <1>3, <1>4 DEF AnyEffect

LEMMA InFlightStep ==
  ASSUME IInv, ContextInv, OnWire, InFlight, AnyEffect
  PROVE  InFlight'
<1>1. CASE UNCHANGED vars
  BY <1>1 DEF vars, InFlight
<1>2. CASE MoveEffect
  <2>1. t' = t /\ c' = c /\ ctx' = ctx /\ pc' # "body"
    BY <1>2 DEF MoveEffect
  <2>2. pc' = "header" => pc = "content" \/ resp'.kind = "special"
    BY <1>2 DEF MoveEffect
  <2> QED
    BY <2>1, <2>2 DEF InFlight, ContextInv, Early
<1>3. CASE PassEffect \/ CreateEffect \/ PreAccessEffect \/ RecordEffect
  BY <1>3 DEF PassEffect, CreateEffect, PreAccessEffect, RecordEffect, InFlight
<1>4. CASE HeaderEffect \/ BodyEffect
  <2>1. pass' = pass /\ ctx' = ctx /\ pc' # "header"
    BY <1>4, FilterKeeps DEF Aside, Ran, CtxOnly
  <2>2. resp'.kind = resp.kind
    BY <1>4 DEF HeaderEffect, BodyEffect
  <2>3. CASE pc = "header" /\ HeaderAside
    <3>1. /\ c' = c /\ r'.header_sent /\ out'.hdr.kind = resp.kind /\ out'.hdr.pass = pass
      BY <2>3 DEF HeaderAside, Aside, HeaderOut
    <3>2. ctx # 0 => ~c[ctx].delayed
      BY <2>3 DEF ContextInv, Unsent
    <3> QED
      BY <2>1, <2>2, <2>3, <3>1, <3>2 DEF InFlight
  <2>4. CASE HeaderError \/ Finalized
    BY <2>1, <2>4 DEF HeaderError, Finalized, InFlight
  <2>5. CASE ~r.header_sent /\ HeaderDelay
    BY <2>1, <2>5 DEF HeaderDelay, InFlight, Ran, CtxOnly
  <2>6. ASSUME NEW L, HeaderForward(L) PROVE InFlight'
    BY <2>1, <2>2, <2>6 DEF HeaderForward, InFlight, HeaderOut
  <2>7. ASSUME NEW L, NEW status, Redirected(status, L) PROVE InFlight'
    BY <2>1, <2>7 DEF Redirected, InFlight, HeaderOut, Ran, CtxOnly
  <2>8. CASE pc = "body" /\ BodyAside
    BY <2>1, <2>2, <2>8 DEF BodyAside, Aside, InFlight
  <2>9. CASE pc = "body" /\ BodyForward
    BY <2>1, <2>2, <2>9 DEF BodyForward, Ran, InFlight
  <2>10. CASE pc = "body" /\ BodyHold
    BY <2>1, <2>10 DEF BodyHold, Ran, CtxOnly, InFlight
  <2>11. CASE BodyFlush
    BY <2>1, <2>2, <2>11 DEF BodyFlush, InFlight, HeaderOut
  <2> QED
    BY <1>4, <2>3, <2>4, <2>5, <2>6, <2>7, <2>8, <2>9, <2>10, <2>11 DEF HeaderEffect, BodyEffect
<1> QED
  BY <1>1, <1>2, <1>3, <1>4 DEF AnyEffect

LEMMA WireStep ==
  ASSUME IInv, ContextInv, WireInv, AnyEffect
  PROVE  WireInv'
<1>1. OnWire /\ InFlight
  BY WireIsBoth
<1>2. OnWire' /\ InFlight'
  BY <1>1, OnWireStep, InFlightStep
<1> QED
  BY <1>2 DEF WireInv, OnWire, InFlight

\* Phases evaluated stay evaluated, and only create_ctx() starts a transaction.
LEMMA RanGrows ==
  ASSUME IInv, ContextInv, AnyEffect, NEW i \in Pass
  PROVE  /\ \A k : Contains(t[i].ran, k) => Contains(t'[i].ran, k) \/ t[i].handle = "none"
         /\ t[i].handle = "none" /\ t'[i].handle # "none" => CreateEffect /\ i = pass
<1>0. t[i].ran \in Seq(1..4)
  BY DEF IInv, TypeOK, TxType
<1>1. CASE t'[i] = t[i]
  BY <1>1
<1>2. CASE CreateEffect
  <2>1. ctx = 0 /\ (i # pass => t'[i] = t[i])
    BY <1>2 DEF CreateEffect
  <2> QED
    BY <1>2, <2>1 DEF ContextInv
<1>3. CASE PreAccessEffect \/ Ran({3, 4})
  <2>1. CtxOnly /\ (t'[ctx].ran = t[ctx].ran \/ \E k \in {2, 3, 4} : t'[ctx].ran = Append(t[ctx].ran, k))
    BY <1>3 DEF PreAccessEffect, Ran, Effect
  <2>2. CASE i # ctx
    BY <1>1, <2>1, <2>2 DEF CtxOnly
  <2>3. CASE i = ctx
    <3>1. t'[i].handle = t[i].handle
      BY <2>1, <2>3 DEF CtxOnly
    <3>2. \A k : Contains(t[i].ran, k) => Contains(t'[i].ran, k)
      <4>1. CASE t'[i].ran = t[i].ran
        BY <4>1
      <4>2. ASSUME NEW k \in {2, 3, 4}, t'[i].ran = Append(t[i].ran, k)
            PROVE  \A j : Contains(t[i].ran, j) => Contains(t'[i].ran, j)
        <5>1. k \in 1..4
          OBVIOUS
        <5> QED
          BY ZenonT(40), <1>0, <4>2, <5>1, ContainsAppend
      <4> QED
        BY <2>1, <2>3, <4>1, <4>2
    <3> QED
      BY <3>1, <3>2
  <2> QED
    BY SMTT(30), <2>2, <2>3
<1>4. CASE HeaderEffect \/ BodyEffect
  BY <1>1, <1>3, <1>4, FilterKeeps DEF Aside
<1>5. CASE RecordEffect
  <2>1. t'[i] = t[i] \/ Recorded(i)
    BY <1>5 DEF RecordEffect
  <2> QED
    BY <1>1, <2>1 DEF Recorded
<1>6. CASE UNCHANGED vars \/ MoveEffect \/ PassEffect
  BY <1>1, <1>6 DEF vars, MoveEffect, PassEffect
<1> QED
  BY <1>2, <1>3, <1>4, <1>5, <1>6 DEF AnyEffect

\* Nothing goes out.
LEMMA GateKept ==
  ASSUME IInv, ContextInv, WireInv, ResponseInv, AnyEffect, out' = out,
         r.error_page => r'.error_page
  PROVE  ResponseGate'
<1> DEFINE i == out.hdr.pass
<1> SUFFICES ASSUME out.hdr.kind = "origin", t'[i].handle # "none", ~r'.error_page
             PROVE  /\ Contains(t'[i].ran, 3)
                    /\ out.complete => Contains(t'[i].ran, 4)
  BY DEF ResponseGate
<1>1. r.header_sent
  BY DEF WireInv, NoHeader
<1>2. i \in Pass
  BY <1>1, BoundsAssumption DEF WireInv, IInv, TypeOK, OutType, Pass
<1>3. CreateEffect => i # pass
  <2>1. CreateEffect => pc \in Early
    BY DEF CreateEffect, Early
  <2>2. pc \in Early => i < pass
    BY DEF WireInv
  <2> QED
    BY <1>2, <2>1, <2>2, BoundsAssumption DEF IInv, TypeOK, Pass
<1> HIDE DEF i
<1>4. t[i].handle # "none"
  BY <1>2, <1>3, RanGrows
<1>5. Contains(t[i].ran, 3) /\ (out.complete => Contains(t[i].ran, 4))
  BY <1>4 DEF ResponseInv, ResponseGate, i
<1> QED
  BY <1>2, <1>4, <1>5, RanGrows

LEMMA ResponseStep ==
  ASSUME IInv, ContextInv, WireInv, ResponseInv, AnyEffect
  PROVE  ResponseInv'
<1>0. ctx # 0 => ctx \in Pass /\ ctx = pass /\ t[ctx].handle # "none"
  BY DEF IInv, TypeOK, ContextInv
<1>1. CASE UNCHANGED vars
  BY <1>1 DEF vars, ResponseInv, ResponseGate
<1>2. CASE MoveEffect \/ PassEffect \/ CreateEffect \/ PreAccessEffect \/ RecordEffect
  <2>1. out' = out /\ (r.error_page => r'.error_page) /\ pc' # "body"
    BY <1>2 DEF MoveEffect, PassEffect, CreateEffect, PreAccessEffect, RecordEffect, Relocated
  <2> QED
    BY <2>1, GateKept DEF ResponseInv
<1>3. CASE HeaderEffect \/ BodyEffect
  <2>1. /\ pass' = pass /\ ctx' = ctx /\ r'.error_page = r.error_page
    BY <1>3, FilterKeeps DEF Aside, Ran, CtxOnly
  <2>2. CASE pc = "header" /\ ~r.header_sent /\ HeaderAside
    <3>1. /\ t' = t /\ c' = c /\ (ctx # 0 => c[ctx].triggered)
          /\ out'.hdr.kind = resp.kind /\ out'.hdr.pass = pass
      BY <2>2 DEF HeaderAside, Aside, HeaderOut
    <3>2. ctx # 0 => resp.kind = "special"
      BY <2>2, <3>1 DEF WireInv
    <3>3. ctx = 0 => t[pass].handle = "none"
      BY DEF ContextInv
    <3> QED
      BY <2>1, <3>1, <3>2, <3>3 DEF ResponseInv, ResponseGate
  <2>3. CASE pc = "header" /\ (HeaderError \/ HeaderDelay)
    <3>1. out' = out /\ (pc' = "body" /\ ~r.error_page => Contains(t'[ctx].ran, 3))
      BY <2>3 DEF HeaderError, HeaderDelay
    <3> QED
      BY <2>1, <3>1, GateKept DEF ResponseInv
  <2>4. ASSUME ~r.header_sent, NEW L, HeaderForward(L) PROVE ResponseInv'
    <3>1. /\ ctx # 0 /\ (~r.error_page => Contains(t'[ctx].ran, 3))
          /\ out'.hdr.pass = pass /\ out'.complete = out.complete
      BY <2>4 DEF HeaderForward, HeaderOut, Ran, CtxOnly
    <3>2. out.complete = FALSE
      BY <2>4 DEF WireInv
    <3> QED
      BY <1>0, <2>1, <3>1, <3>2 DEF ResponseInv, ResponseGate
  <2>5. ASSUME NEW L, NEW status, Redirected(status, L) PROVE ResponseInv'
    BY <2>1, <2>5 DEF Redirected, HeaderOut, ResponseInv, ResponseGate
  <2>6. CASE Finalized
    BY <2>1, <2>6, GateKept DEF Finalized, ResponseInv
  <2>7. CASE pc = "body" /\ BodyAside
    <3>1. /\ t' = t /\ c' = c /\ (ctx # 0 => c[ctx].triggered) /\ out'.hdr = out.hdr
      BY <2>7 DEF BodyAside, Aside
    <3>2. out.hdr.pass = pass /\ (ctx # 0 => out.hdr.kind # "origin")
      BY <2>7, <3>1 DEF WireInv
    <3>3. ctx = 0 => t[pass].handle = "none"
      BY DEF ContextInv
    <3> QED
      BY <2>1, <3>1, <3>2, <3>3 DEF ResponseInv, ResponseGate
  <2>8. CASE pc = "body" /\ (BodyForward \/ BodyHold \/ BodyFlush)
    <3>1. ctx # 0 /\ ~c[ctx].triggered
      BY <2>8 DEF BodyForward, BodyHold, BodyFlush, Ran, CtxOnly
    <3>2. ~r.error_page => Contains(t'[ctx].ran, 3)
      BY <1>0, <2>8, <3>1, RanGrows DEF ResponseInv
    <3>3. CASE BodyHold
      <4>1. out' = out
        BY <3>3 DEF BodyHold
      <4> QED
        BY <2>1, <3>2, <4>1, GateKept DEF ResponseInv
    <3>4. CASE BodyForward \/ BodyFlush
      <4>1. out'.complete /\ ~r.error_page => Contains(t'[ctx].ran, 4)
        BY <3>4 DEF BodyForward, BodyFlush, Completed
      <4>2. out'.hdr.pass = pass
        BY <2>8, <3>1, <3>4 DEF BodyForward, BodyFlush, HeaderOut, WireInv
      <4> QED
        BY <1>0, <2>1, <3>1, <3>2, <4>1, <4>2 DEF ResponseInv, ResponseGate
    <3> QED
      BY <2>8, <3>3, <3>4
  <2> QED
    BY <1>3, <2>2, <2>3, <2>4, <2>5, <2>6, <2>7, <2>8 DEF HeaderEffect, BodyEffect
<1> QED
  BY <1>1, <1>2, <1>3 DEF AnyEffect

\* The Location of a redirect, when its allocation never fails.
LEMMA LocationStep ==
  ASSUME IInv, ContextInv, WireInv, "location" \notin Faults, LocationInv, AnyEffect
  PROVE  LocationInv'
<1>1. CASE UNCHANGED vars
  BY <1>1 DEF vars, LocationInv, RedirectLocation
<1>2. CASE MoveEffect \/ PassEffect \/ RecordEffect
  BY <1>2 DEF MoveEffect, PassEffect, RecordEffect, LocationInv, RedirectLocation
<1>3. CASE CreateEffect \/ PreAccessEffect
  BY <1>3 DEF CreateEffect, PreAccessEffect, Relocated, Located, LocationInv, RedirectLocation
<1>4. CASE HeaderEffect \/ BodyEffect
  <2>1. RespStatus = "redirect" => "waf" \in r.locations
    BY DEF RespStatus, LocationInv
  <2>2. CASE HeaderAside
    BY <2>1, <2>2 DEF HeaderAside, HeaderOut, LocationInv, RedirectLocation
  <2>3. CASE HeaderError \/ HeaderDelay \/ BodyHold
    BY <2>3 DEF HeaderError, HeaderDelay, BodyHold, Onwards, LocationInv, RedirectLocation
  <2>4. ASSUME NEW L, HeaderForward(L) PROVE LocationInv'
    BY <2>1, <2>4 DEF HeaderForward, HeaderOut, LocationInv, RedirectLocation
  <2>5. ASSUME NEW L, NEW status, Redirected(status, L) PROVE LocationInv'
    BY <2>5 DEF Redirected, HeaderOut, LocationInv, RedirectLocation
  <2>6. CASE Finalized
    BY <2>6 DEF Finalized, LocationInv, RedirectLocation
  <2>7. CASE BodyAside \/ BodyForward
    BY <2>7 DEF BodyAside, BodyForward, Onwards, LocationInv, RedirectLocation
  <2>8. CASE BodyFlush
    BY <2>1, <2>8 DEF BodyFlush, Onwards, HeaderOut, LocationInv, RedirectLocation
  <2> QED
    BY <1>4, <2>2, <2>3, <2>4, <2>5, <2>6, <2>7, <2>8 DEF HeaderEffect, BodyEffect
<1> QED
  BY <1>1, <1>2, <1>3, <1>4 DEF AnyEffect

\* A later phase keeps the phases in order.
LEMMA RisingAppend ==
  ASSUME NEW s \in Seq(1..4), NEW k \in 0..3, NEW m \in 1..4, k < m, Rising(s), UpTo(s, k),
         NEW z, z = Append(s, m)
  PROVE  Rising(z) /\ UpTo(z, m)
<1>1. Len(z) = Len(s) + 1 /\ Len(s) \in Nat
  OBVIOUS
<1>2. \A j \in 1..Len(s) : z[j] = s[j] /\ s[j] \in 1..4
  OBVIOUS
<1>3. z[Len(s) + 1] = m
  OBVIOUS
<1>4. Rising(z)
  <2> SUFFICES ASSUME NEW j \in 1..(Len(z) - 1) PROVE z[j] < z[j + 1]
    BY DEF Rising
  <2>1. j \in 1..Len(s) /\ j \in Nat
    BY <1>1
  <2>2. CASE j = Len(s)
    <3>1. s[j] <= k
      BY <2>1 DEF UpTo
    <3> QED
      BY <1>2, <1>3, <2>1, <2>2, <3>1
  <2>3. CASE j # Len(s)
    <3>1. j \in 1..(Len(s) - 1) /\ j + 1 \in 1..Len(s)
      BY <1>1, <2>1, <2>3
    <3>2. s[j] < s[j + 1]
      BY <3>1 DEF Rising
    <3> QED
      BY <1>2, <2>1, <3>1, <3>2
  <2> QED
    BY <2>2, <2>3
<1>5. UpTo(z, m)
  <2> SUFFICES ASSUME NEW j \in 1..Len(z) PROVE z[j] <= m
    BY DEF UpTo
  <2>1. CASE j = Len(s) + 1
    BY <1>3, <2>1
  <2>2. CASE j # Len(s) + 1
    <3>1. j \in 1..Len(s)
      BY <1>1, <2>2
    <3>2. s[j] <= k
      BY <3>1 DEF UpTo
    <3> QED
      BY <1>2, <3>1, <3>2
  <2> QED
    BY <2>1, <2>2
<1> QED
  BY <1>4, <1>5

LEMMA UpToMore ==
  ASSUME NEW s \in Seq(1..4), NEW k \in 0..4, NEW m \in 0..4, k <= m, UpTo(s, k)
  PROVE  UpTo(s, m)
<1>1. \A j \in 1..Len(s) : s[j] \in 1..4
  OBVIOUS
<1> QED
  BY <1>1 DEF UpTo

\* The order of the phases, as long as nothing re-runs the PREACCESS phase.
LEMMA OrderStep ==
  ASSUME IInv, IInv', ContextInv, WireInv, ~Reentry, OrderInv, AnyEffect
  PROVE  OrderInv'
<1>0. /\ \A i \in Pass : t[i].ran \in Seq(1..4) /\ t'[i].ran \in Seq(1..4)
      /\ ctx # 0 => ctx \in Pass
  BY DEF IInv, TypeOK, TxType
<1>1. CASE UNCHANGED vars
  BY <1>1 DEF vars, OrderInv
<1>2. CASE MoveEffect
  <2>1. t' = t /\ c' = c /\ ctx' = ctx /\ pc' # "body"
    BY <1>2 DEF MoveEffect
  <2>2. pc' \in Early \ {"content"} => pc \in Early \ {"content"}
    BY <1>2 DEF MoveEffect, Early
  <2>3. pc' \in {"content", "special", "header"} => pc \in Early \cup {"special"}
    BY <1>2 DEF MoveEffect, Early
  <2>4. ctx # 0 /\ pc' \in {"content", "special", "header"} /\ ~c[ctx].triggered =>
          UpTo(t[ctx].ran, 2)
    <3> SUFFICES ASSUME ctx # 0, pc \in Early \cup {"special"}, ~c[ctx].triggered
                 PROVE  UpTo(t[ctx].ran, 2)
      BY <2>3
    <3>1. CASE pc \in {"content", "special"}
      BY <3>1 DEF OrderInv
    <3>2. CASE pc \in Early \ {"content"}
      <4>1. UpTo(t[ctx].ran, 1)
        BY <3>2 DEF OrderInv
      <4> QED
        BY <1>0, <4>1, UpToMore
    <3> QED
      BY <3>1, <3>2
  <2> QED
    BY <2>1, <2>2, <2>4 DEF OrderInv
<1>3. CASE PassEffect
  BY <1>3 DEF PassEffect, OrderInv
<1>4. CASE CreateEffect
  <2>1. /\ ctx' = pass /\ pass \in Pass /\ pc' \in {"post_rewrite", "special"}
        /\ t'[pass].ran = <<>> \/ t'[pass].ran = <<1>>
        /\ \A i \in Pass \ {pass} : t'[i] = t[i]
    BY <1>4 DEF CreateEffect
  <2>2. Rising(t'[pass].ran) /\ UpTo(t'[pass].ran, 1) /\ UpTo(t'[pass].ran, 2)
    BY <2>1 DEF Rising, UpTo
  <2>3. \A i \in Pass : Rising(t'[i].ran)
    BY <2>1, <2>2 DEF OrderInv
  <2> QED
    BY <2>1, <2>2, <2>3 DEF OrderInv, Early
<1>5. CASE PreAccessEffect
  <2>1. /\ ctx # 0 /\ ctx \in Pass /\ ctx' = ctx /\ \A i \in Pass \ {ctx} : t'[i] = t[i]
        /\ pc \in {"preaccess", "submit", "wait_body"}
        /\ pc' \in {"preaccess", "submit", "wait_body", "content", "special"}
        /\ \/ t'[ctx].ran = t[ctx].ran
           \/ t'[ctx].ran = Append(t[ctx].ran, 2) /\ pc' \in {"content", "special"}
    BY <1>5 DEF PreAccessEffect, CtxOnly
  <2>2. Rising(t[ctx].ran) /\ UpTo(t[ctx].ran, 1)
    BY <2>1 DEF OrderInv, Early
  <2>3. UpTo(t[ctx].ran, 2)
    BY <1>0, <2>1, <2>2, UpToMore
  <2>4. t'[ctx].ran = Append(t[ctx].ran, 2) => Rising(t'[ctx].ran) /\ UpTo(t'[ctx].ran, 2)
    <3>1. 1 \in 0..3 /\ 2 \in 1..4 /\ 1 < 2 /\ t[ctx].ran \in Seq(1..4)
      BY <1>0, <2>1
    <3> QED
      BY <2>2, <3>1, RisingAppend
  <2>5. /\ Rising(t'[ctx].ran) /\ UpTo(t'[ctx].ran, 2)
        /\ pc' \in Early \ {"content"} => UpTo(t'[ctx].ran, 1)
    BY <2>1, <2>2, <2>3, <2>4 DEF Early
  <2>6. \A i \in Pass : Rising(t'[i].ran)
    BY <2>1, <2>5 DEF OrderInv
  <2> QED
    BY <2>1, <2>5, <2>6 DEF OrderInv
<1>6. CASE HeaderEffect \/ BodyEffect
  <2>1. /\ Aside \/ Ran({3, 4})
        /\ pc \in {"header", "body"} /\ pc' \in {"log", "body", "special"} /\ ctx' = ctx
        /\ pc' = "special" => c'[ctx].triggered
    BY <1>6, FilterKeeps DEF Aside, Ran, CtxOnly
  <2>2. CASE Aside
    BY <2>1, <2>2 DEF Aside, OrderInv, Early
  <2>3. CASE Ran({3, 4})
    <3>1. /\ ctx # 0 /\ ctx \in Pass /\ ~c[ctx].triggered
          /\ \A i \in Pass \ {ctx} : t'[i] = t[i]
      BY <2>3 DEF Ran, CtxOnly
    <3>2. Rising(t[ctx].ran) /\ UpTo(t[ctx].ran, IF pc = "header" THEN 2 ELSE 3)
      BY <2>1, <3>1 DEF OrderInv
    <3>3. Rising(t'[ctx].ran)
      <4>1. CASE pc = "header"
        <5>1. t'[ctx].ran = t[ctx].ran \/ \E k \in {3, 4} : t'[ctx].ran = Append(t[ctx].ran, k)
          BY <2>3 DEF Ran, Effect
        <5>2. ASSUME NEW k \in {3, 4}, t'[ctx].ran = Append(t[ctx].ran, k)
              PROVE  Rising(t'[ctx].ran)
          <6>1. 2 \in 0..3 /\ k \in 1..4 /\ 2 < k /\ t[ctx].ran \in Seq(1..4)
            BY <1>0, <3>1
          <6>2. UpTo(t[ctx].ran, 2)
            BY <3>2, <4>1
          <6> QED
            BY <3>2, <5>2, <6>1, <6>2, RisingAppend
        <5> QED
          BY <3>2, <5>1, <5>2
      <4>2. CASE pc = "body"
        <5>1. t'[ctx].ran = t[ctx].ran \/ t'[ctx].ran = Append(t[ctx].ran, 4)
          <6>1. Ran({4}) \/ Aside
            BY <1>6, <4>2 DEF HeaderEffect, BodyEffect, BodyAside, BodyForward, BodyHold,
                              BodyFlush, Finalized, Redirected
          <6> QED
            BY <6>1 DEF Ran, Effect, Aside
        <5>2. t'[ctx].ran = Append(t[ctx].ran, 4) => Rising(t'[ctx].ran)
          <6>1. 3 \in 0..3 /\ 4 \in 1..4 /\ 3 < 4 /\ t[ctx].ran \in Seq(1..4)
            BY <1>0, <3>1
          <6>2. UpTo(t[ctx].ran, 3)
            BY <3>2, <4>2
          <6> QED
            BY <3>2, <6>1, <6>2, RisingAppend
        <5> QED
          BY <3>2, <5>1, <5>2
      <4> QED
        BY <2>1, <4>1, <4>2
    <3>4. pc' = "body" /\ ~c'[ctx].triggered => UpTo(t'[ctx].ran, 3)
      <4>1. CASE pc = "header"
        <5>1. UpTo(t[ctx].ran, 2)
          BY <3>2, <4>1
        <5>2. UpTo(t[ctx].ran, 3)
          BY <1>0, <3>1, <5>1, UpToMore
        <5>3. t'[ctx].ran = Append(t[ctx].ran, 3) => UpTo(t'[ctx].ran, 3)
          <6>1. 2 \in 0..3 /\ 3 \in 1..4 /\ 2 < 3 /\ t[ctx].ran \in Seq(1..4)
            BY <1>0, <3>1
          <6> QED
            BY <3>2, <5>1, <6>1, RisingAppend
        <5>4. pc' = "body" /\ ~c'[ctx].triggered =>
                t'[ctx].ran = t[ctx].ran \/ t'[ctx].ran = Append(t[ctx].ran, 3)
          <6>1. CASE HeaderAside
            BY <6>1 DEF HeaderAside, Aside
          <6>2. CASE HeaderDelay \/ \E L : HeaderForward(L)
            BY <6>2 DEF HeaderDelay, HeaderForward, Ran, Effect
          <6>3. CASE HeaderError \/ Finalized \/ \E L, status : Redirected(status, L)
            BY <6>3 DEF HeaderError, Finalized, Redirected
          <6> QED
            BY <1>6, <4>1, <6>1, <6>2, <6>3 DEF HeaderEffect, BodyEffect
        <5> QED
          BY <5>2, <5>3, <5>4
      <4>2. CASE pc = "body"
        <5>1. UpTo(t[ctx].ran, 3)
          BY <3>2, <4>2
        <5>2. pc' = "body" /\ ~c'[ctx].triggered => t'[ctx].ran = t[ctx].ran
          BY <1>6, <4>2 DEF HeaderEffect, BodyEffect, BodyAside, Aside, BodyForward, BodyHold,
                            BodyFlush, Finalized, Redirected
        <5> QED
          BY <5>1, <5>2
      <4> QED
        BY <2>1, <4>1, <4>2
    <3>5. \A i \in Pass : Rising(t'[i].ran)
      BY <3>1, <3>3 DEF OrderInv
    <3> QED
      BY <2>1, <3>4, <3>5 DEF OrderInv, Early
  <2> QED
    BY <2>1, <2>2, <2>3
<1>7. CASE RecordEffect
  <2>1. \A i \in Pass : t'[i].ran = t[i].ran
    BY <1>7 DEF RecordEffect, Recorded
  <2>2. pc' = "cleanup"
    BY <1>7 DEF RecordEffect
  <2> QED
    BY <2>1, <2>2 DEF OrderInv, Early
<1> QED
  BY <1>1, <1>2, <1>3, <1>4, <1>5, <1>6, <1>7 DEF AnyEffect

\* What of the pass i's own response is on the wire.
OwnHeader(i) == out.hdr.kind = "origin" /\ out.hdr.pass = i
OwnUnits(i) == {j \in 1..Len(out.units) : out.units[j] = [kind |-> "origin", pass |-> i]}

LEMMA SameSent ==
  ASSUME NEW i \in Pass, OwnHeader(i)' <=> OwnHeader(i), OwnUnits(i)' = OwnUnits(i)
  PROVE  OriginSent(i)' = OriginSent(i)
<1>1. (out'.hdr.kind = "origin" /\ out'.hdr.pass = i) = (out.hdr.kind = "origin" /\ out.hdr.pass = i)
  BY DEF OwnHeader
<1>2. Cardinality({j \in 1..Len(out'.units) : out'.units[j] = [kind |-> "origin", pass |-> i]})
      = Cardinality({j \in 1..Len(out.units) : out.units[j] = [kind |-> "origin", pass |-> i]})
  BY DEF OwnUnits
<1> QED
  BY <1>1, <1>2 DEF OriginSent

\* Buffers of another response do not count.
LEMMA OtherUnits ==
  ASSUME IInv, NEW i \in Pass, NEW n \in Nat, out'.units = Units(n),
         pass # i \/ resp.kind # "origin"
  PROVE  OwnUnits(i)' = OwnUnits(i)
<1>1. /\ Len(out'.units) = Len(out.units) + n /\ Len(out.units) \in Nat
      /\ \A j \in 1..Len(out'.units) :
           out'.units[j] = IF j <= Len(out.units) THEN out.units[j] ELSE Unit
  BY UnitsFacts
<1>2. Unit # [kind |-> "origin", pass |-> i]
  BY DEF Unit
<1> HIDE DEF Unit
<1>3. \A j : j \in OwnUnits(i)' <=> j \in OwnUnits(i)
  <2> TAKE j
  <2>1. CASE j \in 1..Len(out.units)
    <3>1. j \in 1..Len(out'.units) /\ j <= Len(out.units)
      BY <1>1, <2>1
    <3>2. out'.units[j] = out.units[j]
      BY <1>1, <3>1
    <3> QED
      BY <2>1, <3>1, <3>2 DEF OwnUnits
  <2>2. CASE j \notin 1..Len(out.units)
    <3>1. ASSUME j \in 1..Len(out'.units) PROVE out'.units[j] = Unit
      <4>1. ~(j <= Len(out.units))
        BY <1>1, <2>2, <3>1
      <4> QED
        BY <1>1, <3>1, <4>1
    <3> QED
      BY <1>2, <2>2, <3>1 DEF OwnUnits
  <2> QED
    BY <2>1, <2>2
<1> QED
  BY <1>3 DEF OwnUnits

\* What the body filter lets out once a context has triggered.
LEMMA FinalStep ==
  ASSUME IInv, ContextInv, WireInv, AnyEffect, NEW i \in Pass, c'[i].triggered
  PROVE  OriginSent(i)' = OriginSent(i)
<1>0. /\ pass \in Pass /\ (ctx # 0 => ctx = pass) /\ resp.kind \in {"origin", "special"}
  BY DEF IInv, TypeOK, RespType
<1>1. CASE out' = out
  BY <1>1 DEF OriginSent
<1>2. CASE UNCHANGED vars \/ MoveEffect \/ PassEffect \/ CreateEffect \/ PreAccessEffect
           \/ RecordEffect
  BY <1>1, <1>2 DEF vars, MoveEffect, PassEffect, CreateEffect, PreAccessEffect, RecordEffect
<1>3. CASE HeaderEffect \/ BodyEffect
  <2>a. ~r.header_sent => ~OwnHeader(i)
    BY DEF WireInv, NoHeader, OwnHeader
  <2>b. out'.units = out.units => OwnUnits(i)' = OwnUnits(i)
    BY DEF OwnUnits
  <2>c. Aside /\ i = pass => ctx # 0 /\ c[ctx].triggered
    <3>1. c[pass].triggered /\ Aside => t[pass].handle # "none"
      BY <1>0 DEF ContextInv, NewCtx
    <3> QED
      BY <1>0, <3>1 DEF Aside, ContextInv
  <2>1. CASE pc = "header" /\ ~r.header_sent /\ HeaderAside
    <3>1. i = pass => resp.kind = "special"
      BY <1>0, <2>1, <2>c DEF HeaderAside, WireInv
    <3>2. out'.hdr.kind = resp.kind /\ out'.hdr.pass = pass /\ out'.units = out.units
      BY <2>1 DEF HeaderAside, HeaderOut
    <3>3. ~OwnHeader(i)'
      BY <3>1, <3>2 DEF OwnHeader
    <3> QED
      BY <2>1, <2>a, <2>b, <3>2, <3>3, SameSent
  <2>2. CASE HeaderError \/ HeaderDelay \/ BodyHold \/ Finalized
    BY <1>1, <2>2 DEF HeaderError, HeaderDelay, BodyHold, Finalized
  <2>3. ASSUME ~r.header_sent, NEW L, HeaderForward(L) PROVE OriginSent(i)' = OriginSent(i)
    <3>1. i # pass
      BY <1>0, <2>3 DEF HeaderForward, Ran, CtxOnly
    <3>2. out'.hdr.pass = pass /\ out'.units = out.units
      BY <2>3 DEF HeaderForward, HeaderOut
    <3>3. ~OwnHeader(i)'
      BY <3>1, <3>2 DEF OwnHeader
    <3> QED
      BY <2>3, <2>a, <2>b, <3>2, <3>3, SameSent
  <2>4. ASSUME ~r.header_sent, NEW L, NEW status, Redirected(status, L)
        PROVE  OriginSent(i)' = OriginSent(i)
    <3>1. out'.hdr.kind = "redirect" /\ out'.units = out.units
      BY <2>4 DEF Redirected, HeaderOut
    <3>2. ~OwnHeader(i)'
      BY <3>1 DEF OwnHeader
    <3> QED
      BY <2>4, <2>a, <2>b, <3>1, <3>2, SameSent
  <2>5. CASE pc = "body" /\ BodyAside
    <3>1. CASE Swallows
      BY <1>1, <2>5, <3>1 DEF BodyAside
    <3>2. CASE ~Swallows
      <4>1. out'.units = Units(1) /\ out'.hdr = out.hdr /\ Aside
        BY <2>5, <3>2 DEF BodyAside
      <4>2. i = pass => resp.kind # "origin"
        BY <2>5, <2>c, <3>2, <4>1 DEF WireInv, Swallows
      <4>3. OwnUnits(i)' = OwnUnits(i)
        BY <4>1, <4>2, OtherUnits, 1 \in Nat
      <4>4. OwnHeader(i)' <=> OwnHeader(i)
        BY <4>1 DEF OwnHeader
      <4> QED
        BY <4>3, <4>4, SameSent
    <3> QED
      BY <3>1, <3>2
  <2>6. CASE BodyForward
    <3>1. i # pass
      BY <1>0, <2>6 DEF BodyForward, Ran, CtxOnly
    <3>2. out'.units = Units(1) /\ out'.hdr = out.hdr
      BY <2>6 DEF BodyForward
    <3>3. OwnUnits(i)' = OwnUnits(i)
      BY <3>1, <3>2, OtherUnits, 1 \in Nat
    <3>4. OwnHeader(i)' <=> OwnHeader(i)
      BY <3>2 DEF OwnHeader
    <3> QED
      BY <3>3, <3>4, SameSent
  <2>7. CASE BodyFlush
    <3>1. i # pass
      BY <1>0, <2>7 DEF BodyFlush, Ran, CtxOnly
    <3>2. PICK n \in Nat : out'.units = Units(n)
      BY <2>7 DEF BodyFlush
    <3>3. out'.hdr.pass = pass /\ ~r.header_sent
      BY <2>7 DEF BodyFlush, HeaderOut
    <3>4. OwnUnits(i)' = OwnUnits(i)
      BY <3>1, <3>2, OtherUnits
    <3>5. ~OwnHeader(i)'
      BY <3>1, <3>3 DEF OwnHeader
    <3> QED
      BY <2>a, <3>3, <3>4, <3>5, SameSent
  <2> QED
    BY <1>3, <2>1, <2>2, <2>3, <2>4, <2>5, <2>6, <2>7 DEF HeaderEffect, BodyEffect
<1> QED
  BY <1>2, <1>3 DEF AnyEffect

-----------------------------------------------------------------------------
(* Theorems *)

\* The invariants hold initially ...
LEMMA InitGInv == Init => GInv /\ OrderInv /\ LocationInv
<1> SUFFICES ASSUME Init PROVE GInv /\ OrderInv /\ LocationInv
  OBVIOUS
<1>1. /\ pc = "rewrite" /\ pass = 1 /\ ctx = 0 /\ rc = "500"
      /\ c = [i \in Pass |-> NewCtx] /\ t = [i \in Pass |-> NoTx]
      /\ out = [hdr |-> NoHeader, units |-> <<>>, complete |-> FALSE]
  BY DEF Init
<1>2. r.header_sent = FALSE /\ r.len \in Nat /\ 1 \in Pass
  <2>1. r \in [error_page : {FALSE}, header_sent : {FALSE}, header_only : {FALSE},
               head : BOOLEAN, location : {"none"}, locations : {{}},
               body : {"unread"}, len : 0..MaxBody]
    BY DEF Init
  <2>2. r.header_sent = FALSE /\ r.len \in 0..MaxBody
    BY <2>1
  <2>3. r.len \in Nat /\ 1 \in Pass
    BY <2>2, BoundsAssumption DEF Pass
  <2> QED
    BY <2>2, <2>3
<1>3. \A i \in Pass : t[i] = NoTx /\ c[i] = NewCtx
  BY <1>1
<1>4. ContextInv
  BY <1>1, <1>2, <1>3 DEF ContextInv, NoTx, NewCtx
<1>5. RecordInv
  BY <1>2, <1>3, StatusNotDeclined DEF RecordInv, NoTx, NewCtx
<1>6. RequestInv
  BY <1>1 DEF RequestInv, RequestGate
<1>7. WireInv
  BY <1>1, <1>2 DEF WireInv, OneResponse, NoHeader
<1>8. ResponseInv
  BY <1>1 DEF ResponseInv, ResponseGate, NoHeader
<1>9. OrderInv
  BY <1>1, <1>3 DEF OrderInv, Rising, NoTx
<1>10. LocationInv
  BY <1>1 DEF LocationInv, RedirectLocation, NoHeader
<1> QED
  BY <1>4, <1>5, <1>6, <1>7, <1>8, <1>9, <1>10 DEF GInv

\* ... and every step keeps them.
LEMMA NextGInv == IInv /\ IInv' /\ GInv /\ [Next]_vars => GInv'
<1> SUFFICES ASSUME IInv, IInv', GInv, [Next]_vars PROVE GInv'
  OBVIOUS
<1>1. ContextInv /\ RecordInv /\ RequestInv /\ WireInv /\ ResponseInv
  BY DEF GInv
<1>2. AnyEffect
  BY <1>1, StepEffect
<1>3. ContextInv'
  BY <1>1, <1>2, ContextStep
<1>4. RecordInv'
  BY <1>1, <1>2, RecordStep
<1>5. RequestInv'
  BY <1>1, <1>2, RequestStep
<1>6. WireInv'
  BY <1>1, <1>2, WireStep
<1>7. ResponseInv'
  BY <1>1, <1>2, ResponseStep
<1> QED
  BY <1>3, <1>4, <1>5, <1>6, <1>7 DEF GInv

\* The invariant of the request's gates holds with the one of its transactions.
THEOREM GateInvariant == Spec => [](IInv /\ GInv)
<1>1. Init => IInv /\ GInv
  BY InitIInv, InitGInv
<1>2. IInv /\ GInv /\ [Next]_vars => IInv' /\ GInv'
  BY NextIInv, NextGInv
<1> QED
  BY <1>1, <1>2, PTL DEF Spec

\* The WAF is not bypassed on the way in: whatever locations, internal
\* redirects and re-runs of the PREACCESS phase a request goes through, the
\* content handler of an inspected location is reached off an error page only
\* after phases 1 and 2 with no denial outstanding, all of the requested body
\* submitted; the exception is a body nginx had discarded.
THEOREM RequestGateTheorem == Spec => []RequestGate
<1>1. GInv => RequestGate
  BY DEF GInv, RequestInv
<1> QED
  BY <1>1, GateInvariant, PTL

\* Nor on the way out: header_filter() and body_filter() forward nothing of an
\* inspected pass's response before phase 3, and end it only after phase 4.
THEOREM ResponseGateTheorem == Spec => []ResponseGate
<1>1. GInv => ResponseGate
  BY DEF GInv, ResponseInv
<1> QED
  BY <1>1, GateInvariant, PTL

\* The client never sees a mixture of two responses, whether headers were
\* delayed, an intervention replaced the response or an error page took over.
THEOREM OneResponseTheorem == Spec => []OneResponse
<1>1. GInv => OneResponse
  BY DEF GInv, WireInv
<1> QED
  BY <1>1, GateInvariant, PTL

\* The engine is given the request body at most once, however often the
\* preaccess handler runs: body_submitted is set with the first submission.
THEOREM BodySubmittedOnceTheorem == Spec => []BodySubmittedOnce
<1>1. GInv => BodySubmittedOnce
  BY DEF GInv, RecordInv, BodySubmittedOnce
<1> QED
  BY <1>1, GateInvariant, PTL

\* The audit record of a blocked transaction carries its denial's status,
\* whichever of the early log, the LOG phase and the cleanup wrote it.
THEOREM AuditStatusTheorem == Spec => []AuditStatus
<1>1. GInv => AuditStatus
  BY DEF GInv, RecordInv, AuditStatus
<1> QED
  BY <1>1, GateInvariant, PTL

\* From the step in which a context triggers, nothing of the response of its
\* pass is sent any more: what the filters still let through is the special
\* page or the redirect that replaced it.
THEOREM BlockIsFinalTheorem == Spec => BlockIsFinal
<1>1. IInv /\ GInv /\ [Next]_vars =>
        [\A i \in Pass : c'[i].triggered => OriginSent(i)' = OriginSent(i)]_vars
  <2> SUFFICES ASSUME IInv, GInv, [Next]_vars, NEW i \in Pass, c'[i].triggered
               PROVE  OriginSent(i)' = OriginSent(i)
    OBVIOUS
  <2>1. ContextInv /\ WireInv
    BY DEF GInv
  <2>2. AnyEffect
    BY <2>1, StepEffect
  <2> QED
    BY <2>1, <2>2, FinalStep
<1> QED
  BY <1>1, GateInvariant, PTL DEF Spec, BlockIsFinal

\* Unless another module re-runs the PREACCESS phase, the phases of every
\* transaction are evaluated in ascending order, each at most once.
THEOREM PhaseOrderTheorem ==
  ASSUME ~Reentry
  PROVE  Spec => []PhaseOrder
<1>1. Init => OrderInv
  BY InitGInv
<1>2. IInv /\ IInv' /\ GInv /\ OrderInv /\ [Next]_vars => OrderInv'
  <2> SUFFICES ASSUME IInv, IInv', GInv, OrderInv, [Next]_vars PROVE OrderInv'
    OBVIOUS
  <2>1. ContextInv /\ WireInv
    BY DEF GInv
  <2>2. AnyEffect
    BY <2>1, StepEffect
  <2> QED
    BY <2>1, <2>2, OrderStep
<1>3. OrderInv => PhaseOrder
  BY DEF OrderInv, Rising, PhaseOrder
<1> QED
  BY <1>1, <1>2, <1>3, GateInvariant, PTL DEF Spec

\* As long as the Location header can be allocated, a redirect intervention is
\* answered with the Location the rule asked for, whichever phase it came from
\* and whether a filter sends it or nginx's special response does.
THEOREM RedirectLocationTheorem ==
  ASSUME "location" \notin Faults
  PROVE  Spec => []RedirectLocation
<1>1. Init => LocationInv
  BY InitGInv
<1>2. IInv /\ GInv /\ LocationInv /\ [Next]_vars => LocationInv'
  <2> SUFFICES ASSUME IInv, GInv, LocationInv, [Next]_vars PROVE LocationInv'
    OBVIOUS
  <2>1. ContextInv /\ WireInv
    BY DEF GInv
  <2>2. AnyEffect
    BY <2>1, StepEffect
  <2> QED
    BY <2>1, <2>2, LocationStep
<1>3. LocationInv => RedirectLocation
  BY DEF LocationInv
<1> QED
  BY <1>1, <1>2, <1>3, GateInvariant, PTL DEF Spec
=============================================================================
