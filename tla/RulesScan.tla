------------------------------ MODULE RulesScan ------------------------------
(***************************************************************************)
(* The scan of a rules text for directives the engine does not implement,  *)
(* run at configuration time by coraza_rules and coraza_rules_file.  The   *)
(* scanner keeps two counters, three flags, two bytes and one bounded word *)
(* of the text; it runs here in step with the parser it mirrors, which     *)
(* keeps everything.  Chunks of the file are not modelled: whatever the    *)
(* scanner knows of the bytes before a chunk is in its state s.            *)
(***************************************************************************)
EXTENDS SecLangParser

CONSTANTS
  WordCap,      \* sizeof(word)
  MaxText       \* bound on the text

\* The buffer holds the directive and the backslash that may follow it.
ASSUME ScanAssumption == WordCap \in Nat /\ WordCap > Len(Directive) /\ MaxText \in Nat

VARIABLES
  pc,           \* of check_rules_file(): open, scan, or its result
  s,            \* ngx_http_coraza_rules_scan_t, word[] and wlen as a sequence
  p,            \* the parser fed with the same bytes
  bytes         \* how many of them

vars == <<pc, s, p, bytes>>

None == "none"                  \* first and last are 0

scan_init ==
  [line |-> 1, rec_line |-> 0, in_record |-> FALSE, in_backticks |-> FALSE,
   word_done |-> FALSE, first |-> None, last |-> None, word |-> <<>>]

Init == pc = "open" /\ s = scan_init /\ p = NewParser /\ bytes = 0

-----------------------------------------------------------------------------
\* scan_eol(): the line is ignored, or the action list is open after it, or it
\* continues the record, or it ends it.
Ignored(t) == t.first \in {None, "hash"}

Ticks(t) == IF t.in_backticks THEN t.first # "backtick" ELSE t.last = "backtick"

Continues(t) == Ticks(t) \/ t.last = "backslash"

\* The continuation that leaves its backslash in the word.
KeepBackslash(t) == t.word

\* The backslash is dropped from a word that the continuation cuts.
DropBackslash(t) ==
  IF ~Ticks(t) /\ ~t.word_done /\ t.word # <<>> /\ Last(t.word) = "backslash"
    THEN Front(t.word)
    ELSE t.word

scan_eol(t) ==
  LET u == [t EXCEPT !.first = None, !.last = None]
  IN  CASE Ignored(t)   -> u
        [] ~Ignored(t) /\ Continues(t) ->
             [u EXCEPT !.in_backticks = Ticks(t), !.word = DropBackslash(t)]
        [] OTHER ->
             [u EXCEPT !.in_backticks = FALSE, !.in_record = FALSE,
                       !.word_done = FALSE, !.word = <<>>]

\* What scan_eol() returns: scan_word() of a record that is complete.
EolRefuses(t) == ~Ignored(t) /\ ~Continues(t) /\ Names(t.word)

\* scan_done() after its scan_eol().
DoneRefuses(t) == EolRefuses(t) \/ (scan_eol(t).in_backticks /\ Names(scan_eol(t).word))

\* scan(): a blank is trimmed or ends the word.
ScanBlank(t) ==
  [t EXCEPT !.word_done = @ \/ (~Ignored(t) /\ t.word # <<>>)]

\* Every line of a record taken for its first.
OpensAnyLine(t, c) == t.first = None /\ c # "hash"

\* The byte starts a record.
Opens(t, c) == t.first = None /\ c # "hash" /\ ~t.in_record

\* The bound taken for the last index.
FitsOneMore(t) == Len(t.word) <= WordCap

Fits(t) == Len(t.word) < WordCap

\* The word emptied, but collected again from here.
StartOver(t) == [t EXCEPT !.word = <<>>]

\* Too long to be a directive we know.
Overlong(t) == [t EXCEPT !.word = <<>>, !.word_done = TRUE]

\* scan(): any other byte starts the line and perhaps a record, and is
\* collected while the word is not done and fits.
ScanByte(t, c) ==
  LET u == [t EXCEPT !.first = IF @ = None THEN c ELSE @,
                     !.in_record = @ \/ Opens(t, c),
                     !.rec_line = IF Opens(t, c) THEN t.line ELSE @,
                     !.last = c]
  IN  CASE u.first = "hash" \/ u.word_done -> u
        [] ~(u.first = "hash" \/ u.word_done) /\ Fits(u) ->
             [u EXCEPT !.word = Append(@, c)]
        [] OTHER -> Overlong(u)

-----------------------------------------------------------------------------
(* check_rules_file(), and the scan of coraza_rules, whose text is there. *)

Open == pc = "open" /\ pc' = "scan" /\ UNCHANGED <<s, p, bytes>>

\* A file that cannot be opened is left to the workers.
CannotOpen == pc = "open" /\ pc' = "unread" /\ UNCHANGED <<s, p, bytes>>

\* A read that fails ends the loop without scan_done() and without a verdict.
ReadFails == pc = "scan" /\ pc' = "unread" /\ UNCHANGED <<s, p, bytes>>

More == pc = "scan" /\ bytes < MaxText /\ bytes' = bytes + 1

Feed(c) ==
  /\ More
  /\ s' = IF c = "blank" THEN ScanBlank(s) ELSE ScanByte(s, c)
  /\ p' = [p EXCEPT !.text = Append(@, c)]
  /\ UNCHANGED pc

\* scan_eol() and, unless the record is refused, s->line++.
Newline ==
  /\ More
  /\ p' = ParseLine(p)
  /\ IF EolRefuses(s)
       THEN s' = scan_eol(s) /\ pc' = "refused"
       ELSE s' = [scan_eol(s) EXCEPT !.line = @ + 1] /\ UNCHANGED pc

EndOfText ==
  /\ pc = "scan"
  /\ s' = scan_eol(s) /\ p' = ParseEnd(p)
  /\ pc' = IF DoneRefuses(s) THEN "refused" ELSE "accepted"
  /\ UNCHANGED bytes

Next ==
  \/ Open \/ CannotOpen \/ ReadFails
  \/ \E c \in Byte : Feed(c)
  \/ Newline
  \/ EndOfText

Spec == Init /\ [][Next]_vars

-----------------------------------------------------------------------------
\* The scanner's state, in particular the word within its buffer.
TypeOK ==
  /\ pc \in {"open", "scan", "unread", "accepted", "refused"}
  /\ bytes \in 0..MaxText
  /\ s.line \in 1..MaxText + 1 /\ s.rec_line \in 0..s.line
  /\ {s.in_record, s.in_backticks, s.word_done} \subseteq BOOLEAN
  /\ {s.first, s.last} \subseteq (Byte \ {"blank"}) \cup {None}
  /\ s.word \in Seq(Byte \ {"blank"}) /\ Len(s.word) <= WordCap

\* ngx_http_coraza_rules_scan() refuses no text the engine would take: the
\* record it stops at is one whose directive the parser reads as refused.
NoFalseRefusal == pc = "refused" => p.refused

\* The line in the message of check_rules_file() and ngx_conf_set_rules() is
\* the one where the refused record starts, whatever comments, continuations
\* and action lists came before.
RefusedAtItsLine == pc = "refused" /\ p.refused => s.rec_line = p.start

\* A record whose directive is refused stops the scan when it is complete,
\* before another byte is read, unless blanks follow one of its backslashes.
NoBypass == p.refused /\ ~p.loose => pc = "refused"
=============================================================================
