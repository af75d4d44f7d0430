---------------------------- MODULE SecLangParser ----------------------------
(***************************************************************************)
(* How coraza's SecLang parser (external) assembles records from the lines *)
(* of a rules text: lines are trimmed, blank and "#" lines ignored, a line *)
(* ending in "\" is glued to the next one with the backslash removed, a    *)
(* line ending in "`" opens an action list that a line starting with "`"   *)
(* closes.  The parser holds the whole line and the whole record, which is *)
(* what the module's scanner avoids.                                       *)
(***************************************************************************)
EXTENDS Naturals, Sequences, FiniteSets, SequencesExt

CONSTANTS
  Letter,       \* the bytes without a meaning to the parser
  Lower,        \* their lower-case forms
  Directive     \* the name, in lower case, of a directive that is refused

\* "none" is the scanner's 0: a text has no such byte.
ASSUME DirectiveAssumption ==
  /\ Lower \in [Letter -> Letter]
  /\ Directive \in Seq(Letter) /\ Directive # <<>>
  /\ Letter \cap {"none", "blank", "nl", "hash", "backslash", "backtick"} = {}

\* The bytes of a line; "blank" stands for the five of them.
Byte == Letter \cup {"blank", "hash", "backslash", "backtick"}

\* ngx_strncasecmp() of a whole word.
Names(w) ==
  /\ Len(w) = Len(Directive)
  /\ \A k \in DOMAIN w : w[k] \in Letter /\ Lower[w[k]] = Directive[k]

Trim(l) ==
  LET ink == {k \in DOMAIN l : l[k] # "blank"}
  IN  IF ink = {} THEN <<>> ELSE SubSeq(l, Min(ink), Max(ink))

FirstWord(r) ==
  LET gaps == {k \in DOMAIN r : r[k] = "blank"}
  IN  IF gaps = {} THEN r ELSE SubSeq(r, 1, Min(gaps) - 1)

NewParser ==
  [text |-> <<>>, no |-> 1, record |-> <<>>, open |-> FALSE, start |-> 0,
   in_backticks |-> FALSE, loose |-> FALSE, refused |-> FALSE]

\* A line is complete.  "start" is the line of the record's first part and
\* "refused" the verdict on it once it is complete; "loose" says that blanks
\* followed a backslash that continued it.
ParseLine(p) ==
  LET l     == Trim(p.text)
      ticks == IF p.in_backticks THEN l[1] # "backtick" ELSE Last(l) = "backtick"
      slash == ~ticks /\ Last(l) = "backslash"
      part  == IF slash THEN Front(l) ELSE l
      next  == [p EXCEPT !.text = <<>>, !.no = @ + 1]
      r     == IF p.open
                 THEN next
                 ELSE [next EXCEPT !.record = <<>>, !.start = p.no,
                                   !.loose = FALSE, !.refused = FALSE]
  IN  IF l = <<>> \/ l[1] = "hash"
        THEN next
        ELSE [r EXCEPT !.record = @ \o part,
                       !.open = ticks \/ slash,
                       !.in_backticks = ticks,
                       !.loose = @ \/ (slash /\ Last(p.text) = "blank"),
                       !.refused = ~ticks /\ ~slash /\ Names(FirstWord(r.record \o part))]

\* End of the text: an action list left open is an error whose record counts,
\* one left open by a backslash is never evaluated.
ParseEnd(p) ==
  LET q == ParseLine(p)
  IN  [q EXCEPT !.refused = @ \/ (q.in_backticks /\ Names(FirstWord(q.record)))]
=============================================================================
