--------------------------- MODULE RulesScanProofs ---------------------------
(***************************************************************************)
(* For texts of any length, any directive and any buffer that holds it:    *)
(* the scanner judges a text as the parser does, though it keeps one word  *)
(* and two bytes of what the parser keeps all of.                          *)
(***************************************************************************)
EXTENDS RulesScan, SequenceTheorems, WellFoundedInduction, TLAPS

Solid(q) == \A k \in 1..Len(q) : q[k] # "blank"

\* The bytes up to the first blank hold more than any directive.
Long(q) == Len(q) > Len(Directive) /\ \A k \in 1..(Len(Directive) + 1) : q[k] # "blank"

\* w is the part of q before its first blank.
Cut(w, q) ==
  /\ Len(w) < Len(q) /\ Solid(w) /\ q[Len(w) + 1] = "blank"
  /\ \A k \in 1..Len(w) : q[k] = w[k]

\* The first word of q has a backtick, which no directive has.
Ticked(q) == \E k \in 1..Len(q) : q[k] = "backtick" /\ \A j \in 1..k : q[j] # "blank"

\* The line so far: its first and its last byte that are not blank.
Inked(l, a, b) ==
  /\ a \in 1..Len(l) /\ b \in a..Len(l) /\ l[a] # "blank" /\ l[b] # "blank"
  /\ \A k \in 1..Len(l) : k < a \/ k > b => l[k] = "blank"

\* The bytes of the record before this line, and with it.
Live == ~Ignored(s)
Base == IF p.open THEN p.record ELSE <<>>
Seen == IF Live THEN Base \o Trim(p.text) ELSE Base

ScanType ==
  [line : Nat \ {0}, rec_line : Nat, in_record : BOOLEAN, in_backticks : BOOLEAN,
   word_done : BOOLEAN, first : (Byte \ {"blank"}) \cup {None},
   last : (Byte \ {"blank"}) \cup {None}, word : Seq(Byte \ {"blank"})]

ParserType ==
  [text : Seq(Byte), no : Nat \ {0}, record : Seq(Byte), open : BOOLEAN, start : Nat,
   in_backticks : BOOLEAN, loose : BOOLEAN, refused : BOOLEAN]

TypeInv ==
  /\ pc \in {"open", "scan", "unread", "accepted", "refused"}
  /\ bytes \in 0..MaxText
  /\ s \in ScanType /\ p \in ParserType
  /\ s.line <= bytes + 1 /\ s.rec_line <= s.line /\ Len(s.word) <= WordCap

\* The line: the scanner's two bytes of it.
LineInv ==
  /\ s.line = p.no
  /\ s.first = None => s.last = None /\ \A k \in 1..Len(p.text) : p.text[k] = "blank"
  /\ s.first # None =>
       \E a, b \in 1..Len(p.text) :
         Inked(p.text, a, b) /\ p.text[a] = s.first /\ p.text[b] = s.last

\* The record: where it started, and whether it goes on.
RecordInv ==
  /\ s.in_backticks = p.in_backticks
  /\ s.in_record = (p.open \/ Live)
  /\ p.open => s.rec_line = p.start
  /\ ~p.open /\ Live => s.rec_line = p.no
  /\ p.in_backticks => p.open /\ \E k \in 1..Len(p.record) : p.record[k] = "backtick"

\* The first word of the record.  While it is collected it is all there is of
\* the record; after that it is too long for a directive, or it was ended by a
\* blank: inside the record or so far behind it.  A line that continues the
\* record behind such a blank appends to a word the scanner takes for complete:
\* that word has a backtick, for the parser as well, or is excused as loose.
Collecting ==
  s.word = Seen /\ Solid(Seen) /\ (Live => p.text[Len(p.text)] # "blank")
Overran == s.word = <<>> /\ Long(Seen) /\ (Live => Len(Seen) > Len(Directive) + 1)
Pending ==
  /\ Live /\ s.word = Seen /\ Solid(Seen) /\ Seen # <<>>
  /\ p.text[Len(p.text)] = "blank"
Loose == p.open /\ p.loose /\ \E k \in 1..Len(s.word) : s.word[k] = "backslash"
WordInv ==
  /\ ~s.word_done => Collecting
  /\ s.word_done =>
       /\ s.in_record
       /\ \/ Overran
          \/ Cut(s.word, Seen)
          \/ Pending
          \/ Ticked(s.word) /\ Ticked(Seen)
          \/ Loose

\* No verdict is outstanding while the scan goes on.
VerdictInv == (p.open => ~p.refused) /\ (p.refused => p.loose)

Scanning == LineInv /\ RecordInv /\ WordInv /\ VerdictInv

IInv ==
  /\ TypeInv
  /\ pc \in {"open", "scan"} => Scanning
  /\ NoFalseRefusal /\ RefusedAtItsLine /\ NoBypass

-----------------------------------------------------------------------------
(* Lines and records *)

\* Minima, maxima and what CHOOSE makes of them.
LEMMA MinIs ==
  ASSUME NEW S \in SUBSET Nat, NEW m \in S, \A y \in S : m <= y
  PROVE  Min(S) = m
<1>1. \E x \in S : \A y \in S : x <= y
  OBVIOUS
<1>2. Min(S) \in S /\ \A y \in S : Min(S) <= y
  BY <1>1 DEF Min
<1>3. Min(S) \in Nat /\ m \in Nat /\ Min(S) <= m /\ m <= Min(S)
  BY <1>2
<1> QED
  BY <1>3

LEMMA MaxIs ==
  ASSUME NEW S \in SUBSET Nat, NEW m \in S, \A y \in S : m >= y
  PROVE  Max(S) = m
<1>1. \E x \in S : \A y \in S : x >= y
  OBVIOUS
<1>2. Max(S) \in S /\ \A y \in S : Max(S) >= y
  BY <1>1 DEF Max
<1>3. Max(S) \in Nat /\ m \in Nat /\ Max(S) >= m /\ m >= Max(S)
  BY <1>2
<1> QED
  BY <1>3

\* A set of naturals that is not empty has a smallest element.
LEMMA NatMin ==
  ASSUME NEW T \in SUBSET Nat, T # {}
  PROVE  \E x \in T : \A y \in T : x <= y
<1> DEFINE R == OpToRel(<, Nat)
<1>1. IsWellFoundedOn(R, Nat)
  BY NatLessThanWellFounded
<1>2. \A x, y \in Nat : <<y, x>> \in R <=> y < x
  BY DEF OpToRel
<1> HIDE DEF R
<1>3. PICK x \in T : \A y \in T : ~ (<<y, x>> \in R)
  BY <1>1, WFMin
<1>4. ASSUME NEW y \in T PROVE x <= y
  <2>1. x \in Nat /\ y \in Nat /\ ~(<<y, x>> \in R)
    BY <1>3
  <2>2. ~(y < x)
    BY <1>2, <2>1
  <2> QED
    BY <2>1, <2>2
<1> QED
  BY <1>4

\* What is left of a line without its blanks.
LEMMA TrimIs ==
  ASSUME NEW l \in Seq(Byte), NEW a, NEW b, Inked(l, a, b)
  PROVE  /\ Trim(l) = SubSeq(l, a, b) /\ Trim(l) \in Seq(Byte)
         /\ Len(Trim(l)) = b - a + 1
         /\ \A k \in 1..Len(Trim(l)) : Trim(l)[k] = l[a + k - 1]
         /\ Trim(l)[1] = l[a] /\ Last(Trim(l)) = l[b] /\ Trim(l) # <<>>
<1> DEFINE ink == {k \in DOMAIN l : l[k] # "blank"}
<1>1. DOMAIN l = 1..Len(l) /\ Len(l) \in Nat
  OBVIOUS
<1>2. a \in ink /\ b \in ink /\ ink \in SUBSET Nat
  BY <1>1 DEF Inked
<1>3. \A y \in ink : a <= y /\ b >= y
  BY <1>1 DEF Inked
<1>4. Min(ink) = a /\ Max(ink) = b
  BY <1>2, <1>3, MinIs, MaxIs
<1>5. Trim(l) = SubSeq(l, a, b)
  BY <1>2, <1>4 DEF Trim
<1>6. a \in Nat /\ b \in Nat /\ 1 <= a /\ a <= b /\ b <= Len(l)
  BY <1>1 DEF Inked
<1>7. \A k \in a..b : l[k] \in Byte
  BY <1>1, <1>6
<1>8. /\ SubSeq(l, a, b) \in Seq(Byte) /\ Len(SubSeq(l, a, b)) = b - a + 1
      /\ \A k \in 1..(b - a + 1) : SubSeq(l, a, b)[k] = l[a + k - 1]
  BY <1>6, <1>7, SubSeqProperties
<1>9. SubSeq(l, a, b)[1] = l[a] /\ SubSeq(l, a, b)[b - a + 1] = l[b]
  BY <1>6, <1>8
<1> QED
  BY <1>5, <1>6, <1>8, <1>9 DEF Last

LEMMA TrimNone ==
  ASSUME NEW l \in Seq(Byte), \A k \in 1..Len(l) : l[k] = "blank"
  PROVE  Trim(l) = <<>>
BY DEF Trim

\* The first word of a record, in the cases the scanner tells apart.
LEMMA WordSolid ==
  ASSUME NEW q \in Seq(Byte), Solid(q)
  PROVE  FirstWord(q) = q
BY DEF FirstWord, Solid

LEMMA WordCut ==
  ASSUME NEW q \in Seq(Byte), NEW w \in Seq(Byte), Cut(w, q)
  PROVE  FirstWord(q) = w
<1> DEFINE gaps == {k \in DOMAIN q : q[k] = "blank"}
           n == Len(w)
<1>1. n \in Nat /\ Len(q) \in Nat /\ DOMAIN q = 1..Len(q) /\ n < Len(q)
  BY DEF Cut
<1>2. n + 1 \in gaps /\ gaps \in SUBSET Nat
  BY <1>1 DEF Cut
<1>3. \A y \in gaps : n + 1 <= y
  BY <1>1 DEF Cut, Solid
<1>4. Min(gaps) = n + 1
  BY <1>2, <1>3, MinIs
<1>5. FirstWord(q) = SubSeq(q, 1, n)
  <2>1. FirstWord(q) = SubSeq(q, 1, Min(gaps) - 1)
    BY <1>2 DEF FirstWord
  <2>2. (n + 1) - 1 = n
    BY <1>1
  <2> QED
    BY <1>4, <2>1, <2>2
<1>6. /\ SubSeq(q, 1, n) \in Seq(Byte) /\ Len(SubSeq(q, 1, n)) = n
      /\ \A k \in 1..n : SubSeq(q, 1, n)[k] = q[k]
  BY <1>1
<1>7. \A k \in 1..n : SubSeq(q, 1, n)[k] = w[k]
  BY <1>6 DEF Cut
<1> QED
  BY <1>5, <1>6, <1>7, SeqEqual

\* In any case it is a prefix without blanks, as far as there are none.
LEMMA WordPrefix ==
  ASSUME NEW q \in Seq(Byte)
  PROVE  /\ FirstWord(q) \in Seq(Byte) /\ Len(FirstWord(q)) <= Len(q)
         /\ \A k \in 1..Len(FirstWord(q)) : FirstWord(q)[k] = q[k]
         /\ \A k \in 1..Len(q) : (\A j \in 1..k : q[j] # "blank") => k <= Len(FirstWord(q))
<1> DEFINE gaps == {k \in DOMAIN q : q[k] = "blank"}
<1>1. Len(q) \in Nat /\ DOMAIN q = 1..Len(q)
  OBVIOUS
<1>2. CASE gaps = {}
  BY <1>1, <1>2 DEF FirstWord
<1>3. CASE gaps # {}
  <2>1. gaps \in SUBSET Nat
    BY <1>1
  <2>2. PICK g \in gaps : \A y \in gaps : g <= y
    BY <1>3, <2>1, NatMin
  <2>3. Min(gaps) = g
    BY <2>1, <2>2, MinIs
  <2>4. FirstWord(q) = SubSeq(q, 1, g - 1)
    BY <1>3, <2>3 DEF FirstWord
  <2>5. g \in 1..Len(q) /\ q[g] = "blank"
    BY <1>1, <2>2
  <2>6. /\ SubSeq(q, 1, g - 1) \in Seq(Byte) /\ Len(SubSeq(q, 1, g - 1)) = g - 1
        /\ \A k \in 1..(g - 1) : SubSeq(q, 1, g - 1)[k] = q[k]
    BY <1>1, <2>5
  <2> QED
    BY <1>1, <2>4, <2>5, <2>6
<1> QED
  BY <1>2, <1>3

\* Words that are no directive.
LEMMA NotNamed ==
  ASSUME NEW w \in Seq(Byte)
  PROVE  /\ Len(w) > Len(Directive) => ~Names(w)
         /\ \A k \in 1..Len(w) : w[k] \in {"backtick", "backslash"} => ~Names(w)
         /\ w = <<>> => ~Names(w)
BY DirectiveAssumption DEF Names

LEMMA WordNotNamed ==
  ASSUME NEW q \in Seq(Byte), Long(q) \/ Ticked(q)
  PROVE  ~Names(FirstWord(q))
<1> DEFINE w == FirstWord(q)
<1>1. /\ w \in Seq(Byte) /\ Len(w) <= Len(q) /\ \A k \in 1..Len(w) : w[k] = q[k]
      /\ \A k \in 1..Len(q) : (\A j \in 1..k : q[j] # "blank") => k <= Len(w)
  BY WordPrefix
<1>2. Len(q) \in Nat /\ Len(w) \in Nat /\ Len(Directive) \in Nat
  BY <1>1, DirectiveAssumption
<1> HIDE DEF w
<1>3. CASE Long(q)
  <2>1. Len(Directive) + 1 <= Len(w)
    BY <1>1, <1>2, <1>3 DEF Long
  <2> QED
    BY <1>1, <1>2, <2>1, NotNamed DEF w
<1>4. CASE Ticked(q)
  <2>1. PICK k \in 1..Len(q) : q[k] = "backtick" /\ \A j \in 1..k : q[j] # "blank"
    BY <1>4 DEF Ticked
  <2>2. k \in 1..Len(w) /\ w[k] = "backtick"
    BY <1>1, <1>2, <2>1
  <2> QED
    BY <1>1, <2>2, NotNamed DEF w
<1> QED
  BY <1>3, <1>4

-----------------------------------------------------------------------------
(* The end of a line *)

\* What the scanner's two bytes say of a line that is not ignored.
LEMMA LiveLine ==
  ASSUME TypeInv, LineInv, Live
  PROVE  LET l == Trim(p.text)
         IN  /\ p.text \in Seq(Byte) /\ l \in Seq(Byte) /\ Len(l) >= 1 /\ l # <<>>
             /\ l[1] = s.first /\ l[Len(l)] = s.last /\ s.last # "blank" /\ s.last # None
             /\ l[1] # "hash" /\ s.last \in Byte /\ Len(p.text) >= 1
<1>1. p.text \in Seq(Byte) /\ s.first # None /\ s.first # "hash"
  BY DEF TypeInv, ParserType, Live, Ignored
<1>2. PICK a, b \in 1..Len(p.text) :
        Inked(p.text, a, b) /\ p.text[a] = s.first /\ p.text[b] = s.last
  BY <1>1 DEF LineInv
<1>3. s.last # "blank" /\ s.last \in Byte /\ s.last # None
  <2>1. s.last # "blank" /\ s.last \in Byte
    BY <1>1, <1>2 DEF Inked
  <2> QED
    BY <2>1, DirectiveAssumption DEF Byte, None
<1>4. /\ Trim(p.text) \in Seq(Byte) /\ Len(Trim(p.text)) = b - a + 1
      /\ Trim(p.text)[1] = s.first /\ Last(Trim(p.text)) = s.last /\ Trim(p.text) # <<>>
  <2>1. Trim(p.text) \in Seq(Byte) /\ Trim(p.text) # <<>>
    BY <1>1, <1>2, TrimIs
  <2>2. Trim(p.text)[1] = p.text[a] /\ Last(Trim(p.text)) = p.text[b]
    BY <1>1, <1>2, TrimIs
  <2>3. Len(Trim(p.text)) = b - a + 1
    BY <1>1, <1>2, TrimIs
  <2> QED
    BY <1>2, <2>1, <2>2, <2>3
<1>5. b - a + 1 >= 1 /\ Len(p.text) >= 1
  BY <1>1, <1>2 DEF Inked
<1> QED
  BY <1>1, <1>3, <1>4, <1>5 DEF Last

LEMMA Bases ==
  ASSUME TypeInv
  PROVE  Base \in Seq(Byte) /\ Len(Base) \in Nat
BY DEF TypeInv, ParserType, Base

\* The record with this line, which the line's last byte ends.
LEMMA SeenLive ==
  ASSUME TypeInv, LineInv, Live
  PROVE  LET l == Trim(p.text)
         IN  /\ Seen = Base \o l /\ Seen \in Seq(Byte) /\ Len(Seen) = Len(Base) + Len(l)
             /\ Len(Seen) \in Nat /\ Len(Seen) >= 1 /\ Seen # <<>>
             /\ Seen[Len(Seen)] = s.last /\ s.last # "blank"
             /\ \A k \in 1..Len(Base) : Seen[k] = Base[k]
<1> DEFINE l == Trim(p.text)
<1>1. l \in Seq(Byte) /\ Len(l) >= 1 /\ l[Len(l)] = s.last /\ s.last # "blank" /\ Len(l) \in Nat
  BY LiveLine
<1>2. Base \in Seq(Byte) /\ Len(Base) \in Nat
  BY Bases
<1>3. Seen = Base \o l
  BY DEF Seen
<1> HIDE DEF l
<1>4. /\ Base \o l \in Seq(Byte) /\ Len(Base \o l) = Len(Base) + Len(l)
      /\ \A k \in 1..(Len(Base) + Len(l)) :
           (Base \o l)[k] = IF k <= Len(Base) THEN Base[k] ELSE l[k - Len(Base)]
  BY <1>1, <1>2, ConcatProperties
<1>5. Seen \in Seq(Byte) /\ Len(Seen) = Len(Base) + Len(l) /\ Len(Seen) \in Nat /\ Len(Seen) >= 1
  BY <1>1, <1>2, <1>3, <1>4
<1>6. Seen[Len(Seen)] = s.last
  <2>1. Len(Seen) \in 1..(Len(Base) + Len(l)) /\ ~(Len(Seen) <= Len(Base))
        /\ Len(Seen) - Len(Base) = Len(l)
    BY <1>1, <1>2, <1>5
  <2> QED
    BY <1>1, <1>3, <1>4, <2>1
<1>7. \A k \in 1..Len(Base) : Seen[k] = Base[k]
  BY <1>1, <1>2, <1>3, <1>4
<1> QED
  BY <1>1, <1>3, <1>5, <1>6, <1>7 DEF l

LEMMA SeenType ==
  ASSUME TypeInv, LineInv
  PROVE  Seen \in Seq(Byte) /\ Len(Seen) \in Nat
<1>1. CASE Live
  BY <1>1, SeenLive
<1>2. CASE ~Live
  BY <1>2, Bases DEF Seen
<1> QED
  BY <1>1, <1>2

\* The parser skips the lines the scanner ignores ...
LEMMA ParseIgnored ==
  ASSUME TypeInv, LineInv, ~Live
  PROVE  ParseLine(p) = [p EXCEPT !.text = <<>>, !.no = @ + 1]
<1>1. p.text \in Seq(Byte) /\ s.first \in {None, "hash"}
  BY DEF TypeInv, ParserType, Live, Ignored
<1>2. Trim(p.text) = <<>> \/ Trim(p.text)[1] = "hash"
  <2>1. CASE s.first = None
    BY <1>1, <2>1, TrimNone DEF LineInv
  <2>2. CASE s.first # None
    <3>1. PICK a, b \in 1..Len(p.text) :
            Inked(p.text, a, b) /\ p.text[a] = s.first /\ p.text[b] = s.last
      BY <2>2 DEF LineInv
    <3>2. Trim(p.text)[1] = p.text[a]
      BY <1>1, <3>1, TrimIs
    <3> QED
      BY <1>1, <2>2, <3>1, <3>2
  <2> QED
    BY <2>1, <2>2
<1> QED
  BY <1>2 DEF ParseLine

\* ... and makes the same of the others.
Slash == ~Ticks(s) /\ s.last = "backslash"
Part == IF Slash THEN Front(Trim(p.text)) ELSE Trim(p.text)

LEMMA ParseLive ==
  ASSUME TypeInv, LineInv, RecordInv, Live
  PROVE  LET q == ParseLine(p)
         IN  /\ q.text = <<>> /\ q.no = p.no + 1 /\ q.record = Base \o Part
             /\ q.open = (Ticks(s) \/ Slash) /\ q.in_backticks = Ticks(s)
             /\ q.start = (IF p.open THEN p.start ELSE p.no)
             /\ q.loose = ((p.open /\ p.loose) \/ (Slash /\ Last(p.text) = "blank"))
             /\ q.refused = (~Ticks(s) /\ ~Slash /\ Names(FirstWord(Base \o Part)))
<1> DEFINE l == Trim(p.text)
           ticks == IF p.in_backticks THEN l[1] # "backtick" ELSE Last(l) = "backtick"
           slash == ~ticks /\ Last(l) = "backslash"
           part == IF slash THEN Front(l) ELSE l
           next == [p EXCEPT !.text = <<>>, !.no = @ + 1]
           fresh == [next EXCEPT !.record = <<>>, !.start = p.no,
                                 !.loose = FALSE, !.refused = FALSE]
           r == IF p.open THEN next ELSE fresh
           q == [r EXCEPT !.record = @ \o part,
                       !.open = ticks \/ slash,
                       !.in_backticks = ticks,
                       !.loose = @ \/ (slash /\ Last(p.text) = "blank"),
                       !.refused = ~ticks /\ ~slash /\ Names(FirstWord(r.record \o part))]
<1>1. l[1] = s.first /\ Last(l) = s.last /\ l # <<>> /\ l[1] # "hash"
  BY LiveLine DEF Last
<1>2. ParseLine(p) = q
  BY <1>1 DEF ParseLine
<1>3. ticks = Ticks(s) /\ slash = Slash
  BY <1>1 DEF Ticks, Slash, RecordInv
<1>4. part = Part
  BY <1>3 DEF Part
<1>5. p \in ParserType
  BY DEF TypeInv
<1>6. /\ r.record = Base /\ r.start = (IF p.open THEN p.start ELSE p.no)
      /\ r.loose = (p.open /\ p.loose) /\ r.text = <<>> /\ r.no = p.no + 1
      /\ r \in ParserType
  <2>1. /\ next \in ParserType /\ next.record = p.record /\ next.start = p.start
        /\ next.loose = p.loose /\ next.text = <<>> /\ next.no = p.no + 1
    <3>1. p.no + 1 \in Nat \ {0} /\ <<>> \in Seq(Byte)
      BY <1>5 DEF ParserType
    <3>2. next = [p EXCEPT !.text = <<>>, !.no = p.no + 1]
      BY <1>5 DEF ParserType
    <3> HIDE DEF next
    <3> QED
      BY <1>5, <3>1, <3>2 DEF ParserType
  <2>2. p.no \in Nat /\ <<>> \in Seq(Byte)
    BY <1>5 DEF ParserType
  <2> HIDE DEF next
  <2>3. /\ fresh \in ParserType /\ fresh.record = <<>> /\ fresh.start = p.no
        /\ fresh.loose = FALSE /\ fresh.text = next.text /\ fresh.no = next.no
    BY <2>1, <2>2 DEF ParserType
  <2> HIDE DEF fresh
  <2>4. p.open \in BOOLEAN /\ p.loose \in BOOLEAN
    BY <1>5 DEF ParserType
  <2>5. CASE p.open
    <3>1. r = next /\ Base = p.record
      BY <2>5 DEF Base
    <3> QED
      BY <2>1, <2>4, <2>5, <3>1
  <2>6. CASE ~p.open
    <3>1. r = fresh /\ Base = <<>>
      BY <2>6 DEF Base
    <3> QED
      BY <2>1, <2>3, <2>6, <3>1
  <2> QED
    BY <2>5, <2>6
<1> HIDE DEF l, ticks, slash, part, r
<1>7. /\ q.text = r.text /\ q.no = r.no /\ q.record = r.record \o part
      /\ q.open = (ticks \/ slash) /\ q.in_backticks = ticks /\ q.start = r.start
      /\ q.loose = (r.loose \/ (slash /\ Last(p.text) = "blank"))
      /\ q.refused = (~ticks /\ ~slash /\ Names(FirstWord(r.record \o part)))
  BY <1>6 DEF ParserType
<1> HIDE DEF q
<1> QED
  BY <1>2, <1>3, <1>4, <1>6, <1>7

\* Whether a word of the scanner is refused, and the record q it stands for.
Stands(w, q, loose) ==
  \/ w = q /\ Solid(q)
  \/ w = <<>> /\ Long(q)
  \/ Cut(w, q)
  \/ Ticked(w) /\ Ticked(q)
  \/ loose /\ \E k \in 1..Len(w) : w[k] = "backslash"

LEMMA SameVerdict ==
  ASSUME NEW w \in Seq(Byte), NEW q \in Seq(Byte), NEW loose \in BOOLEAN, Stands(w, q, loose)
  PROVE  /\ Names(w) => Names(FirstWord(q))
         /\ ~loose => (Names(w) <=> Names(FirstWord(q)))
<1>1. CASE w = q /\ Solid(q)
  BY <1>1, WordSolid
<1>2. CASE w = <<>> /\ Long(q)
  BY <1>2, NotNamed, WordNotNamed
<1>3. CASE Cut(w, q)
  BY <1>3, WordCut
<1>4. CASE Ticked(w) /\ Ticked(q)
  <2>1. ~Names(w)
    BY <1>4, NotNamed DEF Ticked
  <2> QED
    BY <1>4, <2>1, WordNotNamed
<1>5. CASE loose /\ \E k \in 1..Len(w) : w[k] = "backslash"
  BY <1>5, NotNamed
<1> QED
  BY <1>1, <1>2, <1>3, <1>4, <1>5 DEF Stands

LEMMA WordTypes ==
  ASSUME TypeInv
  PROVE  /\ s.word \in Seq(Byte) /\ Len(s.word) \in Nat /\ s.word_done \in BOOLEAN
         /\ p.open \in BOOLEAN /\ p.loose \in BOOLEAN /\ p.in_backticks \in BOOLEAN
         /\ p.refused \in BOOLEAN /\ s.in_backticks \in BOOLEAN /\ s.in_record \in BOOLEAN
         /\ p.record \in Seq(Byte) /\ p.text \in Seq(Byte) /\ Len(p.text) \in Nat
<1>1. s.word \in Seq(Byte \ {"blank"})
  BY DEF TypeInv, ScanType
<1>2. s.word \in Seq(Byte)
  BY <1>1
<1> QED
  BY <1>2 DEF TypeInv, ScanType, ParserType

\* The scanner's word stands for the record so far.
LEMMA WordStands ==
  ASSUME TypeInv, WordInv
  PROVE  Stands(s.word, Seen, p.open /\ p.loose)
BY WordTypes DEF WordInv, Collecting, Overran, Pending, Loose, Stands

\* The last byte of a record dropped.
LEMMA Dropped ==
  ASSUME NEW x \in Seq(Byte), NEW q \in Seq(Byte), NEW w \in Seq(Byte),
         Len(x) >= 1, Len(q) = Len(x) - 1, \A k \in 1..(Len(x) - 1) : q[k] = x[k]
  PROVE  /\ Solid(x) => Solid(q)
         /\ Long(x) /\ Len(x) > Len(Directive) + 1 => Long(q)
         /\ Cut(w, x) /\ x[Len(x)] # "blank" => Cut(w, q)
         /\ Ticked(x) /\ x[Len(x)] # "backtick" => Ticked(q)
<1>0. Len(x) \in Nat /\ Len(q) \in Nat /\ Len(w) \in Nat /\ Len(Directive) \in Nat
  BY DirectiveAssumption
<1>1. Solid(x) => Solid(q)
  BY <1>0 DEF Solid
<1>2. Long(x) /\ Len(x) > Len(Directive) + 1 => Long(q)
  BY <1>0, SMTT(30) DEF Long
<1>3. ASSUME Cut(w, x), x[Len(x)] # "blank" PROVE Cut(w, q)
  <2>1. Len(w) + 1 \in 1..(Len(x) - 1)
    BY <1>0, <1>3 DEF Cut
  <2>2. \A k \in 1..Len(w) : k \in 1..(Len(x) - 1)
    BY <1>0, <2>1
  <2> QED
    BY <1>0, <1>3, <2>1, <2>2 DEF Cut
<1>4. ASSUME Ticked(x), x[Len(x)] # "backtick" PROVE Ticked(q)
  <2>1. PICK k \in 1..Len(x) : x[k] = "backtick" /\ \A j \in 1..k : x[j] # "blank"
    BY <1>4 DEF Ticked
  <2>2. k \in 1..(Len(x) - 1) /\ \A j \in 1..k : j \in 1..(Len(x) - 1)
    BY <1>0, <1>4, <2>1
  <2> QED
    BY <1>0, <2>1, <2>2 DEF Ticked
<1> QED
  BY <1>1, <1>2, <1>3, <1>4

\* And for the record a line leaves open behind it.
LEMMA ContinuedWord ==
  ASSUME TypeInv, LineInv, RecordInv, WordInv, Live, Ticks(s) \/ Slash
  PROVE  LET w == DropBackslash(s)
             q == Base \o Part
             loose == (p.open /\ p.loose) \/ (Slash /\ Last(p.text) = "blank")
         IN  /\ w \in Seq(Byte \ {"blank"}) /\ Len(w) <= Len(s.word) /\ q \in Seq(Byte)
             /\ ~s.word_done => w = q /\ Solid(q)
             /\ s.word_done => \/ w = <<>> /\ Long(q)
                               \/ Cut(w, q)
                               \/ Ticked(w) /\ Ticked(q)
                               \/ loose /\ \E k \in 1..Len(w) : w[k] = "backslash"
             /\ Ticks(s) => \E k \in 1..Len(q) : q[k] = "backtick"
<1> DEFINE l == Trim(p.text)
           n == Len(Seen)
           q == Base \o Part
           w == DropBackslash(s)
           loose == (p.open /\ p.loose) \/ (Slash /\ Last(p.text) = "blank")
<1>1. /\ Seen = Base \o l /\ Seen \in Seq(Byte) /\ n = Len(Base) + Len(l) /\ n \in Nat /\ n >= 1
      /\ Seen[n] = s.last /\ s.last # "blank" /\ \A k \in 1..Len(Base) : Seen[k] = Base[k]
  BY SeenLive
<1>2. Base \in Seq(Byte) /\ Len(Base) \in Nat /\ l \in Seq(Byte) /\ Len(l) >= 1 /\ Len(l) \in Nat
  BY Bases, LiveLine
<1>3. s.word \in Seq(Byte \ {"blank"}) /\ s.word \in Seq(Byte) /\ Len(s.word) \in Nat
  BY WordTypes DEF TypeInv, ScanType
<1>4. CASE Slash
  <2>1. q \in Seq(Byte) /\ Len(q) = n - 1 /\ \A k \in 1..(n - 1) : q[k] = Seen[k]
    <3>1. Part = Front(l)
      BY <1>4 DEF Part
    <3>2. /\ Front(l) \in Seq(Byte) /\ Len(Front(l)) = Len(l) - 1
          /\ \A k \in 1..(Len(l) - 1) : Front(l)[k] = l[k]
      BY <1>2 DEF Front
    <3> HIDE DEF l
    <3>3. /\ Base \o Front(l) \in Seq(Byte) /\ Len(Base \o Front(l)) = Len(Base) + (Len(l) - 1)
          /\ \A k \in 1..(Len(Base) + (Len(l) - 1)) :
               (Base \o Front(l))[k] = IF k <= Len(Base) THEN Base[k] ELSE Front(l)[k - Len(Base)]
      <4>1. Len(Front(l)) = Len(l) - 1 /\ Front(l) \in Seq(Byte)
        BY <3>2
      <4>2. /\ Base \o Front(l) \in Seq(Byte) /\ Len(Base \o Front(l)) = Len(Base) + Len(Front(l))
            /\ \A k \in 1..(Len(Base) + Len(Front(l))) :
                 (Base \o Front(l))[k] = IF k <= Len(Base) THEN Base[k] ELSE Front(l)[k - Len(Base)]
        BY <1>2, <4>1, ConcatProperties
      <4> QED
        BY <4>1, <4>2
    <3>4. \A k \in 1..(Len(Base) + Len(l)) :
            (Base \o l)[k] = IF k <= Len(Base) THEN Base[k] ELSE l[k - Len(Base)]
      BY <1>2, ConcatProperties
    <3>5. ASSUME NEW k \in 1..(n - 1) PROVE q[k] = Seen[k]
      <4>1. k \in 1..(Len(Base) + (Len(l) - 1)) /\ k \in 1..(Len(Base) + Len(l)) /\ k \in Nat
        BY <1>1, <1>2
      <4>2. CASE k <= Len(Base)
        BY <1>1, <3>1, <3>3, <3>4, <4>1, <4>2
      <4>3. CASE ~(k <= Len(Base))
        <5>1. k - Len(Base) \in 1..(Len(l) - 1)
          BY <1>2, <4>1, <4>3
        <5> QED
          BY <1>1, <3>1, <3>2, <3>3, <3>4, <4>1, <4>3, <5>1
      <4> QED
        BY <4>2, <4>3
    <3> QED
      BY <1>1, <1>2, <3>1, <3>3, <3>5
  <2>2. ~Ticks(s) /\ s.last = "backslash"
    BY <1>4 DEF Slash
  <2> HIDE DEF q, l
  <2>a. /\ Solid(Seen) => Solid(q)
        /\ Long(Seen) /\ Len(Seen) > Len(Directive) + 1 => Long(q)
        /\ Cut(s.word, Seen) => Cut(s.word, q)
        /\ Ticked(Seen) => Ticked(q)
    <3>1. Len(Seen) >= 1 /\ Len(q) = Len(Seen) - 1 /\ \A k \in 1..(Len(Seen) - 1) : q[k] = Seen[k]
      BY <1>1, <2>1
    <3>2. Seen[Len(Seen)] # "blank" /\ Seen[Len(Seen)] # "backtick"
      BY <1>1, <2>2
    <3> QED
      BY <1>1, <1>3, <2>1, <3>1, <3>2, Dropped
  <2>3. CASE ~s.word_done
    <3>1. s.word = Seen /\ Solid(Seen)
      BY <2>3 DEF WordInv, Collecting
    <3>2. w = Front(s.word)
      BY <1>1, <1>3, <2>2, <2>3, <3>1 DEF DropBackslash, Last
    <3>3. /\ Front(s.word) \in Seq(Byte \ {"blank"}) /\ Len(Front(s.word)) = n - 1
          /\ \A k \in 1..(n - 1) : Front(s.word)[k] = s.word[k]
      BY <1>1, <1>3, <3>1 DEF Front
    <3>4. Front(s.word) \in Seq(Byte)
      BY <3>3
    <3>5. Front(s.word) = q
      BY <2>1, <3>1, <3>3, <3>4, SeqEqual
    <3>6. Solid(q)
      BY <2>a, <3>1
    <3> QED
      BY <1>1, <2>1, <2>2, <2>3, <3>1, <3>2, <3>3, <3>5, <3>6 DEF q
  <2>4. CASE s.word_done
    <3>1. w = s.word
      BY <2>4 DEF DropBackslash
    <3>2. CASE Overran
      <4>1. Long(q)
        BY <2>a, <3>2 DEF Overran
      <4> QED
        BY <1>3, <2>1, <2>2, <2>4, <3>1, <3>2, <4>1 DEF Overran, q
    <3>3. CASE Cut(s.word, Seen)
      <4>2. Cut(s.word, q)
        BY <2>a, <3>3
      <4> QED
        BY <1>3, <2>1, <2>2, <2>4, <3>1, <4>2 DEF q
    <3>4. CASE Pending
      <4>1. Last(p.text) = "blank" /\ s.word[n] = "backslash" /\ n \in 1..Len(s.word)
        BY <1>1, <2>2, <3>4 DEF Pending, Last
      <4> QED
        BY <1>3, <1>4, <2>1, <2>2, <2>4, <3>1, <4>1 DEF q
    <3>5. CASE Ticked(s.word) /\ Ticked(Seen)
      <4>3. Ticked(q)
        BY <2>a, <3>5
      <4> QED
        BY <1>3, <2>1, <2>2, <2>4, <3>1, <3>5, <4>3 DEF q
    <3>6. CASE Loose
      BY <1>3, <2>1, <2>2, <2>4, <3>1, <3>6 DEF Loose, q
    <3> QED
      BY <2>4, <3>2, <3>3, <3>4, <3>5, <3>6 DEF WordInv
  <2> QED
    BY <2>3, <2>4
<1>5. CASE ~Slash
  <2>1. Ticks(s)
    BY <1>5
  <2>2. w = s.word /\ q = Seen
    BY <1>1, <1>5, <2>1 DEF DropBackslash, Part
  <2>3. \E k \in 1..n : Seen[k] = "backtick"
    <3>1. CASE s.in_backticks
      <4>1. p.in_backticks /\ p.open /\ \E k \in 1..Len(p.record) : p.record[k] = "backtick"
        BY <3>1 DEF RecordInv
      <4>2. Base = p.record
        BY <4>1 DEF Base
      <4>3. PICK k \in 1..Len(Base) : Base[k] = "backtick"
        BY <4>1, <4>2
      <4>4. k \in 1..n /\ Seen[k] = "backtick"
        BY <1>1, <1>2, <4>3
      <4> QED
        BY <4>4
    <3>2. CASE ~s.in_backticks
      BY <1>1, <2>1, <3>2 DEF Ticks
    <3> QED
      BY <3>1, <3>2
  <2>4. CASE ~s.word_done
    <3>1. s.word = Seen /\ Solid(Seen)
      BY <2>4 DEF WordInv, Collecting
    <3> QED
      BY <1>1, <1>3, <2>2, <2>3, <2>4, <3>1, SMTT(30)
  <2>5. CASE s.word_done
    <3>1. CASE Overran
      BY <1>1, <1>3, <2>2, <2>3, <2>5, <3>1 DEF Overran
    <3>2. CASE Cut(s.word, Seen)
      BY <1>1, <1>3, <2>2, <2>3, <2>5, <3>2
    <3>3. CASE Pending
      <4>1. Ticked(Seen) /\ s.word = Seen
        BY <1>1, <2>3, <3>3 DEF Pending, Ticked, Solid
      <4> QED
        BY <1>1, <1>3, <2>2, <2>3, <2>5, <4>1
    <3>4. CASE Ticked(s.word) /\ Ticked(Seen)
      BY <1>1, <1>3, <2>2, <2>3, <2>5, <3>4
    <3>5. CASE Loose
      BY <1>1, <1>3, <2>2, <2>3, <2>5, <3>5, SMTT(30) DEF Loose
    <3> QED
      BY <2>5, <3>1, <3>2, <3>3, <3>4, <3>5 DEF WordInv
  <2> QED
    BY <2>4, <2>5
<1> QED
  BY <1>4, <1>5

\* What scan_eol() leaves of the scanner's state.
LEMMA EolFields ==
  ASSUME TypeInv, LineInv, RecordInv, WordInv
  PROVE  LET e == scan_eol(s)
         IN  /\ e \in ScanType /\ e.line = s.line /\ e.rec_line = s.rec_line
             /\ e.first = None /\ e.last = None /\ Len(e.word) <= WordCap
             /\ ~Live => /\ e.in_record = s.in_record /\ e.in_backticks = s.in_backticks
                         /\ e.word_done = s.word_done /\ e.word = s.word
             /\ Live /\ (Ticks(s) \/ Slash) =>
                  /\ e.in_record = s.in_record /\ e.in_backticks = Ticks(s)
                  /\ e.word_done = s.word_done /\ e.word = DropBackslash(s)
             /\ Live /\ ~Ticks(s) /\ ~Slash =>
                  /\ e.in_record = FALSE /\ e.in_backticks = FALSE
                  /\ e.word_done = FALSE /\ e.word = <<>>
<1> DEFINE u == [s EXCEPT !.first = None, !.last = None]
<1>1. s \in ScanType /\ Len(s.word) <= WordCap /\ Len(s.word) \in Nat /\ WordCap \in Nat
  BY WordTypes, ScanAssumption DEF TypeInv
<1>2. /\ u \in ScanType /\ u.line = s.line /\ u.rec_line = s.rec_line
      /\ u.first = None /\ u.last = None /\ u.in_record = s.in_record
      /\ u.in_backticks = s.in_backticks /\ u.word_done = s.word_done /\ u.word = s.word
  BY <1>1 DEF ScanType
<1>3. Ticks(s) \in BOOLEAN /\ Slash \in BOOLEAN /\ Continues(s) = (Ticks(s) \/ Slash)
  BY DEF Ticks, Slash, Continues
<1> HIDE DEF u
<1>4. CASE ~Live
  <2>1. scan_eol(s) = u
    BY <1>4 DEF scan_eol, Live, u
  <2> QED
    BY <1>1, <1>2, <1>4, <2>1
<1>5. CASE Live /\ (Ticks(s) \/ Slash)
  <2>1. scan_eol(s) = [u EXCEPT !.in_backticks = Ticks(s), !.word = DropBackslash(s)]
    BY <1>3, <1>5 DEF scan_eol, Live, u
  <2>2. DropBackslash(s) \in Seq(Byte \ {"blank"}) /\ Len(DropBackslash(s)) <= Len(s.word)
    BY <1>5, ContinuedWord
  <2>3. Len(DropBackslash(s)) \in Nat
    BY <2>2
  <2>4. Len(DropBackslash(s)) <= WordCap
    BY <1>1, <2>2, <2>3
  <2> HIDE DEF Ticks, Slash
  <2>5. /\ scan_eol(s) \in ScanType /\ scan_eol(s).line = u.line
        /\ scan_eol(s).rec_line = u.rec_line /\ scan_eol(s).first = u.first
        /\ scan_eol(s).last = u.last /\ scan_eol(s).in_record = u.in_record
        /\ scan_eol(s).in_backticks = Ticks(s) /\ scan_eol(s).word_done = u.word_done
        /\ scan_eol(s).word = DropBackslash(s)
    BY <1>2, <1>3, <2>1, <2>2 DEF ScanType
  <2> QED
    BY <1>2, <1>5, <2>4, <2>5
<1>6. CASE Live /\ ~Ticks(s) /\ ~Slash
  <2>1. scan_eol(s) = [u EXCEPT !.in_backticks = FALSE, !.in_record = FALSE,
                                !.word_done = FALSE, !.word = <<>>]
    BY <1>3, <1>6 DEF scan_eol, Live, u
  <2>2. <<>> \in Seq(Byte \ {"blank"}) /\ Len(<<>>) <= WordCap
    BY <1>1
  <2>3. /\ scan_eol(s) \in ScanType /\ scan_eol(s).line = u.line
        /\ scan_eol(s).rec_line = u.rec_line /\ scan_eol(s).first = u.first
        /\ scan_eol(s).last = u.last /\ scan_eol(s).in_record = FALSE
        /\ scan_eol(s).in_backticks = FALSE /\ scan_eol(s).word_done = FALSE
        /\ scan_eol(s).word = <<>>
    BY <1>2, <2>1, <2>2 DEF ScanType
  <2> QED
    BY <1>2, <1>6, <2>2, <2>3
<1> QED
  BY <1>4, <1>5, <1>6

\* What the parser has after the line.
LEMMA ParseType ==
  ASSUME TypeInv, LineInv, RecordInv
  PROVE  /\ ParseLine(p) \in ParserType /\ ParseLine(p).no = p.no + 1
         /\ ParseLine(p).text = <<>>
<1>0. p \in ParserType
  BY DEF TypeInv
<1>1. p.no + 1 \in Nat \ {0} /\ <<>> \in Seq(Byte)
  BY <1>0 DEF ParserType
<1>2. CASE ~Live
  <2>1. ParseLine(p) = [p EXCEPT !.text = <<>>, !.no = p.no + 1]
    BY <1>0, <1>2, ParseIgnored DEF ParserType
  <2> QED
    BY <1>0, <1>1, <2>1 DEF ParserType
<1>3. CASE Live
  <2>1. Base \in Seq(Byte) /\ Trim(p.text) \in Seq(Byte) /\ Len(Trim(p.text)) >= 1
    BY <1>3, Bases, LiveLine
  <2>2. Front(Trim(p.text)) \in Seq(Byte)
    BY <2>1 DEF Front
  <2>3. Base \o Part \in Seq(Byte)
    BY <2>1, <2>2 DEF Part
  <2> DEFINE q == ParseLine(p)
  <2>4. /\ q.text = <<>> /\ q.no = p.no + 1
    BY <1>3, ParseLive
  <2> QED
    <3> DEFINE l == Trim(p.text)
               ticks == IF p.in_backticks THEN l[1] # "backtick" ELSE Last(l) = "backtick"
               slash == ~ticks /\ Last(l) = "backslash"
               part == IF slash THEN Front(l) ELSE l
               next == [p EXCEPT !.text = <<>>, !.no = @ + 1]
               fresh == [next EXCEPT !.record = <<>>, !.start = p.no,
                                     !.loose = FALSE, !.refused = FALSE]
               r == IF p.open THEN next ELSE fresh
    <3>1. l # <<>> /\ l[1] # "hash"
      BY <1>3, LiveLine
    <3>2. q = [r EXCEPT !.record = @ \o part, !.open = ticks \/ slash, !.in_backticks = ticks,
                        !.loose = @ \/ (slash /\ Last(p.text) = "blank"),
                        !.refused = ~ticks /\ ~slash /\ Names(FirstWord(r.record \o part))]
      BY <3>1 DEF ParseLine
    <3>3. next = [p EXCEPT !.text = <<>>, !.no = p.no + 1]
      BY <1>0 DEF ParserType
    <3>4. next \in ParserType
      <4> HIDE DEF next
      <4> QED
        BY <1>0, <1>1, <3>3 DEF ParserType
    <3>5. p.no \in Nat
      BY <1>0 DEF ParserType
    <3>6. fresh \in ParserType
      <4> HIDE DEF next
      <4> QED
        BY <1>1, <3>4, <3>5 DEF ParserType
    <3>7. r \in ParserType
      BY <3>4, <3>6
    <3>8. part \in Seq(Byte) /\ r.record \in Seq(Byte)
      BY <2>1, <2>2, <3>7 DEF ParserType
    <3> HIDE DEF l, part, r
    <3>9. r.record \o part \in Seq(Byte)
      BY <3>8
    <3>10. Names(FirstWord(r.record \o part)) \in BOOLEAN
      BY DEF Names
    <3>11. ticks \in BOOLEAN /\ slash \in BOOLEAN
      OBVIOUS
    <3> HIDE DEF ticks, slash
    <3>12. r.loose \in BOOLEAN
      BY <3>7 DEF ParserType
    <3>13. q \in ParserType
      BY <3>2, <3>7, <3>9, <3>10, <3>11, <3>12 DEF ParserType
    <3> QED
      BY <2>4, <3>13
<1> QED
  BY <1>2, <1>3

-----------------------------------------------------------------------------
(* The steps *)

\* A line that has just started.
LEMMA FreshLine ==
  ASSUME s'.first = None, s'.last = None, p'.text = <<>>, s'.line = p'.no
  PROVE  LineInv' /\ ~Live' /\ Seen' = Base'
<1>1. ~Live'
  BY DEF Live, Ignored
<1>2. Seen' = Base'
  BY <1>1 DEF Seen
<1>3. LineInv'
  BY DEF LineInv
<1> QED
  BY <1>1, <1>2, <1>3

LEMMA NewlineStep ==
  ASSUME IInv, Newline
  PROVE  IInv'
<1> DEFINE e == scan_eol(s)
           q == ParseLine(p)
<1>0. /\ TypeInv /\ LineInv /\ RecordInv /\ WordInv /\ VerdictInv /\ pc = "scan"
      /\ bytes \in Nat /\ bytes < MaxText /\ bytes' = bytes + 1 /\ p' = q
      /\ EolRefuses(s) => s' = e /\ pc' = "refused"
      /\ ~EolRefuses(s) => s' = [e EXCEPT !.line = e.line + 1] /\ pc' = "scan"
  <2>1. pc = "scan" /\ TypeInv /\ Scanning
    BY DEF IInv, Newline, More
  <2>2. bytes \in Nat
    BY <2>1 DEF TypeInv
  <2> QED
    BY <2>1, <2>2 DEF Newline, More, Scanning
<1>1. /\ e \in ScanType /\ e.line = s.line /\ e.rec_line = s.rec_line
      /\ e.first = None /\ e.last = None /\ Len(e.word) <= WordCap
  BY <1>0, EolFields
<1>2. q \in ParserType /\ q.no = p.no + 1 /\ q.text = <<>>
  BY <1>0, ParseType
<1> HIDE DEF e, q
<1>3. /\ s' \in ScanType /\ s'.rec_line = e.rec_line /\ s'.first = None /\ s'.last = None
      /\ s'.in_record = e.in_record /\ s'.in_backticks = e.in_backticks
      /\ s'.word_done = e.word_done /\ s'.word = e.word
      /\ EolRefuses(s) => s'.line = s.line
      /\ ~EolRefuses(s) => s'.line = s.line + 1
  <2>1. s.line \in Nat
    BY <1>0 DEF TypeInv, ScanType
  <2>2. CASE EolRefuses(s)
    BY <1>0, <1>1, <2>2
  <2>3. CASE ~EolRefuses(s)
    <3>1. s' = [e EXCEPT !.line = s.line + 1] /\ s.line + 1 \in Nat \ {0}
      BY <1>0, <1>1, <2>1, <2>3
    <3> QED
      BY <1>1, <2>3, <3>1 DEF ScanType
  <2> QED
    BY <2>2, <2>3
<1>4. TypeInv'
  <2>1. s.line \in Nat /\ s.rec_line \in Nat /\ s.line <= bytes + 1 /\ s.rec_line <= s.line
    BY <1>0 DEF TypeInv, ScanType
  <2>2. s'.line <= bytes' + 1 /\ s'.rec_line <= s'.line
    BY <1>0, <1>1, <1>3, <2>1
  <2>3. bytes' \in 0..MaxText
    BY <1>0, ScanAssumption
  <2>4. pc' \in {"open", "scan", "unread", "accepted", "refused"}
    BY <1>0
  <2>5. Len(s'.word) <= WordCap
    BY <1>1, <1>3
  <2> QED
    BY <1>0, <1>2, <1>3, <2>2, <2>3, <2>4, <2>5 DEF TypeInv
<1>5. EolRefuses(s) = (Live /\ ~Ticks(s) /\ ~Slash /\ Names(s.word))
  BY DEF EolRefuses, Continues, Live, Slash
<1>6. ~EolRefuses(s) => LineInv' /\ ~Live' /\ Seen' = Base'
  <2>1. s.line = p.no
    BY <1>0 DEF LineInv
  <2>2. ASSUME ~EolRefuses(s) PROVE s'.line = p'.no
    BY <1>0, <1>2, <1>3, <2>1, <2>2
  <2> QED
    BY <1>0, <1>2, <1>3, <2>2, FreshLine
<1>T. /\ p.open \in BOOLEAN /\ p.loose \in BOOLEAN /\ p.refused \in BOOLEAN
      /\ p.in_backticks \in BOOLEAN /\ s.in_record \in BOOLEAN
  BY <1>0, WordTypes
<1>7. CASE ~Live
  <2>1. q = [p EXCEPT !.text = <<>>, !.no = @ + 1]
    BY <1>0, <1>7, ParseIgnored DEF q
  <2>2. /\ p'.record = p.record /\ p'.open = p.open /\ p'.start = p.start
        /\ p'.in_backticks = p.in_backticks /\ p'.loose = p.loose /\ p'.refused = p.refused
    <3>1. p \in ParserType
      BY <1>0 DEF TypeInv
    <3> QED
      BY <1>0, <2>1, <3>1 DEF ParserType
  <2>3. /\ s'.in_record = s.in_record /\ s'.in_backticks = s.in_backticks
        /\ s'.word_done = s.word_done /\ s'.word = s.word /\ s'.rec_line = s.rec_line
    <3>1. /\ e.in_record = s.in_record /\ e.in_backticks = s.in_backticks
          /\ e.word_done = s.word_done /\ e.word = s.word
      BY <1>0, <1>7, EolFields DEF e
    <3> QED
      BY <1>1, <1>3, <3>1
  <2>4. pc' = "scan" /\ LineInv' /\ ~Live' /\ Base' = Base /\ Seen' = Seen
    <3>1. pc' = "scan" /\ LineInv' /\ ~Live' /\ Seen' = Base'
      BY <1>0, <1>5, <1>6, <1>7
    <3>2. Base' = Base /\ Seen = Base
      BY <1>7, <2>2 DEF Base, Seen
    <3> QED
      BY <3>1, <3>2
  <2>5. RecordInv'
    BY <1>0, <1>7, <2>2, <2>3, <2>4 DEF RecordInv
  <2>6. WordInv'
    BY <1>0, <1>7, <2>2, <2>3, <2>4 DEF WordInv, Collecting, Overran, Pending, Loose
  <2>7. VerdictInv'
    BY <1>0, <2>2 DEF VerdictInv
  <2>8. NoFalseRefusal' /\ RefusedAtItsLine' /\ NoBypass'
    BY <1>T, <2>4, <2>7 DEF NoFalseRefusal, RefusedAtItsLine, NoBypass, VerdictInv
  <2> QED
    BY <1>4, <2>4, <2>5, <2>6, <2>7, <2>8 DEF IInv, Scanning
<1>8. ASSUME Live
      PROVE  /\ p'.record = Base \o Part /\ p'.open = (Ticks(s) \/ Slash)
             /\ p'.in_backticks = Ticks(s)
             /\ p'.start = (IF p.open THEN p.start ELSE p.no)
             /\ p'.loose = ((p.open /\ p.loose) \/ (Slash /\ Last(p.text) = "blank"))
             /\ p'.refused = (~Ticks(s) /\ ~Slash /\ Names(FirstWord(Base \o Part)))
             /\ s'.rec_line = p'.start
  <2>1. /\ p'.record = Base \o Part /\ p'.open = (Ticks(s) \/ Slash)
        /\ p'.in_backticks = Ticks(s)
        /\ p'.start = (IF p.open THEN p.start ELSE p.no)
        /\ p'.loose = ((p.open /\ p.loose) \/ (Slash /\ Last(p.text) = "blank"))
        /\ p'.refused = (~Ticks(s) /\ ~Slash /\ Names(FirstWord(Base \o Part)))
    BY <1>0, <1>8, ParseLive DEF q
  <2>2. s.rec_line = IF p.open THEN p.start ELSE p.no
    BY <1>0, <1>8 DEF RecordInv
  <2> QED
    BY <1>1, <1>3, <2>1, <2>2
<1>9. CASE Live /\ (Ticks(s) \/ Slash)
  <2>1. pc' = "scan" /\ LineInv' /\ ~Live' /\ Seen' = Base'
    BY <1>0, <1>5, <1>6, <1>9
  <2>2. p'.open = TRUE /\ p'.refused = FALSE /\ Base' = Base \o Part
    BY <1>8, <1>9 DEF Base
  <2>3. /\ s'.in_record = TRUE /\ s'.in_backticks = Ticks(s)
        /\ s'.word_done = s.word_done /\ s'.word = DropBackslash(s)
    <3>1. /\ e.in_record = s.in_record /\ e.in_backticks = Ticks(s)
          /\ e.word_done = s.word_done /\ e.word = DropBackslash(s)
      BY <1>0, <1>9, EolFields DEF e
    <3>2. s.in_record = TRUE
      BY <1>0, <1>9 DEF RecordInv
    <3> QED
      BY <1>3, <3>1, <3>2
  <2>4. RecordInv'
    <3>1. Ticks(s) => \E k \in 1..Len(Base \o Part) : (Base \o Part)[k] = "backtick"
      BY <1>0, <1>9, ContinuedWord
    <3> QED
      BY <1>8, <1>9, <2>1, <2>2, <2>3, <3>1 DEF RecordInv
  <2>5. WordInv'
    <3> DEFINE w == DropBackslash(s)
               x == Base \o Part
               loose == (p.open /\ p.loose) \/ (Slash /\ Last(p.text) = "blank")
    <3>1. /\ ~s.word_done => w = x /\ Solid(x)
          /\ s.word_done => \/ w = <<>> /\ Long(x)
                            \/ Cut(w, x)
                            \/ Ticked(w) /\ Ticked(x)
                            \/ loose /\ \E k \in 1..Len(w) : w[k] = "backslash"
      BY <1>0, <1>9, ContinuedWord
    <3>2. s'.word = w /\ Seen' = x /\ p'.loose = loose
      BY <1>8, <1>9, <2>1, <2>2, <2>3
    <3> HIDE DEF w, x, loose
    <3> QED
      BY <2>1, <2>2, <2>3, <3>1, <3>2 DEF WordInv, Collecting, Overran, Pending, Loose
  <2>6. VerdictInv'
    BY <2>2 DEF VerdictInv
  <2>7. NoFalseRefusal' /\ RefusedAtItsLine' /\ NoBypass'
    BY <2>1, <2>2 DEF NoFalseRefusal, RefusedAtItsLine, NoBypass
  <2> QED
    BY <1>4, <2>1, <2>4, <2>5, <2>6, <2>7 DEF IInv, Scanning
<1>10. CASE Live /\ ~Ticks(s) /\ ~Slash
  <2>0. Names(s.word) \in BOOLEAN /\ Names(FirstWord(Seen)) \in BOOLEAN
    BY DEF Names
  <2>1. EolRefuses(s) = Names(s.word)
    BY <1>5, <1>10, <2>0
  <2>2. /\ p'.open = FALSE /\ p'.in_backticks = FALSE /\ p'.loose = (p.open /\ p.loose)
        /\ p'.refused = Names(FirstWord(Seen))
    <3>1. Part = Trim(p.text)
      BY <1>10 DEF Part
    <3>2. Seen = Base \o Part
      BY <1>10, <3>1 DEF Seen
    <3>3. (p.open /\ p.loose) \in BOOLEAN
      BY <1>T
    <3>4. /\ p'.open = (Ticks(s) \/ Slash) /\ p'.in_backticks = Ticks(s)
          /\ p'.loose = ((p.open /\ p.loose) \/ (Slash /\ Last(p.text) = "blank"))
          /\ p'.refused = (~Ticks(s) /\ ~Slash /\ Names(FirstWord(Seen)))
      BY <1>8, <1>10, <3>2
    <3>5. Ticks(s) = FALSE /\ Slash = FALSE
      BY <1>10 DEF Ticks, Slash
    <3> QED
      BY <2>0, <3>3, <3>4, <3>5
  <2>3. /\ Names(s.word) => Names(FirstWord(Seen))
        /\ ~p'.loose => (Names(s.word) <=> Names(FirstWord(Seen)))
    <3>1. Seen \in Seq(Byte) /\ s.word \in Seq(Byte)
      BY <1>0, SeenType, WordTypes
    <3>2. Stands(s.word, Seen, p'.loose) /\ p'.loose \in BOOLEAN
      BY <1>0, <1>T, <2>2, WordStands
    <3> QED
      BY <3>1, <3>2, SameVerdict
  <2>4. NoFalseRefusal' /\ RefusedAtItsLine' /\ NoBypass'
    BY <1>0, <1>8, <1>10, <2>1, <2>2, <2>3 DEF NoFalseRefusal, RefusedAtItsLine, NoBypass
  <2>5. CASE EolRefuses(s)
    <3>1. pc' = "refused"
      BY <1>0, <2>5
    <3> QED
      BY <1>4, <2>4, <3>1 DEF IInv
  <2>6. CASE ~EolRefuses(s)
    <3>1. pc' = "scan" /\ LineInv' /\ ~Live' /\ Seen' = Base'
      BY <1>0, <1>6, <2>6
    <3>2. /\ s'.in_record = FALSE /\ s'.in_backticks = FALSE
          /\ s'.word_done = FALSE /\ s'.word = <<>>
      <4>1. /\ e.in_record = FALSE /\ e.in_backticks = FALSE
            /\ e.word_done = FALSE /\ e.word = <<>>
        BY <1>0, <1>10, EolFields DEF e
      <4> QED
        BY <1>3, <4>1
    <3>3. Base' = <<>>
      BY <2>2 DEF Base
    <3>4. RecordInv'
      BY <2>2, <3>1, <3>2 DEF RecordInv
    <3>5. WordInv'
      BY <3>1, <3>2, <3>3 DEF WordInv, Collecting, Solid
    <3>6. VerdictInv'
      BY <2>1, <2>2, <2>3, <2>6 DEF VerdictInv
    <3> QED
      BY <1>4, <2>4, <3>1, <3>4, <3>5, <3>6 DEF IInv, Scanning
  <2> QED
    BY <2>5, <2>6
<1> QED
  BY <1>7, <1>9, <1>10

LEMMA EndOfTextStep ==
  ASSUME IInv, EndOfText
  PROVE  IInv'
<1> DEFINE e == scan_eol(s)
           q == ParseLine(p)
           late == q.in_backticks /\ Names(FirstWord(q.record))
<1>0. /\ TypeInv /\ LineInv /\ RecordInv /\ WordInv /\ VerdictInv /\ bytes' = bytes
      /\ s' = e /\ p' = [q EXCEPT !.refused = @ \/ late]
      /\ pc' = IF DoneRefuses(s) THEN "refused" ELSE "accepted"
  <2>1. pc = "scan" /\ TypeInv /\ Scanning
    BY DEF IInv, EndOfText
  <2> QED
    BY <2>1 DEF EndOfText, Scanning, ParseEnd
<1>1. /\ e \in ScanType /\ e.line = s.line /\ e.rec_line = s.rec_line /\ Len(e.word) <= WordCap
  BY <1>0, EolFields
<1>2. q \in ParserType
  BY <1>0, ParseType
<1>3. DoneRefuses(s) = (EolRefuses(s) \/ (e.in_backticks /\ Names(e.word)))
  BY DEF DoneRefuses
<1>4. EolRefuses(s) = (Live /\ ~Ticks(s) /\ ~Slash /\ Names(s.word))
  BY DEF EolRefuses, Continues, Live, Slash
<1>5. late \in BOOLEAN
  BY <1>2 DEF ParserType, Names
<1>6. /\ p' \in ParserType /\ p'.loose = q.loose /\ p'.start = q.start
      /\ p'.refused = (q.refused \/ late)
  <2> HIDE DEF q, late
  <2>1. q.refused \in BOOLEAN
    BY <1>2 DEF ParserType
  <2>2. p' = [q EXCEPT !.refused = q.refused \/ late]
    BY <1>0
  <2> QED
    BY <1>2, <1>5, <2>1, <2>2 DEF ParserType
<1>7. TypeInv'
  BY <1>0, <1>1, <1>6 DEF TypeInv
<1>8. pc' \notin {"open", "scan"}
  BY <1>0
<1>T. /\ p.open \in BOOLEAN /\ p.loose \in BOOLEAN /\ p.refused \in BOOLEAN
      /\ p.in_backticks \in BOOLEAN /\ s.in_backticks \in BOOLEAN
      /\ q.loose \in BOOLEAN /\ q.refused \in BOOLEAN /\ q.in_backticks \in BOOLEAN
  <2> HIDE DEF q
  <2> QED
    BY <1>0, <1>2, WordTypes DEF ParserType
<1> HIDE DEF e, q, late
<1>V. /\ DoneRefuses(s) => p'.refused /\ s.rec_line = q.start
      /\ p'.refused /\ ~q.loose => DoneRefuses(s)
  <2>1. CASE ~Live
    <3>1. /\ q.record = p.record /\ q.open = p.open /\ q.start = p.start
          /\ q.in_backticks = p.in_backticks /\ q.loose = p.loose /\ q.refused = p.refused
      <4>1. q = [p EXCEPT !.text = <<>>, !.no = @ + 1] /\ p \in ParserType
        BY <1>0, <2>1, ParseIgnored DEF q, TypeInv
      <4> QED
        BY <4>1 DEF ParserType
    <3>2. e.in_backticks = s.in_backticks /\ e.word = s.word
      BY <1>0, <2>1, EolFields DEF e
    <3>3. DoneRefuses(s) <=> p.in_backticks /\ Names(s.word)
      <4>1. s.in_backticks = p.in_backticks
        BY <1>0 DEF RecordInv
      <4> QED
        BY <1>3, <1>4, <2>1, <3>2, <4>1
    <3>4. p'.refused <=> p.refused \/ (p.in_backticks /\ Names(FirstWord(p.record)))
      BY <1>6, <3>1 DEF late
    <3>5. p.refused => p.loose
      BY <1>0 DEF VerdictInv
    <3>6. ASSUME p.in_backticks
          PROVE  /\ Names(s.word) => Names(FirstWord(p.record))
                 /\ ~p.loose => (Names(s.word) <=> Names(FirstWord(p.record)))
                 /\ s.rec_line = p.start
      <4>1. p.open /\ s.rec_line = p.start
        BY <1>0, <3>6 DEF RecordInv
      <4>2. Seen = p.record
        BY <2>1, <4>1 DEF Seen, Base
      <4>3. Stands(s.word, p.record, p.loose)
        <5>1. Stands(s.word, Seen, p.open /\ p.loose)
          BY <1>0, WordStands
        <5>2. (p.open /\ p.loose) = p.loose
          BY <1>T, <4>1
        <5> QED
          BY <4>2, <5>1, <5>2
      <4>4. s.word \in Seq(Byte) /\ p.record \in Seq(Byte)
        BY <1>0, WordTypes
      <4> QED
        BY <1>T, <4>1, <4>3, <4>4, SameVerdict
    <3> QED
      BY <3>1, <3>3, <3>4, <3>5, <3>6
  <2>2. ASSUME Live
        PROVE  /\ q.record = Base \o Part /\ q.in_backticks = Ticks(s) /\ s.rec_line = q.start
               /\ q.loose = ((p.open /\ p.loose) \/ (Slash /\ Last(p.text) = "blank"))
               /\ q.refused = (~Ticks(s) /\ ~Slash /\ Names(FirstWord(Base \o Part)))
    <3>1. /\ q.record = Base \o Part /\ q.in_backticks = Ticks(s)
          /\ q.start = (IF p.open THEN p.start ELSE p.no)
          /\ q.loose = ((p.open /\ p.loose) \/ (Slash /\ Last(p.text) = "blank"))
          /\ q.refused = (~Ticks(s) /\ ~Slash /\ Names(FirstWord(Base \o Part)))
      BY <1>0, <2>2, ParseLive DEF q
    <3>2. s.rec_line = IF p.open THEN p.start ELSE p.no
      BY <1>0, <2>2 DEF RecordInv
    <3> QED
      BY <3>1, <3>2
  <2>3. CASE Live /\ (Ticks(s) \/ Slash)
    <3> DEFINE w == DropBackslash(s)
               x == Base \o Part
    <3>1. e.in_backticks = Ticks(s) /\ e.word = w
      BY <1>0, <2>3, EolFields DEF e
    <3>2. DoneRefuses(s) <=> Ticks(s) /\ Names(w)
      BY <1>3, <1>4, <2>3, <3>1
    <3>3. p'.refused <=> Ticks(s) /\ Names(FirstWord(x))
      BY <1>6, <2>2, <2>3 DEF late
    <3>4. w \in Seq(Byte) /\ x \in Seq(Byte)
      <4>1. w \in Seq(Byte \ {"blank"}) /\ x \in Seq(Byte)
        BY <1>0, <2>3, ContinuedWord
      <4> QED
        BY <4>1
    <3>5. Stands(w, x, q.loose)
      <4> DEFINE loose == (p.open /\ p.loose) \/ (Slash /\ Last(p.text) = "blank")
      <4>1. /\ ~s.word_done => w = x /\ Solid(x)
            /\ s.word_done => \/ w = <<>> /\ Long(x)
                              \/ Cut(w, x)
                              \/ Ticked(w) /\ Ticked(x)
                              \/ loose /\ \E k \in 1..Len(w) : w[k] = "backslash"
        BY <1>0, <2>3, ContinuedWord
      <4>2. q.loose = loose
        BY <2>2, <2>3
      <4> HIDE DEF w, x, loose
      <4> QED
        BY <4>1, <4>2 DEF Stands
    <3>6. /\ Names(w) => Names(FirstWord(x))
          /\ ~q.loose => (Names(w) <=> Names(FirstWord(x)))
      BY <1>T, <3>4, <3>5, SameVerdict
    <3> QED
      BY <2>2, <2>3, <3>2, <3>3, <3>6
  <2>4. CASE Live /\ ~Ticks(s) /\ ~Slash
    <3>1. e.in_backticks = FALSE
      BY <1>0, <2>4, EolFields DEF e
    <3>2. DoneRefuses(s) <=> Names(s.word)
      BY <1>3, <1>4, <2>4, <3>1
    <3>3. Seen = Base \o Part
      BY <2>4 DEF Seen, Part
    <3>4. p'.refused <=> Names(FirstWord(Seen))
      BY <1>6, <2>2, <2>4, <3>3 DEF late
    <3>5. q.loose = (p.open /\ p.loose)
      <4>1. (p.open /\ p.loose) \in BOOLEAN
        BY <1>T
      <4>2. Slash = FALSE
        BY <2>4 DEF Slash
      <4> QED
        BY <2>2, <2>4, <4>1, <4>2
    <3>6. /\ Names(s.word) => Names(FirstWord(Seen))
          /\ ~q.loose => (Names(s.word) <=> Names(FirstWord(Seen)))
      <4>1. Seen \in Seq(Byte) /\ s.word \in Seq(Byte)
        BY <1>0, SeenType, WordTypes
      <4>2. Stands(s.word, Seen, q.loose)
        BY <1>0, <3>5, WordStands
      <4> QED
        BY <1>T, <4>1, <4>2, SameVerdict
    <3> QED
      BY <2>2, <2>4, <3>2, <3>4, <3>6
  <2> QED
    BY <2>1, <2>3, <2>4
<1>9. NoFalseRefusal' /\ RefusedAtItsLine' /\ NoBypass'
  BY <1>0, <1>1, <1>6, <1>V DEF NoFalseRefusal, RefusedAtItsLine, NoBypass
<1> QED
  BY <1>7, <1>8, <1>9 DEF IInv

\* One more byte on the line.
LEMMA Appended ==
  ASSUME NEW l \in Seq(Byte), NEW c \in Byte
  PROVE  LET m == Append(l, c)
         IN  /\ m \in Seq(Byte) /\ Len(l) \in Nat /\ Len(m) = Len(l) + 1 /\ m[Len(l) + 1] = c
             /\ \A k \in 1..Len(l) : m[k] = l[k]
OBVIOUS

LEMMA InkedMore ==
  ASSUME NEW l \in Seq(Byte), NEW c \in Byte, NEW a \in 1..Len(l), NEW b \in 1..Len(l),
         Inked(l, a, b)
  PROVE  LET m == Append(l, c)
         IN  /\ m[a] = l[a] /\ m[b] = l[b]
             /\ c = "blank" => Inked(m, a, b)
             /\ c # "blank" => Inked(m, a, Len(l) + 1)
<1> DEFINE m == Append(l, c)
           n == Len(l)
<1>1. m \in Seq(Byte) /\ n \in Nat /\ Len(m) = n + 1 /\ m[n + 1] = c /\ \A k \in 1..n : m[k] = l[k]
  BY Appended
<1> HIDE DEF m
<1>2. a \in 1..n /\ b \in a..n /\ l[a] # "blank" /\ l[b] # "blank"
      /\ \A k \in 1..n : k < a \/ k > b => l[k] = "blank"
  BY DEF Inked
<1> HIDE DEF n
<1>3. a \in Nat /\ b \in Nat /\ a <= b /\ b <= n /\ 1 <= a
  BY <1>1, <1>2
<1>4. ASSUME c = "blank" PROVE Inked(m, a, b)
  <2>1. \A k \in 1..(n + 1) : k < a \/ k > b => m[k] = "blank"
    BY <1>1, <1>2, <1>3, <1>4
  <2> QED
    BY <1>1, <1>2, <1>3, <2>1 DEF Inked
<1>5. ASSUME c # "blank" PROVE Inked(m, a, n + 1)
  <2>1. \A k \in 1..(n + 1) : k < a \/ k > n + 1 => m[k] = "blank"
    BY <1>1, <1>2, <1>3
  <2> QED
    BY <1>1, <1>2, <1>3, <1>5, <2>1 DEF Inked
<1> QED
  BY <1>1, <1>2, <1>3, <1>4, <1>5 DEF m, n

LEMMA InkedFirst ==
  ASSUME NEW l \in Seq(Byte), NEW c \in Byte, c # "blank",
         \A k \in 1..Len(l) : l[k] = "blank"
  PROVE  Inked(Append(l, c), Len(l) + 1, Len(l) + 1)
<1> DEFINE m == Append(l, c)
           n == Len(l)
<1>1. m \in Seq(Byte) /\ n \in Nat /\ Len(m) = n + 1 /\ m[n + 1] = c /\ \A k \in 1..n : m[k] = l[k]
  BY Appended
<1> HIDE DEF m
<1>2. \A k \in 1..(n + 1) : k < n + 1 => m[k] = "blank"
  BY <1>1
<1> HIDE DEF n
<1>3. Inked(m, n + 1, n + 1)
  BY <1>1, <1>2 DEF Inked
<1> QED
  BY <1>3 DEF m, n

\* What a byte that is not a blank adds to the record: itself, and the blanks
\* that came before it on the line.
LEMMA SeenGrows ==
  ASSUME TypeInv, LineInv, NEW c \in Byte, c # "blank", c # "hash" \/ Live, s.first # "hash"
  PROVE  LET y == Base \o Trim(Append(p.text, c))
             n == Len(Seen)
         IN  /\ y \in Seq(Byte) /\ n \in Nat /\ Len(y) > n /\ \A k \in 1..n : y[k] = Seen[k]
             /\ ~Live \/ p.text[Len(p.text)] # "blank" => Len(y) = n + 1 /\ y[n + 1] = c
             /\ Live /\ p.text[Len(p.text)] = "blank" => y[n + 1] = "blank"
<1> DEFINE l == p.text
           m == Append(l, c)
           t == Trim(m)
           y == Base \o t
           d == Len(Base)
<1>1. l \in Seq(Byte) /\ Base \in Seq(Byte) /\ d \in Nat
  BY Bases, WordTypes
<1>2. m \in Seq(Byte) /\ Len(l) \in Nat /\ Len(m) = Len(l) + 1 /\ m[Len(l) + 1] = c
      /\ \A k \in 1..Len(l) : m[k] = l[k]
  BY <1>1, Appended
<1> HIDE DEF l, m
<1>3. ASSUME t \in Seq(Byte)
      PROVE  /\ y \in Seq(Byte) /\ Len(y) = d + Len(t)
             /\ \A k \in 1..(d + Len(t)) : y[k] = IF k <= d THEN Base[k] ELSE t[k - d]
  <2> HIDE DEF t
  <2> QED
    BY <1>1, <1>3, ConcatProperties
<1>4. CASE ~Live
  <2>1. s.first = None
    BY <1>4 DEF Live, Ignored
  <2>2. \A k \in 1..Len(l) : l[k] = "blank"
    BY <2>1 DEF LineInv, l
  <2>3. Inked(m, Len(l) + 1, Len(l) + 1)
    BY <1>1, <2>2, InkedFirst DEF m
  <2>4. t \in Seq(Byte) /\ Len(t) = (Len(l) + 1) - (Len(l) + 1) + 1 /\ t[1] = c
    <3>1. t \in Seq(Byte)
      BY <1>2, <2>3, TrimIs
    <3>2. Len(t) = (Len(l) + 1) - (Len(l) + 1) + 1
      <4> DEFINE e == Len(l) + 1
      <4>1. Inked(m, e, e)
        BY <2>3
      <4> HIDE DEF e
      <4>2. Len(t) = e - e + 1
        BY <1>2, <4>1, TrimIs
      <4> QED
        BY <4>2 DEF e
    <3>3. t[1] = m[Len(l) + 1]
      BY <1>2, <2>3, TrimIs
    <3> QED
      BY <1>2, <3>1, <3>2, <3>3
  <2>5. Len(t) = 1
    BY <1>2, <2>4
  <2> HIDE DEF t
  <2>6. y \in Seq(Byte) /\ Len(y) = d + 1 /\ y[d + 1] = c /\ \A k \in 1..d : y[k] = Base[k]
    BY <1>1, <1>3, <2>4, <2>5
  <2>7. Seen = Base
    BY <1>4 DEF Seen
  <2> HIDE DEF y
  <2> QED
    BY <1>1, <1>4, <2>6, <2>7 DEF y, t, m, l
<1>5. CASE Live
  <2>1. PICK a, b \in 1..Len(l) : Inked(l, a, b) /\ l[a] = s.first /\ l[b] = s.last
    BY <1>5 DEF LineInv, Live, Ignored, l
  <2>2. a \in Nat /\ b \in Nat /\ 1 <= a /\ a <= b /\ b <= Len(l)
        /\ l[b] # "blank" /\ \A k \in 1..Len(l) : k > b => l[k] = "blank"
    BY <1>2, <2>1 DEF Inked
  <2> DEFINE o == Trim(l)
             n == Len(Seen)
  <2>3. o \in Seq(Byte) /\ Len(o) = b - a + 1 /\ \A k \in 1..Len(o) : o[k] = l[a + k - 1]
    <3>1. o \in Seq(Byte)
      BY <1>1, <2>1, TrimIs
    <3>2. Len(o) = b - a + 1
      BY <1>1, <2>1, TrimIs
    <3>3. \A k \in 1..Len(o) : o[k] = l[a + k - 1]
      BY <1>1, <2>1, TrimIs
    <3> QED
      BY <3>1, <3>2, <3>3
  <2>4. Inked(m, a, Len(l) + 1)
    BY <1>1, <2>1, InkedMore DEF m
  <2>5. t \in Seq(Byte) /\ Len(t) = (Len(l) + 1) - a + 1 /\ \A k \in 1..Len(t) : t[k] = m[a + k - 1]
    <3>1. t \in Seq(Byte)
      BY <1>2, <2>4, TrimIs
    <3>2. Len(t) = (Len(l) + 1) - a + 1
      <4> DEFINE e == Len(l) + 1
      <4>1. Inked(m, a, e)
        BY <2>4
      <4> HIDE DEF e
      <4>2. Len(t) = e - a + 1
        BY <1>2, <4>1, TrimIs
      <4> QED
        BY <4>2 DEF e
    <3>3. \A k \in 1..Len(t) : t[k] = m[a + k - 1]
      BY <1>2, <2>4, TrimIs
    <3> QED
      BY <3>1, <3>2, <3>3
  <2>6. Seen = Base \o o
    BY <1>5 DEF Seen, l
  <2> HIDE DEF o, t
  <2>7. n = d + Len(o) /\ \A k \in 1..(d + Len(o)) : Seen[k] = IF k <= d THEN Base[k] ELSE o[k - d]
    BY <1>1, <2>3, <2>6, ConcatProperties
  <2>8. /\ y \in Seq(Byte) /\ Len(y) = d + Len(t)
        /\ \A k \in 1..(d + Len(t)) : y[k] = IF k <= d THEN Base[k] ELSE t[k - d]
    BY <1>3, <2>5
  <2> HIDE DEF d, y, n
  <2>9. n \in Nat /\ Len(y) > n
    BY <1>1, <1>2, <2>2, <2>3, <2>5, <2>7, <2>8, SMTT(30)
  <2>10. ASSUME NEW k \in 1..n PROVE y[k] = Seen[k]
    <3>0. k \in Nat /\ k \in 1..(d + Len(o)) /\ k \in 1..(d + Len(t))
      BY <1>1, <1>2, <2>2, <2>3, <2>5, <2>7, <2>9
    <3>1. CASE k <= d
      BY <2>7, <2>8, <3>0, <3>1
    <3>2. CASE ~(k <= d)
      <4> DEFINE j == k - d
      <4>1. j \in 1..Len(o) /\ j \in 1..Len(t) /\ a + j - 1 \in 1..Len(l)
        BY <1>1, <1>2, <2>2, <2>3, <2>5, <3>0, <3>2, SMTT(30)
      <4>2. y[k] = t[j] /\ Seen[k] = o[j]
        BY <2>7, <2>8, <3>0, <3>2
      <4> HIDE DEF j
      <4>3. t[j] = m[a + j - 1] /\ o[j] = l[a + j - 1] /\ m[a + j - 1] = l[a + j - 1]
        BY <1>2, <2>3, <2>5, <4>1
      <4> QED
        BY <4>2, <4>3
    <3> QED
      BY <3>1, <3>2
  <2>11. y[n + 1] = m[b + 1]
    <3> DEFINE i == n + 1
               j == i - d
    <3>1. i \in 1..(d + Len(t)) /\ ~(i <= d) /\ j \in 1..Len(t) /\ a + j - 1 = b + 1
      BY <1>1, <1>2, <2>2, <2>3, <2>5, <2>7
    <3> HIDE DEF i
    <3>2. y[i] = t[j]
      BY <2>8, <3>1
    <3> HIDE DEF j
    <3>3. t[j] = m[a + j - 1]
      BY <2>5, <3>1
    <3> QED
      BY <3>1, <3>2, <3>3 DEF i
  <2>12. CASE l[Len(l)] = "blank"
    <3>1. b + 1 \in 1..Len(l) /\ b + 1 > b
      BY <1>2, <2>2, <2>12
    <3>2. y[n + 1] = "blank"
      BY <1>2, <2>2, <2>11, <3>1
    <3> QED
      BY <1>5, <2>8, <2>9, <2>10, <2>12, <3>2 DEF y, t, m, l, n
  <2>13. CASE l[Len(l)] # "blank"
    <3>1. b = Len(l)
      <4>1. Len(l) \in 1..Len(l)
        BY <1>2, <2>2
      <4> QED
        BY <1>2, <2>2, <2>13, <4>1
    <3>2. y[n + 1] = c /\ Len(y) = n + 1
      BY <1>1, <1>2, <2>2, <2>3, <2>5, <2>7, <2>8, <2>11, <3>1
    <3> QED
      BY <1>5, <2>8, <2>9, <2>10, <2>13, <3>2 DEF y, t, m, l, n
  <2> QED
    BY <2>12, <2>13
<1> QED
  BY <1>4, <1>5

\* A record that grows keeps what is known of its first word.
LEMMA Grown ==
  ASSUME NEW x \in Seq(Byte), NEW y \in Seq(Byte), NEW w \in Seq(Byte),
         Len(y) > Len(x), \A k \in 1..Len(x) : y[k] = x[k]
  PROVE  /\ Long(x) => Long(y) /\ Len(y) > Len(Directive) + 1
         /\ Cut(w, x) => Cut(w, y)
         /\ Ticked(x) => Ticked(y)
<1>0. Len(x) \in Nat /\ Len(y) \in Nat /\ Len(w) \in Nat /\ Len(Directive) \in Nat
  BY DirectiveAssumption
<1>1. ASSUME Long(x) PROVE Long(y) /\ Len(y) > Len(Directive) + 1
  BY <1>0, <1>1 DEF Long
<1>2. ASSUME Cut(w, x) PROVE Cut(w, y)
  BY <1>0, <1>2 DEF Cut
<1>3. ASSUME Ticked(x) PROVE Ticked(y)
  <2>1. PICK k \in 1..Len(x) : x[k] = "backtick" /\ \A j \in 1..k : x[j] # "blank"
    BY <1>3 DEF Ticked
  <2>2. k \in 1..Len(y) /\ \A j \in 1..k : j \in 1..Len(x)
    BY <1>0, <2>1
  <2> QED
    BY <2>1, <2>2 DEF Ticked
<1> QED
  BY <1>1, <1>2, <1>3

\* What a byte of a line leaves alone.
LEMMA FeedFrame ==
  ASSUME IInv, NEW c \in Byte, Feed(c)
  PROVE  /\ TypeInv /\ LineInv /\ RecordInv /\ WordInv /\ VerdictInv
         /\ pc = "scan" /\ pc' = "scan" /\ bytes \in Nat /\ bytes' = bytes + 1 /\ bytes' \in 0..MaxText
         /\ p' \in ParserType /\ p'.text = Append(p.text, c) /\ p'.no = p.no
         /\ p'.record = p.record /\ p'.open = p.open /\ p'.start = p.start
         /\ p'.in_backticks = p.in_backticks /\ p'.loose = p.loose /\ p'.refused = p.refused
         /\ Base' = Base /\ VerdictInv'
         /\ NoFalseRefusal' /\ RefusedAtItsLine' /\ NoBypass'
<1>1. pc = "scan" /\ pc' = "scan" /\ bytes' = bytes + 1 /\ bytes < MaxText /\ TypeInv /\ Scanning
  BY DEF IInv, Feed, More
<1>2. bytes \in Nat /\ bytes' \in 0..MaxText
  BY <1>1, ScanAssumption DEF TypeInv
<1>3. p \in ParserType /\ p.text \in Seq(Byte)
  BY <1>1 DEF TypeInv, ParserType
<1>4. p' = [p EXCEPT !.text = Append(p.text, c)] /\ Append(p.text, c) \in Seq(Byte)
  BY <1>3 DEF Feed
<1>5. /\ p' \in ParserType /\ p'.text = Append(p.text, c) /\ p'.no = p.no
      /\ p'.record = p.record /\ p'.open = p.open /\ p'.start = p.start
      /\ p'.in_backticks = p.in_backticks /\ p'.loose = p.loose /\ p'.refused = p.refused
  BY <1>3, <1>4 DEF ParserType
<1>6. Base' = Base
  BY <1>5 DEF Base
<1>7. VerdictInv'
  BY <1>1, <1>5 DEF Scanning, VerdictInv
<1>8. NoFalseRefusal' /\ RefusedAtItsLine' /\ NoBypass'
  <2>1. p.refused => p.loose
    BY <1>1 DEF Scanning, VerdictInv
  <2> QED
    BY <1>1, <1>5, <2>1 DEF NoFalseRefusal, RefusedAtItsLine, NoBypass
<1> QED
  BY <1>1, <1>2, <1>5, <1>6, <1>7, <1>8 DEF Scanning

LEMMA BlankStep ==
  ASSUME IInv, Feed("blank")
  PROVE  IInv'
<1> DEFINE c == "blank"
           done == s.word_done \/ (Live /\ s.word # <<>>)
<1>0. "blank" \in Byte
  BY DEF Byte
<1>1. /\ TypeInv /\ LineInv /\ RecordInv /\ WordInv /\ VerdictInv
      /\ pc = "scan" /\ pc' = "scan" /\ bytes \in Nat /\ bytes' = bytes + 1 /\ bytes' \in 0..MaxText
      /\ p' \in ParserType /\ p'.text = Append(p.text, "blank") /\ p'.no = p.no
      /\ p'.record = p.record /\ p'.open = p.open /\ p'.start = p.start
      /\ p'.in_backticks = p.in_backticks /\ p'.loose = p.loose /\ p'.refused = p.refused
      /\ Base' = Base /\ VerdictInv'
      /\ NoFalseRefusal' /\ RefusedAtItsLine' /\ NoBypass'
  BY <1>0, FeedFrame
<1>2. s \in ScanType /\ done \in BOOLEAN
  BY <1>1 DEF TypeInv, ScanType
<1>3. s' = [s EXCEPT !.word_done = done]
  BY <1>2 DEF Feed, ScanBlank, Live, ScanType
<1>4. /\ s' \in ScanType /\ s'.line = s.line /\ s'.rec_line = s.rec_line
      /\ s'.in_record = s.in_record /\ s'.in_backticks = s.in_backticks
      /\ s'.first = s.first /\ s'.last = s.last /\ s'.word = s.word /\ s'.word_done = done
  <2> HIDE DEF done
  <2> QED
    BY <1>2, <1>3 DEF ScanType
<1>5. TypeInv'
  <2>1. s.line \in Nat /\ s.line <= bytes + 1 /\ s.rec_line <= s.line /\ Len(s.word) <= WordCap
    BY <1>1 DEF TypeInv, ScanType
  <2>2. s'.line <= bytes' + 1
    BY <1>1, <1>4, <2>1
  <2> QED
    BY <1>1, <1>4, <2>1, <2>2 DEF TypeInv
<1>6. /\ p.text \in Seq(Byte) /\ Len(p.text) \in Nat /\ Len(p'.text) = Len(p.text) + 1
      /\ p'.text[Len(p.text) + 1] = "blank" /\ \A k \in 1..Len(p.text) : p'.text[k] = p.text[k]
  BY <1>0, <1>1, WordTypes, Appended
<1>7. Live' = Live /\ Live \in BOOLEAN
  BY <1>4 DEF Live, Ignored
<1>8. LineInv' /\ (Live => Trim(p'.text) = Trim(p.text))
  <2>1. s.line = p.no
    BY <1>1 DEF LineInv
  <2>2. CASE s.first = None
    <3>1. s.last = None /\ \A k \in 1..Len(p.text) : p.text[k] = "blank"
      BY <1>1, <2>2 DEF LineInv
    <3>2. \A k \in 1..Len(p'.text) : p'.text[k] = "blank"
      BY <1>6, <3>1, SMTT(30)
    <3> QED
      BY <1>1, <1>4, <2>1, <2>2, <3>1, <3>2 DEF LineInv, Live, Ignored
  <2>3. CASE s.first # None
    <3>1. PICK a, b \in 1..Len(p.text) :
            Inked(p.text, a, b) /\ p.text[a] = s.first /\ p.text[b] = s.last
      BY <1>1, <2>3 DEF LineInv
    <3>2. Inked(p'.text, a, b) /\ p'.text[a] = s.first /\ p'.text[b] = s.last
      BY <1>0, <1>1, <1>6, <3>1, InkedMore
    <3>3. a \in 1..Len(p'.text) /\ b \in 1..Len(p'.text)
      BY <1>6, <3>1
    <3>4. LineInv'
      BY <1>1, <1>4, <2>1, <2>3, <3>2, <3>3 DEF LineInv
    <3>5. p.text \in Seq(Byte) /\ Inked(p.text, a, b) /\ p'.text \in Seq(Byte)
      BY <1>1, <1>6, <3>1 DEF ParserType
    <3>6. Trim(p.text) \in Seq(Byte) /\ Trim(p'.text) \in Seq(Byte)
      BY <3>2, <3>5, TrimIs
    <3>7. Len(Trim(p.text)) = b - a + 1 /\ Len(Trim(p'.text)) = b - a + 1
      <4>1. Len(Trim(p.text)) = b - a + 1
        BY <3>5, TrimIs
      <4>2. Len(Trim(p'.text)) = b - a + 1
        BY <3>2, <3>5, TrimIs
      <4> QED
        BY <4>1, <4>2
    <3>8. ASSUME NEW k \in 1..Len(Trim(p.text)) PROVE Trim(p'.text)[k] = Trim(p.text)[k]
      <4>1. Trim(p.text)[k] = p.text[a + k - 1]
        BY <3>5, TrimIs
      <4>2. Trim(p'.text)[k] = p'.text[a + k - 1]
        <5>1. k \in 1..Len(Trim(p'.text))
          BY <3>7
        <5> QED
          BY <3>2, <3>5, <5>1, TrimIs, SMTT(30)
      <4>3. a + k - 1 \in 1..Len(p.text)
        BY <1>6, <3>1, <3>7 DEF Inked
      <4> QED
        BY <1>6, <4>1, <4>2, <4>3
    <3>9. Trim(p'.text) = Trim(p.text)
      BY <3>6, <3>7, <3>8, SeqEqual
    <3> QED
      BY <3>4, <3>9
  <2> QED
    BY <2>2, <2>3
<1>9. Seen' = Seen
  BY <1>1, <1>7, <1>8 DEF Seen
<1>10. RecordInv'
  BY <1>1, <1>4, <1>7 DEF RecordInv
<1>11. WordInv'
  <2>1. CASE s.word_done
    <3>1. s'.word_done = TRUE
      BY <1>4, <2>1
    <3>2. s'.in_record
      BY <1>1, <1>4, <2>1 DEF WordInv
    <3>3. \/ Overran \/ Cut(s.word, Seen) \/ Pending \/ (Ticked(s.word) /\ Ticked(Seen)) \/ Loose
      BY <1>1, <2>1 DEF WordInv
    <3>4. Overran => Overran'
      BY <1>4, <1>7, <1>9 DEF Overran
    <3>5. Pending => Pending'
      BY <1>4, <1>6, <1>7, <1>9 DEF Pending
    <3>6. Loose => Loose'
      BY <1>1, <1>4 DEF Loose
    <3> QED
      BY <1>4, <1>9, <3>1, <3>2, <3>3, <3>4, <3>5, <3>6 DEF WordInv
  <2>2. CASE ~s.word_done
    <3>1. s.word = Seen /\ Solid(Seen)
      BY <1>1, <2>2 DEF WordInv, Collecting
    <3>2. CASE Live
      <4>1. Seen # <<>>
        BY <1>1, <3>2, SeenLive
      <4>2. s'.word_done = TRUE /\ s'.in_record
        BY <1>1, <1>4, <3>1, <3>2, <4>1 DEF RecordInv
      <4>3. Pending'
        BY <1>4, <1>6, <1>7, <1>9, <3>1, <3>2, <4>1 DEF Pending
      <4> QED
        BY <4>2, <4>3 DEF WordInv
    <3>3. CASE ~Live
      <4>1. s'.word_done = FALSE
        BY <1>4, <2>2, <3>3
      <4>2. Collecting'
        BY <1>4, <1>7, <1>9, <3>1, <3>3 DEF Collecting
      <4> QED
        BY <4>1, <4>2 DEF WordInv
    <3> QED
      BY <3>2, <3>3
  <2> QED
    BY <2>1, <2>2
<1> QED
  BY <1>1, <1>5, <1>8, <1>10, <1>11 DEF IInv, Scanning

\* The scanner's state after a byte that is not a blank.
LEMMA ByteFields ==
  ASSUME TypeInv, NEW c \in Byte, c # "blank"
  PROVE  LET t == ScanByte(s, c)
             first == IF s.first = None THEN c ELSE s.first
         IN  /\ t \in ScanType /\ t.line = s.line /\ t.in_backticks = s.in_backticks
             /\ t.first = first /\ t.last = c
             /\ t.in_record = (s.in_record \/ Opens(s, c))
             /\ t.rec_line = (IF Opens(s, c) THEN s.line ELSE s.rec_line)
             /\ Len(t.word) <= WordCap
             /\ first = "hash" \/ s.word_done => t.word = s.word /\ t.word_done = s.word_done
             /\ first # "hash" /\ ~s.word_done /\ Fits(s) =>
                  t.word = Append(s.word, c) /\ t.word_done = FALSE
             /\ first # "hash" /\ ~s.word_done /\ ~Fits(s) =>
                  t.word = <<>> /\ t.word_done = TRUE
<1> DEFINE first == IF s.first = None THEN c ELSE s.first
           opens == Opens(s, c)
           rl == IF opens THEN s.line ELSE s.rec_line
           u == [s EXCEPT !.first = first, !.in_record = s.in_record \/ opens,
                          !.rec_line = rl, !.last = c]
<1>1. /\ s \in ScanType /\ s.line \in Nat /\ s.rec_line \in Nat /\ s.in_record \in BOOLEAN
      /\ s.word_done \in BOOLEAN /\ s.first \in (Byte \ {"blank"}) \cup {None}
      /\ s.word \in Seq(Byte \ {"blank"}) /\ Len(s.word) \in Nat /\ Len(s.word) <= WordCap
  BY DEF TypeInv, ScanType
<1>2. c \in Byte \ {"blank"} /\ first \in (Byte \ {"blank"}) \cup {None} /\ rl \in Nat
      /\ opens \in BOOLEAN
  BY <1>1 DEF Opens
<1>3. [s EXCEPT !.first = IF @ = None THEN c ELSE @, !.in_record = @ \/ Opens(s, c),
                !.rec_line = IF Opens(s, c) THEN s.line ELSE @, !.last = c] = u
  BY <1>1 DEF ScanType
<1> HIDE DEF first, opens, rl
<1>4. /\ u \in ScanType /\ u.line = s.line /\ u.in_backticks = s.in_backticks
      /\ u.first = first /\ u.last = c /\ u.in_record = (s.in_record \/ opens)
      /\ u.rec_line = rl /\ u.word = s.word /\ u.word_done = s.word_done
  BY <1>1, <1>2 DEF ScanType
<1> HIDE DEF u
<1>5. Fits(u) = Fits(s)
  BY <1>4 DEF Fits
<1>6. ScanByte(s, c) =
        CASE u.first = "hash" \/ u.word_done -> u
          [] ~(u.first = "hash" \/ u.word_done) /\ Fits(u) -> [u EXCEPT !.word = Append(@, c)]
          [] OTHER -> Overlong(u)
  BY <1>3 DEF ScanByte
<1>7. CASE first = "hash" \/ s.word_done
  <2>1. ScanByte(s, c) = u
    BY <1>4, <1>6, <1>7
  <2> QED
    BY <1>1, <1>4, <1>7, <2>1 DEF first, opens, rl
<1>8. CASE first # "hash" /\ ~s.word_done /\ Fits(s)
  <2>1. ScanByte(s, c) = [u EXCEPT !.word = Append(u.word, c)]
    BY <1>4, <1>5, <1>6, <1>8
  <2>2. Append(s.word, c) \in Seq(Byte \ {"blank"}) /\ Len(Append(s.word, c)) = Len(s.word) + 1
    BY <1>1, <1>2
  <2>3. Len(Append(s.word, c)) <= WordCap
    BY <1>1, <1>8, <2>2, ScanAssumption DEF Fits
  <2> DEFINE t == ScanByte(s, c)
  <2>4. /\ t \in ScanType /\ t.line = u.line /\ t.in_backticks = u.in_backticks
        /\ t.first = u.first /\ t.last = u.last /\ t.in_record = u.in_record
        /\ t.rec_line = u.rec_line /\ t.word = Append(s.word, c) /\ t.word_done = u.word_done
    BY <1>4, <2>1, <2>2, ZenonT(40) DEF ScanType
  <2>5. t.word_done = FALSE
    BY <1>1, <1>4, <1>8, <2>4
  <2> QED
    BY <1>4, <1>8, <2>3, <2>4, <2>5 DEF first, opens, rl
<1>9. CASE first # "hash" /\ ~s.word_done /\ ~Fits(s)
  <2>1. ScanByte(s, c) = [u EXCEPT !.word = <<>>, !.word_done = TRUE]
    BY <1>4, <1>5, <1>6, <1>9 DEF Overlong
  <2>2. <<>> \in Seq(Byte \ {"blank"}) /\ Len(<<>>) <= WordCap
    BY ScanAssumption
  <2> DEFINE t == ScanByte(s, c)
  <2>4. /\ t \in ScanType /\ t.line = u.line /\ t.in_backticks = u.in_backticks
        /\ t.first = u.first /\ t.last = u.last /\ t.in_record = u.in_record
        /\ t.rec_line = u.rec_line /\ t.word = <<>> /\ t.word_done = TRUE
    BY <1>4, <2>1, <2>2 DEF ScanType
  <2> QED
    BY <1>4, <1>9, <2>2, <2>4 DEF first, opens, rl
<1> QED
  BY <1>7, <1>8, <1>9

LEMMA InkStep ==
  ASSUME IInv, NEW c \in Byte, c # "blank", Feed(c)
  PROVE  IInv'
<1> DEFINE first == IF s.first = None THEN c ELSE s.first
<1>1. /\ TypeInv /\ LineInv /\ RecordInv /\ WordInv /\ VerdictInv
      /\ pc = "scan" /\ pc' = "scan" /\ bytes \in Nat /\ bytes' = bytes + 1 /\ bytes' \in 0..MaxText
      /\ p' \in ParserType /\ p'.text = Append(p.text, c) /\ p'.no = p.no
      /\ p'.record = p.record /\ p'.open = p.open /\ p'.start = p.start
      /\ p'.in_backticks = p.in_backticks /\ p'.loose = p.loose /\ p'.refused = p.refused
      /\ Base' = Base /\ VerdictInv'
      /\ NoFalseRefusal' /\ RefusedAtItsLine' /\ NoBypass'
  BY FeedFrame
<1>2. s' = ScanByte(s, c)
  BY DEF Feed
<1>3. /\ s' \in ScanType /\ s'.line = s.line /\ s'.in_backticks = s.in_backticks
      /\ s'.first = first /\ s'.last = c
      /\ s'.in_record = (s.in_record \/ Opens(s, c))
      /\ s'.rec_line = (IF Opens(s, c) THEN s.line ELSE s.rec_line)
      /\ Len(s'.word) <= WordCap
      /\ first = "hash" \/ s.word_done => s'.word = s.word /\ s'.word_done = s.word_done
      /\ first # "hash" /\ ~s.word_done /\ Fits(s) =>
           s'.word = Append(s.word, c) /\ s'.word_done = FALSE
      /\ first # "hash" /\ ~s.word_done /\ ~Fits(s) => s'.word = <<>> /\ s'.word_done = TRUE
  BY <1>1, <1>2, ByteFields
<1>4. TypeInv'
  <2>1. /\ s.line \in Nat /\ s.rec_line \in Nat /\ s.line <= bytes + 1 /\ s.rec_line <= s.line
    BY <1>1 DEF TypeInv, ScanType
  <2>2. s'.line <= bytes' + 1 /\ s'.rec_line <= s'.line
    BY <1>1, <1>3, <2>1
  <2> QED
    BY <1>1, <1>3, <2>2 DEF TypeInv
<1>5. /\ p.text \in Seq(Byte) /\ Len(p.text) \in Nat /\ Len(p'.text) = Len(p.text) + 1
      /\ p'.text[Len(p.text) + 1] = c /\ \A k \in 1..Len(p.text) : p'.text[k] = p.text[k]
  BY <1>1, WordTypes, Appended
<1>6. c # None /\ first # None
  BY DirectiveAssumption DEF Byte, None
<1>7. LineInv'
  <2>1. s.line = p.no
    BY <1>1 DEF LineInv
  <2>2. \E a, b \in 1..Len(p'.text) :
          Inked(p'.text, a, b) /\ p'.text[a] = first /\ p'.text[b] = c
    <3> DEFINE n == Len(p.text) + 1
    <3>0. n \in 1..Len(p'.text) /\ p'.text[n] = c
      BY <1>5
    <3>1. CASE s.first = None
      <4>1. \A k \in 1..Len(p.text) : p.text[k] = "blank"
        BY <1>1, <3>1 DEF LineInv
      <4>2. Inked(p'.text, n, n) /\ first = c
        BY <1>1, <1>5, <3>1, <4>1, InkedFirst
      <4> HIDE DEF n
      <4> QED
        BY <3>0, <4>2
    <3>2. CASE s.first # None
      <4>1. PICK a, b \in 1..Len(p.text) :
              Inked(p.text, a, b) /\ p.text[a] = s.first /\ p.text[b] = s.last
        BY <1>1, <3>2 DEF LineInv
      <4>2. Inked(p'.text, a, n) /\ p'.text[a] = s.first
        BY <1>1, <1>5, <4>1, InkedMore
      <4>3. a \in 1..Len(p'.text)
        BY <1>5, <4>1
      <4> HIDE DEF n
      <4> QED
        BY <3>0, <3>2, <4>2, <4>3
    <3> QED
      BY <3>1, <3>2
  <2> HIDE DEF first
  <2> QED
    BY <1>1, <1>3, <1>6, <2>1, <2>2 DEF LineInv
<1>8. Live' = (first # "hash") /\ Live' \in BOOLEAN
  <2> HIDE DEF first
  <2> QED
    BY <1>3, <1>6 DEF Live, Ignored
<1>T. /\ p.open \in BOOLEAN /\ s.in_record \in BOOLEAN /\ s.word_done \in BOOLEAN
      /\ s.word \in Seq(Byte) /\ Len(s.word) \in Nat
  BY <1>1, WordTypes
<1>9. CASE first = "hash"
  <2>1. ~Live /\ ~Live' /\ ~Opens(s, c)
    BY <1>8, <1>9 DEF Live, Ignored, Opens
  <2>2. Seen' = Seen
    BY <1>1, <2>1 DEF Seen
  <2>3. s'.word = s.word /\ s'.word_done = s.word_done /\ s'.in_record = s.in_record
        /\ s'.rec_line = s.rec_line
    BY <1>3, <1>9, <1>T, <2>1
  <2>4. RecordInv'
    BY <1>1, <1>3, <2>1, <2>3 DEF RecordInv
  <2>5. WordInv'
    BY <1>1, <2>1, <2>2, <2>3 DEF WordInv, Collecting, Overran, Pending, Loose
  <2> QED
    BY <1>1, <1>4, <1>7, <2>4, <2>5 DEF IInv, Scanning
<1>10. CASE first # "hash"
  <2>1. Live' /\ s.first # "hash" /\ (c # "hash" \/ Live)
    BY <1>6, <1>8, <1>10 DEF Live, Ignored, None
  <2>2. Opens(s, c) = (~Live /\ ~p.open)
    <3>1. s.in_record = (p.open \/ Live)
      BY <1>1 DEF RecordInv
    <3> QED
      BY <2>1, <3>1 DEF Opens, Live, Ignored
  <2>3. RecordInv'
    <3>1. s'.in_record = TRUE
      BY <1>1, <1>3, <1>T, <2>2 DEF RecordInv
    <3>2. p.open => s'.rec_line = p.start
      BY <1>1, <1>3, <2>2 DEF RecordInv
    <3>3. ~p.open => s'.rec_line = p.no
      BY <1>1, <1>3, <2>2 DEF RecordInv, LineInv
    <3> QED
      BY <1>1, <1>3, <2>1, <3>1, <3>2, <3>3 DEF RecordInv
  <2> DEFINE y == Seen'
             n == Len(Seen)
  <2>4. y = Base \o Trim(Append(p.text, c))
    BY <1>1, <2>1 DEF Seen
  <2>5. /\ y \in Seq(Byte) /\ n \in Nat /\ Len(y) > n /\ \A k \in 1..n : y[k] = Seen[k]
        /\ ~Live \/ p.text[Len(p.text)] # "blank" => Len(y) = n + 1 /\ y[n + 1] = c
        /\ Live /\ p.text[Len(p.text)] = "blank" => y[n + 1] = "blank"
    BY <1>1, <2>1, <2>4, SeenGrows
  <2>6. Seen \in Seq(Byte) /\ s'.in_record /\ p'.text[Len(p'.text)] # "blank"
    BY <1>1, <1>5, <2>1, <2>3, SeenType DEF RecordInv
  <2> HIDE DEF y
  <2>7. CASE s.word_done
    <3>1. s'.word = s.word /\ s'.word_done = TRUE
      BY <1>3, <1>T, <2>7
    <3>2. /\ Long(Seen) => Long(y) /\ Len(y) > Len(Directive) + 1
          /\ Cut(s.word, Seen) => Cut(s.word, y)
          /\ Ticked(Seen) => Ticked(y)
      BY <1>T, <2>5, <2>6, Grown
    <3>3. ASSUME Overran PROVE WordInv'
      <4>1. Overran'
        BY <3>1, <3>2, <3>3 DEF Overran, y
      <4> QED
        BY <2>6, <3>1, <4>1 DEF WordInv
    <3>4. ASSUME Cut(s.word, Seen) PROVE WordInv'
      BY <2>6, <3>1, <3>2, <3>4 DEF WordInv, y
    <3>5. ASSUME Pending PROVE WordInv'
      <4>1. Cut(s.word, y)
        BY <2>5, <2>6, <3>5 DEF Pending, Cut, Solid
      <4> QED
        BY <2>6, <3>1, <4>1 DEF WordInv, y
    <3>6. ASSUME Ticked(s.word), Ticked(Seen) PROVE WordInv'
      BY <2>6, <3>1, <3>2, <3>6 DEF WordInv, y
    <3>7. ASSUME Loose PROVE WordInv'
      <4>1. Loose'
        BY <1>1, <3>1, <3>7 DEF Loose
      <4> QED
        BY <2>6, <3>1, <4>1 DEF WordInv
    <3>8. WordInv'
      BY <1>1, <2>7, <3>3, <3>4, <3>5, <3>6, <3>7 DEF WordInv
    <3> QED
      BY <1>1, <1>4, <1>7, <2>3, <3>8 DEF IInv, Scanning
  <2>8. CASE ~s.word_done
    <3>1. s.word = Seen /\ Solid(Seen) /\ (Live => p.text[Len(p.text)] # "blank")
      BY <1>1, <2>8 DEF WordInv, Collecting
    <3>2. Len(y) = n + 1 /\ y[n + 1] = c
      BY <2>5, <3>1
    <3>3. Solid(y)
      BY <2>5, <3>1, <3>2 DEF Solid
    <3>4. CASE Fits(s)
      <4>1. s'.word = Append(s.word, c) /\ s'.word_done = FALSE
        BY <1>3, <1>10, <2>8, <3>4
      <4>2. /\ Append(s.word, c) \in Seq(Byte) /\ Len(Append(s.word, c)) = n + 1
            /\ Append(s.word, c)[n + 1] = c
            /\ \A k \in 1..n : Append(s.word, c)[k] = s.word[k]
        BY <1>T, <3>1, Appended
      <4>3. \A k \in 1..(n + 1) : Append(s.word, c)[k] = y[k]
        BY <2>5, <3>1, <3>2, <4>2
      <4>4. Append(s.word, c) = y
        BY <2>5, <3>2, <4>2, <4>3, SeqEqual
      <4>5. Collecting'
        BY <2>6, <3>3, <4>1, <4>4 DEF Collecting, y
      <4>6. WordInv'
        BY <4>1, <4>5 DEF WordInv
      <4> QED
        BY <1>1, <1>4, <1>7, <2>3, <4>6 DEF IInv, Scanning
    <3>5. CASE ~Fits(s)
      <4>1. s'.word = <<>> /\ s'.word_done = TRUE
        BY <1>3, <1>10, <2>8, <3>5
      <4>2. n > Len(Directive) /\ Len(Directive) \in Nat
        BY <1>T, <2>5, <3>1, <3>5, ScanAssumption, DirectiveAssumption DEF Fits
      <4>3. Long(y) /\ Len(y) > Len(Directive) + 1
        BY <2>5, <3>2, <3>3, <4>2 DEF Long, Solid
      <4>4. Overran'
        BY <4>1, <4>3 DEF Overran, y
      <4>5. WordInv'
        BY <2>6, <4>1, <4>4 DEF WordInv
      <4> QED
        BY <1>1, <1>4, <1>7, <2>3, <4>5 DEF IInv, Scanning
    <3> QED
      BY <3>4, <3>5
  <2> QED
    BY <2>7, <2>8
<1> QED
  BY <1>9, <1>10

-----------------------------------------------------------------------------
(* The theorems *)

LEMMA InitInv ==
  Init => IInv
<1> SUFFICES ASSUME Init PROVE IInv
  OBVIOUS
<1>1. pc = "open" /\ s = scan_init /\ p = NewParser /\ bytes = 0
  BY DEF Init
<1>2. <<>> \in Seq(Byte) /\ <<>> \in Seq(Byte \ {"blank"}) /\ 0 \in 0..MaxText
  BY ScanAssumption
<1>3. TypeInv
  BY <1>1, <1>2, ScanAssumption DEF TypeInv, scan_init, NewParser, ScanType, ParserType
<1>4. LineInv /\ ~Live /\ Seen = <<>>
  BY <1>1 DEF LineInv, Live, Ignored, Seen, Base, scan_init, NewParser
<1>5. RecordInv
  BY <1>1, <1>4 DEF RecordInv, scan_init, NewParser
<1>6. WordInv
  BY <1>1, <1>4 DEF WordInv, Collecting, Solid, scan_init
<1>7. VerdictInv /\ NoFalseRefusal /\ RefusedAtItsLine /\ NoBypass
  BY <1>1 DEF VerdictInv, NoFalseRefusal, RefusedAtItsLine, NoBypass, NewParser
<1> QED
  BY <1>3, <1>4, <1>5, <1>6, <1>7 DEF IInv, Scanning

LEMMA NextInv ==
  IInv /\ [Next]_vars => IInv'
<1> SUFFICES ASSUME IInv, [Next]_vars PROVE IInv'
  OBVIOUS
<1>1. ASSUME s' = s, p' = p, bytes' = bytes,
             pc' = pc \/ (pc = "open" /\ pc' = "scan")
                \/ (pc \in {"open", "scan"} /\ pc' = "unread")
      PROVE  IInv'
  <2>1. TypeInv'
    BY <1>1 DEF IInv, TypeInv
  <2>2. Scanning => Scanning'
    <3>1. Live' = Live /\ Base' = Base /\ Seen' = Seen
      BY <1>1 DEF Live, Base, Seen
    <3>2. LineInv => LineInv'
      BY <1>1 DEF LineInv
    <3>3. RecordInv => RecordInv'
      BY <1>1, <3>1 DEF RecordInv
    <3>4. WordInv => WordInv'
      BY <1>1, <3>1 DEF WordInv, Collecting, Overran, Pending, Loose
    <3>5. VerdictInv => VerdictInv'
      BY <1>1 DEF VerdictInv
    <3> QED
      BY <3>2, <3>3, <3>4, <3>5 DEF Scanning
  <2>3. NoFalseRefusal' /\ RefusedAtItsLine'
    BY <1>1 DEF IInv, NoFalseRefusal, RefusedAtItsLine
  <2>4. NoBypass'
    <3>1. p.refused /\ ~p.loose => pc = "refused"
      BY DEF IInv, NoBypass
    <3>2. pc = "refused" => pc' = "refused"
      BY <1>1
    <3> QED
      BY <1>1, <3>1, <3>2 DEF NoBypass
  <2>5. pc' \in {"open", "scan"} => Scanning'
    BY <1>1, <2>2 DEF IInv
  <2> QED
    BY <2>1, <2>3, <2>4, <2>5 DEF IInv
<1>2. CASE Open
  BY <1>1, <1>2 DEF Open
<1>3. CASE CannotOpen
  BY <1>1, <1>3 DEF CannotOpen
<1>4. CASE ReadFails
  BY <1>1, <1>4 DEF ReadFails
<1>5. CASE \E c \in Byte : Feed(c)
  <2>1. PICK c \in Byte : Feed(c)
    BY <1>5
  <2>2. CASE c = "blank"
    BY <2>1, <2>2, BlankStep
  <2>3. CASE c # "blank"
    BY <2>1, <2>3, InkStep
  <2> QED
    BY <2>2, <2>3
<1>6. CASE Newline
  BY <1>6, NewlineStep
<1>7. CASE EndOfText
  BY <1>7, EndOfTextStep
<1>8. CASE UNCHANGED vars
  BY <1>1, <1>8 DEF vars
<1> QED
  BY <1>2, <1>3, <1>4, <1>5, <1>6, <1>7, <1>8 DEF Next

\* The invariant that ties the scanner's few bytes to the parser's text: of
\* ngx_http_coraza_rules_scan(), byte by byte.
THEOREM ScannerInvariant ==
  Spec => []IInv
BY InitInv, NextInv, PTL DEF Spec

\* The word never leaves the buffer of ngx_http_coraza_rules_scan_t, and the
\* line counters stay ordered, for texts of any length.
THEOREM ScannerTypes ==
  Spec => []TypeOK
<1>1. IInv => TypeOK
  <2> SUFFICES ASSUME IInv PROVE TypeOK
    OBVIOUS
  <2>1. /\ s \in ScanType /\ bytes \in 0..MaxText /\ s.line <= bytes + 1
        /\ s.rec_line <= s.line /\ Len(s.word) <= WordCap
        /\ pc \in {"open", "scan", "unread", "accepted", "refused"}
    BY DEF IInv, TypeInv
  <2>2. s.line \in 1..(MaxText + 1) /\ s.rec_line \in 0..s.line
    BY <2>1, ScanAssumption DEF ScanType
  <2>3. /\ s.in_record \in BOOLEAN /\ s.in_backticks \in BOOLEAN /\ s.word_done \in BOOLEAN
        /\ s.first \in (Byte \ {"blank"}) \cup {None}
        /\ s.last \in (Byte \ {"blank"}) \cup {None} /\ s.word \in Seq(Byte \ {"blank"})
    BY <2>1 DEF ScanType
  <2> QED
    BY <2>1, <2>2, <2>3 DEF TypeOK
<1> QED
  BY <1>1, ScannerInvariant, PTL

\* ngx_http_coraza_rules_scan() refuses no text the engine would take.
THEOREM RefusalIsTrue ==
  Spec => []NoFalseRefusal
<1>1. IInv => NoFalseRefusal
  BY DEF IInv
<1> QED
  BY <1>1, ScannerInvariant, PTL

\* The line check_rules_file() and ngx_conf_set_rules() report is the line
\* where the refused record starts.
THEOREM RefusalHasItsLine ==
  Spec => []RefusedAtItsLine
<1>1. IInv => RefusedAtItsLine
  BY DEF IInv
<1> QED
  BY <1>1, ScannerInvariant, PTL

\* A refused directive stops the scan at the end of its record, with the one
\* exception of blanks behind a backslash that continues it.
THEOREM NothingPassesTheScan ==
  Spec => []NoBypass
<1>1. IInv => NoBypass
  BY DEF IInv
<1> QED
  BY <1>1, ScannerInvariant, PTL
=============================================================================
