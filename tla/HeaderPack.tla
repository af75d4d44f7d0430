----------------------------- MODULE HeaderPack -----------------------------
(***************************************************************************)
(* The packed form in which a set of headers crosses to the engine in one  *)
(* call, and the widths of its length fields.  A header is a pair of byte  *)
(* strings.  Base is 256 in the code: a name length is two digits to this  *)
(* base, a value length four, and an int holds half of four digits.        *)
(***************************************************************************)
EXTENDS Integers, Sequences, FiniteSets, SequencesExt

CONSTANT Base

ASSUME BaseAssumption == Base \in Nat /\ Base > 1

\* How many values a u16 has, and a u32.
U16 == Base * Base
U32 == U16 * U16

U16_MAX == U16 - 1
INT_MAX == U32 \div 2 - 1

\* (int) n, for a size_t n.
Narrow(n) == LET m == n % U32 IN IF m > INT_MAX THEN m - U32 ELSE m

\* (n >> shift) & 0xff, where unit is 1 << shift.
Digit(n, unit) == (n \div unit) % Base

\* (int)len crosses the boundary with the pointer: what the engine reads.
Received(b) == SubSeq(b, 1, Narrow(Len(b)))

\* pack_headers(), first loop: the running total.
PackedTotals(pairs) ==
  LET total[k \in 0..Len(pairs)] ==
        IF k = 0 THEN 0
        ELSE total[k - 1] + (6 + Len(pairs[k].name) + Len(pairs[k].value))
  IN  total

PackedLen(pairs) == PackedTotals(pairs)[Len(pairs)]

\* The name check left out: value and total alone bounded.
PackFitsTotal(pairs) == PackedLen(pairs) <= INT_MAX

\* No field out of range, and the running total, which only grows, never past
\* INT_MAX.
PackFits(pairs) ==
  /\ \A k \in DOMAIN pairs :
       Len(pairs[k].name) <= U16_MAX /\ Len(pairs[k].value) <= INT_MAX
  /\ PackedLen(pairs) <= INT_MAX

\* pack_headers(), second loop: the lengths, most significant byte first, and
\* what they measure.
Header(h) ==
  LET nlen == Len(h.name)
      vlen == Len(h.value)
  IN  <<Digit(nlen, Base), Digit(nlen, 1)>> \o h.name
      \o <<Digit(vlen, U16 * Base), Digit(vlen, U16), Digit(vlen, Base), Digit(vlen, 1)>>
      \o h.value

Packed(pairs) ==
  LET buf[k \in 0..Len(pairs)] == IF k = 0 THEN <<>> ELSE buf[k - 1] \o Header(pairs[k])
  IN  buf

Pack(pairs) == Packed(pairs)[Len(pairs)]

-----------------------------------------------------------------------------
(* coraza_add_*_headers() (external) *)

\* One pair read off the first len bytes, behind those already read.
ReadPair(buf, len, st) ==
  LET nlen == buf[st.at] * Base + buf[st.at + 1]
      at   == st.at + 2 + nlen
      vlen == ((buf[at] * Base + buf[at + 1]) * Base + buf[at + 2]) * Base + buf[at + 3]
      end  == at + 4 + vlen
  IN  IF st.at + 1 > len \/ at + 3 > len \/ end - 1 > len
        THEN [st EXCEPT !.ok = FALSE]
        ELSE [st EXCEPT !.at = end,
                        !.pairs = Append(@, [name |-> SubSeq(buf, st.at + 2, at - 1),
                                             value |-> SubSeq(buf, at + 4, end - 1)])]

\* What is read of count pairs.
Unpack(buf, len, count) ==
  LET read[k \in 0..count] ==
        IF k = 0 THEN [at |-> 1, pairs |-> <<>>, ok |-> TRUE]
        ELSE IF read[k - 1].ok THEN ReadPair(buf, len, read[k - 1]) ELSE read[k - 1]
  IN  read[count]

\* The batch is taken as a whole or not at all: it must hold exactly that.
Framed(buf, len, count) ==
  LET st == Unpack(buf, len, count) IN st.ok /\ st.at = len + 1
=============================================================================
