--------------------------- MODULE FileSubmitProofs ---------------------------
(* For ranges and chunks of every size: what FileSubmit's runs check. *)
EXTENDS FileSubmit, SequenceTheorems, TLAPS

\* The bytes of a range followed by the ones of the next read are a range.
LEMMA BytesExtend ==
  ASSUME NEW lo \in Int, NEW hi \in Int, NEW n \in Nat, lo <= hi
  PROVE  Bytes(lo, hi) \o [k \in 1..n |-> hi + k - 1] = Bytes(lo, hi + n)
<1> DEFINE a == Bytes(lo, hi)
           b == [k \in 1..n |-> hi + k - 1]
           c == Bytes(lo, hi + n)
<1>1. a \in Seq(Int) /\ Len(a) = hi - lo
  BY DEF Bytes
<1>2. b \in Seq(Int) /\ Len(b) = n
  OBVIOUS
<1>3. c \in Seq(Int) /\ Len(c) = hi + n - lo
  BY DEF Bytes
<1>4. Len(a \o b) = Len(c) /\ a \o b \in Seq(Int)
  BY <1>1, <1>2, <1>3
<1>5. ASSUME NEW j \in 1..Len(c) PROVE (a \o b)[j] = c[j]
  <2>0. j \in Int /\ (j <= hi - lo \/ j > hi - lo)
    BY <1>3
  <2>1. c[j] = lo + j - 1
    BY <1>3 DEF Bytes
  <2>2. CASE j <= hi - lo
    BY <1>1, <1>2, <2>1, <2>2 DEF Bytes
  <2>3. CASE j > hi - lo
    <3>1. j - Len(a) \in 1..Len(b)
      BY <1>1, <1>2, <1>3, <2>0, <2>3
    <3>2. b[j - Len(a)] = hi + (j - Len(a)) - 1
      BY <3>1, <1>2 DEF Bytes
    <3> HIDE DEF a, b, c
    <3>3. (a \o b)[j] = b[j - Len(a)]
      <4>1. \A i \in 1..Len(a) + Len(b) :
              (a \o b)[i] = IF i <= Len(a) THEN a[i] ELSE b[i - Len(a)]
        BY <1>1, <1>2, ConcatProperties
      <4>2. j \in 1..Len(a) + Len(b) /\ ~(j <= Len(a))
        BY <1>1, <1>2, <1>3, <2>0, <2>3
      <4> QED
        BY <4>1, <4>2
    <3>4. b[j - Len(a)] = c[j]
      BY <3>2, <2>0, <2>1, <1>1
    <3> QED
      BY <3>3, <3>4
  <2>4. QED
    BY <2>0, <2>2, <2>3
<1> HIDE DEF a, b, c
<1>6. a \o b = c
  BY <1>3, <1>4, <1>5, SeqEqual
<1>7. QED
  BY <1>6 DEF a, b, c

-----------------------------------------------------------------------------
\* The loops start with nothing.
LEMMA InitInv == Init => LoopInv
<1> SUFFICES ASSUME Init PROVE LoopInv
  OBVIOUS
<1>1. first \in Int /\ last \in Int /\ offset = first /\ eof = last
  BY FileAssumption DEF Init
<1>2. first - 1 <= last
  BY <1>1, FileAssumption DEF Init
<1>3. data = Bytes(first, offset)
  BY <1>1 DEF Init, Bytes
<1>4. first <= offset /\ (offset <= last \/ last < first)
  BY <1>1, <1>2
<1>5. kind \in {"request", "response", "copy"} /\ error_page \in BOOLEAN
  BY DEF Init
<1>6. pc = "start" /\ rc = "none" /\ triggered = FALSE /\ held = {}
  BY DEF Init
<1>7. QED
  BY <1>1, <1>3, <1>4, <1>5, <1>6 DEF LoopInv

\* A read takes the loop from one prefix of the range to a longer one.
LEMMA ReadExtends ==
  ASSUME LoopInv, Read
  PROVE  /\ offset' \in Int /\ first <= offset' /\ offset' <= last
         /\ data' = Bytes(first, offset')
<1>1. PICK n \in 1..Smaller(size, eof - offset) :
        /\ data' = data \o [k \in 1..n |-> offset + k - 1]
        /\ offset' = Advance(n)
  BY DEF Read
<1>2. size \in Int /\ size <= last - offset /\ offset < last
  BY FileAssumption DEF LoopInv, Read, size, Smaller
<1>3. n \in Nat /\ n <= size
  BY <1>1, <1>2 DEF LoopInv, Smaller
<1>4. offset' = offset + n
  BY <1>1 DEF Advance
<1>5. data' = Bytes(first, offset + n)
  BY <1>1, <1>3, BytesExtend DEF LoopInv
<1>6. QED
  BY <1>2, <1>3, <1>4, <1>5 DEF LoopInv

\* Every step keeps the invariant.
LEMMA NextInv == LoopInv /\ [Next]_vars => LoopInv'
<1> SUFFICES ASSUME LoopInv, [Next]_vars PROVE LoopInv'
  OBVIOUS
<1>1. CASE Empty
  <2>1. CASE last = first
    BY <1>1, <2>1 DEF LoopInv, Empty, Return, input, Bytes
  <2>2. CASE last < first
    <3>1. pc = "start" /\ held = {}
      BY <1>1 DEF LoopInv, Empty
    <3>2. pc' = "returned" /\ rc' = "error" /\ triggered' = TRUE /\ held' = {}
      BY <1>1, <2>2, <3>1 DEF LoopInv, Empty, Return
    <3>3. UNCHANGED <<kind, error_page, first, last, eof, offset, data>>
      BY <1>1 DEF Empty, input
    <3>4. QED
      BY <2>2, <3>2, <3>3 DEF LoopInv, Bytes
  <2>3. QED
    BY <1>1, <2>1, <2>2 DEF Empty
<1>2. CASE Acquire
  BY <1>2 DEF LoopInv, Acquire, input, Bytes
<1>3. CASE AcquireFails
  BY <1>3 DEF LoopInv, AcquireFails, Return, input, Bytes
<1>4. CASE DirectioOff
  BY <1>4 DEF LoopInv, DirectioOff, ErrorExit, input, Bytes
<1>5. CASE Read
  BY <1>5, ReadExtends DEF LoopInv, Read, input, Bytes
<1>6. CASE ReadNothing
  BY <1>6 DEF LoopInv, ReadNothing, ErrorExit, input, Bytes
<1>7. CASE ReadFails
  BY <1>7 DEF LoopInv, ReadFails, ErrorExit, input, Bytes
<1>8. CASE Poll
  BY <1>8 DEF LoopInv, Poll, ErrorExit, input, Bytes
<1>9. CASE ReadAll
  BY <1>9 DEF LoopInv, ReadAll, input, Bytes
<1>10. CASE Done
  BY <1>10 DEF LoopInv, Done, Arms, input, Bytes
<1>11. CASE Shrink
  BY <1>11 DEF LoopInv, Shrink, input, Bytes
<1>12. CASE UNCHANGED vars
  BY <1>12 DEF LoopInv, vars, Bytes
<1>13. QED
  BY <1>1, <1>2, <1>3, <1>4, <1>5, <1>6, <1>7, <1>8, <1>9, <1>10, <1>11, <1>12
     DEF Next, Code

\* The loops keep their invariant for every range, chunk and file.
THEOREM LoopInvariant == Spec => []LoopInv
BY InitInv, NextInv, PTL DEF Spec

\* A success of any of the three loops means that the engine, or the copy, has
\* the whole range, whatever its size and however the reads were cut.
THEOREM WholeRangeTheorem == Spec => []WholeRange
<1>1. LoopInv => WholeRange
  BY DEF LoopInv, WholeRange
<1>2. QED
  BY <1>1, LoopInvariant, PTL

\* Every way out gives back the descriptor, the buffer and O_DIRECT.
THEOREM GivenBackTheorem == Spec => []GivenBack
<1>1. LoopInv => GivenBack
  BY DEF LoopInv, GivenBack
<1>2. QED
  BY <1>1, LoopInvariant, PTL

\* A body the engine has only a part of is blocked, or yields to an error page.
THEOREM PartialIsBlockedTheorem == Spec => []PartialIsBlocked
<1>1. LoopInv => PartialIsBlocked
  BY DEF LoopInv, PartialIsBlocked
<1>2. QED
  BY <1>1, LoopInvariant, PTL
=============================================================================
