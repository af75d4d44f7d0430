-------------------------- MODULE BodyFilterProofs --------------------------
(***************************************************************************)
(* For responses, storage, chains and caps of every size: the invariants   *)
(* of BodyFilter, and that it implements Delivery.                         *)
(***************************************************************************)
EXTENDS BodyFilter, SequenceTheorems, FiniteSetTheorems, TLAPS

LinkType == [kind : {"mem", "stable", "empty"} \cup Headers,
             slot : Slot \cup {"none"}, unit : 0..N, last : BOOLEAN]

ConfType == [size : 0..N, file : BOOLEAN, delay : BOOLEAN,
             processable : BOOLEAN, error_page : BOOLEAN]

TypeInv ==
  /\ made \in 0..N /\ empties \in 0..MaxEmpty /\ ended \in BOOLEAN
  /\ store \in [Slot -> 0..N] /\ busy \subseteq Slot
  /\ pc \in {"idle", "loop", "stopped", "reset"} /\ i \in 1..(MaxChain + 1)
  /\ conf \in ConfType
  /\ delayed \in BOOLEAN /\ triggered \in BOOLEAN /\ swallow \in BOOLEAN
  /\ bytes \in Nat /\ phase4 \in 0..1
  /\ in \in Seq(LinkType) /\ pending \in Seq(LinkType) /\ rout \in Seq(LinkType)
  /\ client \in [headers : Seq(Headers), data : Seq(0..N)]
  /\ Len(in) <= MaxChain

\* The flags of a response that is still the origin's.
Alive == ~triggered /\ pc # "reset"
ControlInv ==
  /\ pc = "loop" => ~triggered /\ i <= Len(in) + 1
  /\ pc = "stopped" => triggered
  /\ delayed => conf.delay /\ ~triggered
  /\ conf.delay => ~conf.error_page
  /\ Alive /\ ~delayed => pending = <<>>

\* The last buffer: behind it comes no other, and it is what runs phase 4.
From == IF pc = "loop" THEN i ELSE 1
LastInv ==
  /\ made <= conf.size /\ (ended => made = conf.size)
  /\ \A j \in 1..Len(in) : in[j].last => ended
  /\ \A j, m \in 1..Len(in) : in[j].last /\ in[m].last => j = m
  /\ phase4 = 1 => ended
  /\ phase4 = 1 /\ Alive => \A j \in From..Len(in) : ~in[j].last
  /\ pc = "loop" => \A j \in 1..(i - 1) : j <= Len(in) /\ in[j].last => phase4 = 1

\* The headers: what the client has, and what is on its way.
HeaderInv ==
  /\ \A j \in 1..Len(in) : in[j].kind \notin Headers
  /\ \A j \in 1..Len(pending) : pending[j].kind \notin Headers
  /\ delayed /\ pc # "reset" => rout = <<>> /\ client.headers = <<>>
  /\ client.headers = <<>> => client.data = <<>>
  /\ Alive /\ ~delayed =>
       \/ /\ client.headers = <<>>
          /\ rout # <<>> /\ rout[1] = Header("origin")
          /\ \A j \in 2..Len(rout) : rout[j].kind \notin Headers
       \/ /\ client.headers = <<"origin">>
          /\ \A j \in 1..Len(rout) : rout[j].kind \notin Headers
  /\ Alive /\ ~delayed /\ conf.delay => phase4 = 1 \/ bytes > Cap
  /\ triggered /\ pc # "reset" =>
       /\ client.data = <<>>
       /\ \/ client.headers = <<>> /\ rout \in {<<Header("redirect")>>, <<Header("page")>>}
          \/ client.headers \in {<<"redirect">>, <<"page">>} /\ rout = <<>>
  /\ pc = "reset" =>
       rout = <<>> /\ (conf.delay /\ client.headers # <<>> => phase4 = 1 \/ bytes > Cap)

\* What the client has still to read of the origin's response, link by link.
Rest == IF pc = "loop" THEN SubSeq(in, i, Len(in)) ELSE in
Live == IF delayed THEN pending \o Rest ELSE rout \o in

Data(b) == b.kind \in {"mem", "stable"}
UnitIn(st, b) == IF b.kind = "mem" THEN st[b.slot] ELSE b.unit

\* The links of q hold the units from lo + 1 to hi, in order and without a gap,
\* and none of the storage they are in is free to be reused.
Stored(bz, q) ==
  \A j \in 1..Len(q) : /\ q[j].kind = "mem" => q[j].slot \in bz
                       /\ q[j].kind # "mem" => q[j].slot = "none"
Within(st, q, lo, hi) ==
  \A j \in 1..Len(q) : Data(q[j]) => UnitIn(st, q[j]) \in (lo + 1)..hi
Ascending(st, q) ==
  \A j, m \in 1..Len(q) :
    j < m /\ Data(q[j]) /\ Data(q[m]) => UnitIn(st, q[j]) < UnitIn(st, q[m])
Complete(st, q, lo, hi) ==
  \A u \in (lo + 1)..hi : \E j \in 1..Len(q) : Data(q[j]) /\ UnitIn(st, q[j]) = u
Stream(st, bz, q, lo, hi) ==
  /\ Stored(bz, q) /\ Within(st, q, lo, hi)
  /\ Ascending(st, q) /\ Complete(st, q, lo, hi)

StreamInv ==
  Alive => /\ Len(client.data) <= made
           /\ Stream(store, busy, Live, Len(client.data), made)

\* What is held and what was charged for it.
BytesInv ==
  /\ bytes <= made
  /\ delayed /\ pc \in {"idle", "loop"} =>
       /\ \A j \in 1..Len(pending) : Data(pending[j]) /\ ~pending[j].last =>
            pending[j].kind = "stable" /\ pending[j].unit <= bytes
       /\ \A m \in 1..Len(Rest) : Data(Rest[m]) => UnitIn(store, Rest[m]) > bytes
       /\ \A j \in 1..Len(in) : in[j].last =>
            \A m \in (j + 1)..Len(in) : ~Data(in[m])
       /\ \A j \in 1..Len(pending) : pending[j].last =>
            pc = "loop" /\ \E m \in 1..(i - 1) : m <= Len(in) /\ in[m].last
       /\ pc = "idle" => bytes <= Cap

IInv == TypeInv /\ ControlInv /\ LastInv /\ HeaderInv /\ StreamInv /\ BytesInv

-----------------------------------------------------------------------------
(* Streams of links *)

\* The elements of the sequences the actions build.
LEMMA AppendAt ==
  ASSUME NEW S, NEW q \in Seq(S), NEW b \in S
  PROVE  /\ Append(q, b) \in Seq(S) /\ Len(Append(q, b)) = Len(q) + 1
         /\ Append(q, b)[Len(q) + 1] = b
         /\ \A j \in 1..Len(q) : Append(q, b)[j] = q[j]
OBVIOUS

\* A buffer joins the stream: an empty one, the next unit as a range of a file,
\* or the next unit in storage st2 that is st but for the buffer's free slot.
LEMMA StreamAppend ==
  ASSUME NEW st, NEW st2, NEW bz, NEW bz2, NEW q \in Seq(LinkType), NEW lo \in Nat,
         NEW hi \in Nat, NEW hi2 \in Nat, lo <= hi, NEW b \in LinkType,
         Stream(st, bz, q, lo, hi),
         \A s \in bz : st2[s] = st[s], bz \subseteq bz2,
         IF b.kind = "mem" THEN b.slot \in bz2 ELSE b.slot = "none",
         IF Data(b) THEN UnitIn(st2, b) = hi + 1 /\ hi2 = hi + 1 ELSE hi2 = hi
  PROVE  Stream(st2, bz2, Append(q, b), lo, hi2)
<1> DEFINE p == Append(q, b)
<1>1. p \in Seq(LinkType) /\ Len(p) = Len(q) + 1 /\ Len(q) \in Nat
      /\ p[Len(q) + 1] = b /\ \A j \in 1..Len(q) : p[j] = q[j]
  BY AppendAt
<1> HIDE DEF p
<1>2. \A j \in 1..Len(p) : (j \in 1..Len(q) /\ p[j] = q[j]) \/ (j = Len(q) + 1 /\ p[j] = b)
  BY <1>1
<1>3. \A j \in 1..Len(q) : Data(q[j]) => UnitIn(st2, q[j]) = UnitIn(st, q[j])
  BY DEF Stream, Stored, UnitIn
<1>4. Stored(bz2, p)
  BY <1>2 DEF Stream, Stored
<1>5. Within(st2, p, lo, hi2)
  BY <1>2, <1>3 DEF Stream, Within
<1>6. Ascending(st2, p)
  <2> SUFFICES ASSUME NEW j \in 1..Len(p), NEW m \in 1..Len(p), j < m,
                      Data(p[j]), Data(p[m])
               PROVE  UnitIn(st2, p[j]) < UnitIn(st2, p[m])
    BY DEF Ascending
  <2>1. j \in 1..Len(q) /\ p[j] = q[j]
    BY <1>1, <1>2
  <2>2. CASE m \in 1..Len(q) /\ p[m] = q[m]
    BY <2>1, <2>2, <1>3 DEF Stream, Ascending
  <2>3. CASE p[m] = b
    BY <2>1, <2>3, <1>3, SMTT(30) DEF Stream, Within
  <2> QED
    BY <2>2, <2>3, <1>2
<1>7. Complete(st2, p, lo, hi2)
  <2> SUFFICES ASSUME NEW u \in (lo + 1)..hi2
               PROVE  \E j \in 1..Len(p) : Data(p[j]) /\ UnitIn(st2, p[j]) = u
    BY DEF Complete
  <2>1. CASE u \in (lo + 1)..hi
    <3>1. PICK j \in 1..Len(q) : Data(q[j]) /\ UnitIn(st, q[j]) = u
      BY <2>1 DEF Stream, Complete
    <3>2. j \in 1..Len(p) /\ p[j] = q[j]
      BY <1>1
    <3> QED
      BY <3>1, <3>2, <1>3
  <2>2. CASE u \notin (lo + 1)..hi
    <3>1. Data(b) /\ u = hi + 1
      BY <2>2
    <3>2. Len(q) + 1 \in 1..Len(p)
      BY <1>1
    <3> QED
      BY <3>1, <3>2, <1>1
  <2> QED
    BY <2>1, <2>2
<1> QED
  BY <1>4, <1>5, <1>6, <1>7 DEF p, Stream

\* The header of the response joins the stream at its head.
LEMMA StreamHeader ==
  ASSUME NEW st, NEW bz, NEW q \in Seq(LinkType), NEW lo \in Nat, NEW hi \in Nat,
         NEW b \in LinkType, ~Data(b), b.slot = "none", Stream(st, bz, q, lo, hi)
  PROVE  Stream(st, bz, <<b>> \o q, lo, hi)
<1> DEFINE p == <<b>> \o q
<1>1. <<b>> \in Seq(LinkType) /\ Len(<<b>>) = 1 /\ <<b>>[1] = b
  OBVIOUS
<1>2. p \in Seq(LinkType) /\ Len(p) = Len(q) + 1 /\ Len(q) \in Nat
      /\ p[1] = b /\ \A j \in 2..Len(p) : p[j] = q[j - 1]
  BY <1>1, ConcatProperties
<1> HIDE DEF p
<1>3. \A j \in 1..Len(p) : (j = 1 /\ p[j] = b) \/ (j - 1 \in 1..Len(q) /\ p[j] = q[j - 1])
  BY <1>2
<1>4. b.kind # "mem"
  BY DEF Data
<1>5. Stored(bz, p)
  BY <1>3, <1>4 DEF Stream, Stored
<1>6. Within(st, p, lo, hi)
  BY <1>3 DEF Stream, Within
<1>7. Ascending(st, p)
  <2> SUFFICES ASSUME NEW j \in 1..Len(p), NEW m \in 1..Len(p), j < m,
                      Data(p[j]), Data(p[m])
               PROVE  UnitIn(st, p[j]) < UnitIn(st, p[m])
    BY DEF Ascending
  <2>1. j - 1 \in 1..Len(q) /\ p[j] = q[j - 1]
    BY <1>3
  <2>2. m - 1 \in 1..Len(q) /\ p[m] = q[m - 1]
    BY <1>3
  <2> QED
    BY <2>1, <2>2, SMTT(30) DEF Stream, Ascending
<1>8. Complete(st, p, lo, hi)
  <2> SUFFICES ASSUME NEW u \in (lo + 1)..hi
               PROVE  \E j \in 1..Len(p) : Data(p[j]) /\ UnitIn(st, p[j]) = u
    BY DEF Complete
  <2>1. PICK j \in 1..Len(q) : Data(q[j]) /\ UnitIn(st, q[j]) = u
    BY DEF Stream, Complete
  <2>2. j + 1 \in 1..Len(p) /\ p[j + 1] = q[j]
    BY <1>2
  <2> QED
    BY <2>1, <2>2
<1> QED
  BY <1>5, <1>6, <1>7, <1>8 DEF p, Stream

\* The first link leaves the stream, and its storage becomes free: it held the
\* next unit, or none.
LEMMA StreamTail ==
  ASSUME NEW st, NEW bz, NEW q \in Seq(LinkType), NEW lo \in Nat, NEW hi \in Nat,
         q # <<>>, "none" \notin bz, Stream(st, bz, q, lo, hi)
  PROVE  /\ Data(q[1]) => /\ UnitIn(st, q[1]) = lo + 1 /\ lo < hi
                          /\ Stream(st, bz \ {q[1].slot}, Tail(q), lo + 1, hi)
         /\ ~Data(q[1]) => Stream(st, bz \ {q[1].slot}, Tail(q), lo, hi)
<1> DEFINE p == Tail(q)
           h == q[1]
<1>1. p \in Seq(LinkType) /\ Len(q) = Len(p) + 1 /\ Len(p) \in Nat
      /\ \A j \in 1..Len(p) : p[j] = q[j + 1]
  OBVIOUS
<1>2. h \in LinkType /\ 1 \in 1..Len(q)
  BY <1>1
<1> HIDE DEF p
<1>3. \A j \in 1..Len(p) : j + 1 \in 1..Len(q) /\ 1 < j + 1 /\ p[j] = q[j + 1]
  BY <1>1
<1>4. Stored(bz \ {h.slot}, p)
  <2> SUFFICES ASSUME NEW j \in 1..Len(p)
               PROVE  /\ p[j].kind = "mem" => p[j].slot \in bz \ {h.slot}
                      /\ p[j].kind # "mem" => p[j].slot = "none"
    BY DEF Stored
  <2>1. /\ p[j].kind = "mem" => p[j].slot \in bz
        /\ p[j].kind # "mem" => p[j].slot = "none"
    BY <1>3 DEF Stream, Stored
  <2>2. ASSUME p[j].kind = "mem", p[j].slot = h.slot PROVE FALSE
    <3>1. h.kind = "mem"
      BY <2>1, <2>2, <1>2 DEF Stream, Stored
    <3>2. UnitIn(st, h) = UnitIn(st, p[j])
      BY <2>2, <3>1 DEF UnitIn
    <3>3. UnitIn(st, h) < UnitIn(st, p[j]) /\ UnitIn(st, h) \in (lo + 1)..hi
      BY <2>2, <3>1, <1>2, <1>3 DEF Stream, Ascending, Within, Data
    <3> QED
      BY <3>2, <3>3
  <2> QED
    BY <2>1, <2>2
<1>5. Ascending(st, p)
  BY <1>3 DEF Stream, Ascending
<1>6. ASSUME ~Data(h) PROVE Within(st, p, lo, hi) /\ Complete(st, p, lo, hi)
  <2>1. Within(st, p, lo, hi)
    BY <1>3 DEF Stream, Within
  <2>2. ASSUME NEW u \in (lo + 1)..hi
        PROVE  \E j \in 1..Len(p) : Data(p[j]) /\ UnitIn(st, p[j]) = u
    <3>1. PICK m \in 1..Len(q) : Data(q[m]) /\ UnitIn(st, q[m]) = u
      BY DEF Stream, Complete
    <3>2. m - 1 \in 1..Len(p) /\ p[m - 1] = q[m]
      BY <1>1, <1>6, <3>1
    <3> QED
      BY <3>1, <3>2
  <2> QED
    BY <2>1, <2>2 DEF Complete
<1>7. ASSUME Data(h)
      PROVE  /\ UnitIn(st, h) = lo + 1 /\ lo < hi
             /\ Within(st, p, lo + 1, hi) /\ Complete(st, p, lo + 1, hi)
  <2>1. UnitIn(st, h) \in (lo + 1)..hi
    BY <1>2, <1>7 DEF Stream, Within
  <2>2. PICK m \in 1..Len(q) : Data(q[m]) /\ UnitIn(st, q[m]) = lo + 1
    BY <2>1 DEF Stream, Complete
  <2>3. UnitIn(st, h) = lo + 1
    <3>1. CASE m = 1
      BY <2>2, <3>1
    <3>2. CASE m # 1
      <4>1. UnitIn(st, h) < UnitIn(st, q[m])
        BY <3>2, <2>2, <1>2, <1>7 DEF Stream, Ascending
      <4> QED
        BY <4>1, <2>1, <2>2
    <3> QED
      BY <3>1, <3>2
  <2>4. Within(st, p, lo + 1, hi)
    <3> SUFFICES ASSUME NEW j \in 1..Len(p), Data(p[j])
                 PROVE  UnitIn(st, p[j]) \in (lo + 2)..hi
      BY DEF Within
    <3>1. UnitIn(st, p[j]) \in (lo + 1)..hi
      BY <1>3 DEF Stream, Within
    <3>2. UnitIn(st, h) < UnitIn(st, p[j])
      BY <1>2, <1>3, <1>7 DEF Stream, Ascending
    <3> QED
      BY <3>1, <3>2, <2>3
  <2>5. ASSUME NEW u \in (lo + 2)..hi
        PROVE  \E j \in 1..Len(p) : Data(p[j]) /\ UnitIn(st, p[j]) = u
    <3>1. PICK m1 \in 1..Len(q) : Data(q[m1]) /\ UnitIn(st, q[m1]) = u
      BY DEF Stream, Complete
    <3>2. m1 # 1
      BY <3>1, <2>3
    <3>3. m1 - 1 \in 1..Len(p) /\ p[m1 - 1] = q[m1]
      BY <1>1, <3>2
    <3> QED
      BY <3>1, <3>3
  <2>6. (lo + 1) + 1 = lo + 2
    OBVIOUS
  <2> QED
    BY <2>1, <2>3, <2>4, <2>5, <2>6 DEF Complete
<1> QED
  BY <1>4, <1>5, <1>6, <1>7 DEF p, Stream

\* The k-th link is replaced by a copy of it that needs no storage of the
\* producer, which becomes free.
LEMMA StreamHeld ==
  ASSUME NEW st, NEW bz, NEW q \in Seq(LinkType), NEW p \in Seq(LinkType),
         NEW lo \in Nat, NEW hi \in Nat, "none" \notin bz, Stream(st, bz, q, lo, hi),
         NEW k \in 1..Len(q), Len(p) = Len(q),
         \A j \in 1..Len(q) : j # k => p[j] = q[j],
         p[k].kind # "mem", p[k].slot = "none", Data(p[k]) <=> Data(q[k]),
         Data(q[k]) => UnitIn(st, p[k]) = UnitIn(st, q[k])
  PROVE  Stream(st, bz \ {q[k].slot}, p, lo, hi)
<1>1. \A j \in 1..Len(q) : /\ Data(p[j]) <=> Data(q[j])
                           /\ Data(q[j]) => UnitIn(st, p[j]) = UnitIn(st, q[j])
  OBVIOUS
<1>2. Stored(bz \ {q[k].slot}, p)
  <2> SUFFICES ASSUME NEW j \in 1..Len(q), j # k
               PROVE  /\ q[j].kind = "mem" => q[j].slot \in bz \ {q[k].slot}
                      /\ q[j].kind # "mem" => q[j].slot = "none"
    BY DEF Stored
  <2>1. /\ q[j].kind = "mem" => q[j].slot \in bz
        /\ q[j].kind # "mem" => q[j].slot = "none"
    BY DEF Stream, Stored
  <2>2. ASSUME q[j].kind = "mem", q[j].slot = q[k].slot PROVE FALSE
    <3>1. q[k].kind = "mem"
      BY <2>1, <2>2 DEF Stream, Stored
    <3>2. UnitIn(st, q[k]) = UnitIn(st, q[j]) /\ UnitIn(st, q[k]) \in (lo + 1)..hi
      BY <2>2, <3>1 DEF UnitIn, Stream, Within, Data
    <3>3. UnitIn(st, q[k]) < UnitIn(st, q[j]) \/ UnitIn(st, q[j]) < UnitIn(st, q[k])
      BY <2>2, <3>1 DEF Stream, Ascending, Data
    <3> QED
      BY <3>2, <3>3
  <2> QED
    BY <2>1, <2>2
<1>3. Within(st, p, lo, hi)
  BY <1>1 DEF Stream, Within
<1>4. Ascending(st, p)
  BY <1>1 DEF Stream, Ascending
<1>5. Complete(st, p, lo, hi)
  BY <1>1 DEF Stream, Complete
<1> QED
  BY <1>2, <1>3, <1>4, <1>5 DEF Stream

-----------------------------------------------------------------------------
(* The sequences the actions build *)

LEMMA ConcatAppend ==
  ASSUME NEW S, NEW a \in Seq(S), NEW b \in Seq(S), NEW x \in S
  PROVE  a \o Append(b, x) = Append(a \o b, x)
<1> DEFINE l == a \o Append(b, x)
           m == Append(a \o b, x)
<1>1. /\ l \in Seq(S) /\ Len(l) = Len(a) + Len(b) + 1
      /\ \A j \in 1..Len(l) : l[j] = IF j <= Len(a) THEN a[j] ELSE Append(b, x)[j - Len(a)]
  <2> DEFINE bx == Append(b, x)
  <2>1. bx \in Seq(S) /\ Len(bx) = Len(b) + 1
    BY AppendAt
  <2> HIDE DEF bx
  <2>2. /\ a \o bx \in Seq(S) /\ Len(a \o bx) = Len(a) + Len(bx)
        /\ \A j \in 1..(Len(a) + Len(bx)) :
             (a \o bx)[j] = IF j <= Len(a) THEN a[j] ELSE bx[j - Len(a)]
    BY <2>1, ConcatProperties
  <2> QED
    BY <2>1, <2>2 DEF bx
<1>2. /\ a \o b \in Seq(S) /\ Len(a \o b) = Len(a) + Len(b)
      /\ \A j \in 1..(Len(a) + Len(b)) : (a \o b)[j] = IF j <= Len(a) THEN a[j] ELSE b[j - Len(a)]
  BY ConcatProperties
<1>3. /\ m \in Seq(S) /\ Len(m) = Len(a) + Len(b) + 1 /\ m[Len(a) + Len(b) + 1] = x
      /\ \A j \in 1..(Len(a) + Len(b)) : m[j] = (a \o b)[j]
  BY <1>2, AppendAt
<1>4. Append(b, x)[Len(b) + 1] = x /\ \A j \in 1..Len(b) : Append(b, x)[j] = b[j]
  BY AppendAt
<1> HIDE DEF l, m
<1>5. ASSUME NEW j \in 1..Len(l) PROVE l[j] = m[j]
  <2>1. CASE j <= Len(a)
    BY <2>1, <1>1, <1>2, <1>3, SMTT(30)
  <2>2. CASE j > Len(a) /\ j <= Len(a) + Len(b)
    <3>1. j - Len(a) \in 1..Len(b)
      BY <2>2
    <3>2. l[j] = b[j - Len(a)]
      BY <3>1, <2>2, <1>1, <1>4
    <3>3. m[j] = b[j - Len(a)]
      BY <2>2, <1>2, <1>3
    <3> QED
      BY <3>2, <3>3
  <2>3. CASE j = Len(a) + Len(b) + 1
    <3>1. l[j] = Append(b, x)[j - Len(a)] /\ j - Len(a) = Len(b) + 1
      BY <2>3, <1>1
    <3> QED
      BY <3>1, <2>3, <1>3, <1>4
  <2> QED
    BY <2>1, <2>2, <2>3, <1>1
<1>6. l = m
  BY <1>1, <1>3, <1>5, SeqEqual
<1> QED
  BY <1>6 DEF l, m

LEMMA ConcatTail ==
  ASSUME NEW S, NEW a \in Seq(S), NEW b \in Seq(S), a # <<>>
  PROVE  /\ Tail(a) \o b = Tail(a \o b) /\ a \o b # <<>> /\ (a \o b)[1] = a[1]
         /\ Tail(a) \in Seq(S)
<1> DEFINE l == Tail(a) \o b
           m == Tail(a \o b)
           w == a \o b
           v == Tail(a)
<1>1. /\ v \in Seq(S) /\ Len(v) = Len(a) - 1 /\ Len(a) \in Nat \ {0}
      /\ \A j \in 1..Len(v) : v[j] = a[j + 1]
  OBVIOUS
<1>2. /\ w \in Seq(S) /\ Len(w) = Len(a) + Len(b)
      /\ \A j \in 1..Len(w) : w[j] = IF j <= Len(a) THEN a[j] ELSE b[j - Len(a)]
  BY ConcatProperties
<1>3. w # <<>> /\ w[1] = a[1]
  BY <1>1, <1>2
<1>4. /\ l \in Seq(S) /\ Len(l) = Len(a) - 1 + Len(b)
      /\ \A j \in 1..Len(l) : l[j] = IF j <= Len(a) - 1 THEN v[j] ELSE b[j - (Len(a) - 1)]
  <2> HIDE DEF v
  <2>1. /\ v \o b \in Seq(S) /\ Len(v \o b) = Len(v) + Len(b)
        /\ \A j \in 1..(Len(v) + Len(b)) : (v \o b)[j] = IF j <= Len(v) THEN v[j] ELSE b[j - Len(v)]
    BY <1>1, ConcatProperties
  <2> QED
    BY <2>1, <1>1 DEF v
<1>5. /\ m \in Seq(S) /\ Len(m) = Len(w) - 1
      /\ \A j \in 1..Len(m) : m[j] = w[j + 1]
  <2> HIDE DEF w
  <2>1. Tail(w) \in Seq(S) /\ Len(Tail(w)) = Len(w) - 1 /\ \A j \in 1..Len(Tail(w)) : Tail(w)[j] = w[j + 1]
    BY <1>2, <1>3
  <2> QED
    BY <2>1 DEF w
<1> HIDE DEF l, m, w, v
<1>6. ASSUME NEW j \in 1..Len(l) PROVE l[j] = m[j]
  <2>0. j + 1 \in 1..Len(w) /\ m[j] = w[j + 1]
    BY <1>1, <1>2, <1>4, <1>5
  <2>1. CASE j <= Len(a) - 1
    BY <2>0, <2>1, <1>1, <1>2, <1>4, SMTT(30)
  <2>2. CASE ~(j <= Len(a) - 1)
    <3>1. l[j] = b[j - (Len(a) - 1)]
      BY <2>2, <1>4
    <3>2. w[j + 1] = b[(j + 1) - Len(a)] /\ (j + 1) - Len(a) = j - (Len(a) - 1)
      BY <2>0, <2>2, <1>1, <1>2
    <3> QED
      BY <3>1, <3>2, <2>0
  <2> QED
    BY <2>1, <2>2
<1>7. l = m
  <2>1. Len(l) = Len(m)
    BY <1>1, <1>2, <1>4, <1>5
  <2> QED
    BY <2>1, <1>4, <1>5, <1>6, SeqEqual
<1> QED
  BY <1>1, <1>3, <1>7 DEF l, m, w, v

\* The links the actions make.
LEMMA Links ==
  /\ \A h \in Headers : /\ Header(h) \in LinkType /\ ~Data(Header(h))
                        /\ Header(h).slot = "none" /\ Header(h).kind = h
                        /\ Header(h).last = FALSE
  /\ \A u \in 0..N, l \in BOOLEAN :
       /\ Stable(u, l) \in LinkType /\ Data(Stable(u, l)) /\ Stable(u, l).kind = "stable"
       /\ Stable(u, l).slot = "none" /\ Stable(u, l).unit = u /\ Stable(u, l).last = l
  /\ \A l \in BOOLEAN :
       LET b == Link("empty", "none", 0, l)
       IN  b \in LinkType /\ ~Data(b) /\ b.kind = "empty" /\ b.slot = "none" /\ b.last = l
  /\ \A x \in Slot, l \in BOOLEAN :
       LET b == Link("mem", x, 0, l)
       IN  b \in LinkType /\ Data(b) /\ b.kind = "mem" /\ b.slot = x /\ b.last = l
BY BodyAssumption DEF Header, Stable, Link, LinkType, Data, Headers

\* What a chain has behind the buffer the loop is at.
LEMMA RestAt ==
  ASSUME NEW q \in Seq(LinkType), NEW k \in 1..(Len(q) + 1)
  PROVE  /\ SubSeq(q, k, Len(q)) \in Seq(LinkType)
         /\ Len(SubSeq(q, k, Len(q))) = Len(q) - k + 1
         /\ \A j \in 1..(Len(q) - k + 1) : SubSeq(q, k, Len(q))[j] = q[k + j - 1]
         /\ k = Len(q) + 1 => SubSeq(q, k, Len(q)) = <<>>
         /\ k = 1 => SubSeq(q, k, Len(q)) = q
<1>1. Len(q) \in Nat
  OBVIOUS
<1>2. /\ SubSeq(q, k, Len(q)) \in Seq(LinkType)
      /\ Len(SubSeq(q, k, Len(q))) = Len(q) - k + 1
      /\ \A j \in 1..(Len(q) - k + 1) : SubSeq(q, k, Len(q))[j] = q[k + j - 1]
  BY <1>1, SubSeqProperties
<1>3. k = Len(q) + 1 => SubSeq(q, k, Len(q)) = <<>>
  BY <1>1, <1>2
<1>4. k = 1 => SubSeq(q, k, Len(q)) = q
  <2> SUFFICES ASSUME k = 1 PROVE SubSeq(q, 1, Len(q)) = q
    OBVIOUS
  <2>1. Len(SubSeq(q, 1, Len(q))) = Len(q)
    BY <1>1, <1>2
  <2>2. \A j \in 1..Len(q) : SubSeq(q, 1, Len(q))[j] = q[j]
    BY <1>1, <1>2
  <2> QED
    BY <1>2, <2>1, <2>2, SeqEqual
<1> QED
  BY <1>2, <1>3, <1>4

LEMMA LiveType ==
  ASSUME TypeInv, ControlInv
  PROVE  Rest \in Seq(LinkType) /\ Live \in Seq(LinkType)
<1>1. Rest \in Seq(LinkType)
  BY RestAt DEF TypeInv, ControlInv, Rest
<1>2. Live \in Seq(LinkType)
  BY <1>1, ConcatProperties DEF TypeInv, Live
<1> QED
  BY <1>1, <1>2

-----------------------------------------------------------------------------
LEMMA InitInv == Init => IInv
<1> SUFFICES ASSUME Init PROVE IInv
  OBVIOUS
<1>0. <<>> \in Seq(LinkType) /\ <<>> \in Seq(Headers) /\ <<>> \in Seq(0..N)
  OBVIOUS
<1>1. "origin" \in Headers
  BY DEF Headers
<1>2. rout \in Seq(LinkType)
  BY <1>0, <1>1, Links DEF Init
<1>3. conf \in ConfType
  BY DEF Init, ConfType
<1>4. delayed \in BOOLEAN /\ triggered \in BOOLEAN /\ swallow \in BOOLEAN /\ ended \in BOOLEAN
  BY <1>3 DEF Init, ConfType
<1>5. client \in [headers : Seq(Headers), data : Seq(0..N)]
  BY <1>0 DEF Init
<1>6. TypeInv
  <2>1. /\ made \in 0..N /\ empties \in 0..MaxEmpty /\ i \in 1..(MaxChain + 1)
        /\ bytes \in Nat /\ phase4 \in 0..1 /\ Len(in) <= MaxChain
    BY BodyAssumption DEF Init
  <2>2. store \in [Slot -> 0..N] /\ busy \subseteq Slot
    BY BodyAssumption DEF Init
  <2>3. in \in Seq(LinkType) /\ pending \in Seq(LinkType)
    BY <1>0 DEF Init
  <2> QED
    BY <1>2, <1>3, <1>4, <1>5, <2>1, <2>2, <2>3 DEF Init, TypeInv
<1>7. ControlInv
  BY <1>4 DEF Init, ControlInv
<1>8. LastInv
  BY <1>3 DEF Init, LastInv, ConfType
<1>9. HeaderInv
  <2>1. CASE conf.delay
    BY <2>1 DEF Init, HeaderInv
  <2>2. CASE ~conf.delay
    <3>1. rout = <<Header("origin")>> /\ Len(rout) = 1 /\ rout[1] = Header("origin") /\ rout # <<>>
      BY <2>2 DEF Init
    <3> QED
      BY <2>2, <3>1 DEF Init, HeaderInv
  <2> QED
    BY <2>1, <2>2
<1>10. \A j \in 1..Len(Live) : ~Data(Live[j]) /\ Live[j].slot = "none"
  <2>1. CASE conf.delay
    BY <2>1 DEF Init, Live, Rest
  <2>2. CASE ~conf.delay
    <3>1. Live = <<Header("origin")>>
      BY <2>2, <1>1, Links DEF Init, Live
    <3> QED
      BY <3>1, <1>1, Links
  <2> QED
    BY <2>1, <2>2
<1>11. StreamInv
  <2>1. made = 0 /\ Len(client.data) = 0
    BY DEF Init
  <2> QED
    BY <1>10, <2>1 DEF StreamInv, Stream, Stored, Within, Ascending, Complete, Data
<1>12. BytesInv
  BY BodyAssumption DEF Init, BytesInv, Rest
<1> QED
  BY <1>6, <1>7, <1>8, <1>9, <1>11, <1>12 DEF IInv

-----------------------------------------------------------------------------
(* The producer *)

\* The storage of what is in the chain while it is built.
LEMMA IdleChain ==
  ASSUME IInv, pc = "idle", ~triggered
  PROVE  /\ Live = (IF delayed THEN pending ELSE rout) \o in
         /\ \A j \in 1..Len(in) : /\ in[j].kind = "mem" => in[j].slot \in busy
                                  /\ in[j].kind # "mem" => in[j].slot = "none"
<1> DEFINE a == IF delayed THEN pending ELSE rout
<1>1. Live = a \o in /\ a \in Seq(LinkType) /\ in \in Seq(LinkType)
  BY DEF IInv, TypeInv, Live, Rest
<1> HIDE DEF a
<1>2. ASSUME NEW j \in 1..Len(in)
      PROVE  Len(a) + j \in 1..Len(Live) /\ Live[Len(a) + j] = in[j]
  BY <1>1, ConcatProperties
<1>3. Stored(busy, Live)
  BY DEF IInv, StreamInv, Stream, Alive
<1> QED
  BY <1>1, <1>2, <1>3, ZenonT(40) DEF Stored, a

\* A buffer is added to the chain.
LEMMA FillStep ==
  ASSUME IInv, Filling, NEW b \in LinkType, in' = Append(in, b), b.kind \notin Headers,
         pc' = pc, i' = i, conf' = conf, filter' = filter, rout' = rout, client' = client,
         made' \in 0..N, made' <= conf.size, ended' \in BOOLEAN, empties' \in 0..MaxEmpty,
         store' \in [Slot -> 0..N], busy' \subseteq Slot,
         ended => ended', b.last => ended' /\ ~ended, ended' => made' = conf.size,
         IF Data(b) THEN ~ended /\ UnitIn(store', b) = made + 1 /\ made' = made + 1
                    ELSE made' = made,
         \A s \in busy : store'[s] = store[s], busy \subseteq busy',
         IF b.kind = "mem" THEN b.slot \in busy' ELSE b.slot = "none"
  PROVE  IInv'
<1>0. /\ delayed' = delayed /\ pending' = pending /\ bytes' = bytes
      /\ triggered' = triggered /\ swallow' = swallow /\ phase4' = phase4
      /\ pc = "idle" /\ Len(in) < MaxChain /\ in \in Seq(LinkType) /\ Len(in) \in Nat
  BY DEF filter, Filling, IInv, TypeInv
<1>1. /\ in' \in Seq(LinkType) /\ Len(in') = Len(in) + 1 /\ in'[Len(in) + 1] = b
      /\ \A j \in 1..Len(in) : in'[j] = in[j]
  BY <1>0, AppendAt
<1>2. \A j \in 1..Len(in') : (j \in 1..Len(in) /\ in'[j] = in[j]) \/ (j = Len(in) + 1 /\ in'[j] = b)
  BY <1>0, <1>1
<1>3. TypeInv'
  <2>1. Len(in') <= MaxChain
    BY <1>0, <1>1, BodyAssumption
  <2> QED
    BY <1>0, <1>1, <2>1 DEF IInv, TypeInv
<1>4. ControlInv'
  BY <1>0 DEF IInv, ControlInv, Alive
<1>5. LastInv'
  <2>1. made' <= conf'.size /\ (ended' => made' = conf'.size) /\ (phase4' = 1 => ended')
    BY <1>0 DEF IInv, LastInv
  <2>2. \A j \in 1..Len(in') : in'[j].last => ended'
    BY <1>2 DEF IInv, LastInv
  <2>3. \A j, m \in 1..Len(in') : in'[j].last /\ in'[m].last => j = m
    BY <1>2 DEF IInv, LastInv
  <2>4. phase4 = 1 /\ ~triggered => \A j \in 1..Len(in') : ~in'[j].last
    BY <1>0, <1>2 DEF IInv, LastInv, From, Alive
  <2> QED
    BY <1>0, <2>1, <2>2, <2>3, <2>4 DEF LastInv, From, Alive
<1>6. HeaderInv'
  <2>1. \A j \in 1..Len(in') : in'[j].kind \notin Headers
    BY <1>2 DEF IInv, HeaderInv
  <2> QED
    BY <1>0, <2>1 DEF IInv, HeaderInv, Alive
<1>7. StreamInv'
  <2> SUFFICES ASSUME ~triggered PROVE StreamInv'
    BY <1>0 DEF StreamInv, Alive
  <2> DEFINE a == IF delayed THEN pending ELSE rout
  <2>1. Live = a \o in
    BY <1>0, IdleChain
  <2>2. Live' = a \o in'
    BY <1>0 DEF Live, Rest
  <2>3. a \in Seq(LinkType)
    BY DEF IInv, TypeInv
  <2> HIDE DEF a
  <2>4. Live' = Append(Live, b) /\ Live \in Seq(LinkType)
    BY <1>0, <2>1, <2>2, <2>3, ConcatAppend, ConcatProperties, SMTT(30)
  <2>5. /\ Len(client.data) \in Nat /\ made \in Nat /\ made' \in Nat /\ Len(client.data) <= made
        /\ Stream(store, busy, Live, Len(client.data), made)
    BY <1>0, BodyAssumption DEF IInv, TypeInv, StreamInv, Alive
  <2>6. Stream(store', busy', Append(Live, b), Len(client.data), made')
    BY <2>4, <2>5, StreamAppend
  <2>7. Len(client.data) <= made'
    BY <2>5
  <2> QED
    BY <2>4, <2>6, <2>7 DEF StreamInv
<1>8. BytesInv'
  <2>0. bytes' <= made'
    BY BodyAssumption, <1>0 DEF IInv, TypeInv, BytesInv
  <2> SUFFICES ASSUME delayed PROVE BytesInv'
    BY <1>0, <2>0 DEF BytesInv
  <2>1. ~triggered /\ Rest = in /\ Rest' = in'
    BY <1>0 DEF IInv, ControlInv, Rest
  <2>2. \A m \in 1..Len(in) : Data(in[m]) => UnitIn(store, in[m]) > bytes
    BY <2>1, <1>0 DEF IInv, BytesInv
  <2>3. \A m \in 1..Len(in) : Data(in[m]) => UnitIn(store', in[m]) = UnitIn(store, in[m])
    BY <1>0, <2>1, IdleChain DEF UnitIn
  <2>4. \A m \in 1..Len(in') : Data(in'[m]) => UnitIn(store', in'[m]) > bytes
    <3>1. bytes <= made /\ bytes \in Nat /\ made \in Nat
      BY BodyAssumption DEF IInv, BytesInv, TypeInv
    <3> QED
      BY <1>2, <2>2, <2>3, <3>1
  <2>5. ASSUME NEW j \in 1..Len(in'), in'[j].last
        PROVE  \A m \in (j + 1)..Len(in') : ~Data(in'[m])
    <3> SUFFICES ASSUME NEW m \in (j + 1)..Len(in') PROVE ~Data(in'[m])
      OBVIOUS
    <3>1. j \in 1..Len(in) /\ in'[j] = in[j]
      BY <1>1, <1>2
    <3>2. ended
      BY <2>5, <3>1 DEF IInv, LastInv
    <3>3. CASE in'[m] = b
      BY <3>2, <3>3
    <3>4. CASE m \in 1..Len(in) /\ in'[m] = in[m]
      <4>1. m \in (j + 1)..Len(in)
        BY <3>4
      <4> QED
        BY <4>1, <3>1, <3>4, <2>5, <1>0 DEF IInv, BytesInv
    <3>5. m \in 1..Len(in')
      BY <1>0, <1>1
    <3> QED
      BY <3>3, <3>4, <3>5, <1>2
  <2>6. \A j \in 1..Len(pending) : Data(pending[j]) /\ ~pending[j].last =>
            pending[j].kind = "stable" /\ pending[j].unit <= bytes
    BY <1>0 DEF IInv, BytesInv
  <2>7. \A j \in 1..Len(pending) : ~pending[j].last
    BY <1>0 DEF IInv, BytesInv
  <2>8. bytes <= Cap
    BY <1>0 DEF IInv, BytesInv
  <2> QED
    BY <1>0, <2>0, <2>1, <2>4, <2>5, <2>6, <2>7, <2>8 DEF BytesInv
<1> QED
  BY <1>3, <1>4, <1>5, <1>6, <1>7, <1>8 DEF IInv

LEMMA FillDataStep == IInv /\ FillData => IInv'
<1> SUFFICES ASSUME IInv, FillData PROVE IInv'
  OBVIOUS
<1>1. /\ Filling /\ made' = made + 1 /\ made < conf.size /\ empties' = empties
      /\ pc' = pc /\ i' = i /\ conf' = conf /\ filter' = filter /\ rout' = rout /\ client' = client
      /\ ended' \in {FALSE, made + 1 = conf.size}
  BY DEF FillData
<1>2. /\ conf.size \in 0..N /\ made \in 0..N /\ empties \in 0..MaxEmpty
      /\ store \in [Slot -> 0..N] /\ busy \subseteq Slot
  BY DEF IInv, TypeInv, ConfType
<1>3. /\ made' \in 0..N /\ made' <= conf.size /\ ended' \in BOOLEAN
      /\ ended' => made' = conf.size
  <2>1. made' \in 0..N /\ made' <= conf.size
    BY <1>1, <1>2, BodyAssumption
  <2>2. ended' = FALSE \/ ended' = (made + 1 = conf.size)
    BY <1>1
  <2>3. ended' \in BOOLEAN /\ (ended' => made + 1 = conf.size)
    BY <2>2
  <2> QED
    BY <1>1, <2>1, <2>3
<1>4. ~ended
  BY <1>1, <1>2, BodyAssumption DEF IInv, LastInv
<1>5. CASE /\ in' = Append(in, Stable(made + 1, ended'))
           /\ UNCHANGED <<store, busy>>
  <2> DEFINE b == Stable(made + 1, ended')
  <2>1. /\ b \in LinkType /\ Data(b) /\ b.kind = "stable"
        /\ b.slot = "none" /\ b.unit = made + 1 /\ b.last = ended'
    BY <1>1, <1>3, Links
  <2> HIDE DEF b
  <2>2. b.kind \notin Headers /\ UnitIn(store', b) = made + 1 /\ in' = Append(in, b)
    BY <1>5, <2>1 DEF Headers, UnitIn, b
  <2> QED
    BY <1>1, <1>2, <1>3, <1>4, <1>5, <2>1, <2>2, FillStep
<1>6. CASE \E s \in Slot \ busy :
             /\ store' = [store EXCEPT ![s] = made + 1]
             /\ busy' = busy \cup {s}
             /\ in' = Append(in, Link("mem", s, 0, ended'))
  <2>1. PICK s \in Slot \ busy :
             /\ store' = [store EXCEPT ![s] = made + 1]
             /\ busy' = busy \cup {s}
             /\ in' = Append(in, Link("mem", s, 0, ended'))
    BY <1>6
  <2> DEFINE b == Link("mem", s, 0, ended')
  <2>2. b \in LinkType /\ Data(b) /\ b.kind = "mem" /\ b.slot = s /\ b.last = ended'
    BY <1>3, Links
  <2> HIDE DEF b
  <2>3. store' \in [Slot -> 0..N] /\ store'[s] = made + 1 /\ \A x \in busy : store'[x] = store[x]
    BY <1>1, <1>2, <1>3, <2>1
  <2>4. b.kind \notin Headers /\ UnitIn(store', b) = made + 1 /\ in' = Append(in, b)
    BY <2>1, <2>2, <2>3 DEF Headers, UnitIn, b
  <2> QED
    BY <1>1, <1>2, <1>3, <1>4, <2>1, <2>2, <2>3, <2>4, FillStep
<1> QED
  BY <1>5, <1>6 DEF FillData

LEMMA FillEmptyStep == IInv /\ (FillEnd \/ FillEmpty) => IInv'
<1> SUFFICES ASSUME IInv, FillEnd \/ FillEmpty PROVE IInv'
  OBVIOUS
<1>1. /\ Filling /\ made' = made
      /\ pc' = pc /\ i' = i /\ conf' = conf /\ filter' = filter /\ rout' = rout /\ client' = client
      /\ store' = store /\ busy' = busy
  BY DEF FillEnd, FillEmpty
<1>2. /\ made \in 0..N /\ made <= conf.size /\ ended \in BOOLEAN
      /\ store \in [Slot -> 0..N] /\ busy \subseteq Slot /\ (ended => made = conf.size)
  BY DEF IInv, TypeInv, LastInv
<1>3. empties' \in 0..MaxEmpty
  <2>1. empties \in 0..MaxEmpty /\ MaxEmpty \in Nat
    BY BodyAssumption DEF IInv, TypeInv
  <2>2. empties' = empties \/ (empties < MaxEmpty /\ empties' = empties + 1)
    BY DEF FillEnd, FillEmpty
  <2> QED
    BY <2>1, <2>2
<1>4. PICK l \in BOOLEAN :
        /\ in' = Append(in, Link("empty", "none", 0, l))
        /\ ended' = (ended \/ l) /\ (l => ~ended /\ made = conf.size)
  BY <1>2 DEF FillEnd, FillEmpty
<1> DEFINE b == Link("empty", "none", 0, l)
<1>5. b \in LinkType /\ ~Data(b) /\ b.kind = "empty" /\ b.slot = "none" /\ b.last = l
  BY Links
<1> HIDE DEF b
<1>6. b.kind \notin Headers /\ in' = Append(in, b)
  BY <1>4, <1>5 DEF Headers, b
<1>7. /\ ended' \in BOOLEAN /\ (ended => ended') /\ (b.last => ended' /\ ~ended)
      /\ (ended' => made' = conf.size)
  BY <1>1, <1>2, <1>4, <1>5
<1> QED
  BY <1>1, <1>2, <1>3, <1>5, <1>6, <1>7, FillStep

-----------------------------------------------------------------------------
(* The write filter *)

\* What the client may read next: the header of a replacement, the origin's
\* header, or the origin's next unit.
LEMMA WriteFacts ==
  ASSUME IInv, Write
  PROVE  /\ pc # "reset" /\ ~delayed /\ rout[1] \in LinkType
         /\ \/ /\ triggered /\ client.headers = <<>> /\ rout' = <<>>
               /\ client'.headers \in {<<"redirect">>, <<"page">>} /\ client'.data = <<>>
            \/ /\ ~triggered /\ pc = "idle" /\ client.headers = <<>>
               /\ client'.headers = <<"origin">> /\ client'.data = client.data
               /\ ~Data(rout[1])
            \/ /\ ~triggered /\ pc = "idle" /\ client.headers = <<"origin">>
               /\ client' = client /\ ~Data(rout[1]) /\ rout[1].kind \notin Headers
            \/ /\ ~triggered /\ pc = "idle" /\ client.headers = <<"origin">>
               /\ client'.headers = client.headers /\ Data(rout[1])
               /\ client'.data = Append(client.data, Len(client.data) + 1)
               /\ Len(client.data) < made
         /\ ~triggered => /\ rout[1].kind \notin Headers <=> client.headers # <<>>
                          /\ \A j \in 2..Len(rout) : rout[j].kind \notin Headers
<1>0. /\ rout # <<>> /\ rout \in Seq(LinkType) /\ pc # "loop" /\ Head(rout) = rout[1]
      /\ rout[1] \in LinkType /\ Len(rout) \in Nat \ {0}
      /\ client \in [headers : Seq(Headers), data : Seq(0..N)]
  BY DEF Write, IInv, TypeInv
<1>1. pc # "reset" /\ ~delayed
  BY <1>0 DEF IInv, HeaderInv
<1> DEFINE b == rout[1]
<1>2. client' = IF b.kind \in Headers
          THEN [client EXCEPT !.headers = Append(@, b.kind)]
          ELSE IF b.kind = "empty" THEN client
          ELSE [client EXCEPT !.data = Append(@, Contents(b))]
  BY <1>0 DEF Write
<1>3. rout' = Tail(rout)
  BY DEF Write
<1>4. CASE triggered
  <2>1. /\ client.data = <<>> /\ client.headers = <<>>
        /\ rout \in {<<Header("redirect")>>, <<Header("page")>>}
    BY <1>0, <1>1, <1>4 DEF IInv, HeaderInv
  <2>2. b.kind \in {"redirect", "page"} /\ rout' = <<>>
    <3>1. PICK h \in {"redirect", "page"} : rout = <<Header(h)>>
      BY <2>1
    <3>2. Header(h).kind = h
      BY Links DEF Headers
    <3>3. rout[1] = Header(h) /\ Tail(rout) = <<>>
      BY <3>1
    <3> QED
      BY <3>2, <3>3, <1>3
  <2>3. client' = [client EXCEPT !.headers = Append(@, b.kind)]
    BY <1>2, <2>2 DEF Headers
  <2>4. client'.headers = <<b.kind>> /\ client'.data = <<>>
    BY <2>1, <2>3, <1>0
  <2> QED
    BY <1>0, <1>1, <1>4, <2>1, <2>2, <2>4
<1>5. CASE ~triggered
  <2>0. pc = "idle"
    BY <1>0, <1>1, <1>5 DEF IInv, TypeInv, ControlInv
  <2>1. \/ /\ client.headers = <<>> /\ rout[1] = Header("origin")
           /\ \A j \in 2..Len(rout) : rout[j].kind \notin Headers
        \/ /\ client.headers = <<"origin">>
           /\ \A j \in 1..Len(rout) : rout[j].kind \notin Headers
    BY <1>1, <1>5 DEF IInv, HeaderInv, Alive
  <2>2. CASE client.headers = <<>> /\ rout[1] = Header("origin")
             /\ \A j \in 2..Len(rout) : rout[j].kind \notin Headers
    <3>1. b.kind = "origin" /\ b.kind \in Headers /\ ~Data(b)
      BY <2>2, Links DEF Headers
    <3>2. client' = [client EXCEPT !.headers = Append(@, "origin")]
      BY <1>2, <3>1
    <3>3. client'.headers = <<"origin">> /\ client'.data = client.data
      BY <2>2, <3>2, <1>0
    <3> QED
      BY <1>0, <1>1, <1>5, <2>0, <2>2, <3>1, <3>3
  <2>3. CASE client.headers = <<"origin">>
             /\ \A j \in 1..Len(rout) : rout[j].kind \notin Headers
    <3>1. b.kind \notin Headers /\ client.headers # <<>>
          /\ \A j \in 2..Len(rout) : rout[j].kind \notin Headers
      BY <2>3, <1>0
    <3>2. CASE ~Data(b)
      <4>1. client' = client
        BY <1>0, <1>2, <3>1, <3>2 DEF Data, LinkType
      <4> QED
        BY <1>0, <1>1, <1>5, <2>0, <2>3, <3>1, <3>2, <4>1
    <3>3. CASE Data(b)
      <4>1. client' = [client EXCEPT !.data = Append(@, Contents(b))]
        BY <1>2, <3>1, <3>3 DEF Data
      <4>2. /\ Live = rout \o in /\ in \in Seq(LinkType)
            /\ Stream(store, busy, Live, Len(client.data), made)
            /\ busy \subseteq Slot /\ made \in Nat /\ Len(client.data) \in Nat
        BY <1>1, <1>5, <1>0, BodyAssumption DEF IInv, TypeInv, StreamInv, Alive, Live
      <4>3. Live # <<>> /\ Live[1] = b /\ Live \in Seq(LinkType)
        BY <4>2, <1>0, ConcatTail, ConcatProperties
      <4>4. UnitIn(store, b) = Len(client.data) + 1 /\ Len(client.data) < made
        BY <3>3, <4>2, <4>3, BodyAssumption, StreamTail
      <4>5. Contents(b) = Len(client.data) + 1
        BY <4>4 DEF Contents, UnitIn
      <4>6. client'.headers = client.headers
            /\ client'.data = Append(client.data, Len(client.data) + 1)
        BY <4>1, <4>5, <1>0
      <4> QED
        BY <1>0, <1>1, <1>5, <2>0, <2>3, <3>1, <3>3, <4>4, <4>6
    <3> QED
      BY <3>2, <3>3
  <2> QED
    BY <2>1, <2>2, <2>3
<1> QED
  BY <1>4, <1>5

LEMMA WriteStep == IInv /\ Write => IInv'
<1> SUFFICES ASSUME IInv, Write PROVE IInv'
  OBVIOUS
<1>0. /\ made' = made /\ empties' = empties /\ ended' = ended /\ store' = store /\ in' = in
      /\ pc' = pc /\ i' = i /\ conf' = conf /\ delayed' = delayed /\ pending' = pending
      /\ bytes' = bytes /\ triggered' = triggered /\ swallow' = swallow /\ phase4' = phase4
      /\ rout' = Tail(rout) /\ rout # <<>> /\ busy' = busy \ {rout[1].slot} /\ pc # "loop"
      /\ rout \in Seq(LinkType) /\ in \in Seq(LinkType)
  BY DEF Write, producer, filter, IInv, TypeInv
<1>1. /\ rout' \in Seq(LinkType) /\ Len(rout) = Len(rout') + 1 /\ Len(rout') \in Nat
      /\ \A j \in 1..Len(rout') : rout'[j] = rout[j + 1]
  BY <1>0
<1>2. client' \in [headers : Seq(Headers), data : Seq(0..N)]
  <2>1. client \in [headers : Seq(Headers), data : Seq(0..N)] /\ made \in 0..N
    BY DEF IInv, TypeInv
  <2>2. rout[1] \in LinkType /\ store \in [Slot -> 0..N]
    BY <1>0 DEF IInv, TypeInv
  <2>3. client' = IF rout[1].kind \in Headers
          THEN [client EXCEPT !.headers = Append(@, rout[1].kind)]
          ELSE IF rout[1].kind = "empty" THEN client
          ELSE [client EXCEPT !.data = Append(@, Contents(rout[1]))]
    <3>1. Head(rout) = rout[1]
      BY <1>0
    <3> QED
      BY <3>1 DEF Write
  <2>4. CASE rout[1].kind \in Headers
    <3>1. client' = [client EXCEPT !.headers = Append(@, rout[1].kind)]
      BY <2>3, <2>4
    <3>2. Append(client.headers, rout[1].kind) \in Seq(Headers)
      BY <2>1, <2>4
    <3> QED
      BY <2>1, <3>1, <3>2
  <2>5. CASE rout[1].kind = "empty"
    BY <2>1, <2>3, <2>5 DEF Headers
  <2>6. CASE rout[1].kind \in {"mem", "stable"}
    <3>1. client' = [client EXCEPT !.data = Append(@, Contents(rout[1]))]
      BY <2>3, <2>6 DEF Headers
    <3>2. client'.data = Append(client.data, Len(client.data) + 1) /\ Len(client.data) < made
      BY <2>6, <3>1, WriteFacts DEF Data
    <3>3. Len(client.data) + 1 \in 0..N
      BY <2>1, <3>2, BodyAssumption
    <3>4. Append(client.data, Len(client.data) + 1) \in Seq(0..N)
      BY <2>1, <3>3
    <3> QED
      BY <2>1, <3>1, <3>2, <3>4
  <2> QED
    BY <2>2, <2>4, <2>5, <2>6 DEF LinkType
<1>3. TypeInv'
  BY <1>0, <1>1, <1>2 DEF IInv, TypeInv
<1>4. ControlInv'
  BY <1>0 DEF IInv, ControlInv, Alive
<1>5. LastInv'
  BY <1>0 DEF IInv, LastInv, From, Alive
<1>6. HeaderInv'
  <2>1. client'.headers # <<>>
    BY WriteFacts
  <2>2. ~triggered => \A j \in 1..Len(rout') : rout'[j].kind \notin Headers
    BY <1>1, WriteFacts
  <2>3. ~triggered => client'.headers = <<"origin">>
    BY WriteFacts
  <2>4. triggered => rout' = <<>> /\ client'.data = <<>> /\ client'.headers \in {<<"redirect">>, <<"page">>}
    BY WriteFacts
  <2>5. ~delayed /\ pc # "reset"
    BY WriteFacts
  <2> QED
    BY <1>0, <2>1, <2>2, <2>3, <2>4, <2>5 DEF IInv, HeaderInv, Alive
<1>7. StreamInv'
  <2> SUFFICES ASSUME ~triggered PROVE StreamInv'
    BY <1>0 DEF StreamInv, Alive
  <2>0. ~delayed /\ pc # "reset"
    BY WriteFacts
  <2>1. Live = rout \o in /\ Live' = Tail(rout) \o in
    BY <1>0, <2>0 DEF Live
  <2>2. Live' = Tail(Live) /\ Live # <<>> /\ Live[1] = rout[1] /\ Live \in Seq(LinkType)
    BY <1>0, <2>1, ConcatTail, ConcatProperties
  <2>3. /\ Len(client.data) \in Nat /\ made \in Nat /\ Len(client.data) <= made
        /\ Stream(store, busy, Live, Len(client.data), made) /\ "none" \notin busy
    BY <2>0, BodyAssumption DEF IInv, TypeInv, StreamInv, Alive
  <2>4. CASE Data(rout[1])
    <3>1. Stream(store, busy \ {rout[1].slot}, Tail(Live), Len(client.data) + 1, made)
      BY <2>2, <2>3, <2>4, StreamTail
    <3>2. client'.data = Append(client.data, Len(client.data) + 1) /\ Len(client.data) < made
      BY <2>4, WriteFacts
    <3>3. Len(client'.data) = Len(client.data) + 1
      BY <3>2 DEF IInv, TypeInv
    <3>4. Len(client'.data) <= made
      BY <3>2, <3>3, <2>3
    <3> QED
      BY <1>0, <2>2, <3>1, <3>3, <3>4 DEF StreamInv
  <2>5. CASE ~Data(rout[1])
    <3>1. Stream(store, busy \ {rout[1].slot}, Tail(Live), Len(client.data), made)
      BY <2>2, <2>3, <2>5, StreamTail
    <3>2. client'.data = client.data
      BY <2>5, WriteFacts
    <3> QED
      BY <1>0, <2>2, <2>3, <3>1, <3>2 DEF StreamInv
  <2> QED
    BY <2>4, <2>5
<1>8. BytesInv'
  <2>1. ~delayed
    BY WriteFacts
  <2> QED
    BY <1>0, <2>1 DEF IInv, BytesInv
<1> QED
  BY <1>3, <1>4, <1>5, <1>6, <1>7, <1>8 DEF IInv

-----------------------------------------------------------------------------
(* The body filter *)

LEMMA SwallowStep == IInv /\ Swallow => IInv'
<1> SUFFICES ASSUME IInv, Swallow PROVE IInv'
  OBVIOUS
<1>0. /\ made' = made /\ empties' = empties /\ ended' = ended /\ store' = store
      /\ pc' = pc /\ i' = i /\ conf' = conf /\ delayed' = delayed /\ pending' = pending
      /\ bytes' = bytes /\ triggered' = triggered /\ swallow' = swallow /\ phase4' = phase4
      /\ rout' = rout /\ client' = client /\ in' = <<>> /\ busy' \subseteq busy
      /\ pc = "idle" /\ triggered
  BY DEF Swallow, producer, filter
<1>1. in' \in Seq(LinkType) /\ Len(in') = 0
  BY <1>0
<1>2. TypeInv'
  BY <1>0, <1>1, BodyAssumption DEF IInv, TypeInv
<1>3. ControlInv'
  BY <1>0 DEF IInv, ControlInv, Alive
<1>4. LastInv'
  BY <1>0, <1>1 DEF IInv, LastInv, From, Alive
<1>5. HeaderInv'
  BY <1>0, <1>1 DEF IInv, HeaderInv, Alive
<1>6. StreamInv'
  BY <1>0 DEF StreamInv, Alive
<1>7. BytesInv'
  <2>1. ~delayed
    BY <1>0 DEF IInv, ControlInv
  <2> QED
    BY <1>0, <2>1 DEF IInv, BytesInv
<1> QED
  BY <1>2, <1>3, <1>4, <1>5, <1>6, <1>7 DEF IInv

LEMMA EnterStep == IInv /\ Enter => IInv'
<1> SUFFICES ASSUME IInv, Enter PROVE IInv'
  OBVIOUS
<1>0. /\ made' = made /\ empties' = empties /\ ended' = ended /\ store' = store
      /\ busy' = busy /\ in' = in /\ conf' = conf /\ delayed' = delayed /\ pending' = pending
      /\ bytes' = bytes /\ triggered' = triggered /\ swallow' = swallow /\ phase4' = phase4
      /\ rout' = rout /\ client' = client
      /\ pc = "idle" /\ ~triggered /\ pc' = "loop" /\ i' = 1
      /\ in \in Seq(LinkType) /\ Len(in) \in Nat
  BY DEF Enter, producer, filter, IInv, TypeInv
<1>1. Rest = in /\ Rest' = in
  BY <1>0, RestAt DEF Rest
<1>2. TypeInv'
  BY <1>0, BodyAssumption DEF IInv, TypeInv
<1>3. ControlInv'
  BY <1>0 DEF IInv, ControlInv, Alive
<1>4. LastInv'
  BY <1>0 DEF IInv, LastInv, From, Alive
<1>5. HeaderInv'
  BY <1>0 DEF IInv, HeaderInv, Alive
<1>6. StreamInv'
  <2>1. Live' = Live
    BY <1>0, <1>1 DEF Live
  <2> QED
    BY <1>0, <2>1 DEF IInv, StreamInv, Alive
<1>7. BytesInv'
  BY <1>0, <1>1 DEF IInv, BytesInv
<1> QED
  BY <1>2, <1>3, <1>4, <1>5, <1>6, <1>7 DEF IInv

\* A chain handed on joins r->out; phase 4 may have run on its last buffer.
LEMMA HandOnStep ==
  ASSUME IInv, pc = "loop", ~delayed,
         made' = made, empties' = empties, ended' = ended, store' = store, busy' = busy,
         i' = i, conf' = conf, delayed' = delayed, pending' = pending, bytes' = bytes,
         triggered' = triggered, swallow' = swallow, client' = client,
         rout' = rout \o in, in' = <<>>, pc' = "idle",
         phase4' \in 0..1, phase4 = 1 => phase4' = 1, phase4' = 1 => ended
  PROVE  IInv'
<1>0. in \in Seq(LinkType) /\ rout \in Seq(LinkType) /\ in' \in Seq(LinkType) /\ Len(in') = 0
  BY DEF IInv, TypeInv
<1>1. /\ rout' \in Seq(LinkType) /\ Len(rout') = Len(rout) + Len(in)
      /\ \A j \in 1..(Len(rout) + Len(in)) :
           rout'[j] = IF j <= Len(rout) THEN rout[j] ELSE in[j - Len(rout)]
      /\ Len(rout) \in Nat /\ Len(in) \in Nat
  BY <1>0, ConcatProperties
<1>2. ~triggered
  BY DEF IInv, ControlInv
<1>3. TypeInv'
  BY <1>0, <1>1, BodyAssumption DEF IInv, TypeInv
<1>4. ControlInv'
  BY <1>2 DEF IInv, ControlInv, Alive
<1>5. LastInv'
  BY <1>0 DEF IInv, LastInv, From, Alive
<1>6. HeaderInv'
  <2>1. \A j \in 1..Len(rout') : \/ j \in 1..Len(rout) /\ rout'[j] = rout[j]
                                 \/ j > Len(rout) /\ rout'[j].kind \notin Headers
    BY <1>1 DEF IInv, HeaderInv
  <2>2. \/ /\ client.headers = <<>>
           /\ rout # <<>> /\ rout[1] = Header("origin")
           /\ \A j \in 2..Len(rout) : rout[j].kind \notin Headers
        \/ /\ client.headers = <<"origin">>
           /\ \A j \in 1..Len(rout) : rout[j].kind \notin Headers
    BY <1>2 DEF IInv, HeaderInv, Alive
  <2>3. \/ /\ client'.headers = <<>>
           /\ rout' # <<>> /\ rout'[1] = Header("origin")
           /\ \A j \in 2..Len(rout') : rout'[j].kind \notin Headers
        \/ /\ client'.headers = <<"origin">>
           /\ \A j \in 1..Len(rout') : rout'[j].kind \notin Headers
    <3>1. CASE /\ client.headers = <<>>
               /\ rout # <<>> /\ rout[1] = Header("origin")
               /\ \A j \in 2..Len(rout) : rout[j].kind \notin Headers
      <4>1. Len(rout) >= 1
        BY <3>1, <1>0, <1>1
      <4>2. 1 \in 1..Len(rout') /\ rout'[1] = rout[1] /\ rout' # <<>>
        BY <4>1, <1>1
      <4>3. \A j \in 2..Len(rout') : rout'[j].kind \notin Headers
        BY <3>1, <2>1, <4>1
      <4> QED
        BY <3>1, <4>2, <4>3
    <3>2. CASE /\ client.headers = <<"origin">>
               /\ \A j \in 1..Len(rout) : rout[j].kind \notin Headers
      BY <3>2, <2>1
    <3> QED
      BY <2>2, <3>1, <3>2
  <2> QED
    BY <1>0, <1>2, <2>3 DEF IInv, HeaderInv, Alive
<1>7. StreamInv'
  <2>1. Live = rout \o in /\ Live' = (rout \o in) \o <<>>
    BY DEF Live
  <2>2. Live' = Live
    BY <1>0, <2>1, ConcatProperties, ConcatEmptySeq
  <2> QED
    BY <1>2, <2>2 DEF IInv, StreamInv, Alive
<1>8. BytesInv'
  BY DEF IInv, BytesInv
<1> QED
  BY <1>3, <1>4, <1>5, <1>6, <1>7, <1>8 DEF IInv

LEMMA PassOnStep == IInv /\ PassOn => IInv'
<1> SUFFICES ASSUME IInv, PassOn PROVE IInv'
  OBVIOUS
<1>1. /\ pc = "loop" /\ ~delayed
      /\ made' = made /\ empties' = empties /\ ended' = ended /\ store' = store /\ busy' = busy
      /\ i' = i /\ conf' = conf /\ delayed' = delayed /\ pending' = pending /\ bytes' = bytes
      /\ triggered' = triggered /\ swallow' = swallow /\ client' = client /\ phase4' = phase4
      /\ rout' = rout \o in /\ in' = <<>> /\ pc' = "idle"
  BY DEF PassOn, AtEnd, Out, producer, filter
<1>2. phase4 \in 0..1 /\ (phase4 = 1 => ended)
  BY DEF IInv, TypeInv, LastInv
<1> QED
  BY <1>1, <1>2, HandOnStep

\* In the loop: the last buffer is met with phase 4 still to run.
LEMMA LoopFacts ==
  ASSUME IInv, InLoop
  PROVE  /\ i \in 1..Len(in) /\ in[i] \in LinkType /\ ~triggered /\ pc = "loop"
         /\ RunsPhase4 => phase4 = 0 /\ ended
         /\ phase4 \in 0..1 /\ (phase4 = 1 => ended)
<1>1. /\ i \in 1..Len(in) /\ in \in Seq(LinkType) /\ pc = "loop" /\ phase4 \in 0..1
  BY BodyAssumption DEF InLoop, IInv, TypeInv
<1>2. ~triggered
  BY <1>1 DEF IInv, ControlInv
<1>3. RunsPhase4 => phase4 # 1 /\ ended
  BY <1>1, <1>2 DEF RunsPhase4, IInv, LastInv, From, Alive
<1> QED
  BY <1>1, <1>2, <1>3 DEF IInv, LastInv

LEMMA StepYieldsStep == IInv /\ StepYields => IInv'
<1> SUFFICES ASSUME IInv, StepYields PROVE IInv'
  OBVIOUS
<1>1. /\ InLoop /\ conf.error_page
      /\ made' = made /\ empties' = empties /\ ended' = ended /\ store' = store /\ busy' = busy
      /\ i' = i /\ conf' = conf /\ delayed' = delayed /\ pending' = pending /\ bytes' = bytes
      /\ triggered' = triggered /\ swallow' = swallow /\ client' = client
      /\ rout' = rout \o in /\ in' = <<>> /\ pc' = "idle"
  BY DEF StepYields, Out, producer
<1>2. phase4' = phase4 \/ (RunsPhase4 /\ phase4' = phase4 + 1)
  BY DEF StepYields
<1>3. ~delayed
  BY <1>1 DEF IInv, ControlInv
<1>4. phase4' \in 0..1 /\ (phase4 = 1 => phase4' = 1) /\ (phase4' = 1 => ended) /\ pc = "loop"
  BY <1>1, <1>2, LoopFacts
<1> QED
  BY <1>1, <1>3, <1>4, HandOnStep

\* Types, when a call of the filter ends.
LEMMA ReturnType ==
  ASSUME TypeInv,
         made' = made, empties' = empties, ended' = ended, store' = store,
         busy' \subseteq busy, i' = i, conf' = conf, client' = client, in' = <<>>,
         pc' \in {"idle", "stopped", "reset"}, delayed' \in BOOLEAN,
         triggered' \in BOOLEAN, swallow' \in BOOLEAN, bytes' \in Nat, phase4' \in 0..1,
         pending' \in Seq(LinkType), rout' \in Seq(LinkType)
  PROVE  TypeInv'
<1>1. in' \in Seq(LinkType) /\ Len(in') = 0
  OBVIOUS
<1>2. Len(in') <= MaxChain
  BY <1>1, BodyAssumption
<1> QED
  BY <1>1, <1>2 DEF TypeInv

\* The filter refuses the response: whatever is answered, it is the origin's no
\* more.
LEMMA RefuseFacts ==
  ASSUME IInv, Refuse
  PROVE  /\ triggered' = TRUE /\ delayed' = FALSE
         /\ pending' \in Seq(LinkType) /\ bytes' \in Nat /\ bytes' <= bytes
         /\ ~delayed => bytes' = bytes
         /\ \A j \in 1..Len(pending') : pending'[j].kind \notin Headers
         /\ phase4' \in 0..1 /\ (phase4 = 1 => phase4' = 1) /\ (phase4' = 1 => ended)
<1>1. phase4' = phase4 \/ (RunsPhase4 /\ phase4' = phase4 + 1)
  BY DEF Refuse
<1>2. phase4' \in 0..1 /\ (phase4 = 1 => phase4' = 1) /\ (phase4' = 1 => ended)
  BY <1>1, LoopFacts DEF Refuse
<1>3. pending' = <<>> \/ pending' = pending
  BY DEF Refuse
<1>4. pending' \in Seq(LinkType) /\ \A j \in 1..Len(pending') : pending'[j].kind \notin Headers
  <2>1. CASE pending' = <<>>
    BY <2>1
  <2>2. CASE pending' = pending
    BY <2>2 DEF IInv, TypeInv, HeaderInv
  <2> QED
    BY <1>3, <2>1, <2>2
<1>5. bytes' \in Nat /\ bytes' <= bytes /\ (~delayed => bytes' = bytes)
  BY DEF Refuse, IInv, TypeInv
<1> QED
  BY <1>2, <1>4, <1>5 DEF Refuse

\* A redirect or an error page replaces the response.
LEMMA ReplaceStep ==
  ASSUME IInv, Refuse, delayed, NEW h \in {"redirect", "page"},
         made' = made, empties' = empties, ended' = ended, store' = store,
         busy' \subseteq busy, i' = i, conf' = conf, client' = client, in' = <<>>,
         pc' \in {"idle", "stopped"}, swallow' \in BOOLEAN, rout' = <<Header(h)>>
  PROVE  IInv'
<1>0. /\ in' \in Seq(LinkType) /\ Len(in') = 0 /\ rout' \in Seq(LinkType)
  BY Links DEF Headers
<1>1. client.headers = <<>> /\ client.data = <<>>
  BY LoopFacts DEF Refuse, IInv, HeaderInv
<1>2. TypeInv'
  BY <1>0, RefuseFacts, ReturnType DEF IInv
<1>3. ControlInv'
  BY RefuseFacts DEF IInv, ControlInv, Alive
<1>4. LastInv'
  <2>1. ~Alive' /\ (phase4' = 1 => ended)
    BY RefuseFacts DEF Alive
  <2>2. made <= conf.size /\ (ended => made = conf.size)
    BY DEF IInv, LastInv
  <2> QED
    BY <1>0, <2>1, <2>2 DEF LastInv
<1>5. HeaderInv'
  BY <1>0, <1>1, RefuseFacts DEF HeaderInv, Alive
<1>6. StreamInv'
  BY RefuseFacts DEF StreamInv, Alive
<1>7. BytesInv'
  <2>0. bytes \in Nat /\ made \in Nat /\ bytes <= made
    BY BodyAssumption DEF IInv, BytesInv, TypeInv
  <2>1. bytes' <= made
    BY <2>0, RefuseFacts
  <2> QED
    BY <2>1, RefuseFacts DEF BytesInv
<1> QED
  BY <1>2, <1>3, <1>4, <1>5, <1>6, <1>7 DEF IInv

LEMMA StepRedirectsStep == IInv /\ StepRedirects => IInv'
<1> SUFFICES ASSUME IInv, StepRedirects PROVE IInv'
  OBVIOUS
<1>1. /\ Refuse /\ delayed /\ rout' = rout \o <<Header("redirect")>> /\ in' = <<>> /\ pc' = "idle"
      /\ swallow' = TRUE /\ busy' \subseteq busy
      /\ made' = made /\ empties' = empties /\ ended' = ended /\ store' = store
      /\ i' = i /\ conf' = conf /\ client' = client
  BY DEF StepRedirects, Out, producer
<1>2. rout = <<>>
  BY <1>1, LoopFacts DEF Refuse, IInv, HeaderInv
<1>3. <<Header("redirect")>> \in Seq(LinkType)
  BY Links DEF Headers
<1>4. rout' = <<Header("redirect")>>
  BY <1>1, <1>2, <1>3, ConcatEmptySeq
<1> QED
  BY <1>1, <1>4, ReplaceStep

LEMMA StepFinalizesStep == IInv /\ StepFinalizes => IInv'
<1> SUFFICES ASSUME IInv, StepFinalizes PROVE IInv'
  OBVIOUS
<1>1. /\ Refuse /\ in' = <<>> /\ swallow' = swallow /\ busy' = busy
      /\ made' = made /\ empties' = empties /\ ended' = ended /\ store' = store
      /\ i' = i /\ conf' = conf /\ client' = client
  BY DEF StepFinalizes, Reset, producer
<1>2. CASE delayed
  <2>1. rout' = Append(rout, Header("page")) /\ pc' = "stopped"
    BY <1>2 DEF StepFinalizes
  <2>2. rout = <<>> /\ swallow \in BOOLEAN
    BY <1>1, <1>2, LoopFacts DEF Refuse, IInv, HeaderInv, TypeInv
  <2>3. rout' = <<Header("page")>>
    BY <2>1, <2>2
  <2> QED
    BY <1>1, <1>2, <2>1, <2>2, <2>3, ReplaceStep
<1>3. CASE ~delayed
  <2>1. rout' = <<>> /\ pc' = "reset"
    BY <1>3 DEF StepFinalizes, Reset
  <2>0. /\ in' \in Seq(LinkType) /\ Len(in') = 0 /\ rout' \in Seq(LinkType)
    BY <1>1, <2>1
  <2>2. TypeInv'
    <3>1. swallow \in BOOLEAN /\ TypeInv
      BY DEF IInv, TypeInv
    <3> QED
      BY <1>1, <2>0, <2>1, <3>1, RefuseFacts, ReturnType
  <2>3. ControlInv'
    BY <1>1, <2>1, RefuseFacts DEF IInv, ControlInv, Alive
  <2>4. LastInv'
    <3>1. ~Alive' /\ (phase4' = 1 => ended)
      BY <1>1, <2>1, RefuseFacts DEF Alive
    <3>2. made <= conf.size /\ (ended => made = conf.size)
      BY DEF IInv, LastInv
    <3> QED
      BY <1>1, <2>0, <2>1, <3>1, <3>2 DEF LastInv
  <2>5. HeaderInv'
    <3>1. conf.delay => phase4 = 1 \/ bytes > Cap
      BY <1>1, <1>3, LoopFacts DEF IInv, HeaderInv, Refuse, Alive
    <3>2. client.headers = <<>> => client.data = <<>>
      BY DEF IInv, HeaderInv
    <3> QED
      BY <1>1, <1>3, <2>0, <2>1, <3>1, <3>2, RefuseFacts DEF HeaderInv, Alive
  <2>6. StreamInv'
    BY <2>1 DEF StreamInv, Alive
  <2>7. BytesInv'
    BY <1>1, <1>3, <2>1, RefuseFacts DEF IInv, BytesInv
  <2> QED
    BY <2>2, <2>3, <2>4, <2>5, <2>6, <2>7 DEF IInv
<1> QED
  BY <1>2, <1>3

\* At the end of the loop everything of the chain is in pending_chain.
LEMMA EndFacts ==
  ASSUME IInv, AtEnd
  PROVE  /\ i = Len(in) + 1 /\ pc = "loop" /\ ~triggered /\ Rest = <<>>
         /\ SeenLast => phase4 = 1
         /\ delayed => Live = pending /\ rout = <<>> /\ client.headers = <<>>
<1>1. pc = "loop" /\ i > Len(in) /\ in \in Seq(LinkType) /\ pending \in Seq(LinkType) /\ i \in Nat
      /\ Len(in) \in Nat
  BY BodyAssumption DEF AtEnd, IInv, TypeInv
<1>2. i = Len(in) + 1 /\ ~triggered
  BY <1>1 DEF IInv, ControlInv
<1>3. Rest = <<>>
  BY <1>1, <1>2, RestAt DEF Rest
<1>4. SeenLast => phase4 = 1
  BY <1>1, <1>2 DEF SeenLast, IInv, LastInv
<1>5. delayed => Live = pending
  BY <1>1, <1>3, ConcatEmptySeq DEF Live
<1> QED
  BY <1>1, <1>2, <1>3, <1>4, <1>5 DEF IInv, HeaderInv

LEMMA HoldStep == IInv /\ Hold => IInv'
<1> SUFFICES ASSUME IInv, Hold PROVE IInv'
  OBVIOUS
<1>0. /\ AtEnd /\ delayed /\ ~SeenLast /\ ~OverCap /\ in' = <<>> /\ pc' = "idle"
      /\ made' = made /\ empties' = empties /\ ended' = ended /\ store' = store /\ busy' = busy
      /\ i' = i /\ conf' = conf /\ delayed' = delayed /\ pending' = pending /\ bytes' = bytes
      /\ triggered' = triggered /\ swallow' = swallow /\ phase4' = phase4
      /\ rout' = rout /\ client' = client
  BY DEF Hold, producer, filter
<1>1. in' \in Seq(LinkType) /\ Len(in') = 0 /\ pending \in Seq(LinkType)
  BY <1>0 DEF IInv, TypeInv
<1>2. TypeInv'
  BY <1>0, <1>1, BodyAssumption DEF IInv, TypeInv
<1>3. ControlInv'
  BY <1>0 DEF IInv, ControlInv, Alive
<1>4. LastInv'
  BY <1>0, <1>1 DEF IInv, LastInv, From, Alive
<1>5. HeaderInv'
  BY <1>0, <1>1, EndFacts DEF IInv, HeaderInv, Alive
<1>6. StreamInv'
  <2>1. Live' = pending \o <<>> /\ Live = pending
    BY <1>0, EndFacts DEF Live, Rest
  <2>2. Live' = Live
    BY <1>1, <2>1, ConcatEmptySeq
  <2> QED
    BY <1>0, <2>2, EndFacts DEF IInv, StreamInv, Alive
<1>7. BytesInv'
  <2>1. bytes <= Cap
    BY <1>0, BodyAssumption DEF OverCap, IInv, TypeInv
  <2>2. \A j \in 1..Len(pending) : ~pending[j].last
    <3> SUFFICES ASSUME NEW j \in 1..Len(pending), pending[j].last PROVE FALSE
      OBVIOUS
    <3>1. pc = "loop" /\ i = Len(in) + 1 /\ in \in Seq(LinkType)
      BY <1>0, EndFacts DEF IInv, TypeInv
    <3>2. PICK m \in 1..(i - 1) : m <= Len(in) /\ in[m].last
      BY <1>0, <3>1 DEF IInv, BytesInv
    <3>3. m \in 1..Len(in)
      BY <3>1
    <3> QED
      BY <1>0, <3>2, <3>3 DEF SeenLast
  <2>3. Rest' = <<>>
    BY <1>0 DEF Rest
  <2> QED
    BY <1>0, <1>1, <2>1, <2>2, <2>3, EndFacts DEF IInv, BytesInv
<1> QED
  BY <1>2, <1>3, <1>4, <1>5, <1>6, <1>7 DEF IInv

LEMMA FlushStep == IInv /\ Flush => IInv'
<1> SUFFICES ASSUME IInv, Flush PROVE IInv'
  OBVIOUS
<1>0. /\ AtEnd /\ delayed /\ (SeenLast \/ OverCap) /\ in' = <<>> /\ pc' = "idle"
      /\ made' = made /\ empties' = empties /\ ended' = ended /\ store' = store /\ busy' = busy
      /\ i' = i /\ conf' = conf /\ delayed' = FALSE /\ pending' = <<>> /\ bytes' = bytes
      /\ triggered' = triggered /\ swallow' = swallow /\ phase4' = phase4
      /\ rout' = rout \o (<<Header("origin")>> \o pending) /\ client' = client
  BY DEF Flush, Flushed, Out, producer
<1> DEFINE h == Header("origin")
           q == <<h>> \o pending
<1>1. /\ h \in LinkType /\ ~Data(h) /\ h.slot = "none"
  BY Links DEF Headers
<1>2. /\ in' \in Seq(LinkType) /\ Len(in') = 0 /\ pending \in Seq(LinkType)
      /\ pending' \in Seq(LinkType) /\ Len(pending') = 0 /\ Len(pending) \in Nat
  BY <1>0 DEF IInv, TypeInv
<1>3. /\ q \in Seq(LinkType) /\ Len(q) = Len(pending) + 1 /\ q[1] = h
      /\ \A j \in 2..Len(q) : q[j] = pending[j - 1]
  <2> HIDE DEF h
  <2>1. <<h>> \in Seq(LinkType) /\ Len(<<h>>) = 1 /\ <<h>>[1] = h
    BY <1>1
  <2> QED
    BY <1>2, <2>1, ConcatProperties
<1>4. rout' = q
  <2> HIDE DEF q
  <2> QED
    BY <1>0, <1>3, EndFacts, ConcatEmptySeq DEF q
<1> HIDE DEF q, h
<1>5. TypeInv'
  <2>1. TypeInv /\ triggered \in BOOLEAN /\ swallow \in BOOLEAN /\ bytes \in Nat /\ phase4 \in 0..1
    BY DEF IInv, TypeInv
  <2> QED
    BY <1>0, <1>2, <1>3, <1>4, <2>1, ReturnType
<1>6. ControlInv'
  BY <1>0 DEF IInv, ControlInv, Alive
<1>7. LastInv'
  BY <1>0, <1>2 DEF IInv, LastInv, From, Alive
<1>8. HeaderInv'
  <2>1. \A j \in 2..Len(q) : q[j].kind \notin Headers
    BY <1>2, <1>3 DEF IInv, HeaderInv
  <2>2. phase4 = 1 \/ bytes > Cap
    BY <1>0, EndFacts DEF OverCap
  <2>3. q # <<>> /\ q[1] = Header("origin")
    BY <1>2, <1>3 DEF h
  <2>4. client'.headers = <<>> /\ client'.data = <<>> /\ triggered' = FALSE
    BY <1>0, EndFacts DEF IInv, HeaderInv, TypeInv
  <2> QED
    BY <1>0, <1>2, <1>4, <2>1, <2>2, <2>3, <2>4 DEF HeaderInv, Alive
<1>9. StreamInv'
  <2>1. Live = pending /\ ~triggered /\ pc # "reset"
    BY <1>0, EndFacts
  <2>2. Live' = q
    BY <1>0, <1>3, <1>4, ConcatEmptySeq DEF Live
  <2>3. /\ Len(client.data) \in Nat /\ made \in Nat /\ Len(client.data) <= made
        /\ Stream(store, busy, pending, Len(client.data), made)
    BY <2>1, BodyAssumption DEF IInv, TypeInv, StreamInv, Alive
  <2>4. Stream(store, busy, q, Len(client.data), made)
    BY <1>1, <1>2, <2>3, StreamHeader DEF q
  <2> QED
    BY <1>0, <2>2, <2>3, <2>4 DEF StreamInv
<1>10. BytesInv'
  BY <1>0 DEF IInv, BytesInv
<1> QED
  BY <1>5, <1>6, <1>7, <1>8, <1>9, <1>10 DEF IInv

LEMMA FlushFailsStep == IInv /\ FlushFails => IInv'
<1> SUFFICES ASSUME IInv, FlushFails PROVE IInv'
  OBVIOUS
<1>0. /\ AtEnd /\ delayed /\ in' = <<>> /\ pc' = "reset" /\ rout' = <<>>
      /\ made' = made /\ empties' = empties /\ ended' = ended /\ store' = store /\ busy' = busy
      /\ i' = i /\ conf' = conf /\ delayed' = FALSE /\ pending' = pending /\ bytes' = bytes
      /\ triggered' = triggered /\ swallow' = swallow /\ phase4' = phase4 /\ client' = client
  BY DEF FlushFails, Reset, producer
<1>1. in' \in Seq(LinkType) /\ Len(in') = 0 /\ rout' \in Seq(LinkType)
  BY <1>0
<1>2. TypeInv'
  <2>1. /\ TypeInv /\ triggered \in BOOLEAN /\ swallow \in BOOLEAN /\ bytes \in Nat
        /\ phase4 \in 0..1 /\ pending \in Seq(LinkType)
    BY DEF IInv, TypeInv
  <2> QED
    BY <1>0, <1>1, <2>1, ReturnType
<1>3. ControlInv'
  BY <1>0 DEF IInv, ControlInv, Alive
<1>4. LastInv'
  BY <1>0, <1>1 DEF IInv, LastInv, From, Alive
<1>5. HeaderInv'
  BY <1>0, <1>1, EndFacts DEF IInv, HeaderInv, Alive
<1>6. StreamInv'
  BY <1>0 DEF StreamInv, Alive
<1>7. BytesInv'
  BY <1>0 DEF IInv, BytesInv
<1> QED
  BY <1>2, <1>3, <1>4, <1>5, <1>6, <1>7 DEF IInv

\* The buffer the loop is at moves from the chain to pending_chain, as b.
LEMMA MoveLink ==
  ASSUME NEW S, NEW a \in Seq(S), NEW r \in Seq(S), NEW n \in Seq(S), NEW b \in S,
         Len(r) = Len(n) + 1, \A j \in 1..Len(n) : n[j] = r[j + 1]
  PROVE  /\ a \o r \in Seq(S) /\ Append(a, b) \o n \in Seq(S)
         /\ Len(Append(a, b) \o n) = Len(a \o r) /\ Len(a \o r) = Len(a) + Len(r)
         /\ Len(a) + 1 \in 1..Len(a \o r)
         /\ (a \o r)[Len(a) + 1] = r[1] /\ (Append(a, b) \o n)[Len(a) + 1] = b
         /\ \A j \in 1..Len(a) : (a \o r)[j] = a[j]
         /\ \A j \in 1..Len(r) : (a \o r)[Len(a) + j] = r[j]
         /\ \A j \in 1..Len(a \o r) : j # Len(a) + 1 => (Append(a, b) \o n)[j] = (a \o r)[j]
<1> DEFINE c == Append(a, b)
           p == c \o n
           q == a \o r
<1>1. c \in Seq(S) /\ Len(c) = Len(a) + 1 /\ c[Len(a) + 1] = b /\ \A j \in 1..Len(a) : c[j] = a[j]
  BY AppendAt
<1>2. Len(a) \in Nat /\ Len(n) \in Nat /\ Len(r) \in Nat
  OBVIOUS
<1>3. /\ q \in Seq(S) /\ Len(q) = Len(a) + Len(r)
      /\ \A j \in 1..(Len(a) + Len(r)) : q[j] = IF j <= Len(a) THEN a[j] ELSE r[j - Len(a)]
  BY ConcatProperties
<1> HIDE DEF c
<1>4. /\ p \in Seq(S) /\ Len(p) = Len(c) + Len(n)
      /\ \A j \in 1..(Len(c) + Len(n)) : p[j] = IF j <= Len(c) THEN c[j] ELSE n[j - Len(c)]
  BY <1>1, ConcatProperties
<1> HIDE DEF p, q
<1>5. Len(p) = Len(q) /\ Len(a) + 1 \in 1..Len(q)
  BY <1>1, <1>2, <1>3, <1>4
<1>6. \A j \in 1..Len(r) : q[Len(a) + j] = r[j]
  <2> TAKE j \in 1..Len(r)
  <2>1. Len(a) + j \in 1..Len(q) /\ ~(Len(a) + j <= Len(a)) /\ (Len(a) + j) - Len(a) = j
    BY <1>2, <1>3
  <2> QED
    BY <2>1, <1>3
<1>7. \A j \in 1..Len(a) : q[j] = a[j]
  BY <1>2, <1>3
<1>8. p[Len(a) + 1] = b
  BY <1>1, <1>2, <1>4, <1>5
<1>9. ASSUME NEW j \in 1..Len(q), j # Len(a) + 1 PROVE p[j] = q[j]
  <2>1. CASE j <= Len(a)
    <3>1. j \in 1..Len(a) /\ j <= Len(c) /\ j \in 1..(Len(c) + Len(n))
      BY <2>1, <1>1, <1>2
    <3> QED
      BY <3>1, <1>1, <1>4, <1>7
  <2>2. CASE ~(j <= Len(a))
    <3>1. j - Len(c) \in 1..Len(n) /\ ~(j <= Len(c)) /\ (j - Len(c)) + 1 = j - Len(a)
      BY <2>2, <1>9, <1>1, <1>2, <1>3
    <3>2. p[j] = n[j - Len(c)] /\ q[j] = r[j - Len(a)]
      BY <2>2, <3>1, <1>3, <1>4, <1>5
    <3> QED
      BY <3>1, <3>2
  <2> QED
    BY <2>1, <2>2
<1>10. /\ q \in Seq(S) /\ p \in Seq(S) /\ Len(p) = Len(q) /\ Len(q) = Len(a) + Len(r)
       /\ Len(a) + 1 \in 1..Len(q) /\ p[Len(a) + 1] = b /\ q[Len(a) + 1] = r[1]
       /\ \A j \in 1..Len(a) : q[j] = a[j]
       /\ \A j \in 1..Len(r) : q[Len(a) + j] = r[j]
       /\ \A j \in 1..Len(q) : j # Len(a) + 1 => p[j] = q[j]
  <2>1. 1 \in 1..Len(r)
    BY <1>2
  <2>2. q[Len(a) + 1] = r[1]
    BY <2>1, <1>6
  <2> QED
    BY <2>2, <1>3, <1>4, <1>5, <1>6, <1>7, <1>8, <1>9
<1> QED
  BY <1>10, Zenon DEF p, q, c

\* The chain behind the buffer the loop is at.
LEMMA LoopRest ==
  ASSUME IInv, InLoop
  PROVE  LET n == SubSeq(in, i + 1, Len(in))
         IN  /\ Rest \in Seq(LinkType) /\ n \in Seq(LinkType) /\ Rest[1] = in[i]
             /\ Len(Rest) = Len(n) + 1 /\ \A j \in 1..Len(n) : n[j] = Rest[j + 1]
<1> DEFINE n == SubSeq(in, i + 1, Len(in))
<1>1. i \in 1..Len(in) /\ pc = "loop" /\ in \in Seq(LinkType) /\ Len(in) \in Nat
  BY LoopFacts DEF IInv, TypeInv
<1>2. Rest = SubSeq(in, i, Len(in))
  BY <1>1 DEF Rest
<1>3. /\ Rest \in Seq(LinkType) /\ Len(Rest) = Len(in) - i + 1
      /\ \A j \in 1..(Len(in) - i + 1) : Rest[j] = in[i + j - 1]
  BY <1>1, <1>2, RestAt
<1>4. i + 1 \in 1..(Len(in) + 1)
  BY <1>1
<1>5. /\ n \in Seq(LinkType) /\ Len(n) = Len(in) - (i + 1) + 1
      /\ \A j \in 1..(Len(in) - (i + 1) + 1) : n[j] = in[(i + 1) + j - 1]
  BY <1>1, <1>4, RestAt
<1> HIDE DEF n
<1>6. Len(Rest) = Len(n) + 1 /\ Rest[1] = in[i]
  <2>1. 1 \in 1..(Len(in) - i + 1) /\ i + 1 - 1 = i /\ Len(Rest) = Len(n) + 1
    BY <1>1, <1>3, <1>5
  <2> QED
    BY <2>1, <1>3
<1>7. \A j \in 1..Len(n) : n[j] = Rest[j + 1]
  <2> TAKE j \in 1..Len(n)
  <2>1. j \in 1..(Len(in) - (i + 1) + 1) /\ j + 1 \in 1..(Len(in) - i + 1)
        /\ (i + 1) + j - 1 = i + (j + 1) - 1
    BY <1>1, <1>5
  <2> QED
    BY <2>1, <1>3, <1>5
<1> QED
  BY <1>3, <1>5, <1>6, <1>7 DEF n

\* The data at the buffer the loop is at, while headers are delayed: the unit
\* after the ones that were charged.
LEMMA NextUnit ==
  ASSUME IInv, InLoop, delayed, ~in[i].last, Data(in[i])
  PROVE  UnitIn(store, in[i]) = bytes + 1 /\ bytes + 1 <= made
<1> DEFINE k == Len(pending) + 1
           n == SubSeq(in, i + 1, Len(in))
           b == in[i]
<1>1. i \in 1..Len(in) /\ pc = "loop" /\ b \in LinkType /\ ~triggered
  BY LoopFacts
<1>2. /\ pending \in Seq(LinkType) /\ bytes \in Nat /\ made \in Nat /\ Len(pending) \in Nat
      /\ Len(in) \in Nat
  BY BodyAssumption DEF IInv, TypeInv
<1>3. /\ Rest \in Seq(LinkType) /\ n \in Seq(LinkType) /\ Rest[1] = b
      /\ Len(Rest) = Len(n) + 1 /\ \A j \in 1..Len(n) : n[j] = Rest[j + 1]
  BY LoopRest
<1>4. /\ Live = pending \o Rest
      /\ Len(client.data) = 0 /\ Stream(store, busy, Live, Len(client.data), made)
  BY <1>1 DEF IInv, HeaderInv, StreamInv, Alive, Live
<1> HIDE DEF n, b
<1>5. /\ k \in 1..Len(Live) /\ Live[k] = b
      /\ \A j \in 1..Len(pending) : Live[j] = pending[j]
  BY <1>1, <1>2, <1>3, <1>4, MoveLink
<1>6. UnitIn(store, b) \in 1..made
  BY <1>4, <1>5 DEF Stream, Within, b
<1>7. UnitIn(store, b) > bytes
  <2>1. 1 \in 1..Len(Rest)
    BY <1>3
  <2>2. \A m \in 1..Len(Rest) : Data(Rest[m]) => UnitIn(store, Rest[m]) > bytes
    BY <1>1 DEF IInv, BytesInv
  <2> QED
    BY <2>1, <2>2, <1>3 DEF b
<1>8. PICK m \in 1..Len(Live) : Data(Live[m]) /\ UnitIn(store, Live[m]) = bytes + 1
  <2>1. bytes + 1 \in (Len(client.data) + 1)..made
    BY <1>2, <1>4, <1>6, <1>7
  <2> QED
    BY <1>4, <2>1 DEF Stream, Complete
<1>9. CASE m < k
  <2>1. m \in 1..Len(pending) /\ Live[m] = pending[m]
    BY <1>2, <1>5, <1>9
  <2>2. CASE ~pending[m].last
    <3>1. pending[m].kind = "stable" /\ pending[m].unit <= bytes
      BY <1>1, <1>8, <2>1, <2>2 DEF IInv, BytesInv
    <3>2. pending[m].unit = bytes + 1
      BY <1>8, <2>1, <3>1 DEF UnitIn
    <3> QED
      BY <1>2, <3>1, <3>2
  <2>3. CASE pending[m].last
    <3>1. PICK l \in 1..(i - 1) : l <= Len(in) /\ in[l].last
      BY <1>1, <2>1, <2>3 DEF IInv, BytesInv
    <3>2. l \in 1..Len(in) /\ i \in (l + 1)..Len(in)
      BY <1>1, <1>2, <3>1
    <3>3. ~Data(in[i])
      BY <1>1, <3>1, <3>2 DEF IInv, BytesInv
    <3> QED
      BY <3>3
  <2> QED
    BY <2>2, <2>3
<1>10. CASE m = k
  BY <1>2, <1>5, <1>6, <1>8, <1>10 DEF b
<1>11. CASE m > k
  <2>1. UnitIn(store, Live[k]) < UnitIn(store, Live[m])
    BY <1>4, <1>5, <1>8, <1>11 DEF Stream, Ascending, b
  <2> QED
    BY <1>2, <1>5, <1>6, <1>7, <1>8, <2>1
<1> QED
  BY <1>2, <1>8, <1>9, <1>10, <1>11

\* The held form of a buffer: the same data, in no storage of the producer.
LEMMA HeldFacts ==
  ASSUME IInv, InLoop, delayed
  PROVE  LET h == Held(in[i])
         IN  /\ h.buf \in LinkType /\ h.buf.kind # "mem" /\ h.buf.slot = "none"
             /\ h.buf.kind \notin Headers /\ h.buf.last = (in[i].kind # "mem" /\ in[i].last)
             /\ Data(h.buf) <=> Data(in[i])
             /\ Data(in[i]) => /\ UnitIn(store, h.buf) = UnitIn(store, in[i])
                               /\ h.buf.kind = "stable" /\ h.charge = 1
             /\ ~Data(in[i]) => h.charge = 0
<1> DEFINE b == in[i]
           n == SubSeq(in, i + 1, Len(in))
<1>1. i \in 1..Len(in) /\ pc = "loop" /\ b \in LinkType /\ ~triggered
  BY LoopFacts
<1>2. b.kind \notin Headers
  BY <1>1 DEF IInv, HeaderInv
<1>3. Stored(busy, Live) /\ Live = pending \o Rest
  BY <1>1 DEF IInv, StreamInv, Stream, Alive, Live
<1>4. /\ Rest \in Seq(LinkType) /\ n \in Seq(LinkType) /\ Rest[1] = b
      /\ Len(Rest) = Len(n) + 1 /\ \A j \in 1..Len(n) : n[j] = Rest[j + 1]
  BY LoopRest
<1>5. pending \in Seq(LinkType) /\ busy \subseteq Slot /\ store \in [Slot -> 0..N]
  BY DEF IInv, TypeInv
<1> HIDE DEF n, b
<1>6. Len(pending) + 1 \in 1..Len(Live) /\ Live[Len(pending) + 1] = b
  BY <1>1, <1>3, <1>4, <1>5, MoveLink
<1>7. (b.kind = "mem" => b.slot \in Slot) /\ (b.kind # "mem" => b.slot = "none")
  BY <1>3, <1>5, <1>6 DEF Stored
<1>8. CASE b.kind = "mem"
  <2>1. Held(b) = [buf |-> Stable(store[b.slot], FALSE), charge |-> 1]
    BY <1>8 DEF Held
  <2>2. store[b.slot] \in 0..N
    BY <1>5, <1>7, <1>8
  <2> DEFINE c == Stable(store[b.slot], FALSE)
  <2>3. /\ c \in LinkType /\ Data(c) /\ c.kind = "stable" /\ c.slot = "none"
        /\ c.unit = store[b.slot] /\ c.last = FALSE
    BY <2>2, Links
  <2> HIDE DEF c
  <2>4. UnitIn(store, c) = UnitIn(store, b) /\ Data(b)
    BY <1>8, <2>3 DEF UnitIn, Data
  <2>5. Held(b).buf = c /\ Held(b).charge = 1
    BY <2>1 DEF c
  <2> QED
    BY <1>8, <2>3, <2>4, <2>5 DEF Headers, b
<1>9. CASE b.kind # "mem"
  <2>1. Held(b).buf = b /\ Held(b).charge = IF b.kind = "empty" THEN 0 ELSE 1
    BY <1>9 DEF Held
  <2>2. b.kind \in {"stable", "empty"} /\ b.last \in BOOLEAN
    BY <1>1, <1>2, <1>9 DEF LinkType
  <2> QED
    BY <1>1, <1>2, <1>7, <1>9, <2>1, <2>2 DEF Data, b
<1> QED
  BY <1>8, <1>9

\* A buffer passes: the stream the client has still to read is the same, with
\* what is held of it in no storage the producer may reuse.
LEMMA StepPassesStep == IInv /\ StepPasses => IInv'
<1> SUFFICES ASSUME IInv, StepPasses PROVE IInv'
  OBVIOUS
<1> DEFINE b == in[i]
           n == SubSeq(in, i + 1, Len(in))
           k == Len(pending) + 1
<1>0. /\ InLoop /\ i' = i + 1
      /\ made' = made /\ empties' = empties /\ ended' = ended /\ store' = store
      /\ in' = in /\ pc' = pc /\ conf' = conf /\ delayed' = delayed
      /\ triggered' = triggered /\ swallow' = swallow /\ rout' = rout /\ client' = client
      /\ phase4' = IF RunsPhase4 THEN phase4 + 1 ELSE phase4
  BY DEF StepPasses, producer
<1>1. /\ i \in 1..Len(in) /\ b \in LinkType /\ ~triggered /\ pc = "loop"
      /\ (b.last => phase4 = 0 /\ ended) /\ phase4 \in 0..1 /\ (phase4 = 1 => ended)
  BY <1>0, LoopFacts DEF RunsPhase4
<1>2. /\ phase4' \in 0..1 /\ (phase4' = 1 <=> phase4 = 1 \/ b.last) /\ (phase4' = 1 => ended)
      /\ (phase4 = 1 => ~b.last)
  BY <1>0, <1>1 DEF RunsPhase4
<1>3. /\ in \in Seq(LinkType) /\ pending \in Seq(LinkType) /\ Len(in) \in Nat
      /\ Len(pending) \in Nat /\ bytes \in Nat /\ made \in Nat /\ busy \subseteq Slot
  BY BodyAssumption DEF IInv, TypeInv
<1>4. /\ Rest \in Seq(LinkType) /\ n \in Seq(LinkType) /\ Rest[1] = b
      /\ Len(Rest) = Len(n) + 1 /\ \A j \in 1..Len(n) : n[j] = Rest[j + 1]
  BY <1>0, LoopRest
<1>5. Rest' = n
  BY <1>0, <1>1 DEF Rest
<1>6. i' \in 1..(MaxChain + 1) /\ i' <= Len(in) + 1
  BY <1>0, <1>1, <1>3, BodyAssumption DEF IInv, TypeInv
\* What the buffer does to pending_chain, and what is charged.
<1>7. \/ ~delayed /\ pending' = pending /\ bytes' = bytes /\ busy' = busy
      \/ /\ delayed /\ b.last /\ pending' = Append(pending, b) /\ bytes' = bytes /\ busy' = busy
      \/ /\ delayed /\ ~b.last /\ pending' = Append(pending, Held(b).buf)
         /\ bytes' = bytes + Held(b).charge /\ busy' = busy \ {b.slot}
  <2>1. Consumed(<<b>>) = {b.slot}
    BY DEF Consumed
  <2> QED
    BY <2>1 DEF StepPasses
<1>8. delayed => LET c == IF b.last THEN b ELSE Held(b).buf
                 IN  c \in LinkType /\ c.kind \notin Headers /\ pending' = Append(pending, c)
  BY <1>0, <1>1, <1>7, HeldFacts DEF IInv, HeaderInv
<1> HIDE DEF n, b
<1>9. /\ pending' \in Seq(LinkType) /\ bytes' \in Nat /\ busy' \subseteq Slot
  <2>1. CASE ~delayed
    BY <2>1, <1>3, <1>7
  <2>2. CASE delayed
    <3>1. pending' \in Seq(LinkType)
      <4>1. PICK c \in LinkType : pending' = Append(pending, c)
        BY <2>2, <1>8
      <4> QED
        BY <4>1, <1>3, AppendAt
    <3>2. Held(b).charge \in Nat
      BY <2>2, <1>0, HeldFacts DEF b
    <3>3. bytes' = bytes \/ bytes' = bytes + Held(b).charge
      BY <2>2, <1>7
    <3>4. bytes' \in Nat
      BY <3>2, <3>3, <1>3
    <3>5. busy' \subseteq Slot
      BY <2>2, <1>3, <1>7
    <3> QED
      BY <3>1, <3>4, <3>5
  <2> QED
    BY <2>1, <2>2
<1>10. TypeInv'
  BY <1>0, <1>2, <1>6, <1>9 DEF IInv, TypeInv
<1>11. ControlInv'
  BY <1>0, <1>1, <1>6, <1>7 DEF IInv, ControlInv, Alive
<1>12. LastInv'
  <2>1. \A j \in (i + 1)..Len(in) : phase4' = 1 => ~in[j].last
    <3> SUFFICES ASSUME NEW j \in (i + 1)..Len(in), phase4' = 1, in[j].last PROVE FALSE
      OBVIOUS
    <3>1. j \in 1..Len(in) /\ j \in i..Len(in) /\ j # i
      BY <1>1, <1>3
    <3>2. CASE phase4 = 1
      BY <1>1, <3>1, <3>2 DEF IInv, LastInv, From, Alive
    <3>3. CASE b.last
      BY <1>1, <3>1, <3>3 DEF IInv, LastInv, b
    <3> QED
      BY <1>2, <3>2, <3>3
  <2>2. \A j \in 1..((i + 1) - 1) : j <= Len(in) /\ in[j].last => phase4' = 1
    <3> SUFFICES ASSUME NEW j \in 1..((i + 1) - 1), j <= Len(in), in[j].last PROVE phase4' = 1
      OBVIOUS
    <3>1. j = i \/ j \in 1..(i - 1)
      BY <1>1, <1>3
    <3>2. CASE j = i
      BY <1>2, <3>2 DEF b
    <3>3. CASE j \in 1..(i - 1)
      BY <1>1, <1>2, <3>3 DEF IInv, LastInv
    <3> QED
      BY <3>1, <3>2, <3>3
  <2> QED
    BY <1>0, <1>1, <1>2, <2>1, <2>2 DEF IInv, LastInv, From, Alive
<1>13. HeaderInv'
  <2>1. \A j \in 1..Len(pending') : pending'[j].kind \notin Headers
    <3>1. CASE ~delayed
      BY <3>1, <1>7 DEF IInv, HeaderInv
    <3>2. CASE delayed
      <4>1. PICK c \in LinkType : c.kind \notin Headers /\ pending' = Append(pending, c)
        BY <3>2, <1>8
      <4>2. /\ Len(pending') = Len(pending) + 1 /\ pending'[Len(pending) + 1] = c
            /\ \A j \in 1..Len(pending) : pending'[j] = pending[j]
        BY <4>1, <1>3, AppendAt
      <4>3. \A j \in 1..Len(pending) : pending[j].kind \notin Headers
        BY DEF IInv, HeaderInv
      <4> QED
        BY <1>3, <4>1, <4>2, <4>3
    <3> QED
      BY <3>1, <3>2
  <2>2. ~delayed => bytes' = bytes
    BY <1>7
  <2> QED
    BY <1>0, <1>1, <1>2, <2>1, <2>2 DEF IInv, HeaderInv, Alive
<1>14. StreamInv'
  <2>1. /\ Len(client.data) <= made /\ Len(client.data) \in Nat
        /\ Stream(store, busy, Live, Len(client.data), made)
    BY <1>1 DEF IInv, StreamInv, Alive, TypeInv
  <2>2. CASE ~delayed
    <3>1. Live' = Live /\ busy' = busy
      BY <2>2, <1>0, <1>7 DEF Live
    <3> QED
      BY <1>0, <2>1, <3>1 DEF StreamInv
  <2>3. CASE delayed
    <3> DEFINE c == IF b.last THEN b ELSE Held(b).buf
    <3>1. c \in LinkType /\ pending' = Append(pending, c)
      BY <2>3, <1>8
    <3> DEFINE q == pending \o Rest
               p == Append(pending, c) \o n
    <3>2. Live = q /\ Live' = p
      BY <2>3, <3>1, <1>0, <1>5 DEF Live
    <3> HIDE DEF c
    <3>3. /\ q \in Seq(LinkType) /\ p \in Seq(LinkType) /\ Len(p) = Len(q)
          /\ k \in 1..Len(q) /\ q[k] = b /\ p[k] = c
          /\ \A j \in 1..Len(q) : j # k => p[j] = q[j]
      BY <3>1, <1>3, <1>4, MoveLink, SMTT(30)
    <3> HIDE DEF q, p
    <3>4. CASE b.last
      <4>1. p[k] = q[k]
        BY <3>3, <3>4 DEF c
      <4>2. p = q
        BY <3>3, <4>1, SeqEqual
      <4> QED
        BY <1>0, <1>7, <2>1, <3>2, <3>4, <4>2 DEF StreamInv
    <3>5. CASE ~b.last
      <4>1. c = Held(b).buf
        BY <3>5 DEF c
      <4>2. /\ c.kind # "mem" /\ c.slot = "none" /\ (Data(c) <=> Data(b))
            /\ Data(b) => UnitIn(store, c) = UnitIn(store, b)
        BY <1>0, <2>3, <4>1, HeldFacts DEF b
      <4>3. "none" \notin busy
        BY <1>3, BodyAssumption
      <4>4. Stream(store, busy \ {q[k].slot}, p, Len(client.data), made)
        BY <1>3, <2>1, <3>2, <3>3, <4>2, <4>3, StreamHeld
      <4>5. busy' = busy \ {b.slot}
        BY <1>7, <2>3, <3>5
      <4> QED
        BY <1>0, <2>1, <3>2, <3>3, <4>4, <4>5 DEF StreamInv
    <3> QED
      BY <3>4, <3>5
  <2> QED
    BY <2>2, <2>3
<1>15. BytesInv'
  <2>1. CASE ~delayed
    BY <2>1, <1>0, <1>7 DEF IInv, BytesInv
  <2>2. CASE delayed
    <3> DEFINE c == IF b.last THEN b ELSE Held(b).buf
    <3>1. c \in LinkType /\ pending' = Append(pending, c)
      BY <2>2, <1>8
    <3> HIDE DEF c
    <3>2. /\ Len(pending') = k /\ pending'[k] = c
          /\ \A j \in 1..Len(pending) : pending'[j] = pending[j]
      BY <3>1, <1>3, AppendAt
    <3>3. \A j \in 1..Len(pending') : j = k \/ (j \in 1..Len(pending) /\ pending'[j] = pending[j])
      BY <1>3, <3>2
    <3>4. /\ bytes <= made
          /\ \A j \in 1..Len(pending) : Data(pending[j]) /\ ~pending[j].last =>
               pending[j].kind = "stable" /\ pending[j].unit <= bytes
          /\ \A m \in 1..Len(Rest) : Data(Rest[m]) => UnitIn(store, Rest[m]) > bytes
          /\ \A j \in 1..Len(in) : in[j].last => \A m \in (j + 1)..Len(in) : ~Data(in[m])
          /\ \A j \in 1..Len(pending) : pending[j].last =>
               \E m \in 1..(i - 1) : m <= Len(in) /\ in[m].last
      BY <1>1, <2>2 DEF IInv, BytesInv
    <3>5. \A m \in 1..Len(n) : m + 1 \in 1..Len(Rest) /\ 1 < m + 1 /\ n[m] = Rest[m + 1]
      BY <1>4
    \* The last link of pending_chain.
    <3>6. \A j \in 1..Len(pending') : pending'[j].last =>
            \E m \in 1..((i + 1) - 1) : m <= Len(in) /\ in[m].last
      <4> SUFFICES ASSUME NEW j \in 1..Len(pending'), pending'[j].last
                   PROVE  \E m \in 1..((i + 1) - 1) : m <= Len(in) /\ in[m].last
        OBVIOUS
      <4>1. CASE j = k
        <5>1. c.last
          BY <3>2, <4>1
        <5>2. b.last
          BY <1>0, <2>2, <5>1, HeldFacts DEF c, b
        <5>3. i \in 1..((i + 1) - 1) /\ i <= Len(in)
          BY <1>1
        <5> QED
          BY <5>2, <5>3 DEF b
      <4>2. CASE j \in 1..Len(pending) /\ pending'[j] = pending[j]
        <5>1. PICK m \in 1..(i - 1) : m <= Len(in) /\ in[m].last
          BY <3>4, <4>2
        <5>2. m \in 1..((i + 1) - 1)
          BY <1>1
        <5> QED
          BY <5>1, <5>2
      <4> QED
        BY <3>3, <4>1, <4>2
    <3>7. /\ bytes' <= made
          /\ \A j \in 1..Len(pending') : Data(pending'[j]) /\ ~pending'[j].last =>
               pending'[j].kind = "stable" /\ pending'[j].unit <= bytes'
          /\ \A m \in 1..Len(n) : Data(n[m]) => UnitIn(store, n[m]) > bytes'
      <4>1. CASE bytes' = bytes /\ (b.last \/ ~Data(b))
        <5>1. ~(Data(c) /\ ~c.last)
          BY <1>0, <2>2, <4>1, HeldFacts DEF c, b
        <5>2. \A j \in 1..Len(pending') : Data(pending'[j]) /\ ~pending'[j].last =>
                pending'[j].kind = "stable" /\ pending'[j].unit <= bytes
          BY <3>2, <3>3, <3>4, <5>1
        <5> QED
          BY <3>4, <3>5, <4>1, <5>2
      <4>2. CASE ~b.last /\ Data(b)
        <5>1. UnitIn(store, b) = bytes + 1 /\ bytes + 1 <= made
          BY <1>0, <2>2, <4>2, NextUnit DEF b
        <5>2. bytes' = bytes + 1 /\ c.kind = "stable" /\ UnitIn(store, c) = UnitIn(store, b)
          BY <1>0, <1>7, <2>2, <4>2, HeldFacts DEF c, b
        <5>3. c.unit <= bytes'
          BY <1>3, <5>1, <5>2 DEF UnitIn
        <5>4. ASSUME NEW m \in 1..Len(n), Data(n[m]) PROVE UnitIn(store, n[m]) > bytes'
          <6>1. Ascending(store, Live) /\ Within(store, Live, Len(client.data), made)
                /\ Live = pending \o Rest
            BY <1>1, <2>2 DEF IInv, StreamInv, Stream, Alive, Live
          <6>2. /\ k \in 1..Len(Live) /\ Live[k] = b /\ Len(Live) = Len(pending) + Len(Rest)
                /\ \A j \in 1..Len(Rest) : Live[Len(pending) + j] = Rest[j]
            <7>1. b \in LinkType
              BY <1>1 DEF b
            <7>2. /\ k \in 1..Len(pending \o Rest) /\ (pending \o Rest)[k] = Rest[1]
                  /\ Len(pending \o Rest) = Len(pending) + Len(Rest)
              BY <1>3, <1>4, <7>1, MoveLink, SMTT(30)
            <7>3. \A j \in 1..Len(Rest) : (pending \o Rest)[Len(pending) + j] = Rest[j]
              BY <1>3, <1>4, <7>1, MoveLink
            <7> QED
              BY <1>4, <6>1, <7>2, <7>3
          <6>3. /\ Len(pending) + (m + 1) \in 1..Len(Live) /\ k < Len(pending) + (m + 1)
                /\ Live[Len(pending) + (m + 1)] = n[m]
            BY <1>3, <1>4, <3>5, <6>2
          <6>4. UnitIn(store, b) < UnitIn(store, n[m])
            BY <4>2, <5>4, <6>1, <6>2, <6>3 DEF Ascending
          <6> QED
            BY <5>1, <5>2, <6>4
        <5>5. ASSUME NEW j \in 1..Len(pending'), Data(pending'[j]), ~pending'[j].last
              PROVE  pending'[j].kind = "stable" /\ pending'[j].unit <= bytes'
          <6>1. CASE j = k
            BY <3>2, <5>2, <5>3, <6>1
          <6>2. CASE j \in 1..Len(pending) /\ pending'[j] = pending[j]
            <7>1. pending[j] \in LinkType /\ pending[j].kind = "stable" /\ pending[j].unit <= bytes
              BY <1>3, <3>4, <5>5, <6>2
            <7>2. pending[j].unit \in Int
              BY <7>1 DEF LinkType
            <7> QED
              BY <1>3, <5>2, <6>2, <7>1, <7>2
          <6> QED
            BY <3>3, <6>1, <6>2
        <5> QED
          BY <5>1, <5>2, <5>4, <5>5
      <4> QED
        BY <1>0, <1>3, <1>7, <2>2, <4>1, <4>2, HeldFacts DEF b
    <3> QED
      BY <1>0, <1>1, <1>5, <3>4, <3>6, <3>7 DEF BytesInv
  <2> QED
    BY <2>1, <2>2
<1> QED
  BY <1>10, <1>11, <1>12, <1>13, <1>14, <1>15 DEF IInv

-----------------------------------------------------------------------------
LEMMA StutterStep == IInv /\ UNCHANGED vars => IInv'
<1> SUFFICES ASSUME IInv, UNCHANGED vars PROVE IInv'
  OBVIOUS
<1>1. /\ made' = made /\ empties' = empties /\ ended' = ended /\ store' = store /\ busy' = busy
      /\ in' = in /\ pc' = pc /\ i' = i /\ conf' = conf /\ delayed' = delayed
      /\ pending' = pending /\ bytes' = bytes /\ triggered' = triggered /\ swallow' = swallow
      /\ phase4' = phase4 /\ rout' = rout /\ client' = client
  BY DEF vars, producer, filter
<1>2. Rest' = Rest /\ Live' = Live
  BY <1>1 DEF Rest, Live
<1>3. TypeInv' /\ ControlInv' /\ LastInv'
  BY <1>1 DEF IInv, TypeInv, ControlInv, LastInv, From, Alive
<1>4. HeaderInv'
  BY <1>1 DEF IInv, HeaderInv, Alive
<1>5. StreamInv' /\ BytesInv'
  BY <1>1, <1>2 DEF IInv, StreamInv, BytesInv, Alive
<1> QED
  BY <1>3, <1>4, <1>5 DEF IInv

\* The body filter keeps its invariant for responses, chains, storage and caps
\* of every size.
THEOREM BodyInvariant == Spec => []IInv
<1>1. IInv /\ [Next]_vars => IInv'
  BY FillDataStep, FillEmptyStep, WriteStep, SwallowStep, EnterStep, StepPassesStep,
     StepYieldsStep, StepRedirectsStep, StepFinalizesStep, FlushStep, FlushFailsStep,
     HoldStep, PassOnStep, StutterStep
     DEF Next, Fill, Filter
<1> QED
  BY <1>1, InitInv, PTL DEF Spec

\* Types: no more is charged to pending_bytes than the origin has sent, and no
\* link names a unit or a slot that does not exist.
THEOREM TypeOKTheorem == Spec => []TypeOK
<1>1. IInv => TypeOK
  <2> SUFFICES ASSUME IInv PROVE TypeOK
    OBVIOUS
  <2>1. \A b \in ToSet(in) \cup ToSet(pending) \cup ToSet(rout) : b \in LinkType
    BY DEF IInv, TypeInv, ToSet
  <2>2. bytes \in 0..N
    BY BodyAssumption DEF IInv, TypeInv, BytesInv
  <2>3. phase4 \in Nat
    BY DEF IInv, TypeInv
  <2> QED
    BY <2>1, <2>2, <2>3 DEF IInv, TypeInv, TypeOK, LinkType
<1> QED
  BY <1>1, BodyInvariant, PTL

\* Once the filter has returned, pending_chain holds no more data than
\* NGX_HTTP_CORAZA_MAX_DELAYED_BODY: its data are different units, none of them
\* beyond pending_bytes.
THEOREM HeldWithinCapTheorem == Spec => []HeldWithinCap
<1>1. IInv => HeldWithinCap
  <2> DEFINE S == {j \in 1..Len(pending) : pending[j].kind # "empty"}
  <2> SUFFICES ASSUME IInv, pc = "idle", delayed PROVE Cardinality(S) <= Cap
    BY DEF HeldWithinCap
  <2>1. /\ pending \in Seq(LinkType) /\ bytes \in Nat /\ made \in Nat /\ Len(pending) \in Nat
        /\ bytes <= Cap /\ Cap \in Nat /\ in \in Seq(LinkType)
    BY BodyAssumption DEF IInv, TypeInv, BytesInv
  <2>2. ASSUME NEW j \in S
        PROVE  Data(pending[j]) /\ pending[j].kind = "stable" /\ pending[j].unit <= bytes
    <3>1. j \in 1..Len(pending) /\ pending[j] \in LinkType /\ pending[j].kind \notin Headers
      BY <2>1 DEF IInv, HeaderInv
    <3>2. Data(pending[j])
      BY <3>1 DEF Data, LinkType
    <3>3. ~pending[j].last
      BY <3>1 DEF IInv, BytesInv
    <3> QED
      BY <3>1, <3>2, <3>3 DEF IInv, BytesInv
  <2>3. /\ Live = pending \o in /\ Len(client.data) = 0
        /\ Within(store, Live, Len(client.data), made) /\ Ascending(store, Live)
    BY DEF IInv, ControlInv, HeaderInv, StreamInv, Stream, Alive, Live, Rest
  <2>4. \A j \in 1..Len(pending) : j \in 1..Len(Live) /\ Live[j] = pending[j]
    BY <2>1, <2>3, ConcatProperties
  <2>5. \A j \in S : pending[j].unit \in 1..bytes
    <3> TAKE j \in S
    <3>1. UnitIn(store, pending[j]) \in 1..made
      BY <2>2, <2>3, <2>4 DEF Within
    <3> QED
      BY <2>1, <2>2, <3>1 DEF UnitIn
  <2>6. ASSUME NEW j \in S, NEW m \in S, j < m PROVE pending[j].unit < pending[m].unit
    BY <2>2, <2>3, <2>4, <2>6 DEF Ascending, UnitIn
  <2> DEFINE f == [j \in S |-> pending[j].unit]
  <2>7. f \in Injection(S, 1..bytes)
    <3>1. f \in [S -> 1..bytes]
      BY <2>5
    <3>2. ASSUME NEW j \in S, NEW m \in S, f[j] = f[m] PROVE j = m
      <4>1. pending[j].unit = pending[m].unit /\ pending[j].unit \in Int /\ j \in Int /\ m \in Int
        BY <2>5, <3>2
      <4> QED
        BY <4>1, <2>5, <2>6
    <3> QED
      BY <3>1, <3>2 DEF Injection, IsInjective
  <2>8. IsFiniteSet(1..bytes) /\ Cardinality(1..bytes) = bytes
    <3>1. 1 \in Int /\ bytes \in Int
      BY <2>1
    <3>2. /\ IsFiniteSet(1..bytes)
          /\ Cardinality(1..bytes) = IF 1 > bytes THEN 0 ELSE bytes - 1 + 1
      BY <3>1, FS_Interval
    <3> QED
      BY <2>1, <3>2
  <2>9. Cardinality(S) <= bytes
    BY <2>7, <2>8, FS_Injection
  <2>10. IsFiniteSet(S)
    BY <2>7, <2>8, FS_Injection
  <2> QED
    BY <2>1, <2>9, <2>10, FS_CardinalityType
<1> QED
  BY <1>1, BodyInvariant, PTL

\* A delayed header of the origin leaves only behind phase 4, or with more data
\* held than the cap.
THEOREM HeaderAwaitsPhase4Theorem == Spec => []HeaderAwaitsPhase4
<1>1. IInv => HeaderAwaitsPhase4
  <2> SUFFICES ASSUME IInv, conf.delay,
                      "origin" \in ToSet(client.headers) \cup {b.kind : b \in ToSet(rout)}
               PROVE  phase4 = 1 \/ bytes > Cap
    BY DEF HeaderAwaitsPhase4
  <2>0. rout # <<>> \/ client.headers # <<>>
    BY DEF ToSet
  <2>1. CASE pc = "reset"
    BY <2>0, <2>1 DEF IInv, HeaderInv
  <2>2. CASE pc # "reset" /\ delayed
    BY <2>0, <2>2 DEF IInv, HeaderInv
  <2>3. CASE pc # "reset" /\ ~delayed /\ ~triggered
    BY <2>3 DEF IInv, HeaderInv, Alive
  <2>4. CASE pc # "reset" /\ triggered
    <3>1. Header("redirect").kind = "redirect" /\ Header("page").kind = "page"
      BY Links DEF Headers
    <3>2. CASE client.headers = <<>> /\ rout \in {<<Header("redirect")>>, <<Header("page")>>}
      BY <3>1, <3>2 DEF ToSet
    <3>3. CASE client.headers \in {<<"redirect">>, <<"page">>} /\ rout = <<>>
      BY <3>3 DEF ToSet
    <3> QED
      BY <2>4, <3>2, <3>3 DEF IInv, HeaderInv
  <2> QED
    BY <2>1, <2>2, <2>3, <2>4
<1> QED
  BY <1>1, BodyInvariant, PTL

\* coraza_process_response_body() is called at most once, in whatever chains the
\* last buffer and the ones behind it arrive.
THEOREM PhaseFourOnceTheorem == Spec => []PhaseFourOnce
<1>1. IInv => PhaseFourOnce
  BY DEF IInv, TypeInv, PhaseFourOnce
<1> QED
  BY <1>1, BodyInvariant, PTL

-----------------------------------------------------------------------------
(* The refinement *)

\* What a step of the filter does to what the client has.
Unread == client' = client /\ (pc' = "reset" <=> pc = "reset")

LEMMA QuietStep ==
  ASSUME IInv, \/ Fill \/ Swallow \/ Enter \/ StepPasses \/ StepYields \/ StepRedirects
               \/ Flush \/ Hold \/ PassOn \/ UNCHANGED vars
  PROVE  Unread
BY DEF Unread, Fill, FillData, FillEnd, FillEmpty, Filling, Swallow, Enter, StepPasses,
       StepYields, StepRedirects, Refuse, InLoop, Flush, Hold, PassOn, AtEnd, Out, vars

\* Finalizing behind sent headers, and a delayed header that cannot be written,
\* close the connection on a client that has at most the origin's header and
\* data.
LEMMA ClosingStep ==
  ASSUME IInv, StepFinalizes \/ FlushFails
  PROVE  Unread \/ D!Close
<1>1. pc = "loop" /\ client' = client
  BY DEF StepFinalizes, Refuse, InLoop, FlushFails, AtEnd
<1>2. client.headers \in {<<>>, <<"origin">>}
  BY <1>1 DEF IInv, ControlInv, HeaderInv, Alive
<1>3. pc' \in {"stopped", "reset"}
  BY DEF StepFinalizes, FlushFails, Reset
<1>4. CASE pc' = "stopped"
  BY <1>1, <1>4 DEF Unread
<1>5. CASE pc' = "reset"
  BY <1>1, <1>2, <1>5 DEF D!Close
<1> QED
  BY <1>3, <1>4, <1>5

\* Whatever the client reads is the next thing Delivery allows.
LEMMA ReadingStep ==
  ASSUME IInv, Write
  PROVE  Unread \/ D!Answer \/ D!Deliver
<1>0. /\ pc' = pc /\ pc # "reset" /\ made \in 0..N
      /\ client \in [headers : Seq(Headers), data : Seq(0..N)]
  BY WriteFacts DEF Write, IInv, TypeInv
<1>1. CASE /\ triggered /\ client.headers = <<>>
           /\ client'.headers \in {<<"redirect">>, <<"page">>} /\ client'.data = <<>>
  <2>1. client.data = <<>>
    BY <1>1 DEF IInv, HeaderInv
  <2> QED
    BY <1>0, <1>1, <2>1 DEF D!Answer
<1>2. CASE /\ client.headers = <<>> /\ client'.headers = <<"origin">>
           /\ client'.data = client.data
  BY <1>0, <1>2 DEF D!Answer
<1>3. CASE client' = client
  BY <1>0, <1>3 DEF Unread
<1>4. CASE /\ client.headers = <<"origin">> /\ client'.headers = client.headers
           /\ client'.data = Append(client.data, Len(client.data) + 1)
           /\ Len(client.data) < made
  <2>1. Len(client.data) < N
    BY <1>0, <1>4, BodyAssumption
  <2> QED
    BY <1>0, <1>4, <2>1 DEF D!Deliver
<1> QED
  BY <1>1, <1>2, <1>3, <1>4, WriteFacts

\* ngx_http_coraza_body_filter() implements Delivery, with however few slots the
\* producer reuses its storage and however the chains are cut: the client reads
\* the header, then the origin's data in order and unaltered, or a replacement
\* and nothing else.
THEOREM DeliveredTheorem == Spec => Delivered
<1>1. Init => D!Init
  BY DEF Init, D!Init
<1>2. IInv /\ [Next]_vars => [D!Next]_<<client.headers, client.data, pc = "reset">>
  <2> SUFFICES ASSUME IInv, [Next]_vars
               PROVE  Unread \/ D!Next
    BY DEF Unread
  <2> QED
    BY QuietStep, ClosingStep, ReadingStep DEF Next, Filter, D!Next
<1> QED
  BY <1>1, <1>2, BodyInvariant, PTL DEF Spec, Delivered, D!Spec
=============================================================================
