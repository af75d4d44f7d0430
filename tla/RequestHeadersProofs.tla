------------------------ MODULE RequestHeadersProofs ------------------------
(***************************************************************************)
(* For headers of any number and length, and bytes to any base: what       *)
(* pack_headers() accepts reads back as it was, and the rewrite handler    *)
(* shows the engine the headers of the request on every path.              *)
(***************************************************************************)
EXTENDS RequestHeaders, SequenceTheorems, WellFoundedInduction, TLAPS

(* Induction and recursion up to a bound, for sets and functions *)

\* A set of naturals that is not empty has a smallest element.
LEMMA NatMin ==
  ASSUME NEW T \in SUBSET Nat, T # {}
  PROVE  \E x \in T : \A y \in T : x <= y
<1> DEFINE R == OpToRel(<, Nat)
<1>1. IsWellFoundedOn(R, Nat)
  BY NatLessThanWellFounded
<1>2. \A x, y \in Nat : <<y, x>> \in R <=> y < x
  BY DEF OpToRel
<1> HIDE DEF R
<1>3. PICK x \in T : \A y \in T : ~ (<<y, x>> \in R)
  BY <1>1, WFMin
<1>4. ASSUME NEW y \in T PROVE x <= y
  <2>1. x \in Nat /\ y \in Nat /\ ~(<<y, x>> \in R)
    BY <1>3
  <2>2. ~(y < x)
    BY <1>2, <2>1
  <2> QED
    BY <2>1, <2>2
<1> QED
  BY <1>4

\* Induction from 0 to n, with the property as a set.
LEMMA UpTo ==
  ASSUME NEW n \in Nat, NEW T, 0 \in T, \A k \in 1..n : k - 1 \in T => k \in T
  PROVE  0..n \subseteq T
<1> DEFINE D == (0..n) \ T
<1>1. SUFFICES ASSUME D # {} PROVE FALSE
  OBVIOUS
<1>2. D \in SUBSET Nat
  OBVIOUS
<1>3. PICK m \in D : \A y \in D : m <= y
  BY <1>1, <1>2, NatMin
<1>4. m \in 1..n
  BY <1>3
<1>5. m - 1 \in 0..n /\ ~(m <= m - 1)
  BY <1>4
<1>6. m - 1 \in T
  BY <1>3, <1>5
<1> QED
  BY <1>3, <1>4, <1>6

\* f is computed from c by g.
Iterates(f, V, n, c, g) ==
  f \in [0..n -> V] /\ f[0] = c /\ \A k \in 1..n : f[k] = g[<<f[k - 1], k>>]

\* A function computed by recursion up to n exists: g is its step, as a function.
LEMMA Recursion ==
  ASSUME NEW V, NEW n \in Nat, NEW c \in V, NEW g \in [V \X (1..n) -> V]
  PROVE  \E f : Iterates(f, V, n, c, g)
<1> DEFINE Good(m) == \E f \in [0..m -> V] : f[0] = c /\ \A k \in 1..m : f[k] = g[<<f[k - 1], k>>]
           T == {m \in 0..n : Good(m)}
<1>1. 0 \in T
  <2> DEFINE f == [k \in 0..0 |-> c]
  <2>1. f \in [0..0 -> V] /\ f[0] = c /\ \A k \in 1..0 : f[k] = g[<<f[k - 1], k>>]
    OBVIOUS
  <2>2. Good(0)
    BY <2>1
  <2> QED
    BY <2>2
<1>2. ASSUME NEW m \in 1..n, m - 1 \in T PROVE m \in T
  <2>0. m \in Nat /\ m - 1 \in 0..n /\ m - 1 \in Nat
    OBVIOUS
  <2>1. PICK f \in [0..(m - 1) -> V] : f[0] = c /\ \A k \in 1..(m - 1) : f[k] = g[<<f[k - 1], k>>]
    BY <1>2
  <2> DEFINE e == g[<<f[m - 1], m>>]
             h == [k \in 0..m |-> IF k = m THEN e ELSE f[k]]
  <2>2. e \in V
    <3>1. m - 1 \in 0..(m - 1)
      BY <2>0
    <3>2. f[m - 1] \in V
      BY <2>1, <3>1
    <3>3. <<f[m - 1], m>> \in V \X (1..n)
      BY <3>2
    <3> QED
      BY <3>3
  <2> HIDE DEF e
  <2>3. \A k \in 0..m : k # m => k \in 0..(m - 1)
    BY <2>0
  <2>4. h \in [0..m -> V]
    BY <2>1, <2>2, <2>3
  <2>5. h[0] = c
    BY <2>0, <2>1
  <2>6. ASSUME NEW k \in 1..m PROVE h[k] = g[<<h[k - 1], k>>]
    <3>0. k - 1 \in 0..m /\ k \in 0..m /\ k - 1 # m /\ m - 1 \in 0..m /\ m - 1 # m
      BY <2>0
    <3>1. CASE k = m
      BY <3>0, <3>1 DEF e
    <3>2. CASE k # m
      <4>1. k \in 1..(m - 1)
        BY <2>0, <3>2
      <4> QED
        BY <2>1, <3>0, <3>2, <4>1
    <3> QED
      BY <3>1, <3>2
  <2> HIDE DEF h
  <2>7. Good(m)
    BY <2>4, <2>5, <2>6
  <2> QED
    BY <2>7
<1> HIDE DEF T
<1>3. 0..n \subseteq T
  BY <1>1, <1>2, UpTo
<1>4. n \in T
  BY <1>3
<1> QED
  BY <1>4 DEF T, Iterates

-----------------------------------------------------------------------------
(* Digits *)

\* Quotient and rest.
LEMMA Division ==
  ASSUME NEW n \in Nat, NEW b \in Nat, b > 0
  PROVE  n \div b \in Nat /\ n % b \in 0..(b - 1) /\ n % b = n - b * (n \div b)
<1>1. n \div b \in Nat
  OBVIOUS
<1>2. n % b \in 0..(b - 1)
  OBVIOUS
<1>3. n % b = n - b * (n \div b)
  BY SMTT(30)
<1> QED
  BY <1>1, <1>2, <1>3

\* Dividing twice is dividing by the product.
LEMMA Quotient ==
  ASSUME NEW n \in Nat, NEW b \in Nat, NEW c \in Nat, b > 0, c > 0
  PROVE  n \div (b * c) = (n \div b) \div c
<1> DEFINE q == n \div b
           r == n % b
           t == q \div c
           u == q % c
<1>1. q \in Nat /\ r \in 0..(b - 1) /\ r = n - b * q
  BY Division
<1> HIDE DEF q, r
<1>2. t \in Nat /\ u \in 0..(c - 1) /\ u = q - c * t
  BY <1>1, Division
<1> HIDE DEF t, u
<1> DEFINE v == u * b + r
           d == b * c
<1>3. v \in Nat /\ v <= (c - 1) * b + (b - 1)
  <2>1. u <= c - 1 /\ r <= b - 1 /\ u \in Nat /\ r \in Nat
    BY <1>1, <1>2
  <2>2. u * b <= (c - 1) * b /\ u * b \in Nat
    BY <2>1
  <2> QED
    BY <2>1, <2>2
<1>4. d \in Nat /\ d > 0 /\ (c - 1) * b + (b - 1) = d - 1
  OBVIOUS
<1>5. n = t * d + v
  <2>1. q = c * t + u /\ n = b * q + r
    BY <1>1, <1>2
  <2>2. n = b * (c * t + u) + r
    BY <2>1
  <2> QED
    BY <1>1, <1>2, <2>2
<1>6. v < d
  BY <1>3, <1>4
<1> HIDE DEF v, d
<1>7. n \div d = t
  BY <1>2, <1>3, <1>4, <1>5, <1>6, SMTT(30)
<1> QED
  BY <1>7 DEF d, t, q

LEMMA Small ==
  ASSUME NEW n \in Nat, NEW m \in Nat, n < m
  PROVE  n % m = n
OBVIOUS

LEMMA Widths ==
  /\ Base \in Nat /\ Base > 1 /\ U16 \in Nat /\ U16 > Base /\ U32 \in Nat /\ U32 > U16
  /\ U16_MAX \in Nat /\ U16_MAX < U16 /\ INT_MAX \in Nat /\ INT_MAX < U32 /\ U16_MAX <= INT_MAX
<1>1. Base \in Nat /\ Base > 1
  BY BaseAssumption
<1>2. Base * Base \in Nat /\ Base * Base > Base
  BY <1>1
<1>3. U16 \in Nat /\ U16 > Base /\ U16 >= 4
  <2>1. Base * Base >= 4
    BY <1>1
  <2> QED
    BY <1>2, <2>1 DEF U16
<1>4. U32 \in Nat /\ U32 > U16 /\ U32 >= 4 * U16
  BY <1>3 DEF U32
<1>5. U32 \div 2 \in Nat /\ U32 \div 2 >= 2 * U16 /\ U32 \div 2 <= U32
  BY <1>3, <1>4
<1> QED
  BY <1>1, <1>3, <1>4, <1>5 DEF U16_MAX, INT_MAX

\* A length that an int holds survives the conversion.
LEMMA NarrowIs ==
  ASSUME NEW n \in Nat, n <= INT_MAX
  PROVE  Narrow(n) = n
<1>1. n % U32 = n
  BY Widths, Small
<1> QED
  BY <1>1, Widths DEF Narrow

LEMMA DigitType ==
  ASSUME NEW n \in Nat, NEW u \in Nat, u > 0
  PROVE  Digit(n, u) \in 0..(Base - 1)
<1>1. n \div u \in Nat
  BY Division
<1> QED
  BY <1>1, Widths, Division DEF Digit

\* The two bytes of a name length, read back.
LEMMA TwoDigits ==
  ASSUME NEW n \in Nat, n <= U16_MAX
  PROVE  Digit(n, Base) * Base + Digit(n, 1) = n
<1> DEFINE q == n \div Base
<1>1. q \in Nat /\ n % Base = n - Base * q
  BY Widths, Division
<1>2. q < Base
  <2>1. n < Base * Base
    BY Widths DEF U16, U16_MAX
  <2> QED
    BY <2>1, Widths
<1>3. n \div 1 = n
  OBVIOUS
<1>4. q % Base = q
  BY <1>1, <1>2, Widths, Small
<1>5. Digit(n, Base) = q /\ Digit(n, 1) = n - Base * q
  BY <1>1, <1>3, <1>4 DEF Digit
<1> HIDE DEF q
<1> QED
  BY <1>1, <1>5, Widths

\* The four bytes of a value length, read back.
LEMMA FourDigits ==
  ASSUME NEW n \in Nat, n <= INT_MAX
  PROVE  ((Digit(n, U16 * Base) * Base + Digit(n, U16)) * Base + Digit(n, Base)) * Base
           + Digit(n, 1) = n
<1> DEFINE q == n \div Base
           r == q \div Base
           t == r \div Base
<1>1. q \in Nat /\ n % Base = n - Base * q
  BY Widths, Division
<1>2. r \in Nat /\ q % Base = q - Base * r /\ r = n \div U16
  <2>1. n \div (Base * Base) = r
    BY Widths, Quotient
  <2> HIDE DEF q
  <2> QED
    BY <1>1, <2>1, Widths, Division DEF U16
<1>3. t \in Nat /\ r % Base = r - Base * t /\ t = n \div (U16 * Base)
  <2>1. n \div (U16 * Base) = (n \div U16) \div Base
    BY Widths, Quotient
  <2> HIDE DEF r
  <2>2. t \in Nat /\ r % Base = r - Base * t
    BY <1>2, Widths, Division
  <2> QED
    BY <1>2, <2>1, <2>2
<1>4. t % Base = t
  <2>1. n < U32 /\ U32 = Base * (U16 * Base)
    BY Widths DEF U32, U16
  <2>2. U16 * Base \in Nat /\ U16 * Base > 0
    BY Widths
  <2> DEFINE d == U16 * Base
             s == n % d
  <2>3. d * t <= n
    <3>1. n \div d \in Nat /\ s \in 0..(d - 1) /\ s = n - d * (n \div d)
      BY <2>2, Division
    <3>2. t = n \div d
      BY <1>3
    <3>3. d \in Nat /\ t \in Nat
      BY <1>3, <2>2
    <3> HIDE DEF d, s, t
    <3>4. d * t \in Nat /\ s = n - d * t /\ s >= 0
      BY <3>1, <3>2, <3>3
    <3> QED
      BY <3>4
  <2>4. t < Base
    <3> HIDE DEF t
    <3>1. d \in Nat /\ d > 0 /\ d * t < Base * d
      BY <1>3, <2>1, <2>2, <2>3
    <3> HIDE DEF d
    <3> QED
      BY <1>3, <3>1, Widths
  <2> HIDE DEF t
  <2> QED
    BY <1>3, <2>4, Widths, Small
<1>5. n \div 1 = n
  OBVIOUS
<1> HIDE DEF q, r, t
<1>6. /\ Digit(n, U16 * Base) = t /\ Digit(n, U16) = r - Base * t
      /\ Digit(n, Base) = q - Base * r /\ Digit(n, 1) = n - Base * q
  BY <1>1, <1>2, <1>3, <1>4, <1>5 DEF Digit, q
<1>7. Base \in Nat
  BY Widths
<1>8. t * Base + (r - Base * t) = r
  BY <1>2, <1>3, <1>7
<1>9. r * Base + (q - Base * r) = q
  BY <1>1, <1>2, <1>7
<1>10. q * Base + (n - Base * q) = n
  BY <1>1, <1>7
<1> QED
  BY <1>6, <1>8, <1>9, <1>10

-----------------------------------------------------------------------------
(* The packed form *)

Octet == 0..(Base - 1)
HeaderType == [name : Seq(Octet), value : Seq(Octet)]
Size(h) == 6 + Len(h.name) + Len(h.value)

LEMMA Sizes ==
  ASSUME NEW h \in HeaderType
  PROVE  /\ h.name \in Seq(Octet) /\ h.value \in Seq(Octet)
         /\ Len(h.name) \in Nat /\ Len(h.value) \in Nat /\ Size(h) \in Nat /\ Size(h) >= 6
         /\ h = [name |-> h.name, value |-> h.value]
<1>1. h.name \in Seq(Octet) /\ h.value \in Seq(Octet) /\ h = [name |-> h.name, value |-> h.value]
  BY DEF HeaderType
<1>2. Len(h.name) \in Nat /\ Len(h.value) \in Nat
  BY <1>1
<1> QED
  BY <1>1, <1>2 DEF Size

\* The running total of the first loop.
LEMMA Totals ==
  ASSUME NEW ps \in Seq(HeaderType)
  PROVE  LET t == PackedTotals(ps)
         IN  /\ t \in [0..Len(ps) -> Nat] /\ t[0] = 0
             /\ \A k \in 1..Len(ps) : t[k] = t[k - 1] + Size(ps[k])
<1> DEFINE n == Len(ps)
           g == [x \in Nat \X (1..n) |-> x[1] + Size(ps[x[2]])]
<1>1. n \in Nat /\ \A k \in 1..n : ps[k] \in HeaderType
  OBVIOUS
<1>2. \A k \in 1..n : Size(ps[k]) \in Nat
  BY <1>1, Sizes
<1> HIDE DEF n
<1>3. g \in [Nat \X (1..n) -> Nat]
  BY <1>2
<1>4. \A x \in Nat, k \in 1..n : g[<<x, k>>] = x + Size(ps[k])
  OBVIOUS
<1> HIDE DEF g
<1>5. PICK f \in [0..n -> Nat] : f[0] = 0 /\ \A k \in 1..n : f[k] = g[<<f[k - 1], k>>]
  <2>1. \E f : Iterates(f, Nat, n, 0, g)
    BY <1>1, <1>3, Recursion
  <2> QED
    BY <2>1 DEF Iterates
<1>6. \A k \in 1..n : f[k] = f[k - 1] + Size(ps[k])
  <2>1. ASSUME NEW k \in 1..n PROVE f[k] = f[k - 1] + Size(ps[k])
    <3>1. k - 1 \in 0..n
      BY <1>1
    <3>2. f[k - 1] \in Nat
      BY <1>5, <3>1
    <3> QED
      BY <1>4, <1>5, <3>2
  <2> QED
    BY <2>1
<1> DEFINE Is(t) == t = [k \in 0..n |->
                           IF k = 0 THEN 0
                           ELSE t[k - 1] + (6 + Len(ps[k].name) + Len(ps[k].value))]
<1>7. Is(f)
  <2> DEFINE e == [k \in 0..n |-> IF k = 0 THEN 0
                                  ELSE f[k - 1] + (6 + Len(ps[k].name) + Len(ps[k].value))]
  <2>1. ASSUME NEW k \in 0..n PROVE f[k] = e[k]
    <3>1. CASE k = 0
      BY <1>5, <3>1
    <3>2. CASE k # 0
      <4>1. k \in 1..n
        BY <1>1, <3>2
      <4> QED
        BY <1>6, <3>2, <4>1 DEF Size
    <3> QED
      BY <3>1, <3>2
  <2>2. f = [k \in 0..n |-> f[k]]
    BY <1>5
  <2>3. f = e
    BY <2>1, <2>2
  <2> QED
    BY <2>3
<1>8. PackedTotals(ps) = CHOOSE t : Is(t)
  BY DEF PackedTotals, n
<1>9. Is(PackedTotals(ps))
  BY <1>7, <1>8
<1> DEFINE t == PackedTotals(ps)
<1>10. t = [k \in 0..n |-> IF k = 0 THEN 0
                           ELSE t[k - 1] + (6 + Len(ps[k].name) + Len(ps[k].value))]
  BY <1>9
<1> HIDE DEF t, Is
<1>11. t[0] = 0 /\ \A k \in 1..n : t[k] = t[k - 1] + Size(ps[k])
  BY <1>1, <1>10 DEF Size
<1>12. \A k \in 0..n : t[k] \in Nat
  <2> DEFINE T == {k \in 0..n : t[k] \in Nat}
  <2>1. 0 \in T
    BY <1>1, <1>11
  <2>2. ASSUME NEW k \in 1..n, k - 1 \in T PROVE k \in T
    BY <1>2, <1>11, <2>2
  <2>3. 0..n \subseteq T
    <3> HIDE DEF T
    <3> QED
      BY <1>1, <2>1, <2>2, UpTo
  <2> QED
    BY <2>3
<1>13. t \in [0..n -> Nat]
  BY <1>10, <1>12
<1> QED
  BY <1>11, <1>13 DEF t, n

\* The field of one header, byte by byte.
LEMMA HeaderBytes ==
  ASSUME NEW h \in HeaderType
  PROVE  LET b == Header(h)
             n == Len(h.name)
             v == Len(h.value)
         IN  /\ b \in Seq(Octet) /\ Len(b) = Size(h)
             /\ b[1] = Digit(n, Base) /\ b[2] = Digit(n, 1)
             /\ \A j \in 1..n : b[2 + j] = h.name[j]
             /\ b[n + 3] = Digit(v, U16 * Base) /\ b[n + 4] = Digit(v, U16)
             /\ b[n + 5] = Digit(v, Base) /\ b[n + 6] = Digit(v, 1)
             /\ \A j \in 1..v : b[n + 6 + j] = h.value[j]
<1> DEFINE n == Len(h.name)
           v == Len(h.value)
           a == <<Digit(n, Base), Digit(n, 1)>>
           d == <<Digit(v, U16 * Base), Digit(v, U16), Digit(v, Base), Digit(v, 1)>>
           an == a \o h.name
           and == an \o d
           b == and \o h.value
<1>1. h.name \in Seq(Octet) /\ h.value \in Seq(Octet) /\ n \in Nat /\ v \in Nat
  BY Sizes
<1> HIDE DEF n, v
<1>2. /\ Digit(n, Base) \in Octet /\ Digit(n, 1) \in Octet /\ Digit(v, U16 * Base) \in Octet
      /\ Digit(v, U16) \in Octet /\ Digit(v, Base) \in Octet /\ Digit(v, 1) \in Octet
  <2>1. U16 * Base \in Nat /\ U16 * Base > 0
    BY Widths
  <2>2. Base \in Nat /\ Base > 0 /\ U16 \in Nat /\ U16 > 0 /\ 1 \in Nat /\ 1 > 0
    BY Widths
  <2>3. Digit(n, Base) \in Octet /\ Digit(n, 1) \in Octet
    BY <1>1, <2>2, DigitType DEF Octet
  <2>4. Digit(v, U16 * Base) \in Octet /\ Digit(v, U16) \in Octet
    BY <1>1, <2>1, <2>2, DigitType DEF Octet
  <2>5. Digit(v, Base) \in Octet /\ Digit(v, 1) \in Octet
    BY <1>1, <2>2, DigitType DEF Octet
  <2> QED
    BY <2>3, <2>4, <2>5
<1>3. a \in Seq(Octet) /\ Len(a) = 2 /\ a[1] = Digit(n, Base) /\ a[2] = Digit(n, 1)
  BY <1>2
<1>4. /\ d \in Seq(Octet) /\ Len(d) = 4 /\ d[1] = Digit(v, U16 * Base) /\ d[2] = Digit(v, U16)
      /\ d[3] = Digit(v, Base) /\ d[4] = Digit(v, 1)
  BY <1>2
<1> HIDE DEF a, d
<1>5. /\ an \in Seq(Octet) /\ Len(an) = 2 + n
      /\ \A k \in 1..(2 + n) : an[k] = IF k <= 2 THEN a[k] ELSE h.name[k - 2]
  <2>1. /\ an \in Seq(Octet) /\ Len(an) = Len(a) + Len(h.name)
        /\ \A k \in 1..(Len(a) + Len(h.name)) :
             an[k] = IF k <= Len(a) THEN a[k] ELSE h.name[k - Len(a)]
    BY <1>1, <1>3, ConcatProperties
  <2>2. Len(a) + Len(h.name) = 2 + n
    BY <1>1, <1>3 DEF n
  <2> QED
    BY <1>3, <2>1, <2>2
<1> HIDE DEF an
<1>6. /\ and \in Seq(Octet) /\ Len(and) = 6 + n
      /\ \A k \in 1..(6 + n) : and[k] = IF k <= 2 + n THEN an[k] ELSE d[k - (2 + n)]
  <2>1. /\ and \in Seq(Octet) /\ Len(and) = Len(an) + Len(d)
        /\ \A k \in 1..(Len(an) + Len(d)) : and[k] = IF k <= Len(an) THEN an[k] ELSE d[k - Len(an)]
    BY <1>4, <1>5, ConcatProperties
  <2>2. Len(an) + Len(d) = 6 + n
    BY <1>1, <1>4, <1>5
  <2> QED
    BY <1>5, <2>1, <2>2
<1> HIDE DEF and
<1>7. /\ b \in Seq(Octet) /\ Len(b) = 6 + n + v
      /\ \A k \in 1..(6 + n + v) : b[k] = IF k <= 6 + n THEN and[k] ELSE h.value[k - (6 + n)]
  <2>1. /\ b \in Seq(Octet) /\ Len(b) = Len(and) + Len(h.value)
        /\ \A k \in 1..(Len(and) + Len(h.value)) :
             b[k] = IF k <= Len(and) THEN and[k] ELSE h.value[k - Len(and)]
    BY <1>1, <1>6, ConcatProperties
  <2>2. Len(and) + Len(h.value) = 6 + n + v
    BY <1>1, <1>6 DEF v
  <2> QED
    BY <1>6, <2>1, <2>2
<1>8. b = Header(h)
  BY DEF Header, b, and, an, a, d, n, v
<1> HIDE DEF b
<1>9. b[1] = Digit(n, Base) /\ b[2] = Digit(n, 1)
  BY <1>1, <1>3, <1>5, <1>6, <1>7
<1>10. ASSUME NEW j \in 1..n PROVE b[2 + j] = h.name[j]
  <2>1. /\ 2 + j \in 1..(6 + n + v) /\ 2 + j \in 1..(6 + n) /\ 2 + j \in 1..(2 + n) /\ ~(2 + j <= 2)
        /\ 2 + j <= 6 + n /\ 2 + j <= 2 + n /\ (2 + j) - 2 = j
    BY <1>1
  <2> QED
    BY <1>5, <1>6, <1>7, <2>1
<1>11. \A j \in 1..4 : b[n + 2 + j] = d[j]
  <2>1. ASSUME NEW j \in 1..4 PROVE b[n + 2 + j] = d[j]
    <3>1. /\ n + 2 + j \in 1..(6 + n + v) /\ n + 2 + j \in 1..(6 + n) /\ n + 2 + j <= 6 + n
          /\ ~(n + 2 + j <= 2 + n) /\ (n + 2 + j) - (2 + n) = j
      BY <1>1
    <3> QED
      BY <1>6, <1>7, <3>1
  <2> QED
    BY <2>1
<1>12. /\ b[n + 3] = d[1] /\ b[n + 4] = d[2] /\ b[n + 5] = d[3] /\ b[n + 6] = d[4]
  <2>1. n + 2 + 1 = n + 3 /\ n + 2 + 2 = n + 4 /\ n + 2 + 3 = n + 5 /\ n + 2 + 4 = n + 6
    BY <1>1
  <2>2. b[n + 2 + 1] = d[1] /\ b[n + 2 + 2] = d[2] /\ b[n + 2 + 3] = d[3] /\ b[n + 2 + 4] = d[4]
    BY <1>11
  <2> QED
    BY <2>1, <2>2
<1>13. ASSUME NEW j \in 1..v PROVE b[n + 6 + j] = h.value[j]
  <2>1. /\ n + 6 + j \in 1..(6 + n + v) /\ ~(n + 6 + j <= 6 + n) /\ (n + 6 + j) - (6 + n) = j
    BY <1>1
  <2> QED
    BY <1>7, <2>1
<1>14. Len(b) = Size(h)
  BY <1>7 DEF Size, n, v
<1> QED
  BY <1>4, <1>7, <1>8, <1>9, <1>10, <1>12, <1>13, <1>14 DEF n, v

\* The buffer as the second loop fills it.
LEMMA Buffers ==
  ASSUME NEW ps \in Seq(HeaderType)
  PROVE  LET b == Packed(ps)
         IN  /\ b \in [0..Len(ps) -> Seq(Octet)] /\ b[0] = <<>>
             /\ \A k \in 1..Len(ps) : b[k] = b[k - 1] \o Header(ps[k])
<1> DEFINE n == Len(ps)
           V == Seq(Octet)
           g == [x \in V \X (1..n) |-> x[1] \o Header(ps[x[2]])]
<1>1. n \in Nat /\ \A k \in 1..n : ps[k] \in HeaderType
  OBVIOUS
<1>2. \A k \in 1..n : Header(ps[k]) \in Seq(Octet)
  BY <1>1, HeaderBytes
<1> HIDE DEF n
<1>3. g \in [V \X (1..n) -> V]
  <2>1. ASSUME NEW x \in V, NEW k \in 1..n PROVE x \o Header(ps[k]) \in V
    BY <1>2, ConcatProperties
  <2> HIDE DEF V
  <2> QED
    BY <2>1
<1>4. \A x \in V, k \in 1..n : g[<<x, k>>] = x \o Header(ps[k])
  OBVIOUS
<1> HIDE DEF g
<1>5. PICK f : Iterates(f, V, n, <<>>, g)
  <2>1. <<>> \in V
    OBVIOUS
  <2> HIDE DEF V
  <2> QED
    BY <1>1, <1>3, <2>1, Recursion
<1>6. f \in [0..n -> V] /\ f[0] = <<>> /\ \A k \in 1..n : f[k] = f[k - 1] \o Header(ps[k])
  <2>1. f \in [0..n -> V] /\ f[0] = <<>> /\ \A k \in 1..n : f[k] = g[<<f[k - 1], k>>]
    BY <1>5 DEF Iterates
  <2> HIDE DEF V
  <2>2. ASSUME NEW k \in 1..n PROVE f[k] = f[k - 1] \o Header(ps[k])
    <3>1. k - 1 \in 0..n
      BY <1>1
    <3>2. f[k - 1] \in V
      BY <2>1, <3>1
    <3> QED
      BY <1>4, <2>1, <3>2
  <2> QED
    BY <2>1, <2>2
<1> HIDE DEF V
<1> DEFINE Is(t) == t = [k \in 0..n |-> IF k = 0 THEN <<>> ELSE t[k - 1] \o Header(ps[k])]
<1>7. Is(f)
  <2> DEFINE e == [k \in 0..n |-> IF k = 0 THEN <<>> ELSE f[k - 1] \o Header(ps[k])]
  <2>1. ASSUME NEW k \in 0..n PROVE f[k] = e[k]
    <3>1. CASE k = 0
      BY <1>6, <3>1
    <3>2. CASE k # 0
      <4>1. k \in 1..n
        BY <1>1, <3>2
      <4> QED
        BY <1>6, <3>2, <4>1
    <3> QED
      BY <3>1, <3>2
  <2>2. f = [k \in 0..n |-> f[k]]
    BY <1>6
  <2>3. f = e
    BY <2>1, <2>2, Zenon
  <2> QED
    BY <2>3
<1>8. Packed(ps) = CHOOSE t : Is(t)
  BY DEF Packed, n
<1>9. Is(Packed(ps))
  BY <1>7, <1>8, Zenon
<1> DEFINE t == Packed(ps)
<1>10. t = [k \in 0..n |-> IF k = 0 THEN <<>> ELSE t[k - 1] \o Header(ps[k])]
  BY <1>9
<1> HIDE DEF t, Is
<1>11. t[0] = <<>> /\ \A k \in 1..n : t[k] = t[k - 1] \o Header(ps[k])
  BY <1>1, <1>10
<1>12. \A k \in 0..n : t[k] \in V
  <2> DEFINE T == {k \in 0..n : t[k] \in V}
  <2>1. 0 \in T
    <3>1. 0 \in 0..n /\ <<>> \in V
      BY <1>1 DEF V
    <3> QED
      BY <1>11, <3>1
  <2>2. ASSUME NEW k \in 1..n, k - 1 \in T PROVE k \in T
    <3>1. t[k - 1] \in V /\ Header(ps[k]) \in V
      BY <1>2, <2>2 DEF V
    <3>2. t[k - 1] \o Header(ps[k]) \in V
      BY <3>1, ConcatProperties DEF V
    <3>3. t[k] = t[k - 1] \o Header(ps[k])
      BY <1>11
    <3>4. k \in 0..n
      BY <1>1
    <3> QED
      BY <3>2, <3>3, <3>4
  <2>3. 0..n \subseteq T
    <3> HIDE DEF T
    <3> QED
      BY <1>1, <2>1, <2>2, UpTo
  <2> QED
    BY <2>3
<1>13. t \in [0..n -> V]
  BY <1>10, <1>12
<1> QED
  BY <1>11, <1>13 DEF t, n, V

\* The buffer after m headers: its length is the running total, and every field
\* is where the totals before it say.
Laid(ps, m) ==
  LET b == Packed(ps)
      t == PackedTotals(ps)
  IN  /\ Len(b[m]) = t[m] /\ m <= t[m]
      /\ \A k \in 1..m : /\ t[k] <= t[m]
                         /\ \A j \in 1..Size(ps[k]) : b[m][t[k - 1] + j] = Header(ps[k])[j]

LEMMA Layout ==
  ASSUME NEW ps \in Seq(HeaderType), NEW m \in 0..Len(ps)
  PROVE  Laid(ps, m)
<1> DEFINE n == Len(ps)
           b == Packed(ps)
           t == PackedTotals(ps)
           T == {k \in 0..n : Laid(ps, k)}
<1>1. n \in Nat /\ \A k \in 1..n : ps[k] \in HeaderType
  OBVIOUS
<1>2. \A k \in 1..n : /\ Size(ps[k]) \in Nat /\ Size(ps[k]) >= 6 /\ Header(ps[k]) \in Seq(Octet)
                      /\ Len(Header(ps[k])) = Size(ps[k])
  BY <1>1, Sizes, HeaderBytes
<1>3. t \in [0..n -> Nat] /\ t[0] = 0 /\ \A k \in 1..n : t[k] = t[k - 1] + Size(ps[k])
  BY Totals
<1>4. b \in [0..n -> Seq(Octet)] /\ b[0] = <<>> /\ \A k \in 1..n : b[k] = b[k - 1] \o Header(ps[k])
  BY Buffers
<1>5. 0 \in T
  <2>1. Laid(ps, 0)
    BY <1>3, <1>4 DEF Laid
  <2> QED
    BY <1>1, <2>1
<1>6. ASSUME NEW q \in 1..n, q - 1 \in T PROVE q \in T
  <2> DEFINE o == q - 1
             h == Header(ps[q])
             z == Size(ps[q])
  <2>0. o \in 0..n /\ o \in Nat /\ q \in 0..n /\ q \in Nat /\ q = o + 1
    BY <1>1
  <2> HIDE DEF b, t
  <2>1. /\ Len(b[o]) = t[o] /\ o <= t[o]
        /\ \A k \in 1..o : /\ t[k] <= t[o]
                           /\ \A j \in 1..Size(ps[k]) : b[o][t[k - 1] + j] = Header(ps[k])[j]
    BY <1>6 DEF Laid, b, t
  <2>2. t[q] = t[o] + z /\ t[o] \in Nat /\ t[q] \in Nat /\ z \in Nat /\ z >= 6
    BY <1>2, <1>3, <2>0
  <2>3. b[o] \in Seq(Octet) /\ h \in Seq(Octet) /\ Len(h) = z /\ b[q] = b[o] \o h
    BY <1>2, <1>4, <2>0
  <2> HIDE DEF h, z, o
  <2>4. /\ Len(b[o] \o h) = t[q]
        /\ \A j \in 1..t[q] : (b[o] \o h)[j] = IF j <= t[o] THEN b[o][j] ELSE h[j - t[o]]
    <3>1. /\ Len(b[o] \o h) = Len(b[o]) + Len(h)
          /\ \A j \in 1..(Len(b[o]) + Len(h)) :
               (b[o] \o h)[j] = IF j <= Len(b[o]) THEN b[o][j] ELSE h[j - Len(b[o])]
      BY <2>3, ConcatProperties
    <3>2. Len(b[o]) + Len(h) = t[q]
      BY <2>1, <2>2, <2>3
    <3> QED
      BY <2>1, <3>1, <3>2
  <2>5. Len(b[q]) = t[q] /\ \A j \in 1..t[q] : b[q][j] = IF j <= t[o] THEN b[o][j] ELSE h[j - t[o]]
    BY <2>3, <2>4
  <2>6. q <= t[q]
    BY <2>0, <2>1, <2>2
  <2>7. ASSUME NEW k \in 1..q
        PROVE  /\ t[k] <= t[q]
               /\ \A j \in 1..Size(ps[k]) : b[q][t[k - 1] + j] = Header(ps[k])[j]
    <3>1. CASE k = q
      <4>1. ASSUME NEW j \in 1..z PROVE b[q][t[o] + j] = h[j]
        <5>1. t[o] + j \in 1..t[q] /\ ~(t[o] + j <= t[o]) /\ (t[o] + j) - t[o] = j
          BY <2>2, SMTT(30)
        <5> QED
          BY <2>5, <5>1
      <4> QED
        BY <2>2, <3>1, <4>1 DEF h, z, o
    <3>2. CASE k # q
      <4>1. k \in 1..o /\ k \in 1..n /\ k - 1 \in 0..n /\ k \in 0..n
        BY <1>1, <2>0, <3>2
      <4>2. /\ t[k] \in Nat /\ t[k - 1] \in Nat /\ t[k] = t[k - 1] + Size(ps[k])
            /\ Size(ps[k]) \in Nat /\ t[k] <= t[o]
        BY <1>2, <1>3, <2>1, <4>1
      <4>3. ASSUME NEW j \in 1..Size(ps[k]) PROVE b[q][t[k - 1] + j] = Header(ps[k])[j]
        <5>1. t[k - 1] + j \in 1..t[q] /\ t[k - 1] + j <= t[o]
          <6> DEFINE x == t[k - 1]
                     y == Size(ps[k])
          <6>1. x \in Nat /\ y \in Nat /\ j \in 1..y /\ x + y <= t[o] /\ t[o] \in Nat
                /\ t[o] <= t[q] /\ t[q] \in Nat
            BY <2>2, <4>2, SMTT(30)
          <6> HIDE DEF x, y
          <6>2. x + j \in 1..t[q] /\ x + j <= t[o]
            BY <6>1
          <6> QED
            BY <6>2 DEF x
        <5>2. b[q][t[k - 1] + j] = b[o][t[k - 1] + j]
          BY <2>5, <5>1
        <5> QED
          BY <2>1, <4>1, <5>2
      <4> QED
        BY <2>2, <4>2, <4>3, SMTT(30)
    <3> QED
      BY <3>1, <3>2
  <2>8. Laid(ps, q)
    BY <2>5, <2>6, <2>7 DEF Laid, b, t
  <2> QED
    BY <2>0, <2>8
<1>7. 0..n \subseteq T
  <2> HIDE DEF T
  <2> QED
    BY <1>1, <1>5, <1>6, UpTo
<1> QED
  BY <1>7

\* A part of a sequence that holds another sequence.
LEMMA PartIs ==
  ASSUME NEW S, NEW b \in Seq(S), NEW w \in Seq(S), NEW x \in Nat,
         x + Len(w) <= Len(b), \A j \in 1..Len(w) : b[x + j] = w[j]
  PROVE  SubSeq(b, x + 1, x + Len(w)) = w
<1> DEFINE n == Len(w)
           lo == x + 1
           hi == x + n
           c == SubSeq(b, lo, hi)
<1>1. n \in Nat /\ Len(b) \in Nat /\ hi <= Len(b) /\ lo \in Nat /\ hi \in Nat /\ lo >= 1
  OBVIOUS
<1>2. \A j \in lo..hi : b[j] \in S
  BY <1>1
<1>3. c \in Seq(S) /\ Len(c) = IF lo <= hi + 1 THEN hi - lo + 1 ELSE 0
  BY <1>1, <1>2, SubSeqProperties
<1>4. Len(c) = n
  BY <1>1, <1>3
<1>5. ASSUME NEW j \in 1..n PROVE c[j] = w[j]
  <2>1. c[j] = b[lo + j - 1]
    <3>1. j \in 1..(hi - lo + 1) /\ lo \in 1..(hi + 1)
      BY <1>1
    <3> QED
      BY <1>1, <3>1
  <2>2. lo + j - 1 = x + j
    BY <1>1
  <2> QED
    BY <2>1, <2>2
<1> HIDE DEF c
<1>6. c = w
  BY <1>3, <1>4, <1>5, SeqEqual
<1> QED
  BY <1>6 DEF c

\* The first k headers.
LEMMA PrefixMore ==
  ASSUME NEW S, NEW ps \in Seq(S), NEW k \in 1..Len(ps)
  PROVE  Append(SubSeq(ps, 1, k - 1), ps[k]) = SubSeq(ps, 1, k)
<1>1. Len(ps) \in Nat /\ k \in Nat
  OBVIOUS
<1> DEFINE a == SubSeq(ps, 1, k - 1)
           b == SubSeq(ps, 1, k)
<1>2. a \in Seq(S) /\ Len(a) = k - 1 /\ \A j \in 1..(k - 1) : a[j] = ps[j]
  BY <1>1
<1>3. b \in Seq(S) /\ Len(b) = k /\ \A j \in 1..k : b[j] = ps[j]
  BY <1>1
<1> HIDE DEF a, b
<1>4. ps[k] \in S
  OBVIOUS
<1>5. /\ Append(a, ps[k]) \in Seq(S) /\ Len(Append(a, ps[k])) = k
      /\ \A j \in 1..k : Append(a, ps[k])[j] = ps[j]
  BY <1>1, <1>2, <1>4
<1>6. Append(a, ps[k]) = b
  BY <1>3, <1>5, SeqEqual
<1> QED
  BY <1>6 DEF a, b

\* What is read after k of the pairs of a batch that pack_headers() accepts.
After(ps, k) == [at |-> PackedTotals(ps)[k] + 1, pairs |-> SubSeq(ps, 1, k), ok |-> TRUE]

LEMMA ReadOne ==
  ASSUME NEW ps \in Seq(HeaderType), PackFits(ps), NEW k \in 1..Len(ps)
  PROVE  ReadPair(Pack(ps), Len(Pack(ps)), After(ps, k - 1)) = After(ps, k)
<1> DEFINE m == Len(ps)
           t == PackedTotals(ps)
           buf == Pack(ps)
           len == Len(buf)
           h == ps[k]
           n == Len(h.name)
           v == Len(h.value)
           a == t[k - 1]
           b == Header(h)
           st == After(ps, k - 1)
<1>1. m \in Nat /\ k \in Nat /\ k - 1 \in 0..m /\ k \in 0..m /\ m \in 0..m /\ k \in 1..m
  OBVIOUS
<1>2. h \in HeaderType
  OBVIOUS
<1>3. /\ h.name \in Seq(Octet) /\ h.value \in Seq(Octet) /\ n \in Nat /\ v \in Nat
      /\ Size(h) = 6 + n + v /\ h = [name |-> h.name, value |-> h.value]
  BY <1>2, Sizes DEF Size
<1>4. n <= U16_MAX /\ v <= INT_MAX
  BY DEF PackFits
<1>5. a \in Nat /\ t[k] = a + (6 + n + v)
  <2>1. t \in [0..m -> Nat] /\ t[k] = t[k - 1] + Size(ps[k])
    BY Totals
  <2> HIDE DEF t
  <2> QED
    BY <1>1, <1>3, <2>1
<1>6. buf \in Seq(Octet) /\ len = t[m] /\ t[k] <= t[m]
      /\ \A j \in 1..Size(h) : buf[a + j] = b[j]
  <2>1. Laid(ps, m)
    BY <1>1, Layout
  <2>2. Packed(ps) \in [0..m -> Seq(Octet)]
    BY Buffers
  <2>3. buf \in Seq(Octet)
    BY <1>1, <2>2 DEF Pack
  <2> QED
    BY <1>1, <2>1, <2>3 DEF Laid, Pack
<1>7. /\ b[1] = Digit(n, Base) /\ b[2] = Digit(n, 1)
      /\ \A j \in 1..n : b[2 + j] = h.name[j]
      /\ b[n + 3] = Digit(v, U16 * Base) /\ b[n + 4] = Digit(v, U16)
      /\ b[n + 5] = Digit(v, Base) /\ b[n + 6] = Digit(v, 1)
      /\ \A j \in 1..v : b[n + 6 + j] = h.value[j]
  BY <1>2, HeaderBytes
<1>8. st.at = a + 1 /\ st.pairs = SubSeq(ps, 1, k - 1) /\ st.ok = TRUE
      /\ st = [at |-> a + 1, pairs |-> SubSeq(ps, 1, k - 1), ok |-> TRUE]
  BY DEF After
<1> HIDE DEF m, t, buf, len, h, n, v, a, b, st
<1>N. n \in Nat /\ v \in Nat
  BY <1>3
<1>A. a \in Nat
  BY <1>5
<1>9. /\ buf[a + 1] = b[1] /\ buf[a + 2] = b[2] /\ buf[a + (n + 3)] = b[n + 3]
      /\ buf[a + (n + 4)] = b[n + 4] /\ buf[a + (n + 5)] = b[n + 5] /\ buf[a + (n + 6)] = b[n + 6]
  <2>1. /\ 1 \in 1..Size(h) /\ 2 \in 1..Size(h) /\ n + 3 \in 1..Size(h) /\ n + 4 \in 1..Size(h)
        /\ n + 5 \in 1..Size(h) /\ n + 6 \in 1..Size(h)
    BY <1>3, SMTT(30)
  <2> QED
    BY <1>6, <2>1
<1> DEFINE nlen == buf[st.at] * Base + buf[st.at + 1]
           at == st.at + 2 + nlen
           vlen == ((buf[at] * Base + buf[at + 1]) * Base + buf[at + 2]) * Base + buf[at + 3]
           end == at + 4 + vlen
<1>10. nlen = n
  <2>1. st.at + 1 = a + 2
    BY <1>5, <1>8
  <2>2. nlen = Digit(n, Base) * Base + Digit(n, 1)
    BY <1>7, <1>8, <1>9, <2>1
  <2> QED
    BY <1>3, <1>4, <2>2, TwoDigits
<1>11. at = a + (n + 3)
  <2> HIDE DEF nlen
  <2> QED
    BY <1>3, <1>5, <1>8, <1>10, SMTT(30)
<1> HIDE DEF nlen, at
<1>12. vlen = v
  <2>1. at + 1 = a + (n + 4) /\ at + 2 = a + (n + 5) /\ at + 3 = a + (n + 6)
    BY <1>N, <1>A, <1>11
  <2>2. vlen = ((Digit(v, U16 * Base) * Base + Digit(v, U16)) * Base + Digit(v, Base)) * Base
                 + Digit(v, 1)
    BY <1>7, <1>9, <1>11, <2>1
  <2> QED
    BY <1>3, <1>4, <2>2, FourDigits
<1> HIDE DEF vlen
<1>13. end = t[k] + 1 /\ end - 1 = a + (n + 6) + v
  <2>1. end = at + 4 + v
    BY <1>12
  <2> HIDE DEF end
  <2>2. t[k] = a + (6 + n + v)
    BY <1>5
  <2> QED
    BY <1>N, <1>A, <1>11, <2>1, <2>2
<1> HIDE DEF end
<1>14. t[m] \in Nat /\ t[k] \in Nat
  <2>1. t \in [0..m -> Nat]
    BY Totals DEF t, m
  <2> QED
    BY <1>1, <2>1
<1>15. ~(st.at + 1 > len \/ at + 3 > len \/ end - 1 > len)
  <2>1. len = t[m] /\ t[k] <= t[m] /\ t[k] = a + (6 + n + v) /\ st.at = a + 1
    BY <1>5, <1>6, <1>8
  <2> QED
    BY <1>N, <1>A, <1>11, <1>13, <1>14, <2>1
<1>16. SubSeq(buf, st.at + 2, at - 1) = h.name
  <2> DEFINE x == a + 2
  <2>1. x \in Nat /\ x + Len(h.name) <= Len(buf) /\ st.at + 2 = x + 1 /\ at - 1 = x + Len(h.name)
    <3>1. len = t[m] /\ t[k] <= t[m] /\ t[k] = a + (6 + n + v) /\ st.at = a + 1
      BY <1>5, <1>6, <1>8
    <3>2. x \in Nat /\ x + n <= len /\ st.at + 2 = x + 1 /\ at - 1 = x + n
      BY <1>N, <1>A, <1>11, <1>14, <3>1
    <3> QED
      BY <3>2 DEF n, len
  <2>2. ASSUME NEW j \in 1..Len(h.name) PROVE buf[x + j] = h.name[j]
    <3>1. 2 + j \in 1..Size(h) /\ x + j = a + (2 + j) /\ j \in 1..n
      BY <1>3, <1>5 DEF n
    <3> QED
      BY <1>6, <1>7, <3>1
  <2> HIDE DEF x
  <2>3. SubSeq(buf, x + 1, x + Len(h.name)) = h.name
    BY <1>3, <1>6, <2>1, <2>2, PartIs
  <2> QED
    BY <2>1, <2>3
<1>17. SubSeq(buf, at + 4, end - 1) = h.value
  <2> DEFINE x == a + (n + 6)
  <2>1. x \in Nat /\ x + Len(h.value) <= Len(buf) /\ at + 4 = x + 1 /\ end - 1 = x + Len(h.value)
    <3>1. len = t[m] /\ t[k] <= t[m] /\ t[k] = a + (6 + n + v) /\ st.at = a + 1
      BY <1>5, <1>6, <1>8
    <3>2. x \in Nat /\ x + v <= len /\ at + 4 = x + 1 /\ end - 1 = x + v
      BY <1>N, <1>A, <1>11, <1>13, <1>14, <3>1
    <3> QED
      BY <3>2 DEF v, len
  <2>2. ASSUME NEW j \in 1..Len(h.value) PROVE buf[x + j] = h.value[j]
    <3>1. n + 6 + j \in 1..Size(h) /\ x + j = a + (n + 6 + j) /\ j \in 1..v
      BY <1>3, <1>5 DEF v
    <3> QED
      BY <1>6, <1>7, <3>1
  <2> HIDE DEF x
  <2>3. SubSeq(buf, x + 1, x + Len(h.value)) = h.value
    BY <1>3, <1>6, <2>1, <2>2, PartIs
  <2> QED
    BY <2>1, <2>3
<1>18. ReadPair(buf, len, st) =
         [st EXCEPT !.at = end,
                    !.pairs = Append(st.pairs, [name |-> SubSeq(buf, st.at + 2, at - 1),
                                                value |-> SubSeq(buf, at + 4, end - 1)])]
  BY <1>15, <1>8 DEF ReadPair, end, vlen, at, nlen
<1>19. Append(st.pairs, h) = SubSeq(ps, 1, k)
  <2>1. Append(SubSeq(ps, 1, k - 1), ps[k]) = SubSeq(ps, 1, k)
    <3>1. ps \in Seq(HeaderType) /\ k \in 1..Len(ps)
      OBVIOUS
    <3> QED
      BY <3>1, PrefixMore
  <2> QED
    BY <1>8, <2>1 DEF h
<1>20. ReadPair(buf, len, st) = [st EXCEPT !.at = t[k] + 1, !.pairs = SubSeq(ps, 1, k)]
  BY <1>3, <1>13, <1>16, <1>17, <1>18, <1>19
<1>21. ReadPair(buf, len, st) = [at |-> t[k] + 1, pairs |-> SubSeq(ps, 1, k), ok |-> TRUE]
  BY <1>8, <1>20, ZenonT(40)
<1> QED
  BY <1>21 DEF After, buf, len, st, t

\* A batch that fits is read back as it was.
LEMMA RoundTrip ==
  ASSUME NEW ps \in Seq(HeaderType), PackFits(ps)
  PROVE  LET buf == Pack(ps)
         IN  /\ Narrow(Len(buf)) = Len(buf) /\ Narrow(Len(ps)) = Len(ps)
             /\ Framed(buf, Len(buf), Len(ps))
             /\ Unpack(buf, Len(buf), Len(ps)).pairs = ps
<1> DEFINE n == Len(ps)
           t == PackedTotals(ps)
           buf == Pack(ps)
           len == Len(buf)
           first == [at |-> 1, pairs |-> <<>>, ok |-> TRUE]
<1>1. n \in Nat /\ 0 \in 0..n /\ n \in 0..n
  OBVIOUS
<1>2. t \in [0..n -> Nat] /\ t[0] = 0
  BY Totals
<1>3. len = t[n] /\ n <= t[n] /\ t[n] \in Nat /\ t[n] <= INT_MAX
  <2>1. Laid(ps, n)
    BY <1>1, Layout
  <2>2. len = t[n] /\ n <= t[n]
    BY <2>1 DEF Laid, Pack
  <2>3. t[n] <= INT_MAX
    BY DEF PackFits, PackedLen
  <2> HIDE DEF t, len
  <2> QED
    BY <1>1, <1>2, <2>2, <2>3
<1>4. Narrow(len) = len /\ Narrow(n) = n
  <2>1. n <= INT_MAX /\ len \in Nat /\ len <= INT_MAX
    BY <1>1, <1>3, Widths
  <2> HIDE DEF n, len
  <2> QED
    BY <1>1, <2>1, NarrowIs
<1>5. After(ps, 0) = first
  <2>1. SubSeq(ps, 1, 0) = <<>>
    OBVIOUS
  <2>2. After(ps, 0) = [at |-> t[0] + 1, pairs |-> SubSeq(ps, 1, 0), ok |-> TRUE]
    BY DEF After
  <2> HIDE DEF t
  <2>3. t[0] + 1 = 1
    BY <1>2
  <2> QED
    BY <2>1, <2>2, <2>3
<1>6. \A k \in 0..n : After(ps, k).ok = TRUE
  BY DEF After
<1>7. \A k \in 1..n : ReadPair(buf, len, After(ps, k - 1)) = After(ps, k)
  BY ReadOne
<1> HIDE DEF n, t, buf, len, first
<1> DEFINE Is(r) == r = [k \in 0..n |-> IF k = 0 THEN first
                                        ELSE IF r[k - 1].ok THEN ReadPair(buf, len, r[k - 1])
                                        ELSE r[k - 1]]
           f == [k \in 0..n |-> After(ps, k)]
<1>8. Is(f)
  <2> DEFINE e == [k \in 0..n |-> IF k = 0 THEN first
                                  ELSE IF f[k - 1].ok THEN ReadPair(buf, len, f[k - 1])
                                  ELSE f[k - 1]]
  <2>1. ASSUME NEW k \in 0..n PROVE After(ps, k) = e[k]
    <3>1. CASE k = 0
      BY <1>5, <3>1
    <3>2. CASE k # 0
      <4>1. k \in 1..n /\ k - 1 \in 0..n
        BY <1>1, <3>2
      <4>2. f[k - 1] = After(ps, k - 1) /\ f[k - 1].ok
        BY <1>6, <4>1
      <4>3. e[k] = ReadPair(buf, len, f[k - 1])
        <5> HIDE DEF f
        <5> QED
          BY <3>2, <4>2
      <4> QED
        BY <1>7, <4>1, <4>2, <4>3
    <3> QED
      BY <3>1, <3>2
  <2>2. f = e
    BY <2>1
  <2> QED
    BY <2>2
<1> DEFINE r == CHOOSE x : Is(x)
<1>9. Unpack(buf, len, n) = r[n]
  BY SMTT(30) DEF Unpack, first
<1>10. r = [k \in 0..n |-> IF k = 0 THEN first
                           ELSE IF r[k - 1].ok THEN ReadPair(buf, len, r[k - 1]) ELSE r[k - 1]]
  <2> HIDE DEF f
  <2> QED
    BY <1>8, Zenon
<1> HIDE DEF r, f, Is
<1>11. n \in {k \in 0..n : r[k] = After(ps, k)}
  <2> DEFINE T == {k \in 0..n : r[k] = After(ps, k)}
  <2>1. 0 \in T
    BY <1>1, <1>5, <1>10
  <2>2. ASSUME NEW k \in 1..n, k - 1 \in T PROVE k \in T
    <3>1. k \in 0..n /\ k - 1 \in 0..n /\ k # 0 /\ r[k - 1] = After(ps, k - 1)
      BY <1>1, <2>2
    <3>2. r[k - 1].ok
      BY <1>6, <3>1
    <3>3. r[k] = ReadPair(buf, len, r[k - 1])
      BY <1>10, <3>1, <3>2
    <3> QED
      BY <1>7, <3>1, <3>3
  <2> HIDE DEF T
  <2>3. 0..n \subseteq T
    BY <1>1, <2>1, <2>2, UpTo
  <2>4. n \in T
    BY <1>1, <2>3
  <2> QED
    BY <2>4 DEF T
<1>12. Unpack(buf, len, n) = [at |-> len + 1, pairs |-> ps, ok |-> TRUE]
  <2>1. Unpack(buf, len, n) = After(ps, n)
    BY <1>9, <1>11
  <2>2. SubSeq(ps, 1, n) = ps
    BY DEF n
  <2> QED
    BY <1>3, <2>1, <2>2 DEF After, t
<1>13. Framed(buf, len, n) /\ Unpack(buf, len, n).pairs = ps
  BY <1>12 DEF Framed
<1> QED
  BY <1>4, <1>13 DEF buf, len, n

-----------------------------------------------------------------------------
(* The rewrite handler *)

LEMMA PairType ==
  ASSUME headers \in Seq(Entry), NEW k \in 1..Len(headers)
  PROVE  /\ Pair(k) \in HeaderType /\ headers[k].nlen \in Nat /\ headers[k].vlen \in Nat
         /\ Len(Pair(k).name) = headers[k].nlen /\ Len(Pair(k).value) = headers[k].vlen
         /\ headers[k].live \in BOOLEAN
<1> DEFINE x == headers[k].nlen
           y == headers[k].vlen
           o == k % Base
<1>1. headers[k] \in Entry
  OBVIOUS
<1>2. x \in Nat /\ y \in Nat /\ headers[k].live \in BOOLEAN
  BY <1>1, LengthAssumption DEF Entry
<1>3. o \in Octet
  <2>1. k \in Nat
    OBVIOUS
  <2> QED
    BY <2>1, Widths, Division DEF Octet
<1>4. Pair(k) = [name |-> [b \in 1..x |-> o], value |-> [b \in 1..y |-> o]]
  BY DEF Pair
<1> HIDE DEF x, y, o
<1>5. /\ [b \in 1..x |-> o] \in Seq(Octet) /\ Len([b \in 1..x |-> o]) = x
      /\ [b \in 1..y |-> o] \in Seq(Octet) /\ Len([b \in 1..y |-> o]) = y
  BY <1>2, <1>3
<1>6. Pair(k) \in HeaderType
  BY <1>4, <1>5 DEF HeaderType
<1>7. Len(Pair(k).name) = x /\ Len(Pair(k).value) = y
  <2>1. Pair(k).name = [b \in 1..x |-> o] /\ Pair(k).value = [b \in 1..y |-> o]
    BY <1>4
  <2> QED
    BY <1>5, <2>1
<1> QED
  BY <1>2, <1>6, <1>7 DEF x, y

\* What the engine reads of a string that an int can measure.
LEMMA ReceivedIs ==
  ASSUME NEW w \in Seq(Octet), Len(w) <= INT_MAX
  PROVE  Received(w) = w
<1>1. Narrow(Len(w)) = Len(w)
  <2>1. Len(w) \in Nat
    OBVIOUS
  <2> QED
    BY <2>1, NarrowIs
<1>2. SubSeq(w, 1, Len(w)) = w
  OBVIOUS
<1> QED
  BY <1>1, <1>2 DEF Received

\* A list as the loop fills it.
LEMMA FillingIs ==
  ASSUME headers \in Seq(Entry), NEW S
  PROVE  /\ Filling(S) \in [0..Len(headers) -> Seq(HeaderType)] /\ Filling(S)[0] = <<>>
         /\ \A k \in 1..Len(headers) :
              Filling(S)[k] = IF k \in S THEN Append(Filling(S)[k - 1], Pair(k)) ELSE Filling(S)[k - 1]
<1> DEFINE n == Len(headers)
           F == Filling(S)
           V == Seq(HeaderType)
           Step(x, k) == IF k \in S THEN Append(x, Pair(k)) ELSE x
           g == [x \in V \X (1..n) |-> Step(x[1], x[2])]
<1>1. n \in Nat /\ \A k \in 1..n : Pair(k) \in HeaderType
  BY PairType
<1> HIDE DEF n
<1>2. ASSUME NEW x \in V, NEW k \in 1..n PROVE Step(x, k) \in V
  BY <1>1
<1>3. g \in [V \X (1..n) -> V]
  <2> HIDE DEF V, Step
  <2> QED
    BY <1>2
<1>4. \A x \in V, k \in 1..n : g[<<x, k>>] = Step(x, k)
  <2> HIDE DEF V, Step
  <2> QED
    OBVIOUS
<1> HIDE DEF g
<1>5. <<>> \in V
  OBVIOUS
<1> HIDE DEF V
<1>6. PICK f : Iterates(f, V, n, <<>>, g)
  BY <1>1, <1>3, <1>5, Recursion
<1>7. f \in [0..n -> V] /\ f[0] = <<>> /\ \A k \in 1..n : f[k] = Step(f[k - 1], k)
  <2> HIDE DEF Step
  <2>1. f \in [0..n -> V] /\ f[0] = <<>> /\ \A k \in 1..n : f[k] = g[<<f[k - 1], k>>]
    BY <1>6 DEF Iterates
  <2>2. ASSUME NEW k \in 1..n PROVE f[k] = Step(f[k - 1], k)
    <3>1. k - 1 \in 0..n
      BY <1>1
    <3>2. f[k - 1] \in V
      BY <2>1, <3>1
    <3> QED
      BY <1>4, <2>1, <3>2
  <2> QED
    BY <2>1, <2>2
<1> DEFINE Is(t) == t = [k \in 0..n |->
                           IF k = 0 THEN <<>>
                           ELSE IF k \in S THEN Append(t[k - 1], Pair(k)) ELSE t[k - 1]]
<1>8. Is(f)
  <2> DEFINE e == [k \in 0..n |->
                     IF k = 0 THEN <<>>
                     ELSE IF k \in S THEN Append(f[k - 1], Pair(k)) ELSE f[k - 1]]
  <2>1. ASSUME NEW k \in 0..n PROVE f[k] = e[k]
    <3>1. CASE k = 0
      BY <1>7, <3>1
    <3>2. CASE k # 0
      <4>1. k \in 1..n
        BY <1>1, <3>2
      <4> QED
        BY <1>7, <3>2, <4>1
    <3> QED
      BY <3>1, <3>2
  <2>2. f = [k \in 0..n |-> f[k]]
    BY <1>7
  <2>3. f = e
    BY <2>1, <2>2, Zenon
  <2> QED
    BY <2>3
<1>9. F = CHOOSE t : Is(t)
  BY DEF Filling, n
<1> HIDE DEF F
<1>10. Is(F)
  BY <1>8, <1>9, Zenon
<1>11. F = [k \in 0..n |->
                   IF k = 0 THEN <<>>
                   ELSE IF k \in S THEN Append(F[k - 1], Pair(k)) ELSE F[k - 1]]
  BY <1>10
<1> HIDE DEF Is
<1>12. F[0] = <<>> /\ \A k \in 1..n : F[k] = Step(F[k - 1], k)
  <2>1. 0 \in 0..n /\ \A k \in 1..n : k \in 0..n /\ k # 0
    BY <1>1
  <2>2. F[0] = <<>>
    BY <1>11, <2>1
  <2>3. ASSUME NEW k \in 1..n PROVE F[k] = Step(F[k - 1], k)
    <3>1. k \in 0..n /\ k # 0
      BY <2>1
    <3> QED
      BY <1>11, <3>1
  <2> QED
    BY <2>2, <2>3
<1>13. \A k \in 0..n : F[k] \in V
  <2> DEFINE T == {k \in 0..n : F[k] \in V}
  <2>1. 0 \in T
    <3>1. 0 \in 0..n
      BY <1>1
    <3> QED
      BY <1>5, <1>12, <3>1
  <2>2. ASSUME NEW k \in 1..n, k - 1 \in T PROVE k \in T
    <3>1. F[k - 1] \in V
      BY <2>2
    <3> HIDE DEF Step
    <3>2. Step(F[k - 1], k) \in V
      BY <1>2, <3>1
    <3>3. F[k] \in V
      BY <1>12, <3>2
    <3>4. k \in 0..n
      BY <1>1
    <3> QED
      BY <3>3, <3>4
  <2>3. 0..n \subseteq T
    <3> HIDE DEF T
    <3> QED
      BY <1>1, <2>1, <2>2, UpTo
  <2> QED
    BY <2>3
<1>14. F \in [0..n -> V]
  BY <1>11, <1>13
<1> QED
  BY <1>12, <1>14 DEF n, V, F

\* And pairs[] in particular.
LEMMA Filled ==
  ASSUME headers \in Seq(Entry)
  PROVE  /\ filled \in [0..Len(headers) -> Seq(HeaderType)] /\ filled[0] = <<>>
         /\ \A k \in 1..Len(headers) :
              filled[k] = IF headers[k].live THEN Append(filled[k - 1], Pair(k)) ELSE filled[k - 1]
<1>1. \A k \in 1..Len(headers) : k \in Live <=> headers[k].live
  BY DEF Live
<1> QED
  BY <1>1, FillingIs DEF filled

\* How far the loop is depends only on the elements it has passed.
LEMMA FillingPrefix ==
  ASSUME headers \in Seq(Entry), NEW S, NEW R, NEW m \in 0..Len(headers),
         \A k \in 1..m : k \in S <=> k \in R
  PROVE  Filling(S)[m] = Filling(R)[m]
<1> DEFINE F == Filling(S)
           G == Filling(R)
           T == {k \in 0..m : F[k] = G[k]}
<1>1. Len(headers) \in Nat /\ m \in Nat /\ m \in 0..m /\ 0 \in 0..m
  OBVIOUS
<1>2. F[0] = <<>> /\ \A k \in 1..Len(headers) :
                       F[k] = IF k \in S THEN Append(F[k - 1], Pair(k)) ELSE F[k - 1]
  BY FillingIs
<1>3. G[0] = <<>> /\ \A k \in 1..Len(headers) :
                       G[k] = IF k \in R THEN Append(G[k - 1], Pair(k)) ELSE G[k - 1]
  BY FillingIs
<1> HIDE DEF F, G
<1>4. 0 \in T
  BY <1>1, <1>2, <1>3
<1>5. ASSUME NEW k \in 1..m, k - 1 \in T PROVE k \in T
  <2>1. k \in 1..Len(headers) /\ k \in 0..m
    BY <1>1
  <2>2. F[k - 1] = G[k - 1]
    BY <1>5
  <2>3. F[k] = G[k]
    BY <1>2, <1>3, <2>1, <2>2
  <2> QED
    BY <2>1, <2>3
<1>6. 0..m \subseteq T
  <2> HIDE DEF T
  <2> QED
    BY <1>1, <1>4, <1>5, UpTo
<1>7. F[m] = G[m]
  BY <1>1, <1>6
<1> QED
  BY <1>7 DEF F, G

LEMMA PairsType ==
  ASSUME headers \in Seq(Entry)
  PROVE  pairs \in Seq(HeaderType)
<1>1. filled \in [0..Len(headers) -> Seq(HeaderType)] /\ Len(headers) \in 0..Len(headers)
  BY Filled
<1> QED
  BY <1>1 DEF pairs

\* No element that nginx has not deleted is left out of pairs[].
LEMMA LiveIsFilled ==
  ASSUME headers \in Seq(Entry), NEW k \in 1..Len(headers), headers[k].live
  PROVE  Pair(k) \in Range(pairs)
<1> DEFINE n == Len(headers)
           Holds(q) == \E j \in 1..Len(q) : q[j] = Pair(k)
           T == {m \in 0..n : k <= m => Holds(filled[m])}
<1>1. n \in Nat /\ k \in 1..n /\ Pair(k) \in HeaderType
  BY PairType
<1>2. /\ filled \in [0..n -> Seq(HeaderType)]
      /\ \A m \in 1..n :
           filled[m] = IF headers[m].live THEN Append(filled[m - 1], Pair(m)) ELSE filled[m - 1]
  BY Filled
<1> HIDE DEF n
<1>3. 0 \in T
  BY <1>1
<1>4. ASSUME NEW m \in 1..n, m - 1 \in T PROVE m \in T
  <2>1. m \in 0..n /\ m - 1 \in 0..n /\ m \in Nat /\ k \in Nat
    BY <1>1
  <2>2. filled[m - 1] \in Seq(HeaderType)
    BY <1>2, <2>1
  <2>3. CASE k = m
    <3>1. filled[m] = Append(filled[m - 1], Pair(k))
      BY <1>2, <2>3
    <3> DEFINE q == filled[m - 1]
               a == Append(q, Pair(k))
    <3> HIDE DEF q
    <3>2. Len(a) = Len(q) + 1 /\ Len(q) \in Nat /\ a[Len(q) + 1] = Pair(k)
      BY <1>1, <2>2 DEF q
    <3> HIDE DEF a
    <3>3. Holds(a)
      BY <3>2
    <3> QED
      BY <2>1, <3>1, <3>3 DEF a, q
  <2>4. CASE k < m
    <3>1. PICK j \in 1..Len(filled[m - 1]) : filled[m - 1][j] = Pair(k)
      BY <1>4, <2>1, <2>4
    <3> DEFINE q == filled[m - 1]
               a == Append(q, Pair(m))
    <3>2. q \in Seq(HeaderType) /\ j \in 1..Len(q) /\ q[j] = Pair(k)
      BY <2>2, <3>1
    <3>3. filled[m] = a \/ filled[m] = q
      BY <1>2
    <3> HIDE DEF q
    <3>4. j \in 1..Len(a) /\ a[j] = q[j]
      BY <3>2
    <3> HIDE DEF a
    <3>5. Holds(q) /\ Holds(a)
      BY <3>2, <3>4
    <3>6. Holds(filled[m])
      BY <3>3, <3>5
    <3> QED
      BY <2>1, <3>6
  <2>5. CASE k > m
    BY <2>1, <2>5
  <2> QED
    BY <2>1, <2>3, <2>4, <2>5
<1>5. 0..n \subseteq T
  <2> HIDE DEF T
  <2> QED
    BY <1>1, <1>3, <1>4, UpTo
<1>6. Holds(filled[n])
  BY <1>1, <1>5
<1>7. pairs = filled[n] /\ pairs \in Seq(HeaderType)
  BY PairsType DEF pairs, n
<1>8. PICK j \in 1..Len(pairs) : pairs[j] = Pair(k)
  BY <1>6, <1>7
<1>9. j \in DOMAIN pairs
  BY <1>7
<1> QED
  BY <1>8, <1>9 DEF Range

-----------------------------------------------------------------------------
\* What the engine took, after each element of the list.
Shown == Filling(Live \ lost)

\* The invariant: in the loop, the engine has what pairs[] held after the same
\* elements, without those it refused.
HInv ==
  /\ headers \in Seq(Entry)
  /\ pc = "bulk" => i = 1 /\ engine = <<>> /\ lost = {}
  /\ pc = "each" => /\ i \in 1..(Len(headers) + 1) /\ lost \subseteq 1..(i - 1)
                    /\ engine = Shown[i - 1]
  /\ HeadersShown /\ BlockedTooLong

LEMMA InitHeaders ==
  Init => HInv
<1> SUFFICES ASSUME Init PROVE HInv
  OBVIOUS
<1>1. /\ headers \in SeqOf(Entry, MaxHeaders) /\ pc = "bulk" /\ i = 1 /\ engine = <<>>
      /\ lost = {}
  BY DEF Init
<1>2. headers \in Seq(Entry)
  <2>1. PICK m \in 0..MaxHeaders : headers \in [1..m -> Entry]
    BY <1>1 DEF SeqOf
  <2>2. m \in Nat
    BY <2>1, LengthAssumption
  <2> QED
    BY <2>1, <2>2
<1> QED
  BY <1>1, <1>2 DEF HInv, HeadersShown, BlockedTooLong

LEMMA SamePairs ==
  ASSUME headers' = headers
  PROVE  /\ filled' = filled /\ pairs' = pairs /\ \A k : Pair(k)' = Pair(k)
         /\ lost' = lost => Shown' = Shown
<1>1. filled' = filled
  BY DEF filled, Filling, Live, Pair
<1>2. pairs' = pairs
  BY <1>1 DEF pairs
<1>3. lost' = lost => Shown' = Shown
  BY DEF Shown, Filling, Live, Pair
<1> QED
  BY <1>1, <1>2, <1>3 DEF Pair

\* One round of the loop over the elements, for what the engine has.
LEMMA ShownStep ==
  ASSUME headers \in Seq(Entry), NEW k \in 1..Len(headers)
  PROVE  Shown[k] = IF headers[k].live /\ k \notin lost
                      THEN Append(Shown[k - 1], Pair(k)) ELSE Shown[k - 1]
<1>1. k \in Live \ lost <=> headers[k].live /\ k \notin lost
  BY DEF Live
<1> QED
  BY <1>1, FillingIs DEF Shown

\* An element refused now does not change what was shown before.
LEMMA RefusedLater ==
  ASSUME headers \in Seq(Entry), headers' = headers, NEW m \in 0..Len(headers),
         lost' = lost \cup {m + 1}
  PROVE  Shown'[m] = Shown[m]
<1> DEFINE S == Live \ lost
           R == Live \ (lost \cup {m + 1})
<1>1. \A k \in 1..m : k \in S <=> k \in R
  BY DEF Live
<1> HIDE DEF S, R
<1>2. Filling(S)[m] = Filling(R)[m]
  BY <1>1, FillingPrefix
<1>3. Shown' = Filling(R)
  BY DEF Shown, Filling, Live, Pair, R
<1> QED
  BY <1>2, <1>3 DEF Shown, S

LEMMA EachStep ==
  ASSUME HInv, Each
  PROVE  HInv'
<1>1. /\ headers \in Seq(Entry) /\ headers' = headers /\ pc = "each" /\ i' = i + 1
      /\ i \in 1..Len(headers) /\ Len(headers) \in Nat
      /\ lost \subseteq 1..(i - 1) /\ engine = Shown[i - 1]
  <2>1. pc = "each" /\ i <= Len(headers) /\ i' = i + 1 /\ headers' = headers
    BY DEF Each
  <2>2. /\ headers \in Seq(Entry) /\ i \in 1..(Len(headers) + 1)
        /\ lost \subseteq 1..(i - 1) /\ engine = Shown[i - 1]
    BY <2>1 DEF HInv
  <2>3. Len(headers) \in Nat
    BY <2>2
  <2>4. i \in 1..Len(headers)
    BY <2>1, <2>2, <2>3
  <2> QED
    BY <2>1, <2>2, <2>3, <2>4
<1>2. pairs' = pairs /\ (lost' = lost => Shown' = Shown)
  BY <1>1, SamePairs
<1>3. /\ i \notin lost
      /\ Shown[i] = IF headers[i].live THEN Append(Shown[i - 1], Pair(i)) ELSE Shown[i - 1]
  <2>1. i \notin lost
    BY <1>1
  <2> QED
    BY <1>1, <2>1, ShownStep
<1>4. i' \in 1..(Len(headers') + 1) /\ i' - 1 = i
  <2>1. i + 1 \in 1..(Len(headers) + 1) /\ (i + 1) - 1 = i
    BY <1>1
  <2> QED
    BY <1>1, <2>1
<1>5. ASSUME pc' = pc, lost' \subseteq 1..i, engine' = Shown'[i] PROVE HInv'
  <2>1. pc' = "each" /\ headers' \in Seq(Entry)
    BY <1>1, <1>5
  <2>2. engine' = Shown'[i' - 1] /\ lost' \subseteq 1..(i' - 1)
    BY <1>4, <1>5
  <2> QED
    BY <1>4, <2>1, <2>2 DEF HInv, HeadersShown, BlockedTooLong
<1>6. ASSUME pc' = pc, lost' = lost, engine' = Shown[i] PROVE HInv'
  <2>1. lost' \subseteq 1..i
    BY <1>1, <1>6
  <2>2. engine' = Shown'[i]
    BY <1>2, <1>6
  <2> QED
    BY <1>5, <1>6, <2>1, <2>2
<1>7. CASE Skip(i) /\ UNCHANGED <<pc, engine, lost>>
  <2>1. Shown[i] = Shown[i - 1]
    BY <1>3, <1>7 DEF Skip
  <2> QED
    BY <1>1, <1>6, <1>7, <2>1
<1>8. CASE ~Skip(i) /\ TooLong(i) /\ pc' = "error" /\ UNCHANGED <<engine, lost>>
  <2>1. Pair(i) \in Range(pairs)
    BY <1>1, <1>8, LiveIsFilled DEF Skip
  <2>2. Len(Pair(i).name) > INT_MAX \/ Len(Pair(i).value) > INT_MAX
    BY <1>1, <1>8, PairType DEF TooLong
  <2>3. BlockedTooLong'
    BY <1>2, <2>1, <2>2 DEF BlockedTooLong
  <2> QED
    BY <1>1, <1>8, <2>3 DEF HInv, HeadersShown
<1>9. CASE /\ ~Skip(i) /\ ~TooLong(i)
           /\ engine' = Append(engine, [name |-> Received(Pair(i).name),
                                        value |-> Received(Pair(i).value)])
           /\ UNCHANGED <<pc, lost>>
  <2>1. /\ Pair(i) \in HeaderType /\ headers[i].nlen \in Nat /\ headers[i].vlen \in Nat
        /\ Len(Pair(i).name) = headers[i].nlen /\ Len(Pair(i).value) = headers[i].vlen
    BY <1>1, PairType
  <2>2. Pair(i).name \in Seq(Octet) /\ Pair(i).value \in Seq(Octet)
        /\ Pair(i) = [name |-> Pair(i).name, value |-> Pair(i).value]
    BY <2>1, Sizes
  <2>3. Len(Pair(i).name) <= INT_MAX /\ Len(Pair(i).value) <= INT_MAX
    BY <1>9, <2>1, Widths DEF TooLong
  <2>4. Received(Pair(i).name) = Pair(i).name /\ Received(Pair(i).value) = Pair(i).value
    BY <2>2, <2>3, ReceivedIs
  <2>5. engine' = Append(engine, Pair(i))
    BY <1>9, <2>2, <2>4
  <2>6. Shown[i] = Append(Shown[i - 1], Pair(i))
    BY <1>3, <1>9 DEF Skip
  <2> QED
    BY <1>1, <1>6, <1>9, <2>5, <2>6
<1>10. CASE ~Skip(i) /\ ~TooLong(i) /\ lost' = lost \cup {i} /\ UNCHANGED <<pc, engine>>
  <2> DEFINE m == i - 1
  <2>1. m \in 0..Len(headers) /\ m + 1 = i
    BY <1>1
  <2>2. Shown'[m] = Shown[m]
    <3> HIDE DEF m
    <3>1. lost' = lost \cup {m + 1}
      BY <1>10, <2>1
    <3> QED
      BY <1>1, <2>1, <3>1, RefusedLater
  <2>3. Shown'[i] = Shown'[m]
    <3> DEFINE R == Live \ (lost \cup {i})
    <3>1. Shown' = Filling(R)
      BY <1>1, <1>10 DEF Shown, Filling, Live, Pair
    <3>2. i \notin R
      OBVIOUS
    <3> HIDE DEF R
    <3>3. Filling(R)[i] = Filling(R)[i - 1]
      BY <1>1, <3>2, FillingIs
    <3> QED
      BY <3>1, <3>3
  <2>4. lost' \subseteq 1..i
    BY <1>1, <1>10
  <2>5. engine' = Shown'[i]
    BY <1>1, <1>10, <2>2, <2>3
  <2> QED
    BY <1>5, <1>10, <2>4, <2>5
<1> QED
  BY <1>7, <1>8, <1>9, <1>10 DEF Each

LEMMA NextHeaders ==
  HInv /\ [Next]_vars => HInv'
<1> SUFFICES ASSUME HInv, [Next]_vars PROVE HInv'
  OBVIOUS
<1>1. headers \in Seq(Entry) /\ pairs \in Seq(HeaderType) /\ Shown[0] = <<>>
  BY PairsType, FillingIs DEF HInv, Shown
<1>2. ASSUME pc = "bulk", pc' = "each", UNCHANGED <<headers, i, engine, lost>> PROVE HInv'
  <2>1. Shown' = Shown
    BY <1>2, SamePairs
  <2>2. i = 1 /\ engine = <<>> /\ lost = {}
    BY <1>2 DEF HInv
  <2>3. i' \in 1..(Len(headers') + 1) /\ i' - 1 = 0 /\ lost' \subseteq 1..(i' - 1)
    BY <1>1, <1>2, <2>2
  <2> QED
    BY <1>1, <1>2, <2>1, <2>2, <2>3 DEF HInv, HeadersShown, BlockedTooLong
<1>3. ASSUME pc' = "phase1", UNCHANGED <<headers, lost>>, engine' = Shown[Len(headers)]
      PROVE  HInv'
  <2>1. Shown' = Shown
    BY <1>3, SamePairs
  <2>2. HeadersShown'
    BY <1>3, <2>1 DEF HeadersShown, Shown
  <2> QED
    BY <1>1, <1>3, <2>2 DEF HInv, BlockedTooLong
<1>4. lost = {} => pairs = Shown[Len(headers)]
  <2>1. lost = {} => Live \ lost = Live
    OBVIOUS
  <2> QED
    BY <2>1 DEF pairs, filled, Shown
<1>5. CASE NoHeaders
  BY <1>3, <1>4, <1>5 DEF NoHeaders, HInv
<1>6. CASE NotPacked
  BY <1>2, <1>6 DEF NotPacked
<1>7. CASE Rejected
  BY <1>2, <1>7 DEF Rejected
<1>8. CASE Accepted
  <2> DEFINE buf == Pack(pairs)
  <2>1. /\ PackFits(pairs) /\ pc = "bulk" /\ pc' = "phase1" /\ UNCHANGED <<headers, lost>>
        /\ engine' = Unpack(buf, Narrow(Len(buf)), Narrow(Len(pairs))).pairs
    BY <1>8 DEF Accepted
  <2>2. /\ Narrow(Len(buf)) = Len(buf) /\ Narrow(Len(pairs)) = Len(pairs)
        /\ Unpack(buf, Len(buf), Len(pairs)).pairs = pairs
    BY <1>1, <2>1, RoundTrip
  <2>3. engine' = pairs
    BY <2>1, <2>2
  <2>4. lost = {}
    BY <2>1 DEF HInv
  <2> QED
    BY <1>3, <1>4, <2>1, <2>3, <2>4
<1>9. CASE Each
  BY <1>9, EachStep
<1>10. CASE EachDone
  <2>1. /\ pc = "each" /\ i > Len(headers) /\ pc' = "phase1"
        /\ UNCHANGED <<headers, i, engine, lost>>
    BY <1>10 DEF EachDone
  <2>2. i \in 1..(Len(headers) + 1) /\ engine = Shown[i - 1]
    BY <2>1 DEF HInv
  <2>3. i - 1 = Len(headers)
    BY <1>1, <2>1, <2>2
  <2> QED
    BY <1>3, <2>1, <2>2, <2>3
<1>11. CASE UNCHANGED vars
  <2>1. headers' = headers /\ pc' = pc /\ i' = i /\ engine' = engine /\ lost' = lost
    BY <1>11 DEF vars
  <2>2. Shown' = Shown /\ pairs' = pairs
    BY <2>1, SamePairs
  <2>3. HeadersShown'
    BY <2>1, <2>2 DEF HInv, HeadersShown, Shown
  <2> QED
    BY <2>1, <2>2, <2>3 DEF HInv, BlockedTooLong
<1> QED
  BY <1>5, <1>6, <1>7, <1>8, <1>9, <1>10, <1>11 DEF Next

\* The invariant of the rewrite handler's two ways of showing the headers.
THEOREM HeaderInvariant ==
  Spec => []HInv
BY InitHeaders, NextHeaders, PTL DEF Spec

\* Phase 1 sees the headers of the request, whichever path of the rewrite
\* handler carried them, and misses only those that the engine itself refused.
THEOREM PhaseOneSeesTheHeaders ==
  Spec => []HeadersShown
<1>1. HInv => HeadersShown
  BY DEF HInv
<1> QED
  BY <1>1, HeaderInvariant, PTL

\* The rewrite handler answers 500 only for a header that no int can measure.
THEOREM OnlyTooLongIsBlocked ==
  Spec => []BlockedTooLong
<1>1. HInv => BlockedTooLong
  BY DEF HInv
<1> QED
  BY <1>1, HeaderInvariant, PTL

\* What pack_headers() accepts reads back as the headers it was made of.
THEOREM AcceptedBatchReadsBack ==
  Spec => []PackedReadsBack
<1>1. HInv => PackedReadsBack
  <2> SUFFICES ASSUME HInv, PackFits(pairs)
               PROVE  LET buf == Pack(pairs)
                          len == Narrow(Len(buf))
                      IN  /\ Framed(buf, len, Len(pairs))
                          /\ Unpack(buf, len, Len(pairs)).pairs = pairs
    BY DEF PackedReadsBack
  <2>1. pairs \in Seq(HeaderType)
    BY PairsType DEF HInv
  <2>2. /\ Narrow(Len(Pack(pairs))) = Len(Pack(pairs))
        /\ Framed(Pack(pairs), Len(Pack(pairs)), Len(pairs))
        /\ Unpack(Pack(pairs), Len(Pack(pairs)), Len(pairs)).pairs = pairs
    BY <2>1, RoundTrip
  <2> QED
    BY <2>2
<1> QED
  BY <1>1, HeaderInvariant, PTL
=============================================================================
