----------------------------- MODULE SpanProofs -----------------------------
(***************************************************************************)
(* The logs of a span, for every limit and every number of records: the    *)
(* circular buffer, the rotation that undoes it, and what is recorded.     *)
(***************************************************************************)
EXTENDS Span, SequenceTheorems, WellFoundedInduction, TLAPS

-----------------------------------------------------------------------------
(***************************************************************************)
(* Induction over numbers, for sets of them                                *)
(***************************************************************************)

\* A set of natural numbers that is not empty has a least element.
LEMMA LeastNumber ==
    ASSUME NEW T \in SUBSET Nat, T # {}
    PROVE  \E m \in T : \A k \in T : m <= k
<1> DEFINE R == OpToRel(<, Nat)
<1>1. IsWellFoundedOn(R, Nat)
      BY NatLessThanWellFounded
<1>2. \A x, y \in Nat : << x, y >> \in R <=> x < y
      BY DEF OpToRel
<1> HIDE DEF R
<1>3. PICK x \in T : \A y \in T : ~(<< y, x >> \in R)
      BY <1>1, WFMin
<1>4. ASSUME NEW k \in T PROVE x <= k
  <2>1. x \in Nat /\ k \in Nat /\ ~(k < x)
        BY <1>2, <1>3
  <2> QED
      BY <2>1
<1> QED
    BY <1>4

\* A set with 0 and with every successor, up to a limit, has all numbers up to it.
LEMMA UpTo ==
    ASSUME NEW n \in Nat, NEW S, 0 \in S, \A i \in 0 .. n - 1 : i \in S => i + 1 \in S
    PROVE  0 .. n \subseteq S
<1> SUFFICES ASSUME NEW j \in 0 .. n, j \notin S
             PROVE  FALSE
    OBVIOUS
<1> DEFINE T == {i \in 0 .. n : i \notin S}
<1>1. T \in SUBSET Nat /\ T # {}
      OBVIOUS
<1>2. PICK m \in T : \A k \in T : m <= k
      BY <1>1, LeastNumber
<1>3. m # 0 /\ m - 1 \in 0 .. n - 1 /\ m - 1 \notin T
      BY <1>2
<1> QED
    BY <1>2, <1>3

-----------------------------------------------------------------------------
(***************************************************************************)
(* The rotate algorithm                                                    *)
(***************************************************************************)

\* buf after pos circular left shifts.
Rotation(buf, pos) ==
    [i \in 1 .. Len(buf) |-> IF i + pos <= Len(buf) THEN buf[i + pos]
                             ELSE buf[i + pos - Len(buf)]]

\* Where the element is that has to come d places behind first: of the three
\* parts [first, middle), [middle, next), [next, n) the last comes first.
place(first, middle, next, n, d) ==
    IF d < n - next THEN next + d + 1
    ELSE IF d < n - middle THEN middle + d - (n - next) + 1
    ELSE first + d - (n - middle) + 1

IsBuffer(b, n) == b = [i \in 1 .. n |-> b[i]]

Indices(first, middle, next, n) ==
    /\ n \in Nat /\ first \in Nat /\ middle \in Nat /\ next \in Nat
    /\ first <= middle /\ middle <= next /\ next < n
    /\ first = middle => next = middle

\* The elements before first are in their places, the others in an order from
\* which the remaining rounds bring them there.
Rotating(buf, first, middle, next, target, n) ==
    /\ \A i \in 1 .. first : buf[i] = target[i]
    /\ \A d \in 0 .. n - first - 1 :
          target[first + d + 1] = buf[place(first, middle, next, n, d)]

\* After k rounds.
AfterRounds(r, k, target, n) ==
    /\ r = [ buf |-> r.buf, first |-> r.first, middle |-> r.middle, next |-> r.next ]
    /\ IsBuffer(r.buf, n)
    /\ Indices(r.first, r.middle, r.next, n)
    /\ r.first = k \/ r.first = r.middle
    /\ Rotating(r.buf, r.first, r.middle, r.next, target, n)

\* What a round does to the buffer and to the indices.
swapped(b, a, x) == [b EXCEPT ![a + 1] = b[x + 1], ![x + 1] = b[a + 1]]

newMiddle(a, m, x, n) == IF x + 1 # n /\ a + 1 = m THEN x + 1 ELSE m

newNext(m, x, n) == IF x + 1 = n THEN m ELSE x + 1

\* How a round moves the indices, and the place of each element.
LEMMA Places ==
    ASSUME NEW a, NEW m, NEW x, NEW n, Indices(a, m, x, n), a # m,
           NEW p, p = newMiddle(a, m, x, n), NEW y, y = newNext(m, x, n)
    PROVE  /\ Indices(a + 1, p, y, n)
           /\ \A d \in 0 .. n - (a + 1) - 1 :
                 LET i == place(a, m, x, n, d + 1)
                     j == place(a + 1, p, y, n, d)
                 IN  j \in 1 .. n /\ j # a + 1 /\ i = IF j = x + 1 THEN a + 1 ELSE j
<1> USE DEF Indices, newMiddle, newNext
<1>1. Indices(a + 1, p, y, n)
      OBVIOUS
<1>2. ASSUME NEW d \in 0 .. n - (a + 1) - 1, NEW i, NEW j,
             i = IF d + 1 < n - x THEN x + (d + 1) + 1
                 ELSE IF d + 1 < n - m THEN m + (d + 1) - (n - x) + 1
                 ELSE a + (d + 1) - (n - m) + 1,
             j = IF d < n - y THEN y + d + 1
                 ELSE IF d < n - p THEN p + d - (n - y) + 1
                 ELSE (a + 1) + d - (n - p) + 1
      PROVE  j \in 1 .. n /\ j # a + 1 /\ i = IF j = x + 1 THEN a + 1 ELSE j
  <2>1. CASE x + 1 = n
        BY <1>2, <2>1
  <2>2. CASE x + 1 # n /\ a + 1 = m
        BY <1>2, <2>2
  <2>3. CASE x + 1 # n /\ a + 1 # m
        BY <1>2, <2>3
  <2> QED
      BY <2>1, <2>2, <2>3
<1> QED
    BY <1>1, <1>2 DEF place

\* Places behind first and behind its successor.
LEMMA NextPlace ==
    ASSUME NEW n \in Nat, NEW a \in Nat, NEW d \in 0 .. n - (a + 1) - 1
    PROVE  d + 1 \in 0 .. n - a - 1 /\ a + (d + 1) + 1 = (a + 1) + d + 1
OBVIOUS

\* A round puts one more element into its place.
LEMMA SwapRotates ==
    ASSUME NEW a, NEW m, NEW x, NEW n, Indices(a, m, x, n), a # m,
           NEW b, IsBuffer(b, n),
           NEW target, Rotating(b, a, m, x, target, n),
           NEW c, c = swapped(b, a, x),
           NEW p, p = newMiddle(a, m, x, n), NEW y, y = newNext(m, x, n)
    PROVE  /\ IsBuffer(c, n)
           /\ Rotating(c, a + 1, p, y, target, n)
<1>1. /\ n \in Nat /\ a \in Nat /\ m \in Nat /\ x \in Nat /\ a < m /\ m <= x /\ x < n
      BY DEF Indices
<1>2. /\ IsBuffer(c, n)
      /\ \A i \in 1 .. n : c[i] = IF i = x + 1 THEN b[a + 1]
                                  ELSE IF i = a + 1 THEN b[x + 1] ELSE b[i]
      BY <1>1 DEF swapped, IsBuffer
<1>3. ASSUME NEW i \in 1 .. a + 1
      PROVE  c[i] = target[i]
  <2>1. CASE i = a + 1
    <3>1. 0 \in 0 .. n - a - 1 /\ a + 0 + 1 = a + 1 /\ place(a, m, x, n, 0) = x + 1
          BY <1>1 DEF place
    <3>2. target[a + 1] = b[x + 1]
      <4>1. target[a + 0 + 1] = b[place(a, m, x, n, 0)]
            BY <3>1, Zenon DEF Rotating
      <4> QED
          BY <3>1, <4>1, Zenon
    <3>3. c[a + 1] = b[x + 1]
          BY <1>1, <1>2
    <3> QED
        BY <2>1, <3>2, <3>3
  <2>2. CASE i # a + 1
    <3>1. i \in 1 .. a /\ i \in 1 .. n /\ i # x + 1
          BY <1>1, <2>2
    <3>2. c[i] = b[i]
          BY <1>2, <2>2, <3>1
    <3>3. b[i] = target[i]
          BY <3>1 DEF Rotating
    <3> QED
        BY <3>2, <3>3
  <2> QED
      BY <2>1, <2>2
<1>4. ASSUME NEW d \in 0 .. n - (a + 1) - 1
      PROVE  target[(a + 1) + d + 1] = c[place(a + 1, p, y, n, d)]
  <2>1. PICK i, j : i = place(a, m, x, n, d + 1) /\ j = place(a + 1, p, y, n, d)
        OBVIOUS
  <2>2. j \in 1 .. n /\ j # a + 1 /\ i = IF j = x + 1 THEN a + 1 ELSE j
        BY <2>1, Places
  <2>3. d + 1 \in 0 .. n - a - 1 /\ a + (d + 1) + 1 = (a + 1) + d + 1
        BY <1>1, NextPlace, Zenon
  <2>4. target[a + (d + 1) + 1] = b[i]
        BY <2>1, <2>3 DEF Rotating
  <2>5. c[j] = b[i]
        BY <1>2, <2>2
  <2> QED
      BY <2>1, <2>3, <2>4, <2>5
<1> QED
    BY <1>2, <1>3, <1>4 DEF Rotating

\* The same of the round as the loop runs it.
LEMMA RoundRotates ==
    ASSUME NEW n, NEW k \in Nat, NEW target, NEW r, AfterRounds(r, k, target, n)
    PROVE  AfterRounds(rotateRound(r), k + 1, target, n)
<1>1. CASE r.first = r.middle
  <2>1. rotateRound(r) = r
        BY <1>1 DEF rotateRound
  <2>2. AfterRounds(r, k + 1, target, n)
        BY <1>1 DEF AfterRounds
  <2> QED
      BY <2>1, <2>2
<1>2. CASE r.first # r.middle
  <2>1. PICK a, m, x, b : a = r.first /\ m = r.middle /\ x = r.next /\ b = r.buf
        OBVIOUS
  <2>2. /\ a # m /\ a = k /\ Indices(a, m, x, n) /\ IsBuffer(b, n)
        /\ Rotating(b, a, m, x, target, n)
        BY <1>2, <2>1, Zenon DEF AfterRounds
  <2>3. n \in Nat /\ Len(b) = n
        BY <2>2 DEF Indices, IsBuffer
  <2>4. PICK c : c = swapped(b, a, x)
        OBVIOUS
  <2>5. PICK p : p = newMiddle(a, m, x, n)
        OBVIOUS
  <2>6. PICK y : y = newNext(m, x, n)
        OBVIOUS
  <2>7. rotateRound(r) = [ buf |-> c, first |-> a + 1, middle |-> p, next |-> y ]
        BY <1>2, <2>1, <2>3, <2>4, <2>5, <2>6 DEF rotateRound, swapped, newMiddle, newNext
  <2>8. Indices(a + 1, p, y, n)
        BY <2>2, <2>5, <2>6, Places
  <2>9. IsBuffer(c, n) /\ Rotating(c, a + 1, p, y, target, n)
        BY <2>2, <2>4, <2>5, <2>6, SwapRotates
  <2>10. PICK s : s = rotateRound(r)
         OBVIOUS
  <2>11. /\ s.buf = c /\ s.first = a + 1 /\ s.middle = p /\ s.next = y
         /\ s = [ buf |-> s.buf, first |-> s.first, middle |-> s.middle, next |-> s.next ]
         BY <2>7, <2>10
  <2>12. AfterRounds(s, k + 1, target, n)
         BY <2>2, <2>8, <2>9, <2>11, Zenon DEF AfterRounds
  <2> QED
      BY <2>10, <2>12
<1> QED
    BY <1>1, <1>2

\* Before the first round nothing is in its place.
LEMMA StartRotates ==
    ASSUME NEW n \in Nat \ {0}, NEW buf, IsBuffer(buf, n), Len(buf) = n,
           NEW pos \in 0 .. n - 1
    PROVE  AfterRounds([ buf |-> buf, first |-> 0, middle |-> pos, next |-> pos ],
                       0, Rotation(buf, pos), n)
<1>1. Indices(0, pos, pos, n)
      BY DEF Indices
<1>2. ASSUME NEW d \in 0 .. n - 0 - 1
      PROVE  Rotation(buf, pos)[0 + d + 1] = buf[place(0, pos, pos, n, d)]
  <2>1. d \in Nat /\ d + 1 \in 1 .. n /\ 0 + d + 1 = d + 1
        OBVIOUS
  <2>2. Rotation(buf, pos)[d + 1] = IF (d + 1) + pos <= n THEN buf[(d + 1) + pos]
                                    ELSE buf[(d + 1) + pos - n]
        BY <2>1 DEF Rotation
  <2>3. place(0, pos, pos, n, d) = IF (d + 1) + pos <= n THEN (d + 1) + pos
                                   ELSE (d + 1) + pos - n
        BY <2>1 DEF place
  <2> QED
      BY <2>1, <2>2, <2>3
<1>3. Rotating(buf, 0, pos, pos, Rotation(buf, pos), n)
      BY <1>2 DEF Rotating
<1>4. PICK r : r = [ buf |-> buf, first |-> 0, middle |-> pos, next |-> pos ]
      OBVIOUS
<1>5. /\ r.buf = buf /\ r.first = 0 /\ r.middle = pos /\ r.next = pos
      /\ r = [ buf |-> r.buf, first |-> r.first, middle |-> r.middle, next |-> r.next ]
      BY <1>4
<1>6. AfterRounds(r, 0, Rotation(buf, pos), n)
      BY <1>1, <1>3, <1>5, Zenon DEF AfterRounds
<1> QED
    BY <1>4, <1>6

\* After as many rounds as there are elements, all are in their places.
LEMMA EndRotated ==
    ASSUME NEW n \in Nat \ {0}, NEW r, NEW target, AfterRounds(r, n, target, n)
    PROVE  r.buf = [i \in 1 .. n |-> target[i]]
<1>1. PICK a, b : a = r.first /\ b = r.buf
      OBVIOUS
<1>2. /\ a \in Nat /\ a < n /\ r.middle = a /\ r.next = a
      BY <1>1 DEF AfterRounds, Indices
<1>3. IsBuffer(b, n) /\ Rotating(b, a, a, a, target, n)
      BY <1>1, <1>2 DEF AfterRounds
<1>4. ASSUME NEW i \in 1 .. n
      PROVE  b[i] = target[i]
  <2>1. CASE i <= a
    <3>1. i \in 1 .. a
          BY <1>2, <2>1
    <3> QED
        BY <1>3, <3>1 DEF Rotating
  <2>2. CASE ~(i <= a)
    <3>1. PICK d \in 0 .. n - a - 1 : i = a + d + 1
      <4>1. i - a - 1 \in 0 .. n - a - 1 /\ i = a + (i - a - 1) + 1
            BY <1>2, <2>2
      <4> QED
          BY <4>1
    <3>2. place(a, a, a, n, d) = i
          BY <1>2, <3>1 DEF place
    <3> QED
        BY <1>3, <3>1, <3>2 DEF Rotating
  <2> QED
      BY <2>1, <2>2
<1> QED
    BY <1>1, <1>3, <1>4 DEF IsBuffer

\* rotateLogBuffer shifts its buffer circularly to the left.
LEMMA Rotates ==
    ASSUME NEW n \in Nat \ {0}, NEW buf, IsBuffer(buf, n), Len(buf) = n,
           NEW pos \in 0 .. n - 1
    PROVE  rotateLogBuffer(buf, pos) = [i \in 1 .. n |-> Rotation(buf, pos)[i]]
<1> DEFINE start == [ buf |-> buf, first |-> 0, middle |-> pos, next |-> pos ]
           upTo(f, m) == f = [k \in 0 .. m |-> IF k = 0 THEN start ELSE rotateRound(f[k - 1])]
           S == {m \in 0 .. n : \E f : upTo(f, m)}
           after == CHOOSE f : upTo(f, n)
<1> HIDE DEF start
<1>1. 0 \in S
  <2>1. PICK f : f = [k \in 0 .. 0 |-> start]
        OBVIOUS
  <2>2. upTo(f, 0)
        BY <2>1
  <2>3. \E e : upTo(e, 0)
        BY <2>2, Zenon
  <2> HIDE DEF upTo
  <2> QED
      BY <2>3
<1>2. ASSUME NEW m \in 0 .. n - 1, m \in S
      PROVE  m + 1 \in S
  <2>1. PICK f : upTo(f, m)
        BY <1>2
  <2> DEFINE g == [k \in 0 .. m + 1 |-> IF k = m + 1 THEN rotateRound(f[m]) ELSE f[k]]
  <2>2. ASSUME NEW k \in 0 .. m + 1
        PROVE  g[k] = IF k = 0 THEN start ELSE rotateRound(g[k - 1])
    <3>1. CASE k = m + 1
      <4>1. k - 1 = m /\ m \in 0 .. m + 1 /\ m # m + 1 /\ k # 0
            BY <3>1
      <4> QED
          BY <3>1, <4>1
    <3>2. CASE k # m + 1 /\ k # 0
      <4>1. k \in 0 .. m /\ k - 1 \in 0 .. m + 1 /\ k - 1 # m + 1
            BY <3>2
      <4>2. f[k] = rotateRound(f[k - 1])
            BY <2>1, <3>2, <4>1
      <4> QED
          BY <3>2, <4>1, <4>2
    <3>3. CASE k = 0
      <4>1. 0 \in 0 .. m /\ 0 # m + 1
            OBVIOUS
      <4>2. f[0] = start
            BY <2>1, <4>1
      <4> QED
          BY <3>3, <4>1, <4>2
    <3> QED
        BY <3>1, <3>2, <3>3
  <2>3. g = [k \in 0 .. m + 1 |-> g[k]]
        OBVIOUS
  <2> HIDE DEF g
  <2>4. upTo(g, m + 1)
        BY <2>2, <2>3
  <2> QED
      BY <2>4
<1>3. \E f : upTo(f, n)
  <2> HIDE DEF S
  <2>1. 0 .. n \subseteq S
        BY <1>1, <1>2, UpTo
  <2> QED
      BY <2>1 DEF S
<1>4. upTo(after, n)
      BY <1>3, Zenon
<1>5. rotateLogBuffer(buf, pos) = after[n].buf
      BY Zenon DEF rotateLogBuffer, start
<1> HIDE DEF after
<1> DEFINE target == Rotation(buf, pos)
           T == {k \in 0 .. n : AfterRounds(after[k], k, target, n)}
<1> HIDE DEF target
<1>6. 0 \in T
  <2>1. after[0] = start
        BY <1>4
  <2>2. AfterRounds(start, 0, target, n)
        BY StartRotates DEF start, target
  <2> QED
      BY <2>1, <2>2
<1>7. ASSUME NEW k \in 0 .. n - 1, k \in T
      PROVE  k + 1 \in T
  <2>1. k \in Nat /\ k + 1 \in 0 .. n /\ k + 1 # 0 /\ (k + 1) - 1 = k
        OBVIOUS
  <2>2. after[k + 1] = rotateRound(after[k])
        BY <1>4, <2>1
  <2>3. AfterRounds(rotateRound(after[k]), k + 1, target, n)
        BY <1>7, <2>1, RoundRotates
  <2> QED
      BY <2>1, <2>2, <2>3
<1>8. AfterRounds(after[n], n, target, n)
  <2> HIDE DEF T
  <2>1. 0 .. n \subseteq T
        BY <1>6, <1>7, UpTo
  <2> QED
      BY <2>1 DEF T
<1> QED
    BY <1>5, <1>8, EndRotated DEF target

-----------------------------------------------------------------------------
(***************************************************************************)
(* The circular buffer                                                     *)
(***************************************************************************)

numNew(m) == m - numOld(m)

\* The record in place i of a full buffer that dropped d records: the new ones
\* overwrite each other in turn.
slot(m, d, i) ==
    IF i <= numOld(m) THEN i
    ELSE i + d - (d % numNew(m)) + (IF i - numOld(m) - 1 < d % numNew(m) THEN numNew(m) ELSE 0)

\* What a buffer for m records holds after t records.
bufferOf(m, t) ==
    IF t <= m
    THEN [ logs |-> [i \in 1 .. t |-> record(i)], numDroppedLogs |-> 0 ]
    ELSE [ logs |-> [i \in 1 .. m |-> record(slot(m, t - m, i))], numDroppedLogs |-> t - m ]

\* At least one record is a new one.
LEMMA OldAndNew ==
    ASSUME NEW m \in Nat \ {0}
    PROVE  numOld(m) \in Nat /\ numOld(m) < m /\ numNew(m) \in Nat \ {0}
           /\ numOld(m) + numNew(m) = m
BY DEF numOld, numNew

\* Remainders of a number and its successor.
LEMMA NextRemainder ==
    ASSUME NEW d \in Nat, NEW w \in Nat \ {0}
    PROVE  /\ d % w \in 0 .. w - 1 /\ d % w <= d
           /\ (d + 1) % w = IF (d % w) + 1 = w THEN 0 ELSE (d % w) + 1
<1>1. PICK q, r : q = d \div w /\ r = d % w
      OBVIOUS
<1>2. q \in Nat /\ r \in 0 .. w - 1 /\ d = w * q + r
      BY <1>1
<1>3. w * q \in Nat /\ r <= d
      BY <1>2
<1>4. PICK p, s : p = (d + 1) \div w /\ s = (d + 1) % w
      OBVIOUS
<1>5. p \in Nat /\ s \in 0 .. w - 1 /\ d + 1 = w * p + s
      BY <1>4
<1>6. w * (p - q) = (r + 1) - s
      BY <1>2, <1>5
<1>7. CASE r + 1 = w
  <2>1. w * (p - q) = w - s
        BY <1>6, <1>7
  <2>2. p - q <= 0 => w * (p - q) <= 0
        BY <1>2, <1>5
  <2>3. p - q >= 2 => w * (p - q) >= 2 * w
        BY <1>2, <1>5
  <2>4. p - q = 1
        BY <1>2, <1>5, <2>1, <2>2, <2>3
  <2>5. s = 0
        BY <1>2, <1>5, <2>1, <2>4
  <2> QED
      BY <1>1, <1>2, <1>3, <1>4, <1>7, <2>5
<1>8. CASE r + 1 # w
  <2>1. p - q < 0 => w * (p - q) <= -w
        BY <1>2, <1>5
  <2>2. p - q > 0 => w * (p - q) >= w
        BY <1>2, <1>5
  <2>3. p - q = 0
        BY <1>2, <1>5, <1>6, <1>8, <2>1, <2>2
  <2>4. s = r + 1
        BY <1>2, <1>5, <1>6, <2>3
  <2> QED
      BY <1>1, <1>2, <1>3, <1>4, <1>8, <2>4
<1> QED
    BY <1>7, <1>8

\* One more record overwrites one place and no other.
LEMMA NextSlot ==
    ASSUME NEW m \in Nat \ {0}, NEW d \in Nat, NEW i \in 1 .. m
    PROVE  slot(m, d + 1, i) = IF i = numOld(m) + (d % numNew(m)) + 1 THEN m + d + 1
                               ELSE slot(m, d, i)
<1>1. PICK o, w : o = numOld(m) /\ w = numNew(m)
      OBVIOUS
<1>2. o \in Nat /\ o < m /\ w \in Nat \ {0} /\ o + w = m
      BY <1>1, OldAndNew
<1>3. PICK r, s : r = d % w /\ s = (d + 1) % w
      OBVIOUS
<1>4. r \in 0 .. w - 1 /\ s = IF r + 1 = w THEN 0 ELSE r + 1
      BY <1>2, <1>3, NextRemainder
<1>5. slot(m, d, i) = IF i <= o THEN i ELSE i + d - r + (IF i - o - 1 < r THEN w ELSE 0)
      BY <1>1, <1>3 DEF slot
<1>6. slot(m, d + 1, i)
        = IF i <= o THEN i ELSE i + (d + 1) - s + (IF i - o - 1 < s THEN w ELSE 0)
      BY <1>1, <1>3 DEF slot
<1>7. slot(m, d + 1, i) = IF i = o + r + 1 THEN m + d + 1 ELSE slot(m, d, i)
      BY <1>2, <1>4, <1>5, <1>6
<1> QED
    BY <1>1, <1>3, <1>7

\* Before anything is dropped, every record is in its own place.
LEMMA FirstSlot ==
    ASSUME NEW m \in Nat \ {0}, NEW i \in 1 .. m
    PROVE  slot(m, 0, i) = i
<1>1. numNew(m) \in Nat \ {0} /\ numOld(m) \in Nat
      BY OldAndNew
<1>2. 0 % numNew(m) = 0
      BY <1>1
<1> QED
    BY <1>1, <1>2 DEF slot

\* A full buffer.
LEMMA FullBuffer ==
    ASSUME NEW m \in Nat \ {0}, NEW d \in Nat
    PROVE  bufferOf(m, m + d) = [ logs |-> [i \in 1 .. m |-> record(slot(m, d, i))],
                                  numDroppedLogs |-> d ]
<1>1. CASE d = 0
  <2>1. bufferOf(m, m + d) = [ logs |-> [i \in 1 .. m |-> record(i)], numDroppedLogs |-> 0 ]
        BY <1>1 DEF bufferOf
  <2>2. [i \in 1 .. m |-> record(i)] = [i \in 1 .. m |-> record(slot(m, d, i))]
        BY <1>1, FirstSlot
  <2> QED
      BY <1>1, <2>1, <2>2
<1>2. CASE d # 0
  <2>1. ~(m + d <= m) /\ (m + d) - m = d
        BY <1>2
  <2> QED
      BY <2>1 DEF bufferOf
<1> QED
    BY <1>1, <1>2

\* appendLog: the buffer after one more record.
LEMMA AppendBuffer ==
    ASSUME maxLogsPerSpan \in Nat \ {0}, NEW t \in Nat
    PROVE  appendLog(bufferOf(maxLogsPerSpan, t), record(t + 1))
             = bufferOf(maxLogsPerSpan, t + 1)
<1>1. PICK m \in Nat \ {0} : m = maxLogsPerSpan
      OBVIOUS
<1>2. PICK b : b = bufferOf(m, t)
      OBVIOUS
<1>3. CASE t < m
  <2>1. PICK l : l = [i \in 1 .. t |-> record(i)]
        OBVIOUS
  <2>2. b = [ logs |-> l, numDroppedLogs |-> 0 ]
        BY <1>2, <1>3, <2>1 DEF bufferOf
  <2>3. l \in Seq({record(i) : i \in Nat}) /\ Len(l) = t
        BY <2>1
  <2>4. Append(l, record(t + 1)) = [i \in 1 .. t + 1 |-> record(i)]
        BY <2>1, <2>3
  <2>5. appendLog(b, record(t + 1)) = [b EXCEPT !.logs = Append(@, record(t + 1))]
        BY <1>1, <1>3, <2>2, <2>3 DEF appendLog
  <2>6. appendLog(b, record(t + 1))
          = [ logs |-> [i \in 1 .. t + 1 |-> record(i)], numDroppedLogs |-> 0 ]
        BY <2>2, <2>4, <2>5
  <2>7. t + 1 <= m
        BY <1>3
  <2> QED
      BY <1>1, <1>2, <2>6, <2>7 DEF bufferOf
<1>4. CASE ~(t < m)
  <2>1. PICK d \in Nat : t = m + d
    <3>1. t - m \in Nat /\ t = m + (t - m)
          BY <1>4
    <3> QED
        BY <3>1
  <2>2. PICK l : l = [i \in 1 .. m |-> record(slot(m, d, i))]
        OBVIOUS
  <2>3. b = [ logs |-> l, numDroppedLogs |-> d ]
        BY <1>2, <2>1, <2>2, FullBuffer
  <2>4. Len(l) = m
        BY <2>2
  <2>5. PICK o : o = numOld(m) + (d % numNew(m)) + 1
        OBVIOUS
  <2>6. overwritten(d) + 1 = o
        BY <1>1, <2>5 DEF overwritten, numNew
  <2>7. o \in 1 .. m
    <3>1. numOld(m) \in Nat /\ numNew(m) \in Nat \ {0} /\ numOld(m) + numNew(m) = m
          BY OldAndNew
    <3>2. d % numNew(m) \in 0 .. numNew(m) - 1
          BY <3>1, NextRemainder
    <3> QED
        BY <2>5, <3>1, <3>2
  <2>8. appendLog(b, record(t + 1))
          = [ logs |-> [l EXCEPT ![o] = record(t + 1)], numDroppedLogs |-> d + 1 ]
        BY <1>1, <2>3, <2>4, <2>6 DEF appendLog
  <2>9. [l EXCEPT ![o] = record(t + 1)] = [i \in 1 .. m |-> record(slot(m, d + 1, i))]
    <3>1. \A i \in 1 .. m : slot(m, d + 1, i) = IF i = o THEN t + 1 ELSE slot(m, d, i)
          BY <2>1, <2>5, NextSlot
    <3> QED
        BY <2>2, <2>7, <3>1
  <2>10. bufferOf(m, m + (d + 1)) = [ logs |-> [i \in 1 .. m |-> record(slot(m, d + 1, i))],
                                      numDroppedLogs |-> d + 1 ]
         BY FullBuffer
  <2>11. t + 1 = m + (d + 1)
         BY <2>1
  <2> QED
      BY <1>1, <1>2, <2>8, <2>9, <2>10, <2>11
<1> QED
    BY <1>3, <1>4

\* appendLogs: the buffer after the records that FinishOptions carry.
LEMMA AppendedBuffer ==
    ASSUME maxLogsPerSpan \in Nat \ {0}, logged \in Nat,
           buffered = bufferOf(maxLogsPerSpan, logged), NEW n \in Nat
    PROVE  appendLogs(n) = bufferOf(maxLogsPerSpan, logged + n)
<1> DEFINE is(f) == f = [k \in 0 .. n |-> IF k = 0 THEN buffered
                                          ELSE appendLog(f[k - 1], record(logged + k))]
           after == CHOOSE f : is(f)
           w == [k \in 0 .. n |-> bufferOf(maxLogsPerSpan, logged + k)]
<1>1. is(w)
  <2>1. ASSUME NEW k \in 0 .. n
        PROVE  w[k] = IF k = 0 THEN buffered ELSE appendLog(w[k - 1], record(logged + k))
    <3>1. CASE k = 0
      <4>1. logged + 0 = logged
            OBVIOUS
      <4> QED
          BY <3>1, <4>1
    <3>2. CASE k # 0
      <4>1. /\ k \in 0 .. n /\ k - 1 \in 0 .. n
            /\ logged + (k - 1) \in Nat /\ (logged + (k - 1)) + 1 = logged + k
            BY <3>2
      <4>2. /\ w[k - 1] = bufferOf(maxLogsPerSpan, logged + (k - 1))
            /\ w[k] = bufferOf(maxLogsPerSpan, logged + k)
            BY <4>1
      <4> HIDE DEF w
      <4>3. PICK t \in Nat : t = logged + (k - 1)
            BY <4>1
      <4>4. appendLog(bufferOf(maxLogsPerSpan, t), record(t + 1))
              = bufferOf(maxLogsPerSpan, t + 1)
            BY AppendBuffer
      <4> QED
          BY <3>2, <4>1, <4>2, <4>3, <4>4
    <3> QED
        BY <3>1, <3>2
  <2>2. w = [k \in 0 .. n |-> w[k]]
        OBVIOUS
  <2> HIDE DEF w
  <2> QED
      BY <2>1, <2>2
<1>2. is(after)
  <2> HIDE DEF w
  <2> QED
      BY <1>1, Zenon
<1>3. appendLogs(n) = after[n]
      BY Zenon DEF appendLogs
<1>4. \A k \in 0 .. n : w[k] = bufferOf(maxLogsPerSpan, logged + k)
      OBVIOUS
<1> HIDE DEF after, w
<1> DEFINE S == {k \in 0 .. n : after[k] = w[k]}
<1>5. 0 \in S
      BY <1>1, <1>2
<1>6. ASSUME NEW k \in 0 .. n - 1, k \in S
      PROVE  k + 1 \in S
  <2>1. k + 1 \in 0 .. n /\ k + 1 # 0 /\ (k + 1) - 1 = k
        OBVIOUS
  <2>2. after[k + 1] = appendLog(after[k], record(logged + (k + 1)))
        BY <1>2, <2>1
  <2>3. w[k + 1] = appendLog(w[k], record(logged + (k + 1)))
        BY <1>1, <2>1
  <2> QED
      BY <1>6, <2>1, <2>2, <2>3
<1> HIDE DEF S
<1>7. 0 .. n \subseteq S
      BY <1>5, <1>6, UpTo
<1>8. after[n] = w[n]
      BY <1>7 DEF S
<1> QED
    BY <1>3, <1>4, <1>8

\* What Finish makes of t records.
summaryOf(m, t) ==
    LET old == numOld(m)
        missing == t - (m - 1)
    IN  IF t <= m
        THEN [i \in 1 .. t |-> record(i)]
        ELSE [i \in 1 .. m |->
                CASE i <= old -> record(i)
                  [] i = old + 1 -> [ time |-> old + missing, dropped |-> missing ]
                  [] OTHER -> record(t - m + i)]

\* The new records of a full buffer, rotated, are in the order they came in.
LEMMA NewInOrder ==
    ASSUME NEW m \in Nat \ {0}, NEW d \in Nat, NEW i \in 1 .. numNew(m),
           NEW r, r = d % numNew(m)
    PROVE  slot(m, d, numOld(m) + (IF i + r <= numNew(m) THEN i + r ELSE i + r - numNew(m)))
             = numOld(m) + i + d
<1>1. PICK o, w : o = numOld(m) /\ w = numNew(m)
      OBVIOUS
<1>2. o \in Nat /\ o < m /\ w \in Nat \ {0} /\ o + w = m
      BY <1>1, OldAndNew
<1>3. r \in 0 .. w - 1
      BY <1>1, <1>2, NextRemainder
<1>4. PICK j : j = o + (IF i + r <= w THEN i + r ELSE i + r - w)
      OBVIOUS
<1>5. slot(m, d, j) = IF j <= o THEN j ELSE j + d - r + (IF j - o - 1 < r THEN w ELSE 0)
      BY <1>1 DEF slot
<1>6. slot(m, d, j) = o + i + d
      BY <1>1, <1>2, <1>3, <1>4, <1>5
<1> QED
    BY <1>1, <1>4, <1>6

\* A record of the model is a log record.
LEMMA RecordType ==
    ASSUME NEW t \in Nat
    PROVE  record(t) \in LogRecord
BY DEF record, LogRecord

\* The records of a buffer are numbered.
LEMMA SlotType ==
    ASSUME NEW m \in Nat \ {0}, NEW d \in Nat, NEW i \in 1 .. m
    PROVE  slot(m, d, i) \in Nat
<1>1. PICK o, w : o = numOld(m) /\ w = numNew(m)
      OBVIOUS
<1>2. o \in Nat /\ w \in Nat \ {0}
      BY <1>1, OldAndNew
<1>3. PICK r : r = d % w
      OBVIOUS
<1>4. r \in 0 .. w - 1 /\ r <= d
      BY <1>2, <1>3, NextRemainder
<1>5. slot(m, d, i) = IF i <= o THEN i ELSE i + d - r + (IF i - o - 1 < r THEN w ELSE 0)
      BY <1>1, <1>3 DEF slot
<1> QED
    BY <1>2, <1>4, <1>5

\* A part of a buffer.
LEMMA PartOfBuffer ==
    ASSUME NEW m \in Nat, NEW l \in [1 .. m -> LogRecord],
           NEW a \in 1 .. m + 1, NEW e \in 0 .. m, a <= e + 1
    PROVE  /\ SubSeq(l, a, e) \in Seq(LogRecord)
           /\ Len(SubSeq(l, a, e)) = e - a + 1
           /\ \A i \in 1 .. e - a + 1 : SubSeq(l, a, e)[i] = l[a + i - 1]
<1>1. \A i \in a .. e : l[i] \in LogRecord
      OBVIOUS
<1>2. a \in Int /\ e \in Int
      OBVIOUS
<1>3. /\ SubSeq(l, a, e) \in Seq(LogRecord)
      /\ Len(SubSeq(l, a, e)) = IF a <= e THEN e - a + 1 ELSE 0
      /\ \A i \in 1 .. e - a + 1 : SubSeq(l, a, e)[i] = l[a + i - 1]
      BY <1>1, <1>2, SubSeqProperties
<1> QED
    BY <1>3

\* The buffer that dropped d records, its new records rotated, has the old records
\* and then, in order, the latest.
LEMMA Decircularised ==
    ASSUME NEW m \in Nat \ {0}, NEW d \in Nat,
           NEW l, l = [i \in 1 .. m |-> record(slot(m, d, i))]
    PROVE  SubSeq(l, 1, numOld(m))
             \o rotateLogBuffer(SubSeq(l, numOld(m) + 1, m), d % numNew(m))
               = [i \in 1 .. m |-> IF i <= numOld(m) THEN record(i) ELSE record(i + d)]
<1>1. PICK o, w, r : o = numOld(m) /\ w = numNew(m) /\ r = d % numNew(m)
      OBVIOUS
<1>2. o \in Nat /\ o < m /\ w \in Nat \ {0} /\ o + w = m
      BY <1>1, OldAndNew
<1>3. r \in 0 .. w - 1
      BY <1>1, <1>2, NextRemainder
<1>4. /\ l \in [1 .. m -> LogRecord]
      /\ \A i \in 1 .. m : l[i] = record(slot(m, d, i))
      BY SlotType DEF record, LogRecord
<1>5. PICK head, tail : head = SubSeq(l, 1, o) /\ tail = SubSeq(l, o + 1, m)
      OBVIOUS
<1>6. /\ head \in Seq(LogRecord) /\ Len(head) = o
      /\ \A i \in 1 .. o : head[i] = l[i]
  <2>1. 1 \in 1 .. m + 1 /\ o \in 0 .. m /\ 1 <= o + 1 /\ o - 1 + 1 = o
        BY <1>2
  <2>2. /\ SubSeq(l, 1, o) \in Seq(LogRecord)
        /\ Len(SubSeq(l, 1, o)) = o - 1 + 1
        /\ \A i \in 1 .. o - 1 + 1 : SubSeq(l, 1, o)[i] = l[1 + i - 1]
        BY <1>4, <2>1, PartOfBuffer
  <2>3. /\ head \in Seq(LogRecord) /\ Len(head) = o
        /\ \A i \in 1 .. o : head[i] = l[1 + i - 1]
        BY <1>5, <2>1, <2>2, Zenon
  <2>4. \A i \in 1 .. o : 1 + i - 1 = i
        BY <1>2
  <2> QED
      BY <2>3, <2>4, Zenon
<1>7. /\ tail \in Seq(LogRecord) /\ Len(tail) = w
      /\ \A i \in 1 .. w : tail[i] = l[o + i]
  <2>1. /\ o + 1 \in 1 .. m + 1 /\ m \in 0 .. m /\ o + 1 <= m + 1
        /\ m - (o + 1) + 1 = w
        BY <1>2
  <2>2. /\ SubSeq(l, o + 1, m) \in Seq(LogRecord)
        /\ Len(SubSeq(l, o + 1, m)) = m - (o + 1) + 1
        /\ \A i \in 1 .. m - (o + 1) + 1 : SubSeq(l, o + 1, m)[i] = l[(o + 1) + i - 1]
        BY <1>4, <2>1, PartOfBuffer
  <2>3. \A i \in 1 .. w : (o + 1) + i - 1 = o + i
        BY <1>2
  <2>4. /\ tail \in Seq(LogRecord) /\ Len(tail) = w
        /\ \A i \in 1 .. w : tail[i] = l[(o + 1) + i - 1]
        BY <1>5, <2>1, <2>2, Zenon
  <2> QED
      BY <2>3, <2>4, Zenon
<1>8. PICK rot : rot = rotateLogBuffer(tail, r)
      OBVIOUS
<1>9. rot = [i \in 1 .. w |-> Rotation(tail, r)[i]]
  <2>1. IsBuffer(tail, w)
        BY <1>7 DEF IsBuffer
  <2> QED
      BY <1>2, <1>3, <1>7, <1>8, <2>1, Rotates
<1>10. ASSUME NEW i \in 1 .. w
       PROVE  rot[i] = record(o + i + d)
  <2>1. PICK j : j = IF i + r <= w THEN i + r ELSE i + r - w
        OBVIOUS
  <2>2. j \in 1 .. w /\ o + j \in 1 .. m
        BY <1>2, <1>3, <2>1
  <2>3. rot[i] = tail[j]
        BY <1>7, <1>9, <2>1 DEF Rotation
  <2>4. tail[j] = record(slot(m, d, o + j))
        BY <1>4, <1>7, <2>2
  <2>5. slot(m, d, o + j) = o + i + d
        BY <1>1, <2>1, NewInOrder
  <2> QED
      BY <2>3, <2>4, <2>5
<1>11. rot \in Seq(LogRecord) /\ Len(rot) = w
  <2>1. ASSUME NEW i \in 1 .. w
        PROVE  rot[i] \in LogRecord
    <3>1. o + i + d \in Nat
          BY <1>2
    <3> QED
        BY <1>10, <3>1, RecordType
  <2>2. rot \in [1 .. w -> LogRecord]
        BY <1>9, <2>1
  <2> QED
      BY <1>2, <2>2
<1>12. /\ head \o rot \in Seq(LogRecord) /\ Len(head \o rot) = m
       /\ \A i \in 1 .. m : (head \o rot)[i] = IF i <= o THEN head[i] ELSE rot[i - o]
  <2>1. /\ head \o rot \in Seq(LogRecord) /\ Len(head \o rot) = Len(head) + Len(rot)
        /\ \A i \in 1 .. Len(head) + Len(rot) :
              (head \o rot)[i] = IF i <= Len(head) THEN head[i] ELSE rot[i - Len(head)]
        BY <1>6, <1>11, ConcatProperties
  <2> QED
      BY <1>2, <1>6, <1>11, <2>1
<1>13. PICK all : all = head \o rot
       OBVIOUS
<1>14. ASSUME NEW i \in 1 .. m
       PROVE  all[i] = IF i <= o THEN record(i) ELSE record(i + d)
  <2>1. CASE i <= o
    <3>1. i \in 1 .. o /\ slot(m, d, i) = i
          BY <1>1, <1>2, <2>1 DEF slot
    <3> QED
        BY <1>4, <1>6, <1>12, <1>13, <2>1, <3>1
  <2>2. CASE ~(i <= o)
    <3>1. i - o \in 1 .. w /\ o + (i - o) + d = i + d
          BY <1>2, <2>2
    <3> QED
        BY <1>10, <1>12, <1>13, <2>2, <3>1
  <2> QED
      BY <2>1, <2>2
<1>15. all = [i \in 1 .. m |-> IF i <= o THEN record(i) ELSE record(i + d)]
  <2>1. all \in [1 .. m -> LogRecord]
        BY <1>12, <1>13, LenProperties
  <2> QED
      BY <1>14, <2>1
<1> QED
    BY <1>1, <1>5, <1>8, <1>13, <1>15

\* Finish makes of the buffer what summaryOf says.
LEMMA SummaryOfBuffer ==
    ASSUME NEW m \in Nat \ {0}, NEW t \in Nat
    PROVE  summarised(bufferOf(m, t)) = summaryOf(m, t)
<1>1. CASE t <= m
  <2>1. PICK l : l = [i \in 1 .. t |-> record(i)]
        OBVIOUS
  <2>2. bufferOf(m, t) = [ logs |-> l, numDroppedLogs |-> 0 ]
        BY <1>1, <2>1 DEF bufferOf
  <2>3. summarised([ logs |-> l, numDroppedLogs |-> 0 ]) = l
        BY DEF summarised
  <2>4. summaryOf(m, t) = l
        BY <1>1, <2>1 DEF summaryOf
  <2> QED
      BY <2>2, <2>3, <2>4
<1>2. CASE ~(t <= m)
  <2>1. PICK d \in Nat : t = m + d /\ d # 0
    <3>1. t - m \in Nat /\ t = m + (t - m) /\ t - m # 0
          BY <1>2
    <3> QED
        BY <3>1
  <2>2. PICK o : o = numOld(m)
        OBVIOUS
  <2>3. o \in Nat /\ o < m
        BY <2>2, OldAndNew
  <2>4. PICK l : l = [i \in 1 .. m |-> record(slot(m, d, i))]
        OBVIOUS
  <2>5. bufferOf(m, t) = [ logs |-> l, numDroppedLogs |-> d ]
        BY <2>1, <2>4, FullBuffer
  <2>6. Len(l) = m
        BY <2>4
  <2>7. PICK whole : whole = SubSeq(l, 1, numOld(m))
                               \o rotateLogBuffer(SubSeq(l, numOld(m) + 1, m), d % numNew(m))
        OBVIOUS
  <2>8. whole = [i \in 1 .. m |-> IF i <= numOld(m) THEN record(i) ELSE record(i + d)]
        BY <2>4, <2>7, Decircularised
  <2>9. summarised([ logs |-> l, numDroppedLogs |-> d ])
          = [whole EXCEPT ![o + 1] = [ time |-> whole[o + 1].time, dropped |-> d + 1 ]]
        BY <2>1, <2>2, <2>6, <2>7 DEF summarised, numNew
  <2>10. whole[o + 1] = record(o + 1 + d)
         BY <2>2, <2>3, <2>8
  <2>11. whole[o + 1].time = o + 1 + d
         BY <2>10 DEF record
  <2>12. PICK last : last = [ time |-> o + 1 + d, dropped |-> d + 1 ]
         OBVIOUS
  <2>13. summarised(bufferOf(m, t)) = [whole EXCEPT ![o + 1] = last]
         BY <2>5, <2>9, <2>11, <2>12
  <2>14. summaryOf(m, t) = [i \in 1 .. m |-> IF i <= o THEN record(i)
                                             ELSE IF i = o + 1 THEN last ELSE record(i + d)]
    <3> DEFINE e(i) == CASE i <= numOld(m) -> record(i)
                         [] i = numOld(m) + 1 -> [ time |-> numOld(m) + (t - (m - 1)),
                                                   dropped |-> t - (m - 1) ]
                         [] OTHER -> record(t - m + i)
    <3>1. summaryOf(m, t) = [i \in 1 .. m |-> e(i)]
          BY <1>2, Zenon DEF summaryOf
    <3>2. o + (t - (m - 1)) = o + 1 + d /\ t - (m - 1) = d + 1
          BY <2>1, <2>3
    <3>3. ASSUME NEW i \in 1 .. m
          PROVE  e(i) = IF i <= o THEN record(i) ELSE IF i = o + 1 THEN last ELSE record(i + d)
      <4>1. CASE i <= o
            BY <2>2, <2>3, <4>1
      <4>2. CASE ~(i <= o) /\ i = o + 1
            BY <2>2, <2>3, <2>12, <3>2, <4>2
      <4>3. CASE ~(i <= o) /\ i # o + 1
        <5>1. t - m + i = i + d
              BY <2>1
        <5> QED
            BY <2>2, <4>3, <5>1
      <4> QED
          BY <4>1, <4>2, <4>3
    <3> HIDE DEF e
    <3> QED
        BY <3>1, <3>3
  <2>15. ASSUME NEW i \in 1 .. m
         PROVE  [whole EXCEPT ![o + 1] = last][i]
                  = IF i <= o THEN record(i) ELSE IF i = o + 1 THEN last ELSE record(i + d)
    <3>1. whole[i] = IF i <= o THEN record(i) ELSE record(i + d)
          BY <2>2, <2>8
    <3> QED
        BY <2>3, <2>8, <3>1
  <2>16. [whole EXCEPT ![o + 1] = last]
           = [i \in 1 .. m |-> [whole EXCEPT ![o + 1] = last][i]]
         BY <2>8
  <2> QED
      BY <2>13, <2>14, <2>15, <2>16
<1> QED
    BY <1>1, <1>2

-----------------------------------------------------------------------------
\* The invariant.  Until Finish the buffer is the one that so many records leave,
\* and nothing is recorded; from then on the logs are their summary, and what was
\* recorded is what the span has.
SpanInv ==
    /\ maxLogsPerSpan \in LogLimits /\ dropSpanLogs \in DropModes
    /\ finished \in BOOLEAN
    /\ attributes \in [Fields -> Values \cup {NoValue}]
    /\ logged \in 0 .. MaxLogs
    /\ ~finished => /\ buffered = bufferOf(maxLogsPerSpan, logged)
                    /\ recorded = << >>
    /\ finished => /\ logs = summaryOf(maxLogsPerSpan, logged)
                   /\ numDroppedLogs \in Nat
                   /\ recorded = << [ attributes |-> attributes, logs |-> logs ] >>

\* A sequence of records written as a function.
LEMMA RecordsType ==
    ASSUME NEW n \in Nat, NEW f, f = [i \in 1 .. n |-> f[i]],
           \A i \in 1 .. n : f[i] \in LogRecord
    PROVE  f \in Seq(LogRecord) /\ Len(f) = n
<1>1. f \in [1 .. n -> LogRecord]
      OBVIOUS
<1> QED
    BY <1>1

\* The buffer holds log records, and no more than MaxLogsPerSpan.
LEMMA BufferType ==
    ASSUME NEW m \in Nat \ {0}, NEW t \in Nat
    PROVE  /\ bufferOf(m, t).logs \in Seq(LogRecord) /\ Len(bufferOf(m, t).logs) <= m
           /\ bufferOf(m, t).numDroppedLogs \in Nat
<1>1. CASE t <= m
  <2>1. PICK l : l = [i \in 1 .. t |-> record(i)]
        OBVIOUS
  <2>2. bufferOf(m, t).logs = l /\ bufferOf(m, t).numDroppedLogs = 0
        BY <1>1, <2>1 DEF bufferOf
  <2>3. l = [i \in 1 .. t |-> l[i]] /\ \A i \in 1 .. t : l[i] = record(i)
        BY <2>1
  <2>4. \A i \in 1 .. t : l[i] \in LogRecord
        BY <2>3, RecordType
  <2>5. l \in Seq(LogRecord) /\ Len(l) = t
        BY <2>3, <2>4, RecordsType
  <2> QED
      BY <1>1, <2>2, <2>5
<1>2. CASE ~(t <= m)
  <2>1. PICK d \in Nat : t = m + d
    <3>1. t - m \in Nat /\ t = m + (t - m)
          BY <1>2
    <3> QED
        BY <3>1
  <2>2. PICK l : l = [i \in 1 .. m |-> record(slot(m, d, i))]
        OBVIOUS
  <2>3. bufferOf(m, t) = [ logs |-> l, numDroppedLogs |-> d ]
        BY <2>1, <2>2, FullBuffer
  <2>4. l = [i \in 1 .. m |-> l[i]] /\ \A i \in 1 .. m : l[i] = record(slot(m, d, i))
        BY <2>2
  <2>5. \A i \in 1 .. m : l[i] \in LogRecord
        BY <2>4, SlotType, RecordType
  <2>6. l \in Seq(LogRecord) /\ Len(l) = m
        BY <2>4, <2>5, RecordsType
  <2> QED
      BY <2>3, <2>6
<1> QED
    BY <1>1, <1>2

\* What the runs' properties need of the constants.
LEMMA LimitType ==
    ASSUME SpanInv
    PROVE  maxLogsPerSpan \in Nat \ {0} /\ logged \in Nat
BY SpanAssumption DEF SpanInv

\* A new span.
LEMMA SpanInit == Init => SpanInv
<1> SUFFICES ASSUME Init
             PROVE  SpanInv
    OBVIOUS
<1>1. maxLogsPerSpan \in Nat \ {0} /\ MaxLogs \in Nat
      BY SpanAssumption DEF Init
<1>2. << >> = [i \in 1 .. 0 |-> record(i)]
      OBVIOUS
<1>3. bufferOf(maxLogsPerSpan, 0) = [ logs |-> << >>, numDroppedLogs |-> 0 ]
      BY <1>1, <1>2 DEF bufferOf
<1>4. attributes \in [Fields -> Values \cup {NoValue}]
      BY DEF Init
<1>5. /\ maxLogsPerSpan \in LogLimits /\ dropSpanLogs \in DropModes
      /\ finished = FALSE /\ recorded = << >> /\ logged = 0
      /\ buffered = [ logs |-> << >>, numDroppedLogs |-> 0 ]
      BY DEF Init, buffered
<1>6. logged \in 0 .. MaxLogs
      BY <1>1, <1>5
<1> QED
    BY <1>3, <1>4, <1>5, <1>6, Zenon DEF SpanInv

\* A setter.
LEMMA SetStep ==
    ASSUME SpanInv, NEW f \in Fields, NEW v \in Values, Set(f, v)
    PROVE  SpanInv'
<1>1. attributes' \in [Fields -> Values \cup {NoValue}]
      BY DEF SpanInv, Set
<1>2. /\ UNCHANGED << maxLogsPerSpan, dropSpanLogs, finished, logs, numDroppedLogs,
                      recorded, logged >>
      /\ ~finished
      BY DEF Set, options, mutable
<1>3. buffered' = buffered
      BY <1>2 DEF buffered
<1>4. bufferOf(maxLogsPerSpan, logged)' = bufferOf(maxLogsPerSpan, logged)
      BY <1>2 DEF bufferOf, record, slot, numNew, numOld
<1> QED
    BY <1>1, <1>2, <1>3, <1>4 DEF SpanInv

\* LogFields.
LEMMA LogFieldsStep ==
    ASSUME SpanInv, LogFields
    PROVE  SpanInv'
<1>1. maxLogsPerSpan \in Nat \ {0} /\ logged \in Nat
      BY LimitType
<1>2. PICK m \in Nat \ {0}, t \in Nat : m = maxLogsPerSpan /\ t = logged
      BY <1>1
<1>3. /\ ~finished /\ t < MaxLogs /\ logged' = t + 1
      /\ UNCHANGED << maxLogsPerSpan, dropSpanLogs, finished, attributes, recorded >>
      BY <1>2 DEF LogFields, options, mutable
<1>4. buffered = bufferOf(m, t) /\ recorded = << >>
      BY <1>2, <1>3 DEF SpanInv
<1>5. appendLog(bufferOf(m, t), record(t + 1)) = bufferOf(m, t + 1)
      BY <1>2, AppendBuffer
<1>6. PICK b : b = bufferOf(m, t + 1)
      OBVIOUS
<1>7. logs' = b.logs /\ numDroppedLogs' = b.numDroppedLogs
      BY <1>2, <1>3, <1>4, <1>5, <1>6, Zenon DEF LogFields
<1>8. b = [ logs |-> b.logs, numDroppedLogs |-> b.numDroppedLogs ]
      BY <1>6 DEF bufferOf
<1>9. buffered' = b
      BY <1>7, <1>8 DEF buffered
<1>10. bufferOf(maxLogsPerSpan, logged)' = b
       BY <1>2, <1>3, <1>6
<1>11. t + 1 \in 0 .. MaxLogs
       BY <1>3, SpanAssumption
<1> QED
    BY <1>3, <1>4, <1>9, <1>10, <1>11 DEF SpanInv

\* Finish.
LEMMA FinishStep ==
    ASSUME SpanInv, NEW n \in 0 .. MaxLogs, FinishWithOptions(n)
    PROVE  SpanInv'
<1>1. maxLogsPerSpan \in Nat \ {0} /\ logged \in Nat /\ n \in Nat
      BY LimitType, SpanAssumption
<1>2. PICK m \in Nat \ {0}, t \in Nat : m = maxLogsPerSpan /\ t = logged
      BY <1>1
<1>3. /\ ~finished /\ t + n <= MaxLogs /\ logged' = t + n /\ finished' = TRUE
      /\ UNCHANGED << maxLogsPerSpan, dropSpanLogs, attributes >>
      /\ recorded' = Append(recorded, [ attributes |-> attributes, logs |-> logs' ])
      BY <1>2 DEF FinishWithOptions, options, mutable
<1>4. buffered = bufferOf(maxLogsPerSpan, logged) /\ recorded = << >>
      BY <1>3 DEF SpanInv
<1>5. appendLogs(n) = bufferOf(m, t + n)
      BY <1>1, <1>2, <1>4, AppendedBuffer
<1>6. t + n \in Nat
      BY <1>1
<1>7. /\ numDroppedLogs' = bufferOf(m, t + n).numDroppedLogs
      /\ logs' = summarised(bufferOf(m, t + n))
      BY <1>5, Zenon DEF FinishWithOptions
<1>8. numDroppedLogs' \in Nat
      BY <1>6, <1>7, BufferType
<1>9. logs' = summaryOf(m, t + n)
      BY <1>6, <1>7, SummaryOfBuffer
<1>10. summaryOf(maxLogsPerSpan, logged)' = summaryOf(m, t + n)
       BY <1>2, <1>3
<1>11. recorded' = << [ attributes |-> attributes', logs |-> logs' ] >>
       BY <1>3, <1>4
<1>12. t + n \in 0 .. MaxLogs
       BY <1>3, <1>6, SpanAssumption
<1>13. /\ maxLogsPerSpan' \in LogLimits /\ dropSpanLogs' \in DropModes
       /\ attributes' \in [Fields -> Values \cup {NoValue}]
       BY <1>3 DEF SpanInv
<1> QED
    BY <1>3, <1>8, <1>9, <1>10, <1>11, <1>12, <1>13 DEF SpanInv

\* Stuttering.
LEMMA StutterStep ==
    ASSUME SpanInv, UNCHANGED vars
    PROVE  SpanInv'
<1>1. UNCHANGED << maxLogsPerSpan, dropSpanLogs, finished, attributes, logs, numDroppedLogs,
                   recorded, logged >>
      BY DEF vars, options
<1>2. buffered' = buffered
      BY <1>1 DEF buffered
<1>3. /\ bufferOf(maxLogsPerSpan, logged)' = bufferOf(maxLogsPerSpan, logged)
      /\ summaryOf(maxLogsPerSpan, logged)' = summaryOf(maxLogsPerSpan, logged)
      BY <1>1
<1> QED
    BY <1>1, <1>2, <1>3 DEF SpanInv

\* The invariant holds, whatever setters, loggers and Finish interleave, for every
\* MaxLogsPerSpan and every number of records.
THEOREM SpanInvariance == Spec => []SpanInv
<1>1. Init => SpanInv
      BY SpanInit
<1>2. SpanInv /\ [Next]_vars => SpanInv'
      BY SetStep, LogFieldsStep, FinishStep, StutterStep DEF Next
<1> QED
    BY <1>1, <1>2, PTL DEF Spec

\* A summary is no longer than the buffer.
LEMMA SummaryType ==
    ASSUME NEW m \in Nat \ {0}, NEW t \in Nat
    PROVE  summaryOf(m, t) \in Seq(LogRecord) /\ Len(summaryOf(m, t)) <= m
<1>1. CASE t <= m
  <2>1. PICK l : l = [i \in 1 .. t |-> record(i)]
        OBVIOUS
  <2>2. l = [i \in 1 .. t |-> l[i]] /\ \A i \in 1 .. t : l[i] = record(i)
        BY <2>1
  <2>3. \A i \in 1 .. t : l[i] \in LogRecord
        BY <2>2, RecordType
  <2>4. l \in Seq(LogRecord) /\ Len(l) = t
        BY <2>2, <2>3, RecordsType
  <2>5. summaryOf(m, t) = l
        BY <1>1, <2>1 DEF summaryOf
  <2> QED
      BY <1>1, <2>4, <2>5
<1>2. CASE ~(t <= m)
  <2> DEFINE e(i) == CASE i <= numOld(m) -> record(i)
                       [] i = numOld(m) + 1 -> [ time |-> numOld(m) + (t - (m - 1)),
                                                 dropped |-> t - (m - 1) ]
                       [] OTHER -> record(t - m + i)
  <2>1. PICK l : l = [i \in 1 .. m |-> e(i)]
        OBVIOUS
  <2>2. summaryOf(m, t) = l
        BY <1>2, <2>1, Zenon DEF summaryOf
  <2>3. PICK o : o = numOld(m)
        OBVIOUS
  <2>4. o \in Nat
        BY <2>3, OldAndNew
  <2>5. ASSUME NEW i \in 1 .. m
        PROVE  e(i) \in LogRecord
    <3>1. CASE i <= o
      <4>1. e(i) = record(i)
            BY <2>3, <2>4, <3>1
      <4> QED
          BY <4>1, RecordType
    <3>2. CASE i = o + 1
      <4>1. e(i) = [ time |-> o + (t - (m - 1)), dropped |-> t - (m - 1) ]
            BY <2>3, <2>4, <3>2
      <4>2. o + (t - (m - 1)) \in Nat /\ t - (m - 1) \in Nat
            BY <1>2, <2>4
      <4> QED
          BY <4>1, <4>2 DEF LogRecord
    <3>3. CASE ~(i <= o) /\ i # o + 1
      <4>1. e(i) = record(t - m + i)
            BY <2>3, <2>4, <3>3
      <4>2. t - m + i \in Nat
            BY <1>2
      <4> QED
          BY <4>1, <4>2, RecordType
    <3> QED
        BY <3>1, <3>2, <3>3
  <2> HIDE DEF e
  <2>6. l = [i \in 1 .. m |-> l[i]] /\ \A i \in 1 .. m : l[i] \in LogRecord
        BY <2>1, <2>5
  <2>7. l \in Seq(LogRecord) /\ Len(l) = m
        BY <2>6, RecordsType
  <2> QED
      BY <2>2, <2>7
<1> QED
    BY <1>1, <1>2

\* A span holds no more than MaxLogsPerSpan records, before Finish and after it.
THEOREM SpanTyped == Spec => []TypeOK
<1>1. SpanInv => TypeOK
  <2> SUFFICES ASSUME SpanInv
               PROVE  TypeOK
      OBVIOUS
  <2>1. maxLogsPerSpan \in Nat \ {0} /\ logged \in Nat
        BY LimitType
  <2>2. CASE finished
    <3>1. logs \in Seq(LogRecord) /\ Len(logs) <= maxLogsPerSpan /\ numDroppedLogs \in Nat
          BY <2>1, <2>2, SummaryType DEF SpanInv
    <3> QED
        BY <3>1 DEF SpanInv, TypeOK
  <2>3. CASE ~finished
    <3>1. logs = bufferOf(maxLogsPerSpan, logged).logs
          /\ numDroppedLogs = bufferOf(maxLogsPerSpan, logged).numDroppedLogs
          BY <2>3 DEF SpanInv, buffered
    <3>2. logs \in Seq(LogRecord) /\ Len(logs) <= maxLogsPerSpan /\ numDroppedLogs \in Nat
          BY <2>1, <3>1, BufferType
    <3> QED
        BY <3>2 DEF SpanInv, TypeOK
  <2> QED
      BY <2>2, <2>3
<1> QED
    BY <1>1, SpanInvariance, PTL

\* What Finish leaves of the logs: all of them in order if they fit; otherwise the
\* oldest, one record that counts the missing ones exactly, and the newest in order.
THEOREM SummaryExact == Spec => []LogsSummarised
<1>1. SpanInv => LogsSummarised
      BY Zenon DEF SpanInv, LogsSummarised, summaryOf
<1> QED
    BY <1>1, SpanInvariance, PTL

\* The recorder is given a span once, and no later call changes what it was given.
THEOREM RecordedOnceForGood == Spec => []RecordedForGood
<1>1. SpanInv => RecordedForGood
  <2>1. CASE finished
        BY <2>1 DEF SpanInv, RecordedForGood
  <2>2. CASE ~finished
        BY <2>2 DEF SpanInv, RecordedForGood
  <2> QED
      BY <2>1, <2>2
<1> QED
    BY <1>1, SpanInvariance, PTL
=============================================================================
