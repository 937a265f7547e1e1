-------------------------- MODULE PropagationProofs -------------------------
(***************************************************************************)
(* The numbers in headers are read as they were written, for every base    *)
(* and width: strconv.FormatUint without leading zeros, and the padded     *)
(* numbers of other libraries.                                             *)
(***************************************************************************)
EXTENDS Propagation, SequenceTheorems, WellFoundedInduction, TLAPS

-----------------------------------------------------------------------------
(***************************************************************************)
(* Induction over numbers, for sets of them                                *)
(***************************************************************************)

\* A set of natural numbers that is not empty has a least element.
LEMMA LeastNumber ==
    ASSUME NEW T \in SUBSET Nat, T # {}
    PROVE  \E m \in T : \A k \in T : m <= k
<1> DEFINE R == OpToRel(<, Nat)
<1>1. IsWellFoundedOn(R, Nat)
      BY NatLessThanWellFounded
<1>2. \A x, y \in Nat : << x, y >> \in R <=> x < y
      BY DEF OpToRel
<1> HIDE DEF R
<1>3. PICK x \in T : \A y \in T : ~(<< y, x >> \in R)
      BY <1>1, WFMin
<1>4. ASSUME NEW k \in T PROVE x <= k
  <2>1. x \in Nat /\ k \in Nat /\ ~(k < x)
        BY <1>2, <1>3
  <2> QED
      BY <2>1
<1> QED
    BY <1>4

\* A set with 0 and with every successor, up to a limit, has all numbers up to it.
LEMMA UpTo ==
    ASSUME NEW n \in Nat, NEW S, 0 \in S, \A i \in 0 .. n - 1 : i \in S => i + 1 \in S
    PROVE  0 .. n \subseteq S
<1> SUFFICES ASSUME NEW j \in 0 .. n, j \notin S
             PROVE  FALSE
    OBVIOUS
<1> DEFINE T == {i \in 0 .. n : i \notin S}
<1>1. T \in SUBSET Nat /\ T # {}
      OBVIOUS
<1>2. PICK m \in T : \A k \in T : m <= k
      BY <1>1, LeastNumber
<1>3. m # 0 /\ m - 1 \in 0 .. n - 1 /\ m - 1 \notin T
      BY <1>2
<1> QED
    BY <1>2, <1>3

-----------------------------------------------------------------------------
(***************************************************************************)
(* Powers and quotients                                                    *)
(***************************************************************************)

\* The powers of the base are positive.
LEMMA PowerType == \A k \in 0 .. Digits : Base ^ k \in Nat \ {0}
<1> DEFINE S == {k \in Nat : Base ^ k \in Nat \ {0}}
<1>1. Digits \in Nat /\ Base \in Nat \ {0}
      BY PropagationAssumption
<1>2. 0 \in S
      BY PropagationAssumption
<1>3. ASSUME NEW i \in 0 .. Digits - 1, i \in S
      PROVE  i + 1 \in S
  <2>1. Base ^ (i + 1) = Base * Base ^ i
        BY PropagationAssumption
  <2>2. ASSUME NEW a \in Nat \ {0}, NEW b \in Nat \ {0} PROVE a * b \in Nat \ {0}
        OBVIOUS
  <2> QED
      BY <1>1, <1>3, <2>1, <2>2
<1> HIDE DEF S
<1>4. 0 .. Digits \subseteq S
      BY <1>1, <1>2, <1>3, UpTo
<1> QED
    BY <1>4 DEF S

\* Quotient and remainder are the only ones.
LEMMA QuotientUnique ==
    ASSUME NEW n \in Nat, NEW p \in Nat \ {0}, NEW q \in Nat, NEW r \in 0 .. p - 1,
           n = p * q + r
    PROVE  n \div p = q
OBVIOUS

\* Dividing twice.
LEMMA QuotientStep ==
    ASSUME NEW n \in Nat, NEW p \in Nat \ {0}, NEW b \in Nat \ {0}
    PROVE  n \div p = (n \div (b * p)) * b + ((n \div p) % b)
<1>1. PICK q \in Nat, r \in 0 .. p - 1 : q = n \div p /\ n = p * q + r
  <2>1. n \div p \in Nat /\ n % p \in 0 .. p - 1 /\ n = p * (n \div p) + (n % p)
        OBVIOUS
  <2> QED
      BY <2>1
<1>2. PICK c \in Nat, d \in 0 .. b - 1 : c = q \div b /\ d = q % b /\ q = b * c + d
  <2>1. q \div b \in Nat /\ q % b \in 0 .. b - 1 /\ q = b * (q \div b) + (q % b)
        OBVIOUS
  <2> QED
      BY <2>1
<1>3. b * p \in Nat \ {0} /\ p * d \in Nat
      OBVIOUS
<1>4. n = (b * p) * c + (p * d + r)
  <2>1. p * (b * c + d) = p * (b * c) + p * d
        OBVIOUS
  <2>2. p * (b * c) = (b * p) * c
        OBVIOUS
  <2>3. p * q = (b * p) * c + p * d
        BY <1>2, <2>1, <2>2
  <2> QED
      BY <1>1, <1>3, <2>3
<1>5. p * d + r \in 0 .. b * p - 1
  <2>1. p * d <= p * (b - 1)
        OBVIOUS
  <2>2. p * (b - 1) = b * p - p
        OBVIOUS
  <2> QED
      BY <1>3, <2>1, <2>2
<1>6. n \div (b * p) = c
  <2>1. PICK m \in Nat \ {0}, e \in Nat : m = b * p /\ e = p * d + r /\ e \in 0 .. m - 1
        BY <1>3, <1>5
  <2>2. n = m * c + e
        BY <1>4, <2>1
  <2>3. n \div m = c
        BY <2>1, <2>2, QuotientUnique
  <2> QED
      BY <2>1, <2>3
<1>7. b * c = c * b
      OBVIOUS
<1>8. q = (n \div (b * p)) * b + (q % b)
      BY <1>2, <1>6, <1>7
<1> QED
    BY <1>1, <1>8

-----------------------------------------------------------------------------
(***************************************************************************)
(* Parsing                                                                 *)
(***************************************************************************)

\* ParseUint computes the value that the partial values w lead to.
LEMMA ParseValue ==
    ASSUME NEW v, Len(v) \in Nat, NEW w,
           w[0] = 0, \A i \in 1 .. Len(v) : w[i] = w[i - 1] * Base + v[i]
    PROVE  ParseUint(v) = IF v # << >> /\ w[Len(v)] \in Uint64 THEN w[Len(v)] ELSE Bad
<1> DEFINE value[i \in 0 .. Len(v)] == IF i = 0 THEN 0 ELSE value[i - 1] * Base + v[i]
           g == [i \in 0 .. Len(v) |-> w[i]]
<1>1. g = [i \in 0 .. Len(v) |-> IF i = 0 THEN 0 ELSE g[i - 1] * Base + v[i]]
  <2>1. ASSUME NEW i \in 0 .. Len(v)
        PROVE  w[i] = IF i = 0 THEN 0 ELSE g[i - 1] * Base + v[i]
    <3>1. CASE i = 0
          BY <3>1
    <3>2. CASE i # 0
      <4>1. i \in 1 .. Len(v) /\ i - 1 \in 0 .. Len(v)
            BY <3>2
      <4>2. g[i - 1] = w[i - 1]
            BY <4>1
      <4> HIDE DEF g
      <4> QED
          BY <3>2, <4>1, <4>2
    <3> QED
        BY <3>1, <3>2
  <2> HIDE DEF value
  <2> QED
      BY <2>1
<1>2. value = [i \in 0 .. Len(v) |-> IF i = 0 THEN 0 ELSE value[i - 1] * Base + v[i]]
      BY <1>1, Zenon
<1>3. ParseUint(v) = IF v # << >> /\ value[Len(v)] \in Uint64 THEN value[Len(v)] ELSE Bad
      BY DEF ParseUint
<1> HIDE DEF value
<1> DEFINE S == {i \in 0 .. Len(v) : value[i] = w[i]}
<1>4. 0 \in S
      BY <1>2
<1>5. ASSUME NEW i \in 0 .. Len(v) - 1, i \in S
      PROVE  i + 1 \in S
  <2>1. i + 1 \in 1 .. Len(v) /\ (i + 1) - 1 = i /\ i + 1 # 0
        OBVIOUS
  <2>2. value[i + 1] = value[i] * Base + v[i + 1]
        BY <1>2, <2>1
  <2>3. w[i + 1] = w[i] * Base + v[i + 1]
        BY <2>1
  <2> QED
      BY <1>5, <2>1, <2>2, <2>3
<1> HIDE DEF S
<1>6. 0 .. Len(v) \subseteq S
      BY <1>4, <1>5, UpTo
<1>7. value[Len(v)] = w[Len(v)]
      BY <1>6 DEF S
<1> QED
    BY <1>3, <1>7

\* A number of no more than k digits.
Fits(n, k) == n \in Nat /\ k \in 1 .. Digits /\ n < Base ^ k

\* Its first digits are a quotient of it.
LEMMA FirstDigits ==
    ASSUME NEW n, NEW k, Fits(n, k)
    PROVE  /\ n \div Base ^ k = 0
           /\ n \div Base ^ (k - k) = n
           /\ \A i \in 1 .. k : n \div Base ^ (k - i)
                                 = (n \div Base ^ (k - (i - 1))) * Base + digitsOf(n, k)[i]
<1>1. /\ n \in Nat /\ k \in 1 .. Digits /\ n < Base ^ k
      /\ Base \in Nat \ {0} /\ Digits \in Nat
      BY PropagationAssumption DEF Fits
<1>2. n \div Base ^ k = 0
  <2>1. PICK p \in Nat \ {0} : p = Base ^ k
        BY <1>1, PowerType
  <2>2. n \div p = 0
        BY <1>1, <2>1
  <2> QED
      BY <2>1, <2>2
<1>3. n \div Base ^ (k - k) = n
  <2>1. k - k = 0
        BY <1>1
  <2>2. Base ^ (k - k) = 1
        BY <2>1, PropagationAssumption
  <2> QED
      BY <1>1, <2>2
<1>4. ASSUME NEW i \in 1 .. k
      PROVE  n \div Base ^ (k - i)
               = (n \div Base ^ (k - (i - 1))) * Base + digitsOf(n, k)[i]
  <2>1. k - i \in 0 .. Digits - 1 /\ k - i \in 0 .. Digits /\ (k - i) + 1 = k - (i - 1)
        BY <1>1
  <2>2. Base ^ (k - (i - 1)) = Base * Base ^ (k - i)
    <3>1. Base ^ ((k - i) + 1) = Base * Base ^ (k - i)
          BY <2>1, PropagationAssumption
    <3> QED
        BY <2>1, <3>1
  <2>3. PICK p \in Nat \ {0} : p = Base ^ (k - i)
        BY <2>1, PowerType
  <2>4. digitsOf(n, k)[i] = (n \div p) % Base
        BY <2>3 DEF digitsOf
  <2>5. n \div p = (n \div (Base * p)) * Base + ((n \div p) % Base)
        BY <1>1, QuotientStep
  <2> QED
      BY <2>2, <2>3, <2>4, <2>5
<1> QED
    BY <1>2, <1>3, <1>4

\* The digits are a sequence of that length.
LEMMA DigitsType ==
    ASSUME NEW n \in Nat, NEW k \in 0 .. Digits
    PROVE  /\ digitsOf(n, k) \in Seq(Nat) /\ Len(digitsOf(n, k)) = k
           /\ DOMAIN digitsOf(n, k) = 1 .. k
<1>1. k \in Nat /\ Base \in Nat \ {0} /\ Digits \in Nat
      BY PropagationAssumption
<1>2. ASSUME NEW i \in 1 .. k
      PROVE  (n \div Base ^ (k - i)) % Base \in Nat
  <2>1. k - i \in 0 .. Digits
        BY <1>1
  <2>2. PICK p \in Nat \ {0} : p = Base ^ (k - i)
        BY <2>1, PowerType
  <2>3. (n \div p) % Base \in Nat
        BY <1>1
  <2> QED
      BY <2>2, <2>3
<1>3. digitsOf(n, k) \in [1 .. k -> Nat]
      BY <1>2 DEF digitsOf
<1> QED
    BY <1>1, <1>3, SeqDef

\* Zeros before a number do not change it.
LEMMA ParsePadded ==
    ASSUME NEW n \in Uint64, NEW k, Fits(n, k), NEW z \in Nat, NEW v \in Seq(Nat),
           Len(v) = z + k,
           \A i \in 1 .. z : v[i] = 0,
           \A i \in 1 .. k : v[z + i] = digitsOf(n, k)[i]
    PROVE  ParseUint(v) = n
<1> DEFINE w == [i \in 0 .. z + k |-> IF i <= z THEN 0 ELSE n \div Base ^ (k - (i - z))]
<1>1. /\ n \in Nat /\ k \in 1 .. Digits /\ k \in Nat /\ Digits \in Nat
      /\ Base \in Nat \ {0}
      BY PropagationAssumption DEF Fits
<1>2. w[0] = 0
      BY <1>1
<1>3. ASSUME NEW i \in 1 .. Len(v)
      PROVE  w[i] = w[i - 1] * Base + v[i]
  <2>1. i \in 0 .. z + k /\ i - 1 \in 0 .. z + k
        BY <1>1
  <2>2. CASE i <= z
        BY <1>1, <2>1, <2>2
  <2>3. CASE i > z
    <3>1. PICK j \in 1 .. k : i = z + j
      <4>1. i - z \in 1 .. k /\ i = z + (i - z)
            BY <1>1, <2>3
      <4> QED
          BY <4>1
    <3>2. v[i] = digitsOf(n, k)[j]
          BY <3>1
    <3>3. i - z = j /\ (i - 1) - z = j - 1
          BY <1>1, <3>1
    <3>4. w[i] = n \div Base ^ (k - j)
          BY <2>1, <2>3, <3>3
    <3>5. w[i - 1] = n \div Base ^ (k - (j - 1))
      <4>1. CASE j = 1
        <5>1. k - (j - 1) = k /\ i - 1 <= z
              BY <1>1, <4>1, <3>1
        <5>2. n \div Base ^ k = 0
              BY FirstDigits
        <5> QED
            BY <2>1, <5>1, <5>2
      <4>2. CASE j # 1
        <5>1. ~(i - 1 <= z)
              BY <1>1, <3>1, <4>2
        <5> QED
            BY <2>1, <3>3, <5>1
      <4> QED
          BY <4>1, <4>2
    <3> HIDE DEF w
    <3> QED
        BY <3>2, <3>4, <3>5, FirstDigits
  <2> QED
      BY <1>1, <2>2, <2>3
<1>4. w[Len(v)] = n
  <2>1. w[z + k] = n \div Base ^ (k - k)
    <3>1. z + k \in 0 .. z + k /\ ~(z + k <= z) /\ (z + k) - z = k
          BY <1>1
    <3> QED
        BY <3>1
  <2> HIDE DEF w
  <2> QED
      BY <2>1, FirstDigits
<1> HIDE DEF w
<1>5. v # << >> /\ Len(v) \in Nat
      BY <1>1
<1>6. ParseUint(v) = IF v # << >> /\ w[Len(v)] \in Uint64 THEN w[Len(v)] ELSE Bad
      BY <1>2, <1>3, <1>5, ParseValue
<1> QED
    BY <1>4, <1>5, <1>6

\* Zero is a number of 64 bits.
LEMMA ZeroIsUint64 == 0 \in Uint64
<1>1. Digits \in 0 .. Digits
      BY PropagationAssumption
<1>2. PICK q \in Nat \ {0} : q = Base ^ Digits
      BY <1>1, PowerType
<1> QED
    BY <1>2 DEF Uint64

\* Digits that follow no zeros are read as their number.
LEMMA ParseSame ==
    ASSUME NEW n \in Uint64, NEW k, Fits(n, k), NEW v \in Seq(Nat), Len(v) = k,
           \A i \in 1 .. k : v[i] = digitsOf(n, k)[i]
    PROVE  ParseUint(v) = n
<1>1. k \in Nat
      BY PropagationAssumption DEF Fits
<1>2. Len(v) = 0 + k /\ \A i \in 1 .. k : v[0 + i] = digitsOf(n, k)[i]
      BY <1>1
<1>3. \A i \in 1 .. 0 : v[i] = 0
      OBVIOUS
<1> QED
    BY <1>2, <1>3, ParsePadded

\* The digits of a number give back the number.
LEMMA ParseDigits ==
    ASSUME NEW n \in Uint64, NEW k, Fits(n, k)
    PROVE  ParseUint(digitsOf(n, k)) = n
<1>1. n \in Nat /\ k \in 0 .. Digits
      BY PropagationAssumption DEF Fits
<1>2. digitsOf(n, k) \in Seq(Nat) /\ Len(digitsOf(n, k)) = k
      BY <1>1, DigitsType
<1> QED
    BY <1>2, ParseSame

\* The digits of 0 are zeros.
LEMMA ZeroDigits ==
    ASSUME NEW k \in 0 .. Digits, NEW i \in 1 .. k
    PROVE  digitsOf(0, k)[i] = 0
<1>1. Digits \in Nat /\ Base \in Nat \ {0, 1} /\ k - i \in 0 .. Digits
      BY PropagationAssumption
<1>2. PICK p \in Nat \ {0} : p = Base ^ (k - i)
      BY <1>1, PowerType
<1>3. (0 \div p) % Base = 0
      BY <1>1
<1> QED
    BY <1>2, <1>3 DEF digitsOf

\* Zeros, and at least one, are 0.
LEMMA ParseZeros ==
    ASSUME NEW v \in Seq(Nat), NEW m \in 1 .. Digits, Len(v) = m,
           \A i \in 1 .. m : v[i] = 0
    PROVE  ParseUint(v) = 0
<1>1. Digits \in Nat /\ m \in 0 .. Digits
      BY PropagationAssumption
<1>2. PICK p \in Nat \ {0} : p = Base ^ m
      BY <1>1, PowerType
<1>3. Fits(0, m)
      BY <1>2 DEF Fits
<1>4. \A i \in 1 .. m : v[i] = digitsOf(0, m)[i]
      BY <1>1, ZeroDigits
<1> QED
    BY <1>3, <1>4, ZeroIsUint64, ParseSame

-----------------------------------------------------------------------------
(***************************************************************************)
(* Formatting                                                              *)
(***************************************************************************)

\* Numbers of 64 bits fit into the digits of 64 bits.
LEMMA Uint64Fits ==
    ASSUME NEW n \in Uint64
    PROVE  n \in Nat /\ Fits(n, Digits)
<1>1. Digits \in Nat \ {0, 1} /\ Base ^ Digits \in Nat \ {0}
      BY PropagationAssumption, PowerType
<1>2. n \in 0 .. Base ^ Digits - 1
      BY DEF Uint64
<1>3. PICK p \in Nat \ {0} : p = Base ^ Digits
      BY <1>1
<1>4. n \in 0 .. p - 1
      BY <1>2, <1>3
<1> QED
    BY <1>1, <1>3, <1>4 DEF Fits

\* FormatUint writes the digits that a number has.
LEMMA FormatDigits ==
    ASSUME NEW n \in Uint64
    PROVE  \E k \in 1 .. Digits : Fits(n, k) /\ FormatUint(n) = digitsOf(n, k)
<1> DEFINE P(k) == n < Base ^ k /\ (k > 1 => n >= Base ^ (k - 1))
           T == {k \in 1 .. Digits : n < Base ^ k}
<1>1. n \in Nat /\ Digits \in Nat \ {0, 1} /\ n < Base ^ Digits
      BY Uint64Fits, PropagationAssumption DEF Fits
<1>2. T \in SUBSET Nat /\ T # {}
      BY <1>1
<1>3. PICK m \in T : \A k \in T : m <= k
      BY <1>2, LeastNumber
<1>4. P(m)
  <2>1. CASE m > 1
    <3>1. m - 1 \in 1 .. Digits /\ m - 1 \notin T /\ m - 1 \in 0 .. Digits
          BY <1>1, <1>3, <2>1
    <3>2. ~(n < Base ^ (m - 1))
          BY <3>1
    <3>3. PICK p \in Nat \ {0} : p = Base ^ (m - 1)
          BY <3>1, PowerType
    <3>4. n >= p
          BY <1>1, <3>2, <3>3
    <3> QED
        BY <1>3, <3>3, <3>4
  <2>2. CASE ~(m > 1)
        BY <1>3, <2>2
  <2> QED
      BY <2>1, <2>2
<1>5. PICK k \in 1 .. Digits : k = (CHOOSE j \in 1 .. Digits : P(j)) /\ P(k)
      BY <1>3, <1>4, Zenon
<1>6. FormatUint(n) = digitsOf(n, k)
      BY <1>5, Zenon DEF FormatUint
<1> QED
    BY <1>1, <1>5, <1>6 DEF Fits

\* What FormatUint writes, ParseUint reads as the same number, for every base and
\* width.
THEOREM RoundTrip == \A n \in Uint64 : ParseUint(FormatUint(n)) = n
<1> SUFFICES ASSUME NEW n \in Uint64 PROVE ParseUint(FormatUint(n)) = n
    OBVIOUS
<1>1. PICK k \in 1 .. Digits : Fits(n, k) /\ FormatUint(n) = digitsOf(n, k)
      BY FormatDigits
<1>2. ParseUint(digitsOf(n, k)) = n
      BY <1>1, ParseDigits
<1> QED
    BY <1>1, <1>2

\* A B3 trace ID without an upper half is written and read as it is: it is never
\* as long as one with two halves.
LEMMA B3RoundTrip ==
    ASSUME NEW n \in Uint64
    PROVE  b3TraceIDParser(formatTraceID(n, 0)) = [ upper |-> 0, lower |-> n ]
<1>1. PICK k \in 1 .. Digits : Fits(n, k) /\ FormatUint(n) = digitsOf(n, k)
      BY FormatDigits
<1>2. n \in Nat /\ Digits \in Nat \ {0, 1} /\ k \in 0 .. Digits
      BY Uint64Fits, PropagationAssumption
<1>3. Len(FormatUint(n)) = k /\ k # 2 * Digits
      BY <1>1, <1>2, DigitsType
<1>4. ParseUint(FormatUint(n)) = n
      BY RoundTrip
<1> QED
    BY <1>3, <1>4 DEF b3TraceIDParser, formatTraceID

\* The trace ID of another library whose upper half is 0, padded to the length of
\* one half, of two, or to an odd length between.
LEMMA PeerTraceID ==
    ASSUME NEW n \in Uint64, NEW len \in {Digits, 2 * Digits - 1, 2 * Digits}
    PROVE  b3TraceIDParser(digitsOf(0, len - Digits) \o digitsOf(n, Digits))
             = [ upper |-> 0, lower |-> n ]
<1>f. Fits(n, Digits)
      BY Uint64Fits
<1>z. PICK z \in Nat : z = len - Digits
      BY PropagationAssumption
<1>1. /\ Digits \in Nat \ {0, 1} /\ n \in Nat
      /\ z \in 0 .. Digits /\ z \in Nat /\ Digits \in 0 .. Digits /\ len = z + Digits
      BY <1>z, Uint64Fits, PropagationAssumption
<1>2. PICK a \in Seq(Nat) : a = digitsOf(0, z) /\ Len(a) = z
      BY <1>1, DigitsType
<1>3. PICK b \in Seq(Nat) : b = digitsOf(n, Digits) /\ Len(b) = Digits
      BY <1>1, DigitsType
<1>4. \A i \in 1 .. z : a[i] = 0
      BY <1>1, <1>2, ZeroDigits
<1>5. PICK v \in Seq(Nat) : v = a \o b
      BY ConcatProperties
<1>6. /\ Len(v) = Len(a) + Len(b)
      /\ \A i \in 1 .. Len(a) + Len(b) : v[i] = IF i <= Len(a) THEN a[i] ELSE b[i - Len(a)]
  <2>1. \A i \in 1 .. Len(a) + Len(b) :
            (a \o b)[i] = IF i <= Len(a) THEN a[i] ELSE b[i - Len(a)]
        BY ConcatProperties
  <2>2. Len(a \o b) = Len(a) + Len(b)
        BY ConcatProperties
  <2> QED
      BY <1>5, <2>1, <2>2
<1>7. ASSUME NEW i \in 1 .. z
      PROVE  v[i] = 0
  <2>1. i \in 1 .. z + Digits /\ i <= z
        BY <1>1
  <2> QED
      BY <1>2, <1>3, <1>4, <1>6, <2>1
<1>8. ASSUME NEW i \in 1 .. Digits
      PROVE  v[z + i] = digitsOf(n, Digits)[i]
  <2>1. z + i \in 1 .. z + Digits /\ ~(z + i <= z) /\ (z + i) - z = i
        BY <1>1
  <2> QED
      BY <1>2, <1>3, <1>6, <2>1
<1>9. Len(v) = len
      BY <1>1, <1>2, <1>3, <1>6
<1>10. ASSUME len # 2 * Digits
       PROVE  b3TraceIDParser(v) = [ upper |-> 0, lower |-> n ]
  <2>1. Len(v) = z + Digits
        BY <1>1, <1>9
  <2>2. ParseUint(v) = n
        BY <1>f, <1>7, <1>8, <2>1, ParsePadded
  <2> QED
      BY <1>9, <1>10, <2>2 DEF b3TraceIDParser
<1>11. ASSUME len = 2 * Digits
       PROVE  b3TraceIDParser(v) = [ upper |-> 0, lower |-> n ]
  <2>1. z = Digits
        BY <1>1, <1>11
  <2>2. PICK d \in Nat : d = Digits
        BY <1>1
  <2>3. DOMAIN v = 1 .. 2 * d /\ \A i \in 1 .. 2 * d : v[i] \in Nat
        BY <1>9, <1>11, <2>2, LenProperties
  <2>4. ParseUint(SubSeq(v, Digits + 1, 2 * Digits)) = n
    <3>1. d + 1 \in Int /\ 2 * d \in Int /\ \A i \in d + 1 .. 2 * d : v[i] \in Nat
          BY <2>3
    <3>2. /\ SubSeq(v, d + 1, 2 * d) \in Seq(Nat)
          /\ Len(SubSeq(v, d + 1, 2 * d)) = IF d + 1 <= 2 * d THEN 2 * d - (d + 1) + 1 ELSE 0
          /\ \A i \in 1 .. 2 * d - (d + 1) + 1 :
                SubSeq(v, d + 1, 2 * d)[i] = v[(d + 1) + i - 1]
          BY <3>1, SubSeqProperties
    <3>3. PICK l \in Seq(Nat) : l = SubSeq(v, d + 1, 2 * d)
          BY <3>2
    <3>4. Len(l) = d /\ \A i \in 1 .. d : l[i] = v[d + i]
          BY <1>1, <2>2, <3>2, <3>3
    <3>5. Len(l) = Digits /\ \A i \in 1 .. Digits : l[i] = digitsOf(n, Digits)[i]
          BY <1>8, <2>1, <2>2, <3>4
    <3>6. ParseUint(l) = n
          BY <1>f, <3>5, ParseSame
    <3> QED
        BY <2>2, <3>3, <3>6
  <2>5. ParseUint(SubSeq(v, 1, Digits - 1)) = 0
    <3>1. 1 \in Int /\ d - 1 \in Int /\ \A i \in 1 .. d - 1 : v[i] \in Nat
          BY <2>3
    <3>2. PICK m \in 1 .. Digits : m = d - 1
          BY <1>1, <2>2
    <3>3. /\ SubSeq(v, 1, m) \in Seq(Nat)
          /\ Len(SubSeq(v, 1, m)) = IF 1 <= m THEN m - 1 + 1 ELSE 0
          /\ \A i \in 1 .. m - 1 + 1 : SubSeq(v, 1, m)[i] = v[1 + i - 1]
      <4>1. m \in Int /\ \A i \in 1 .. m : v[i] \in Nat
            BY <1>1, <3>1, <3>2
      <4> QED
          BY <3>1, <4>1, SubSeqProperties
    <3>4. PICK u \in Seq(Nat) : u = SubSeq(v, 1, m)
          BY <3>3
    <3>5. Len(u) = m /\ \A i \in 1 .. m : u[i] = v[i]
          BY <1>1, <2>2, <3>3, <3>4, <3>2
    <3>6. ASSUME NEW i \in 1 .. m
          PROVE  u[i] = 0
      <4>1. i \in 1 .. z
            BY <1>1, <2>1, <3>2
      <4> QED
          BY <1>7, <3>5, <4>1
    <3>7. ParseUint(u) = 0
          BY <3>5, <3>6, ParseZeros
    <3> QED
        BY <2>2, <3>4, <3>2, <3>7
  <2> QED
      BY <1>9, <1>11, <2>4, <2>5 DEF b3TraceIDParser
<1> QED
    BY <1>z, <1>2, <1>3, <1>5, <1>10, <1>11
=============================================================================
