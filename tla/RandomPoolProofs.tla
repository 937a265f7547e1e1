-------------------------- MODULE RandomPoolProofs --------------------------
(***************************************************************************)
(* The mutex of a LockedRand makes its draws atomic, for every number of   *)
(* goroutines, every size of the pool and every width of the counter.      *)
(***************************************************************************)
EXTENDS RandomPool, SequenceTheorems, WellFoundedInduction, TLAPS

(***************************************************************************)
(* The inductive invariant                                                 *)
(***************************************************************************)

\* What a goroutine holds and has read.  Nothing is said of a goroutine whose
\* source is not one of the pool's: Pick returns none such (TypeOK).
LocksHeld ==
    \A g \in Goroutines :
        source[g] \in Sources /\ pc[g] \in {"read", "write", "unlock"}
            => lk[source[g]] = g

\* A number that was computed and not yet written is the next of its source:
\* nobody has drawn from the source since.
SeenIsNext ==
    \A g \in Goroutines :
        source[g] \in Sources /\ pc[g] = "write" => seen[g] = position[source[g]]

\* The position of a generator is the number of numbers it gave out.
PositionsCount ==
    \A s \in Sources : numbers[s] \in Seq(Nat) /\ position[s] = Len(numbers[s])

\* The shapes of the variables that a call updates.
Shapes ==
    /\ pc \in [Goroutines -> {"idle", "lock", "read", "write", "unlock"}]
    /\ source = [g \in Goroutines |-> source[g]]
    /\ seen = [g \in Goroutines |-> seen[g]]
    /\ lk = [s \in Sources |-> lk[s]]
    /\ position = [s \in Sources |-> position[s]]
    /\ numbers = [s \in Sources |-> numbers[s]]

\* Two goroutines could only be given the same number if one drew between the
\* other's reading and writing: LocksHeld excludes it, and SeenIsNext and
\* PositionsCount say what is drawn instead.
IInv ==
    /\ Shapes
    /\ LocksHeld
    /\ SeenIsNext
    /\ PositionsCount
    /\ NumbersGivenOnce

-----------------------------------------------------------------------------
\* A new pool: nobody is in a call and nothing was drawn.
LEMMA InitInv ==
    ASSUME Init
    PROVE  IInv
<1>1. Shapes /\ LocksHeld /\ SeenIsNext
      BY DEF Init, Shapes, LocksHeld, SeenIsNext
<1>2. PositionsCount /\ NumbersGivenOnce
      BY DEF Init, PositionsCount, NumbersGivenOnce
<1> QED
    BY <1>1, <1>2 DEF IInv

\* Picking a source and waiting for its mutex leave the generators alone.
LEMMA PickInv ==
    ASSUME IInv, NEW g \in Goroutines, NEW n \in DrawCounts, Pick(g, n)
    PROVE  IInv'
<1> USE DEF IInv, Sources
<1>1. Shapes'
      BY DEF Pick, Shapes
<1>2. LocksHeld' /\ SeenIsNext'
      BY DEF Pick, LocksHeld, SeenIsNext, Shapes
<1>3. PositionsCount' /\ NumbersGivenOnce'
      BY DEF Pick, PositionsCount, NumbersGivenOnce
<1> QED
    BY <1>1, <1>2, <1>3

\* The mutex is free when a goroutine takes it: no other goroutine holds it.
LEMMA LockInv ==
    ASSUME IInv, NEW g \in Goroutines, Lock(g)
    PROVE  IInv'
<1> USE DEF IInv, Sources
<1>1. Shapes'
      BY DEF Lock, Shapes
<1>2. LocksHeld'
      BY PoolAssumption DEF Lock, unlocked, LocksHeld, Shapes
<1>3. SeenIsNext'
      BY DEF Lock, SeenIsNext, Shapes
<1>4. PositionsCount' /\ NumbersGivenOnce'
      BY DEF Lock, PositionsCount, NumbersGivenOnce
<1> QED
    BY <1>1, <1>2, <1>3, <1>4

\* What a goroutine reads is the next number.
LEMMA ReadInv ==
    ASSUME IInv, NEW g \in Goroutines, Read(g)
    PROVE  IInv'
<1> USE DEF IInv, Sources
<1>1. Shapes'
      BY DEF Read, Shapes
<1>2. LocksHeld' /\ SeenIsNext'
      BY DEF Read, LocksHeld, SeenIsNext, Shapes
<1>3. PositionsCount' /\ NumbersGivenOnce'
      BY DEF Read, PositionsCount, NumbersGivenOnce
<1> QED
    BY <1>1, <1>2, <1>3

\* A draw gives the next number out: whoever else has read from the source holds
\* the same mutex, so there is nobody else.
LEMMA WriteInv ==
    ASSUME IInv, NEW g \in Goroutines, Write(g)
    PROVE  IInv'
<1> USE DEF IInv, Sources
<1>1. Shapes'
      BY DEF Write, Shapes
<1>2. LocksHeld'
      BY DEF Write, LocksHeld, Shapes
<1>3. SeenIsNext'
  <2> SUFFICES ASSUME NEW h \in Goroutines, source[h] \in Sources, pc'[h] = "write"
               PROVE  seen'[h] = position'[source[h]]
      BY DEF Write, SeenIsNext
  <2>1. h # g /\ pc[h] = "write"
        BY DEF Write, Shapes
  <2>2. source[h] # source[g]
        BY <2>1 DEF Write, LocksHeld
  <2> QED
      BY <2>1, <2>2 DEF Write, SeenIsNext, Shapes
<1>4. PositionsCount' /\ NumbersGivenOnce'
  <2> SUFFICES ASSUME NEW s \in Sources
               PROVE  /\ numbers'[s] \in Seq(Nat)
                      /\ position'[s] = Len(numbers'[s])
                      /\ \A i \in DOMAIN numbers'[s] : numbers'[s][i] = i - 1
      BY DEF Write, PositionsCount, NumbersGivenOnce
  <2>1. /\ numbers[s] \in Seq(Nat) /\ position[s] = Len(numbers[s])
        /\ \A i \in DOMAIN numbers[s] : numbers[s][i] = i - 1
        BY DEF PositionsCount, NumbersGivenOnce
  <2>2. CASE s # source[g]
        BY <2>1, <2>2 DEF Write, Shapes
  <2>3. CASE s = source[g]
    <3>1. seen[g] = Len(numbers[s])
          BY <2>1, <2>3 DEF Write, SeenIsNext
    <3>2. /\ numbers'[s] = Append(numbers[s], Len(numbers[s]))
          /\ position'[s] = Len(numbers[s]) + 1
          BY <2>3, <3>1 DEF Write, Shapes
    <3>3. Len(numbers[s]) \in Nat
          BY <2>1, LenProperties
    <3> QED
        BY <2>1, <3>2, <3>3, AppendProperties
  <2> QED
      BY <2>2, <2>3
<1> QED
    BY <1>1, <1>2, <1>3, <1>4

\* A goroutine gives up only the mutex it holds.
LEMMA UnlockInv ==
    ASSUME IInv, NEW g \in Goroutines, Unlock(g)
    PROVE  IInv'
<1> USE DEF IInv, Sources
<1>1. Shapes'
      BY DEF Unlock, release, Shapes
<1>2. LocksHeld'
      BY DEF Unlock, release, LocksHeld, Shapes
<1>3. SeenIsNext'
      BY DEF Unlock, SeenIsNext, Shapes
<1>4. PositionsCount' /\ NumbersGivenOnce'
      BY DEF Unlock, PositionsCount, NumbersGivenOnce
<1> QED
    BY <1>1, <1>2, <1>3, <1>4

\* The invariant holds in every state of the pool.
THEOREM PoolInvariance == Spec => []IInv
<1>1. IInv /\ UNCHANGED vars => IInv'
      BY DEF vars, IInv, Shapes, LocksHeld, SeenIsNext, PositionsCount,
             NumbersGivenOnce, Sources
<1>2. IInv /\ [Next]_vars => IInv'
      BY <1>1, PickInv, LockInv, ReadInv, WriteInv, UnlockInv DEF Next, CallStep
<1> QED
    BY <1>2, InitInv, PTL DEF Spec

\* However many goroutines share a pool, whatever its size and however many
\* numbers a call draws, no number of a generator's sequence is given out twice
\* and none is skipped.
THEOREM DrawsAtomic == Spec => []NumbersGivenOnce
<1>1. IInv => NumbersGivenOnce
      BY DEF IInv
<1> QED
    BY <1>1, PoolInvariance, PTL

-----------------------------------------------------------------------------
(***************************************************************************)
(* Induction over numbers, for sets of them                                *)
(***************************************************************************)

\* A set of natural numbers that is not empty has a least element.
LEMMA LeastNumber ==
    ASSUME NEW T \in SUBSET Nat, T # {}
    PROVE  \E m \in T : \A k \in T : m <= k
<1> DEFINE R == OpToRel(<, Nat)
<1>1. IsWellFoundedOn(R, Nat)
      BY NatLessThanWellFounded
<1>2. \A x, y \in Nat : << x, y >> \in R <=> x < y
      BY DEF OpToRel
<1> HIDE DEF R
<1>3. PICK x \in T : \A y \in T : ~(<< y, x >> \in R)
      BY <1>1, WFMin
<1>4. ASSUME NEW k \in T PROVE x <= k
  <2>1. x \in Nat /\ k \in Nat /\ ~(k < x)
        BY <1>2, <1>3
  <2> QED
      BY <2>1
<1> QED
    BY <1>4

\* A set with 0 and with every successor, up to a limit, has all numbers up to it.
LEMMA UpTo ==
    ASSUME NEW n \in Nat, NEW S, 0 \in S, \A i \in 0 .. n - 1 : i \in S => i + 1 \in S
    PROVE  0 .. n \subseteq S
<1> SUFFICES ASSUME NEW j \in 0 .. n, j \notin S
             PROVE  FALSE
    OBVIOUS
<1> DEFINE T == {i \in 0 .. n : i \notin S}
<1>1. T \in SUBSET Nat /\ T # {}
      OBVIOUS
<1>2. PICK m \in T : \A k \in T : m <= k
      BY <1>1, LeastNumber
<1>3. m # 0 /\ m - 1 \in 0 .. n - 1 /\ m - 1 \notin T
      BY <1>2
<1> QED
    BY <1>2, <1>3

-----------------------------------------------------------------------------
(***************************************************************************)
(* Powers of two, quotients and remainders                                 *)
(***************************************************************************)

\* Powers of two are positive.
LEMMA PowerType == \A k \in 0 .. Width : 2 ^ k \in Nat \ {0}
<1> DEFINE S == {k \in Nat : 2 ^ k \in Nat \ {0}}
<1>1. Width \in Nat
      BY PoolAssumption
<1>2. 0 \in S
      BY PoolAssumption
<1>3. ASSUME NEW i \in 0 .. Width - 1, i \in S
      PROVE  i + 1 \in S
  <2>1. 2 ^ (i + 1) = 2 * 2 ^ i
        BY PoolAssumption
  <2> QED
      BY <1>3, <2>1
<1> HIDE DEF S
<1>4. 0 .. Width \subseteq S
      BY <1>1, <1>2, <1>3, UpTo
<1> QED
    BY <1>4 DEF S

\* They grow.
LEMMA PowerAbove == \A k \in 0 .. Width : k < 2 ^ k
<1> DEFINE S == {k \in Nat : k < 2 ^ k}
<1>1. Width \in Nat
      BY PoolAssumption
<1>2. 0 \in S
      BY PoolAssumption
<1>3. ASSUME NEW i \in 0 .. Width - 1, i \in S
      PROVE  i + 1 \in S
  <2>1. 2 ^ (i + 1) = 2 * 2 ^ i
        BY PoolAssumption
  <2>2. PICK x \in Nat : x = 2 ^ i
        BY <1>1, PowerType
  <2> QED
      BY <1>3, <2>1, <2>2
<1> HIDE DEF S
<1>4. 0 .. Width \subseteq S
      BY <1>1, <1>2, <1>3, UpTo
<1> QED
    BY <1>4 DEF S

\* Sums of exponents.
LEMMA PowerSum ==
    ASSUME NEW i \in 0 .. Width, NEW k \in 0 .. Width - i
    PROVE  2 ^ (i + k) = 2 ^ i * 2 ^ k
<1> DEFINE S == {j \in Nat : 2 ^ (i + j) = 2 ^ i * 2 ^ j}
<1>1. Width \in Nat /\ Width - i \in Nat
      BY PoolAssumption
<1>2. PICK x \in Nat : x = 2 ^ i
      BY PowerType
<1>3. 0 \in S
  <2>1. i + 0 = i /\ x * 1 = x
        OBVIOUS
  <2> QED
      BY <1>2, <2>1, PoolAssumption
<1>4. ASSUME NEW j \in 0 .. (Width - i) - 1, j \in S
      PROVE  j + 1 \in S
  <2>1. /\ i + j \in 0 .. Width - 1 /\ j \in 0 .. Width - 1 /\ j \in 0 .. Width
        /\ i + (j + 1) = (i + j) + 1
        BY <1>1
  <2>2. 2 ^ ((i + j) + 1) = 2 * 2 ^ (i + j) /\ 2 ^ (j + 1) = 2 * 2 ^ j
        BY <2>1, PoolAssumption
  <2>3. PICK y \in Nat : y = 2 ^ j
        BY <2>1, PowerType
  <2>4. 2 ^ (i + j) = x * y
        BY <1>2, <1>4, <2>3
  <2>5. 2 * (x * y) = x * (2 * y)
        OBVIOUS
  <2>6. 2 ^ (i + (j + 1)) = x * 2 ^ (j + 1)
        BY <2>1, <2>2, <2>3, <2>4, <2>5
  <2> QED
      BY <1>2, <2>6
<1> HIDE DEF S
<1>5. 0 .. Width - i \subseteq S
      BY <1>1, <1>3, <1>4, UpTo
<1> QED
    BY <1>5 DEF S

\* Quotient and remainder are the only ones.
LEMMA QuotientUnique ==
    ASSUME NEW n \in Nat, NEW p \in Nat \ {0}, NEW q \in Nat, NEW r \in 0 .. p - 1,
           n = p * q + r
    PROVE  n \div p = q /\ n % p = r
<1>1. n \div p = q
      OBVIOUS
<1> QED
    BY <1>1

\* There are some.
LEMMA Quotient ==
    ASSUME NEW n \in Nat, NEW p \in Nat \ {0}
    PROVE  n \div p \in Nat /\ n % p \in 0 .. p - 1 /\ n = p * (n \div p) + (n % p)
OBVIOUS

\* Dividing by p and then by b.
LEMMA QuotientTwice ==
    ASSUME NEW n \in Nat, NEW p \in Nat \ {0}, NEW b \in Nat \ {0}
    PROVE  /\ b * p \in Nat \ {0}
           /\ n \div (b * p) = (n \div p) \div b
           /\ n % (b * p) = p * ((n \div p) % b) + (n % p)
<1>1. PICK q \in Nat, r \in 0 .. p - 1 : q = n \div p /\ r = n % p /\ n = p * q + r
      BY Quotient
<1>2. PICK c \in Nat, d \in 0 .. b - 1 : c = q \div b /\ d = q % b /\ q = b * c + d
      BY Quotient
<1>3. b * p \in Nat \ {0} /\ p * d \in Nat
      OBVIOUS
<1>4. n = (b * p) * c + (p * d + r)
  <2>1. p * (b * c + d) = p * (b * c) + p * d
        OBVIOUS
  <2>2. p * (b * c) = (b * p) * c
        OBVIOUS
  <2>3. p * q = (b * p) * c + p * d
        BY <1>2, <2>1, <2>2
  <2> QED
      BY <1>1, <1>3, <2>3
<1>5. p * d + r \in 0 .. b * p - 1
  <2>1. p * d <= p * (b - 1)
        OBVIOUS
  <2>2. p * (b - 1) = b * p - p
        OBVIOUS
  <2> QED
      BY <1>3, <2>1, <2>2
<1>6. n \div (b * p) = c /\ n % (b * p) = p * d + r
  <2>1. PICK m \in Nat \ {0}, e \in Nat : m = b * p /\ e = p * d + r /\ e \in 0 .. m - 1
        BY <1>3, <1>5
  <2>2. n = m * c + e
        BY <1>4, <2>1
  <2>3. n \div m = c /\ n % m = e
        BY <2>1, <2>2, QuotientUnique
  <2> QED
      BY <2>1, <2>3
<1> QED
    BY <1>1, <1>2, <1>3, <1>6

\* Dividing by p and then by b, as one fact.
LEMMA QuotientOfQuotient ==
    \A n \in Nat, p, b \in Nat \ {0} : n \div (b * p) = (n \div p) \div b
<1> TAKE n \in Nat, p, b \in Nat \ {0}
<1>1. /\ b * p \in Nat \ {0}
      /\ n \div (b * p) = (n \div p) \div b
      /\ n % (b * p) = p * ((n \div p) % b) + (n % p)
      BY QuotientTwice, Zenon
<1> QED
    BY <1>1, Zenon

-----------------------------------------------------------------------------
(***************************************************************************)
(* Words and their bits                                                    *)
(***************************************************************************)

\* A number with bit k added, if it is among the bits.
plusBit(x, bits, k) == x + (IF k \in bits THEN 2 ^ k ELSE 0)

\* f[k] is the number that the bits below k make.
Sums(f, bits) ==
    f[0] = 0 /\ \A k \in 0 .. Width - 1 : f[k + 1] = plusBit(f[k], bits, k)

\* Word sums the bits up, from the lowest.
LEMMA WordSums ==
    ASSUME NEW bits
    PROVE  \E f : Sums(f, bits) /\ Word(bits) = f[Width]
<1> DEFINE upTo(f, m) == f = [k \in 0 .. m |-> IF k = 0 THEN 0
                                               ELSE plusBit(f[k - 1], bits, k - 1)]
           S == {m \in 0 .. Width : \E f : upTo(f, m)}
           sum == CHOOSE f : upTo(f, Width)
<1>1. Width \in Nat
      BY PoolAssumption
<1>2. Word(bits) = sum[Width]
      BY Zenon DEF Word, plusBit
<1>3. 0 \in S
  <2>1. PICK f : f = [k \in 0 .. 0 |-> 0]
        OBVIOUS
  <2>2. upTo(f, 0)
        BY <2>1
  <2>3. \E e : upTo(e, 0)
        BY <2>2, Zenon
  <2> HIDE DEF upTo
  <2> QED
      BY <1>1, <2>3
<1>4. ASSUME NEW m \in 0 .. Width - 1, m \in S
      PROVE  m + 1 \in S
  <2>1. PICK f : upTo(f, m)
        BY <1>4
  <2>2. m \in Nat /\ m + 1 \in 0 .. Width
        BY <1>1
  <2> DEFINE g == [k \in 0 .. m + 1 |-> IF k = m + 1 THEN plusBit(f[m], bits, m) ELSE f[k]]
  <2>3. ASSUME NEW k \in 0 .. m + 1
        PROVE  g[k] = IF k = 0 THEN 0 ELSE plusBit(g[k - 1], bits, k - 1)
    <3>1. CASE k = m + 1
      <4>1. k - 1 = m /\ m \in 0 .. m + 1 /\ m # m + 1 /\ k # 0
            BY <2>2, <3>1
      <4> QED
          BY <3>1, <4>1
    <3>2. CASE k # m + 1 /\ k # 0
      <4>1. k \in 0 .. m /\ k - 1 \in 0 .. m + 1 /\ k - 1 # m + 1
            BY <2>2, <3>2
      <4>2. f[k] = plusBit(f[k - 1], bits, k - 1)
            BY <2>1, <3>2, <4>1
      <4> QED
          BY <3>2, <4>1, <4>2
    <3>3. CASE k = 0
      <4>1. 0 \in 0 .. m /\ 0 # m + 1
            BY <2>2
      <4>2. f[0] = 0
            BY <2>1, <4>1
      <4> QED
          BY <3>3, <4>1, <4>2
    <3> QED
        BY <3>1, <3>2, <3>3
  <2>4. g = [k \in 0 .. m + 1 |-> g[k]]
        OBVIOUS
  <2> HIDE DEF g
  <2>5. upTo(g, m + 1)
        BY <2>3, <2>4
  <2> QED
      BY <2>2, <2>5
<1>5. \E f : upTo(f, Width)
  <2> HIDE DEF S
  <2>1. 0 .. Width \subseteq S
        BY <1>1, <1>3, <1>4, UpTo
  <2> QED
      BY <1>1, <2>1 DEF S
<1>6. upTo(sum, Width)
      BY <1>5, Zenon
<1> HIDE DEF sum
<1>7. sum[0] = 0
      BY <1>1, <1>6
<1>8. ASSUME NEW k \in 0 .. Width - 1
      PROVE  sum[k + 1] = plusBit(sum[k], bits, k)
  <2>1. k + 1 \in 0 .. Width /\ k + 1 # 0 /\ (k + 1) - 1 = k
        BY <1>1
  <2> QED
      BY <1>6, <2>1
<1>9. Sums(sum, bits)
      BY <1>7, <1>8 DEF Sums
<1> QED
    BY <1>2, <1>9

\* The bits below k make a number below 2^k.
LEMMA SumsType ==
    ASSUME NEW bits, NEW f, Sums(f, bits), NEW k \in 0 .. Width
    PROVE  f[k] \in Nat /\ f[k] < 2 ^ k
<1> DEFINE S == {j \in Nat : f[j] \in Nat /\ f[j] < 2 ^ j}
<1>1. Width \in Nat
      BY PoolAssumption
<1>2. 0 \in S
      BY PoolAssumption DEF Sums
<1>3. ASSUME NEW j \in 0 .. Width - 1, j \in S
      PROVE  j + 1 \in S
  <2>1. PICK x \in Nat : x = 2 ^ j
        BY <1>1, PowerType
  <2>2. 2 ^ (j + 1) = 2 * x
        BY <2>1, PoolAssumption
  <2>3. f[j + 1] = f[j] + (IF j \in bits THEN x ELSE 0)
        BY <2>1 DEF Sums, plusBit
  <2> QED
      BY <1>3, <2>1, <2>2, <2>3
<1> HIDE DEF S
<1>4. 0 .. Width \subseteq S
      BY <1>1, <1>2, <1>3, UpTo
<1> QED
    BY <1>4 DEF S

\* The bits of a number below k make its remainder.
LEMMA SumsOfBits ==
    ASSUME NEW w \in Nat, NEW f, Sums(f, Bits(w)), NEW k \in 0 .. Width
    PROVE  f[k] = w % 2 ^ k
<1> DEFINE S == {j \in Nat : f[j] = w % 2 ^ j}
<1>1. Width \in Nat
      BY PoolAssumption
<1>2. 0 \in S
  <2>1. w % 1 = 0
        OBVIOUS
  <2> QED
      BY <2>1, PoolAssumption DEF Sums
<1>3. ASSUME NEW j \in 0 .. Width - 1, j \in S
      PROVE  j + 1 \in S
  <2>1. PICK x \in Nat \ {0} : x = 2 ^ j
        BY <1>1, PowerType
  <2>2. 2 ^ (j + 1) = 2 * x
        BY <2>1, PoolAssumption
  <2>3. f[j + 1] = (w % x) + (IF j \in Bits(w) THEN x ELSE 0)
        BY <1>3, <2>1 DEF Sums, plusBit
  <2>4. j \in Bits(w) <=> (w \div x) % 2 = 1
        BY <2>1 DEF Bits
  <2>5. w % (2 * x) = x * ((w \div x) % 2) + (w % x)
    <3>1. PICK b \in Nat \ {0} : b = 2
          OBVIOUS
    <3>2. w % (b * x) = x * ((w \div x) % b) + (w % x)
          BY QuotientTwice
    <3> QED
        BY <3>1, <3>2
  <2>6. (w \div x) % 2 \in 0 .. 1 /\ w % x \in Nat
        BY Quotient
  <2>7. x * ((w \div x) % 2) = IF j \in Bits(w) THEN x ELSE 0
        BY <2>4, <2>6
  <2> QED
      BY <2>2, <2>3, <2>5, <2>6, <2>7
<1> HIDE DEF S
<1>4. 0 .. Width \subseteq S
      BY <1>1, <1>2, <1>3, UpTo
<1> QED
    BY <1>4 DEF S

\* Without the bits from i on, the sum stays what it was at i.
LEMMA SumsBelow ==
    ASSUME NEW bits, NEW f, Sums(f, bits), NEW i \in 0 .. Width,
           NEW g, NEW low, low = bits \cap 0 .. i - 1, Sums(g, low)
    PROVE  g[Width] = f[i]
<1> DEFINE S == {k \in Nat : g[k] = f[IF k <= i THEN k ELSE i]}
<1>1. Width \in Nat
      BY PoolAssumption
<1>2. 0 \in S
      BY DEF Sums
<1>3. ASSUME NEW k \in 0 .. Width - 1, k \in S
      PROVE  k + 1 \in S
  <2>1. g[k + 1] = plusBit(g[k], low, k) /\ f[k + 1] = plusBit(f[k], bits, k)
        BY DEF Sums
  <2>2. CASE k < i
    <3>1. g[k] = f[k] /\ k <= i /\ k + 1 <= i
          BY <1>3, <2>2
    <3>2. k \in low <=> k \in bits
          BY <2>2
    <3>3. plusBit(g[k], low, k) = plusBit(f[k], bits, k)
          BY <3>1, <3>2 DEF plusBit
    <3> QED
        BY <2>1, <3>1, <3>3
  <2>3. CASE ~(k < i)
    <3>1. g[k] = f[i] /\ ~(k + 1 <= i)
          BY <1>3, <2>3
    <3>2. k \notin low
          BY <2>3
    <3>3. f[i] \in Nat
          BY SumsType
    <3>4. plusBit(g[k], low, k) = f[i]
          BY <3>1, <3>2, <3>3 DEF plusBit
    <3> QED
        BY <2>1, <3>1, <3>4
  <2> QED
      BY <2>2, <2>3
<1> HIDE DEF S
<1>4. 0 .. Width \subseteq S
      BY <1>1, <1>2, <1>3, UpTo
<1>5. Width \in S
      BY <1>1, <1>4
<1>6. g[Width] = f[IF Width <= i THEN Width ELSE i]
      BY <1>5 DEF S
<1> QED
    BY <1>1, <1>6

\* The bits of a mask.
LEMMA MaskBits ==
    ASSUME NEW i \in 0 .. Width - 1
    PROVE  2 ^ i - 1 \in Nat /\ Bits(2 ^ i - 1) = 0 .. i - 1
<1>1. Width \in Nat /\ i \in Nat
      BY PoolAssumption
<1>2. PICK x \in Nat \ {0} : x = 2 ^ i
      BY <1>1, PowerType
<1>3. ASSUME NEW j \in 0 .. Width - 1
      PROVE  ((x - 1) \div 2 ^ j) % 2 = 1 <=> j < i
  <2>1. PICK y \in Nat \ {0} : y = 2 ^ j
        BY <1>1, PowerType
  <2>2. CASE j < i
    <3>1. PICK e \in 0 .. Width - 1 : i = (j + 1) + e
      <4>1. i - (j + 1) \in 0 .. Width - 1 /\ i = (j + 1) + (i - (j + 1))
            BY <1>1, <2>2
      <4> QED
          BY <4>1
    <3>2. /\ j + 1 \in 0 .. Width /\ e \in 0 .. Width - (j + 1) /\ e \in 0 .. Width
          BY <1>1, <3>1
    <3>3. PICK z \in Nat \ {0} : z = 2 ^ e
          BY <3>2, PowerType
    <3>4. 2 ^ ((j + 1) + e) = 2 ^ (j + 1) * 2 ^ e
          BY <3>2, PowerSum
    <3>5. 2 ^ (j + 1) = 2 * y
          BY <2>1, PoolAssumption
    <3>6. x = (2 * y) * z
          BY <1>2, <3>1, <3>3, <3>4, <3>5
    <3>7. x - 1 = y * (2 * (z - 1) + 1) + (y - 1)
      <4>1. y * (2 * (z - 1) + 1) + (y - 1) = (2 * y) * z - 1
            OBVIOUS
      <4> QED
          BY <3>6, <4>1
    <3>8. (x - 1) \div y = 2 * (z - 1) + 1
      <4>1. PICK n \in Nat, q \in Nat, r \in 0 .. y - 1 :
                n = x - 1 /\ q = 2 * (z - 1) + 1 /\ r = y - 1
            OBVIOUS
      <4>2. n = y * q + r
            BY <3>7, <4>1
      <4>3. n \div y = q
            BY <4>2, QuotientUnique
      <4> QED
          BY <4>1, <4>3
    <3>9. (2 * (z - 1) + 1) % 2 = 1
          OBVIOUS
    <3> QED
        BY <2>1, <2>2, <3>8, <3>9
  <2>3. CASE ~(j < i)
    <3>1. PICK e \in 0 .. Width - 1 : j = i + e
      <4>1. j - i \in 0 .. Width - 1 /\ j = i + (j - i)
            BY <1>1, <2>3
      <4> QED
          BY <4>1
    <3>2. i \in 0 .. Width /\ e \in 0 .. Width - i /\ e \in 0 .. Width
          BY <1>1, <3>1
    <3>3. PICK z \in Nat \ {0} : z = 2 ^ e
          BY <3>2, PowerType
    <3>4. y = x * z
          BY <1>2, <2>1, <3>1, <3>2, <3>3, PowerSum
    <3>5. x <= x * z
          OBVIOUS
    <3>6. x - 1 \in 0 .. y - 1 /\ x - 1 = y * 0 + (x - 1)
          BY <3>4, <3>5
    <3>7. (x - 1) \div y = 0
          BY <3>6, QuotientUnique
    <3>8. 0 % 2 = 0
          OBVIOUS
    <3> QED
        BY <2>1, <2>3, <3>7, <3>8
  <2> QED
      BY <2>2, <2>3
<1>4. ASSUME NEW j
      PROVE  j \in Bits(x - 1) <=> j \in 0 .. i - 1
  <2>1. j \in Bits(x - 1) <=> j \in 0 .. Width - 1 /\ j < i
        BY <1>3 DEF Bits
  <2> QED
      BY <1>1, <2>1
<1>5. PICK b : b = Bits(x - 1)
      OBVIOUS
<1>6. b = 0 .. i - 1
      BY <1>4, <1>5
<1> QED
    BY <1>2, <1>5, <1>6

\* x & (2^i - 1) is the remainder of x by 2^i.
LEMMA AndIsRemainder ==
    ASSUME NEW w \in Nat, NEW i \in 0 .. Width - 1
    PROVE  and(w, 2 ^ i - 1) = w % 2 ^ i
<1>1. Width \in Nat /\ i \in 0 .. Width
      BY PoolAssumption
<1>2. PICK low : low = Bits(w) \cap 0 .. i - 1
      OBVIOUS
<1>3. and(w, 2 ^ i - 1) = Word(low)
      BY <1>2, MaskBits DEF and
<1>4. PICK f : Sums(f, Bits(w))
      BY WordSums
<1>5. PICK g : Sums(g, low) /\ Word(low) = g[Width]
      BY WordSums
<1>6. g[Width] = f[i]
      BY <1>1, <1>2, <1>4, <1>5, SumsBelow
<1>7. f[i] = w % 2 ^ i
      BY <1>1, <1>4, SumsOfBits
<1> QED
    BY <1>3, <1>5, <1>6, <1>7

\* The bits above j add a multiple of 2^(j + 1).
LEMMA SumsAbove ==
    ASSUME NEW bits, NEW f, Sums(f, bits), NEW j \in 0 .. Width - 1
    PROVE  \E t \in Nat : f[Width] = f[j + 1] + 2 ^ (j + 1) * t
<1>1. Width \in Nat /\ j \in Nat /\ j + 1 \in 0 .. Width /\ Width - (j + 1) \in Nat
      BY PoolAssumption
<1>2. PICK y \in Nat, a \in Nat : y = 2 ^ (j + 1) /\ a = f[j + 1]
      BY <1>1, PowerType, SumsType
<1> DEFINE S == {d \in Nat : \E t \in Nat : f[(j + 1) + d] = a + y * t}
<1>3. 0 \in S
  <2>1. (j + 1) + 0 = j + 1 /\ a = a + y * 0
        BY <1>1
  <2> QED
      BY <1>2, <2>1
<1>4. ASSUME NEW d \in 0 .. (Width - (j + 1)) - 1, d \in S
      PROVE  d + 1 \in S
  <2>1. PICK t \in Nat : f[(j + 1) + d] = a + y * t
        BY <1>4
  <2>2. PICK k \in 0 .. Width - 1 : k = (j + 1) + d /\ (j + 1) + (d + 1) = k + 1
        BY <1>1
  <2>3. d \in 0 .. Width /\ d \in 0 .. Width - (j + 1) /\ d + 1 \in Nat
        BY <1>1
  <2>4. PICK z \in Nat : z = 2 ^ d
        BY <2>3, PowerType
  <2>5. 2 ^ k = y * z
        BY <1>1, <1>2, <2>2, <2>3, <2>4, PowerSum
  <2>6. f[k + 1] = f[k] + (IF k \in bits THEN y * z ELSE 0)
        BY <2>5 DEF Sums, plusBit
  <2>7. f[k + 1] = a + y * (IF k \in bits THEN t + z ELSE t)
    <3>1. a + y * t + y * z = a + y * (t + z) /\ y * t \in Nat /\ y * z \in Nat
          OBVIOUS
    <3> QED
        BY <2>1, <2>2, <2>6, <3>1
  <2>8. (IF k \in bits THEN t + z ELSE t) \in Nat
        OBVIOUS
  <2>9. \E u \in Nat : f[(j + 1) + (d + 1)] = a + y * u
        BY <2>2, <2>7, <2>8
  <2> QED
      BY <2>3, <2>9
<1> HIDE DEF S
<1>5. 0 .. Width - (j + 1) \subseteq S
      BY <1>1, <1>3, <1>4, UpTo
<1>6. Width - (j + 1) \in S
      BY <1>1, <1>5
<1>7. (j + 1) + (Width - (j + 1)) = Width
      BY <1>1
<1> QED
    BY <1>2, <1>6, <1>7 DEF S

\* Word and Bits are inverse.
LEMMA BitsOfWord ==
    ASSUME NEW bits \in SUBSET (0 .. Width - 1)
    PROVE  Word(bits) \in Words /\ Bits(Word(bits)) = bits
<1>1. Width \in Nat
      BY PoolAssumption
<1>2. PICK f : Sums(f, bits) /\ Word(bits) = f[Width]
      BY WordSums
<1>3. Word(bits) \in Words
  <2>1. PICK x \in Nat : x = 2 ^ Width
        BY <1>1, PowerType
  <2>2. f[Width] \in Nat /\ f[Width] < x
        BY <1>1, <1>2, <2>1, SumsType
  <2> QED
      BY <1>2, <2>1, <2>2 DEF Words
<1>4. ASSUME NEW j \in 0 .. Width - 1
      PROVE  (f[Width] \div 2 ^ j) % 2 = 1 <=> j \in bits
  <2>1. PICK x \in Nat \ {0} : x = 2 ^ j
        BY <1>1, PowerType
  <2>2. 2 ^ (j + 1) = 2 * x
        BY <2>1, PoolAssumption
  <2>3. PICK t \in Nat : f[Width] = f[j + 1] + (2 * x) * t
        BY <1>2, <2>2, SumsAbove
  <2>4. f[j] \in Nat /\ f[j] < x
        BY <1>1, <1>2, <2>1, SumsType
  <2>5. PICK r \in 0 .. x - 1, b \in 0 .. 1 : r = f[j] /\ (b = 1 <=> j \in bits)
    <3>1. f[j] \in 0 .. x - 1
          BY <2>4
    <3> QED
        BY <3>1
  <2>6. f[j + 1] = r + (IF j \in bits THEN x ELSE 0)
        BY <1>2, <2>1, <2>5 DEF Sums, plusBit
  <2>7. f[j + 1] = r + x * b
        BY <2>5, <2>6
  <2>8. f[Width] = x * (2 * t + b) + r
    <3>1. (r + x * b) + (2 * x) * t = x * (2 * t + b) + r
          OBVIOUS
    <3> QED
        BY <2>3, <2>7, <3>1
  <2>9. PICK n \in Nat, q \in Nat : n = f[Width] /\ q = 2 * t + b
    <3>1. f[Width] \in Nat
          BY <1>1, <1>2, SumsType
    <3> QED
        BY <3>1
  <2>10. n \div x = q
    <3>1. n = x * q + r
          BY <2>8, <2>9
    <3> QED
        BY <3>1, QuotientUnique
  <2>11. q % 2 = b
         BY <2>9
  <2> QED
      BY <2>1, <2>5, <2>9, <2>10, <2>11
<1>5. \A j : j \in Bits(f[Width]) <=> j \in 0 .. Width - 1 /\ j \in bits
      BY <1>4 DEF Bits
<1>6. PICK b : b = Bits(f[Width])
      OBVIOUS
<1>7. b = bits
      BY <1>5, <1>6
<1> QED
    BY <1>2, <1>3, <1>6, <1>7

\* Shifting to the right.
LEMMA ShiftedBits ==
    ASSUME NEW w \in Words, NEW s \in 0 .. Width, NEW i \in 0 .. Width - 1
    PROVE  i \in Bits(w \div 2 ^ s) <=> i + s \in Bits(w)
<1>1. Width \in Nat /\ s \in Nat /\ i \in Nat /\ i \in 0 .. Width
      BY PoolAssumption
<1>2. PICK x \in Nat \ {0}, y \in Nat \ {0} : x = 2 ^ s /\ y = 2 ^ i
      BY <1>1, PowerType
<1>3. PICK top \in Nat \ {0} : top = 2 ^ Width
      BY <1>1, PowerType
<1>4. w \in Nat /\ w < top
      BY <1>3 DEF Words
<1>5. PICK v \in Nat : v = w \div x
      BY <1>4, Quotient
<1>6. i \in Bits(v) <=> (v \div y) % 2 = 1
      BY <1>2 DEF Bits
<1>7. CASE i + s < Width
  <2>1. i + s \in 0 .. Width - 1 /\ s \in 0 .. Width - i
        BY <1>1, <1>7
  <2>2. 2 ^ (i + s) = y * x
        BY <1>1, <1>2, <2>1, PowerSum
  <2>3. w \div (y * x) = v \div y
    <3>1. w \in Nat /\ x \in Nat \ {0} /\ y \in Nat \ {0}
          BY <1>2, <1>4
    <3>2. w \div (y * x) = (w \div x) \div y
          BY <3>1, QuotientOfQuotient, Zenon
    <3> QED
        BY <1>5, <3>2
  <2>4. i + s \in Bits(w) <=> (w \div (y * x)) % 2 = 1
        BY <2>1, <2>2 DEF Bits
  <2> QED
      BY <1>2, <1>5, <1>6, <2>3, <2>4
<1>8. CASE ~(i + s < Width)
  <2>1. i + s \notin Bits(w)
        BY <1>1, <1>8 DEF Bits
  <2>2. PICK u \in 0 .. Width, e \in 0 .. Width : u + s = Width /\ u + e = i
    <3>1. /\ Width - s \in 0 .. Width /\ i - (Width - s) \in 0 .. Width
          /\ (Width - s) + s = Width /\ (Width - s) + (i - (Width - s)) = i
          BY <1>1, <1>8
    <3> QED
        BY <3>1
  <2>3. s \in 0 .. Width - u /\ e \in 0 .. Width - u
        BY <1>1, <2>2
  <2>4. PICK a \in Nat \ {0}, b \in Nat \ {0} : a = 2 ^ u /\ b = 2 ^ e
        BY <2>2, PowerType
  <2>5. top = a * x /\ y = a * b
        BY <1>2, <1>3, <2>2, <2>3, <2>4, PowerSum
  <2>6. w \div top = 0
    <3>1. w \in 0 .. top - 1 /\ w = top * 0 + w
          BY <1>3, <1>4
    <3> QED
        BY <1>3, <1>4, <3>1, QuotientUnique
  <2>7. w \div (a * x) = v \div a
    <3>1. w \in Nat /\ x \in Nat \ {0} /\ a \in Nat \ {0}
          BY <1>2, <1>4, <2>4
    <3>2. w \div (a * x) = (w \div x) \div a
          BY <3>1, QuotientOfQuotient, ZenonT(40)
    <3> QED
        BY <1>5, <3>2
  <2>8. v \div a = 0
        BY <2>5, <2>6, <2>7
  <2>9. v \div (b * a) = (v \div a) \div b
        BY <1>5, <2>4, QuotientTwice
  <2>10. 0 \div b = 0 /\ b * a = a * b
         BY <2>4
  <2>11. v \div y = 0
         BY <2>5, <2>8, <2>9, <2>10
  <2>12. 0 % 2 # 1
         OBVIOUS
  <2> QED
      BY <1>2, <1>5, <1>6, <2>1, <2>11, <2>12
<1> QED
    BY <1>1, <1>7, <1>8

-----------------------------------------------------------------------------
(***************************************************************************)
(* nextNearestPow2uint64                                                   *)
(***************************************************************************)

\* Every bit of bits, smeared over the 2^k - 1 places below it.
smeared(bits, k) == {i \in 0 .. Width - 1 : \E j \in bits : i <= j /\ j < i + 2 ^ k}

\* The shift of the round that comes after k others.
smearRound(k, x) == IF 2 ^ k < Width THEN orShifted(2 ^ k, x) ELSE x

\* A round doubles how far the bits are smeared.
LEMMA RoundSmears ==
    ASSUME NEW bits \in SUBSET (0 .. Width - 1), NEW k \in 0 .. Width - 1,
           NEW x \in Words, Bits(x) = smeared(bits, k)
    PROVE  smearRound(k, x) \in Words /\ Bits(smearRound(k, x)) = smeared(bits, k + 1)
<1>1. Width \in Nat
      BY PoolAssumption
<1>2. PICK s \in Nat \ {0} : s = 2 ^ k
      BY <1>1, PowerType
<1>3. 2 ^ (k + 1) = 2 * s
      BY <1>2, PoolAssumption
<1>4. \A i : i \in Bits(x) <=> i \in 0 .. Width - 1 /\ \E j \in bits : i <= j /\ j < i + s
      BY <1>2 DEF smeared
<1>5. \A i : i \in smeared(bits, k + 1)
               <=> i \in 0 .. Width - 1 /\ \E j \in bits : i <= j /\ j < i + 2 * s
      BY <1>3 DEF smeared
<1>6. CASE s < Width
  <2>1. PICK u : u = Bits(x) \cup Bits(x \div 2 ^ s)
        OBVIOUS
  <2>2. s \in 0 .. Width
        BY <1>1, <1>2, <1>6
  <2>3. \A i : i \in u <=> i \in 0 .. Width - 1 /\ (i \in Bits(x) \/ i + s \in Bits(x))
    <3>1. Bits(x) \subseteq 0 .. Width - 1 /\ Bits(x \div 2 ^ s) \subseteq 0 .. Width - 1
          BY DEF Bits
    <3>2. \A i \in 0 .. Width - 1 : i \in Bits(x \div 2 ^ s) <=> i + s \in Bits(x)
          BY <2>2, ShiftedBits
    <3> QED
        BY <2>1, <3>1, <3>2
  <2>4. ASSUME NEW i \in 0 .. Width - 1
        PROVE  i \in u <=> i \in smeared(bits, k + 1)
    <3>1. ASSUME i \in u
          PROVE  \E j \in bits : i <= j /\ j < i + 2 * s
      <4>1. CASE i \in Bits(x)
            BY <1>1, <1>2, <1>4, <4>1
      <4>2. CASE i + s \in Bits(x)
        <5>1. PICK j \in bits : i + s <= j /\ j < (i + s) + s
              BY <1>4, <4>2
        <5>2. i <= j /\ j < i + 2 * s
              BY <1>1, <1>2, <5>1
        <5> QED
            BY <5>2
      <4> QED
          BY <2>3, <3>1, <4>1, <4>2
    <3>2. ASSUME NEW j \in bits, i <= j, j < i + 2 * s
          PROVE  i \in u
      <4>1. CASE j < i + s
            BY <1>4, <2>3, <3>2, <4>1
      <4>2. CASE ~(j < i + s)
        <5>1. i + s <= j /\ j < (i + s) + s /\ i + s \in 0 .. Width - 1
              BY <1>1, <1>2, <3>2, <4>2
        <5>2. i + s \in Bits(x)
              BY <1>4, <5>1
        <5> QED
            BY <2>3, <5>2
      <4> QED
          BY <4>1, <4>2
    <3> QED
        BY <1>5, <3>1, <3>2
  <2>5. u \subseteq 0 .. Width - 1 /\ u = smeared(bits, k + 1)
    <3>1. u \subseteq 0 .. Width - 1 /\ smeared(bits, k + 1) \subseteq 0 .. Width - 1
          BY <1>5, <2>3
    <3> QED
        BY <2>4, <3>1
  <2>6. smearRound(k, x) = Word(u)
        BY <1>2, <1>6, <2>1 DEF smearRound, orShifted
  <2>7. Word(u) \in Words /\ Bits(Word(u)) = u
        BY <2>5, BitsOfWord
  <2> QED
      BY <2>5, <2>6, <2>7
<1>7. CASE ~(s < Width)
  <2>1. smearRound(k, x) = x
        BY <1>2, <1>7 DEF smearRound
  <2>2. ASSUME NEW i \in 0 .. Width - 1, NEW j \in bits
        PROVE  j < i + s /\ j < i + 2 * s
        BY <1>1, <1>2, <1>7
  <2>3. \A i : i \in Bits(x) <=> i \in smeared(bits, k + 1)
        BY <1>4, <1>5, <2>2
  <2>4. PICK b, c : b = Bits(x) /\ c = smeared(bits, k + 1)
        OBVIOUS
  <2>5. b = c
        BY <2>3, <2>4
  <2> QED
      BY <2>1, <2>4, <2>5
<1> QED
    BY <1>6, <1>7

\* After all rounds every bit is smeared over all that are lower.
LEMMA AllRoundsSmear ==
    ASSUME NEW v, NEW x \in Words, x = (v - 1) % 2 ^ Width
    PROVE  \E y \in Words : /\ nextNearestPow2uint64(v) = (y + 1) % 2 ^ Width
                            /\ Bits(y) = smeared(Bits(x), Width)
<1> DEFINE upTo(f, m) == f = [k \in 0 .. m |-> IF k = 0 THEN (v - 1) % 2 ^ Width
                                               ELSE smearRound(k - 1, f[k - 1])]
           S == {m \in 0 .. Width : \E f : upTo(f, m)}
           after == CHOOSE f : upTo(f, Width)
<1>1. Width \in Nat
      BY PoolAssumption
<1>2. nextNearestPow2uint64(v) = (after[Width] + 1) % 2 ^ Width
      BY Zenon DEF nextNearestPow2uint64, smearRound
<1>3. 0 \in S
  <2>1. PICK f : f = [k \in 0 .. 0 |-> (v - 1) % 2 ^ Width]
        OBVIOUS
  <2>2. upTo(f, 0)
        BY <2>1
  <2>3. \E e : upTo(e, 0)
        BY <2>2, Zenon
  <2> HIDE DEF upTo
  <2> QED
      BY <1>1, <2>3
<1>4. ASSUME NEW m \in 0 .. Width - 1, m \in S
      PROVE  m + 1 \in S
  <2>1. PICK f : upTo(f, m)
        BY <1>4
  <2>2. m \in Nat /\ m + 1 \in 0 .. Width
        BY <1>1
  <2> DEFINE g == [k \in 0 .. m + 1 |-> IF k = m + 1 THEN smearRound(m, f[m]) ELSE f[k]]
  <2>3. ASSUME NEW k \in 0 .. m + 1
        PROVE  g[k] = IF k = 0 THEN (v - 1) % 2 ^ Width ELSE smearRound(k - 1, g[k - 1])
    <3>1. CASE k = m + 1
      <4>1. k - 1 = m /\ m \in 0 .. m + 1 /\ m # m + 1 /\ k # 0
            BY <2>2, <3>1
      <4> QED
          BY <3>1, <4>1
    <3>2. CASE k # m + 1 /\ k # 0
      <4>1. k \in 0 .. m /\ k - 1 \in 0 .. m + 1 /\ k - 1 # m + 1
            BY <2>2, <3>2
      <4>2. f[k] = smearRound(k - 1, f[k - 1])
            BY <2>1, <3>2, <4>1
      <4> QED
          BY <3>2, <4>1, <4>2
    <3>3. CASE k = 0
      <4>1. 0 \in 0 .. m /\ 0 # m + 1
            BY <2>2
      <4>2. f[0] = (v - 1) % 2 ^ Width
            BY <2>1, <4>1
      <4> QED
          BY <3>3, <4>1, <4>2
    <3> QED
        BY <3>1, <3>2, <3>3
  <2>4. g = [k \in 0 .. m + 1 |-> g[k]]
        OBVIOUS
  <2> HIDE DEF g
  <2>5. upTo(g, m + 1)
        BY <2>3, <2>4
  <2> QED
      BY <2>2, <2>5
<1>5. \E f : upTo(f, Width)
  <2> HIDE DEF S
  <2>1. 0 .. Width \subseteq S
        BY <1>1, <1>3, <1>4, UpTo
  <2> QED
      BY <1>1, <2>1 DEF S
<1>6. upTo(after, Width)
      BY <1>5, Zenon
<1> HIDE DEF after
<1>7. PICK bits : bits = Bits(x)
      OBVIOUS
<1>8. bits \in SUBSET (0 .. Width - 1)
      BY <1>7 DEF Bits
<1> DEFINE T == {k \in Nat : after[k] \in Words /\ Bits(after[k]) = smeared(bits, k)}
<1>9. 0 \in T
  <2>1. after[0] = x
        BY <1>1, <1>6
  <2>2. PICK c : c = smeared(bits, 0)
        OBVIOUS
  <2>3. \A i : i \in c <=> i \in 0 .. Width - 1 /\ \E j \in bits : i <= j /\ j < i + 1
        BY <2>2, PoolAssumption DEF smeared
  <2>4. c = bits
    <3>1. ASSUME NEW i \in 0 .. Width - 1, NEW j \in bits, i <= j, j < i + 1
          PROVE  i \in bits
      <4>1. j \in Int /\ i = j
            BY <1>1, <1>8, <3>1
      <4> QED
          BY <4>1
    <3>2. ASSUME NEW i \in bits
          PROVE  i \in 0 .. Width - 1 /\ i <= i /\ i < i + 1
          BY <1>1, <1>8
    <3> QED
        BY <2>3, <3>1, <3>2
  <2> QED
      BY <1>7, <2>1, <2>2, <2>4
<1>10. ASSUME NEW k \in 0 .. Width - 1, k \in T
       PROVE  k + 1 \in T
  <2>1. k + 1 \in 0 .. Width /\ k + 1 # 0 /\ (k + 1) - 1 = k
        BY <1>1
  <2>2. after[k + 1] = smearRound(k, after[k])
        BY <1>6, <2>1
  <2>3. PICK y \in Words : y = after[k] /\ Bits(y) = smeared(bits, k)
        BY <1>10
  <2>4. smearRound(k, y) \in Words /\ Bits(smearRound(k, y)) = smeared(bits, k + 1)
        BY <1>8, <2>3, RoundSmears
  <2> QED
      BY <2>1, <2>2, <2>3, <2>4
<1> HIDE DEF T
<1>11. 0 .. Width \subseteq T
       BY <1>1, <1>9, <1>10, UpTo
<1>12. after[Width] \in Words /\ Bits(after[Width]) = smeared(bits, Width)
       BY <1>1, <1>11 DEF T
<1> QED
    BY <1>2, <1>7, <1>12

\* The number whose bits are all below n.
LEMMA LowBits ==
    ASSUME NEW w \in Words, NEW n \in 0 .. Width, Bits(w) \subseteq 0 .. n - 1
    PROVE  w < 2 ^ n
<1>1. Width \in Nat /\ Width \in 0 .. Width
      BY PoolAssumption
<1>2. PICK top \in Nat \ {0} : top = 2 ^ Width
      BY <1>1, PowerType
<1>3. w \in Nat /\ w < top
      BY <1>2 DEF Words
<1>4. PICK low : low = Bits(w) \cap 0 .. n - 1
      OBVIOUS
<1>5. low = Bits(w)
      BY <1>4
<1>6. PICK f : Sums(f, Bits(w))
      BY WordSums
<1>7. f[Width] = f[n]
      BY <1>4, <1>5, <1>6, SumsBelow
<1>8. f[Width] = w % top
      BY <1>1, <1>2, <1>3, <1>6, SumsOfBits
<1>9. w % top = w
  <2>1. w \in 0 .. top - 1 /\ w = top * 0 + w
        BY <1>2, <1>3
  <2> QED
      BY <1>2, <1>3, <2>1, QuotientUnique
<1>10. f[n] < 2 ^ n
       BY <1>6, SumsType
<1> QED
    BY <1>7, <1>8, <1>9, <1>10

\* A number with bit n is at least 2^n.
LEMMA HighBit ==
    ASSUME NEW w \in Nat, NEW n \in Bits(w)
    PROVE  2 ^ n <= w
<1>1. Width \in Nat /\ n \in 0 .. Width /\ (w \div 2 ^ n) % 2 = 1
      BY PoolAssumption DEF Bits
<1>2. PICK x \in Nat \ {0} : x = 2 ^ n
      BY <1>1, PowerType
<1>3. PICK q \in Nat, r \in 0 .. x - 1 : q = w \div x /\ w = x * q + r
      BY <1>2, Quotient, ZenonT(40)
<1>4. q # 0
  <2>1. 0 % 2 # 1
        OBVIOUS
  <2> QED
      BY <1>1, <1>2, <1>3, <2>1
<1>5. x <= x * q /\ x * q \in Nat
      BY <1>2, <1>3, <1>4
<1> QED
    BY <1>2, <1>3, <1>5

\* The word with the bits below n.
LEMMA FullMask ==
    ASSUME NEW y \in Words, NEW n \in 0 .. Width - 1, Bits(y) = 0 .. n - 1
    PROVE  y = 2 ^ n - 1
<1>1. Width \in Nat /\ Width \in 0 .. Width
      BY PoolAssumption
<1>2. PICK top \in Nat \ {0} : top = 2 ^ Width
      BY <1>1, PowerType
<1>3. PICK m \in Nat : m = 2 ^ n - 1
      BY MaskBits
<1>4. Bits(m) = Bits(y)
      BY <1>3, MaskBits
<1>5. y \in Nat /\ y \in 0 .. top - 1
      BY <1>2 DEF Words
<1>6. m \in 0 .. top - 1
  <2>1. n \in 0 .. Width /\ Width - n \in 0 .. Width - n /\ Width - n \in 0 .. Width
        /\ n + (Width - n) = Width
        BY <1>1
  <2>2. PICK a \in Nat \ {0}, b \in Nat \ {0} : a = 2 ^ n /\ b = 2 ^ (Width - n)
        BY <2>1, PowerType
  <2>3. 2 ^ (n + (Width - n)) = 2 ^ n * 2 ^ (Width - n)
        BY <2>1, PowerSum
  <2>4. top = a * b
        BY <1>2, <2>1, <2>2, <2>3
  <2>5. a <= a * b
        BY <2>2
  <2>6. m = a - 1
        BY <1>3, <2>2
  <2> QED
      BY <1>2, <2>2, <2>4, <2>5, <2>6
<1>7. PICK f : Sums(f, Bits(y))
      BY WordSums
<1>8. f[Width] = y % top
      BY <1>1, <1>2, <1>5, <1>7, SumsOfBits
<1>9. f[Width] = m % top
      BY <1>1, <1>2, <1>3, <1>4, <1>7, SumsOfBits
<1>10. ASSUME NEW z \in 0 .. top - 1
       PROVE  z % top = z
  <2>1. z \in Nat /\ z = top * 0 + z
        BY <1>2
  <2> QED
      BY <1>2, <2>1, QuotientUnique
<1>11. y = m
       BY <1>5, <1>6, <1>8, <1>9, <1>10
<1> QED
    BY <1>3, <1>11

\* nextNearestPow2uint64 is what it is called, for every width: the least power of
\* two that is not below v, for every v for which there is one among the words.
THEOREM RoundsUpToPow2 ==
    ASSUME NEW v \in 1 .. 2 ^ (Width - 1)
    PROVE  \E n \in 0 .. Width - 1 :
              /\ nextNearestPow2uint64(v) = 2 ^ n
              /\ v <= 2 ^ n
              /\ n > 0 => 2 ^ (n - 1) < v
<1>1. Width \in Nat \ {0} /\ Width - 1 \in 0 .. Width /\ (Width - 1) + 1 = Width
      BY PoolAssumption
<1>2. PICK half \in Nat \ {0} : half = 2 ^ (Width - 1)
      BY <1>1, PowerType
<1>3. PICK top \in Nat \ {0} : top = 2 ^ Width /\ top = 2 * half
  <2>1. 2 ^ ((Width - 1) + 1) = 2 * 2 ^ (Width - 1)
        BY <1>1, PoolAssumption
  <2> QED
      BY <1>1, <1>2, <2>1, PowerType
<1>4. PICK x \in Nat : x = v - 1 /\ x < half /\ v = x + 1
      BY <1>2
<1>5. x \in Words /\ x = (v - 1) % 2 ^ Width
  <2>1. x \in 0 .. top - 1 /\ x = top * 0 + x
        BY <1>3, <1>4
  <2>2. x % top = x
        BY <1>3, <2>1, QuotientUnique
  <2> QED
      BY <1>3, <1>4, <2>1, <2>2 DEF Words
<1>6. PICK bits : bits = Bits(x)
      OBVIOUS
<1>7. PICK y \in Words : /\ nextNearestPow2uint64(v) = (y + 1) % top
                         /\ Bits(y) = smeared(bits, Width)
      BY <1>3, <1>5, <1>6, AllRoundsSmear
<1> DEFINE U == {n \in Nat : bits \subseteq 0 .. n - 1}
<1>8. Width - 1 \in U
  <2>1. Width - 1 \notin bits
    <3>1. SUFFICES ASSUME Width - 1 \in Bits(x)
                   PROVE  FALSE
          BY <1>6
    <3>2. half <= x
          BY <1>2, <1>4, <3>1, HighBit
    <3> QED
        BY <1>2, <1>4, <3>2
  <2>2. bits \subseteq 0 .. Width - 1
        BY <1>6 DEF Bits
  <2>3. ASSUME NEW i \in bits
        PROVE  i \in 0 .. (Width - 1) - 1
    <3>1. i \in 0 .. Width - 1 /\ i # Width - 1
          BY <2>1, <2>2
    <3> QED
        BY <1>1, <3>1
  <2> QED
      BY <1>1, <2>3
<1>9. PICK n \in U : \A m \in U : n <= m
      BY <1>8, LeastNumber
<1>10. n \in 0 .. Width - 1 /\ bits \subseteq 0 .. n - 1
       BY <1>1, <1>8, <1>9
<1>11. ASSUME n > 0
       PROVE  n - 1 \in bits
  <2>1. SUFFICES ASSUME n - 1 \notin bits
                 PROVE  FALSE
        OBVIOUS
  <2>2. ASSUME NEW i \in bits
        PROVE  i \in 0 .. (n - 1) - 1
    <3>1. i \in 0 .. n - 1 /\ i # n - 1
          BY <1>10, <2>1
    <3> QED
        BY <1>10, <3>1
  <2>3. n - 1 \in Nat
        BY <1>10, <1>11
  <2>4. n - 1 \in U
        BY <2>2, <2>3
  <2> HIDE DEF U
  <2>5. n <= n - 1
        BY <1>9, <2>4
  <2> QED
      BY <1>10, <2>5
<1> HIDE DEF U
<1>12. smeared(bits, Width) = 0 .. n - 1
  <2>1. \A i : i \in smeared(bits, Width)
                 <=> i \in 0 .. Width - 1 /\ \E j \in bits : i <= j /\ j < i + top
        BY <1>3 DEF smeared
  <2>2. Width < top
        BY <1>1, <1>3, PowerAbove
  <2>3. ASSUME NEW i \in 0 .. Width - 1, NEW j \in bits, i <= j
        PROVE  i \in 0 .. n - 1
    <3>1. j \in 0 .. n - 1
          BY <1>10
    <3> QED
        BY <1>10, <2>3, <3>1
  <2>4. ASSUME NEW i \in 0 .. n - 1
        PROVE  i \in 0 .. Width - 1 /\ n - 1 \in bits /\ i <= n - 1 /\ n - 1 < i + top
    <3>1. n > 0
          BY <1>10
    <3>2. n - 1 \in bits
          BY <1>11, <3>1
    <3> QED
        BY <1>1, <1>3, <1>10, <2>2, <3>2
  <2>5. \A i : i \in smeared(bits, Width) <=> i \in 0 .. n - 1
        BY <2>1, <2>3, <2>4
  <2>6. PICK c : c = smeared(bits, Width)
        OBVIOUS
  <2>7. c = 0 .. n - 1
        BY <2>5, <2>6
  <2> QED
      BY <2>6, <2>7
<1>13. y = 2 ^ n - 1
       BY <1>7, <1>10, <1>12, FullMask
<1>14. PICK p \in Nat \ {0} : p = 2 ^ n
       BY <1>1, <1>10, PowerType
<1>15. p < top
  <2>1. /\ n \in 0 .. Width /\ Width - n \in 0 .. Width - n /\ Width - n \in 0 .. Width
        /\ n + (Width - n) = Width /\ 1 <= Width - n
        BY <1>1, <1>10
  <2>2. PICK b \in Nat : b = 2 ^ (Width - n) /\ Width - n < b
        BY <2>1, PowerType, PowerAbove
  <2>3. 2 ^ (n + (Width - n)) = 2 ^ n * 2 ^ (Width - n)
        BY <2>1, PowerSum
  <2>4. top = p * b
        BY <1>3, <1>14, <2>1, <2>2, <2>3
  <2>5. 2 <= b
        BY <1>10, <2>1, <2>2
  <2>6. p < p * b
        BY <1>14, <2>2, <2>5
  <2> QED
      BY <2>4, <2>6
<1>16. nextNearestPow2uint64(v) = p
  <2>1. y + 1 = p
        BY <1>13, <1>14
  <2>2. p \in 0 .. top - 1 /\ p = top * 0 + p
        BY <1>3, <1>14, <1>15
  <2>3. p % top = p
        BY <1>3, <1>14, <2>2, QuotientUnique
  <2> QED
      BY <1>7, <2>1, <2>3
<1>17. v <= p
  <2>1. x < 2 ^ n
        BY <1>1, <1>5, <1>6, <1>10, LowBits
  <2> QED
      BY <1>4, <1>14, <2>1
<1>18. ASSUME n > 0
       PROVE  2 ^ (n - 1) < v
  <2>1. n - 1 \in Bits(x)
        BY <1>6, <1>11, <1>18
  <2>2. n - 1 \in 0 .. Width
        BY <1>1, <1>10, <1>18
  <2>3. PICK a \in Nat : a = 2 ^ (n - 1)
        BY <2>2, PowerType
  <2>4. a <= x
        BY <1>4, <2>1, <2>3, HighBit
  <2> QED
      BY <1>4, <2>3, <2>4
<1> QED
    BY <1>10, <1>14, <1>16, <1>17, <1>18

-----------------------------------------------------------------------------
(***************************************************************************)
(* The round robin                                                         *)
(***************************************************************************)

\* The size of a pool divides the number of words.
LEMMA SizeDivides ==
    ASSUME NEW n \in 0 .. Width - 1
    PROVE  /\ 2 ^ n \in Nat \ {0} /\ 2 ^ Width \in Nat \ {0} /\ 2 ^ n < 2 ^ Width
           /\ \E k \in Nat \ {0} : 2 ^ Width = 2 ^ n * k
<1>1. /\ Width \in Nat /\ n \in 0 .. Width /\ Width \in 0 .. Width
      /\ Width - n \in 0 .. Width - n /\ Width - n \in 0 .. Width
      /\ n + (Width - n) = Width /\ 1 <= Width - n
      BY PoolAssumption
<1>2. PICK p \in Nat \ {0}, top \in Nat \ {0} : p = 2 ^ n /\ top = 2 ^ Width
      BY <1>1, PowerType
<1>3. PICK b \in Nat : b = 2 ^ (Width - n) /\ Width - n < b
      BY <1>1, PowerType, PowerAbove
<1>4. 2 ^ (n + (Width - n)) = 2 ^ n * 2 ^ (Width - n)
      BY <1>1, PowerSum
<1>5. top = p * b
      BY <1>1, <1>2, <1>3, <1>4
<1>6. b \in Nat \ {0} /\ 2 <= b
      BY <1>1, <1>3
<1>7. p < p * b
      BY <1>2, <1>6
<1> QED
    BY <1>2, <1>5, <1>6, <1>7

\* The remainder of a successor.
LEMMA NextRemainder ==
    ASSUME NEW c \in Nat, NEW z \in Nat \ {0}
    PROVE  (c + 1) % z = IF (c % z) + 1 = z THEN 0 ELSE (c % z) + 1
<1>1. PICK q \in Nat, r \in 0 .. z - 1 : q = c \div z /\ r = c % z /\ c = z * q + r
      BY Quotient
<1>2. CASE r + 1 = z
  <2>1. c + 1 = z * (q + 1) + 0 /\ q + 1 \in Nat /\ 0 \in 0 .. z - 1 /\ c + 1 \in Nat
    <3>1. z * (q + 1) = z * q + z /\ z * q \in Nat
          BY <1>1
    <3> QED
        BY <1>1, <1>2, <3>1
  <2>2. (c + 1) % z = 0
        BY <2>1, QuotientUnique
  <2> QED
      BY <1>1, <1>2, <2>2
<1>3. CASE r + 1 # z
  <2>1. c + 1 = z * q + (r + 1) /\ r + 1 \in 0 .. z - 1 /\ c + 1 \in Nat
    <3>1. z * q \in Nat
          BY <1>1
    <3> QED
        BY <1>1, <1>3, <3>1
  <2>2. (c + 1) % z = r + 1
    <3>1. PICK n \in Nat, s \in 0 .. z - 1 : n = c + 1 /\ s = r + 1
          BY <2>1
    <3>2. n = z * q + s
          BY <2>1, <3>1
    <3>3. n \in Nat /\ s \in 0 .. z - 1 /\ q \in Nat
          BY <1>1, <3>1
    <3>4. n % z = s
          BY <3>2, <3>3, QuotientUnique
    <3> QED
        BY <3>1, <3>4
  <2> QED
      BY <1>1, <1>3, <2>2
<1> QED
    BY <1>2, <1>3

\* The counter, below top, that follows c.
following(c, top) == (c + 1) % top

\* d selects the next of z sources after c.
InTurn(c, d, z, top) ==
    /\ d \in 0 .. top - 1
    /\ d % z = IF (c % z) + 1 = z THEN 0 ELSE (c % z) + 1
    /\ c % z \in 0 .. z - 1

\* The counter selects the sources in turn, also when it wraps.
LEMMA NextSelection ==
    ASSUME NEW z \in Nat \ {0}, NEW k \in Nat \ {0}, NEW top, top = z * k,
           NEW c \in 0 .. top - 1
    PROVE  InTurn(c, following(c, top), z, top)
<1>0. PICK d : d = (c + 1) % top /\ top \in Nat \ {0}
      OBVIOUS
<1>1. d \in 0 .. top - 1 /\ c \in Nat /\ c % z \in 0 .. z - 1
      BY <1>0, Quotient
<1> DEFINE Goal == /\ d \in 0 .. top - 1
                   /\ d % z = IF (c % z) + 1 = z THEN 0 ELSE (c % z) + 1
                   /\ c % z \in 0 .. z - 1
<1>2. ASSUME c + 1 < top PROVE Goal
  <2>1. c + 1 \in Nat /\ c + 1 \in 0 .. top - 1 /\ c + 1 = top * 0 + (c + 1)
        BY <1>0, <1>2
  <2>2. d = c + 1
        BY <1>0, <2>1, QuotientUnique
  <2>3. PICK e \in Nat : e = c
        BY <1>1
  <2>4. (e + 1) % z = IF (e % z) + 1 = z THEN 0 ELSE (e % z) + 1
        BY <2>3, NextRemainder
  <2> QED
      BY <1>1, <2>2, <2>3, <2>4
<1>3. ASSUME ~(c + 1 < top) PROVE Goal
  <2>1. c + 1 = top /\ c + 1 = top * 1 + 0 /\ 0 \in 0 .. top - 1 /\ c + 1 \in Nat
        BY <1>0, <1>3
  <2>2. d = 0
        BY <1>0, <2>1, QuotientUnique
  <2>3. c = z * (k - 1) + (z - 1) /\ k - 1 \in Nat /\ z - 1 \in 0 .. z - 1
    <3>1. z * (k - 1) = z * k - z
          OBVIOUS
    <3> QED
        BY <2>1, <3>1
  <2>4. c % z = z - 1
        BY <1>1, <2>3, QuotientUnique
  <2>5. 0 % z = 0
        OBVIOUS
  <2> QED
      BY <1>1, <2>2, <2>4, <2>5
<1>4. InTurn(c, d, z, top)
  <2>1. /\ d \in 0 .. top - 1
        /\ d % z = IF (c % z) + 1 = z THEN 0 ELSE (c % z) + 1
        /\ c % z \in 0 .. z - 1
        BY <1>2, <1>3
  <2> QED
      BY <2>1 DEF InTurn
<1> QED
    BY <1>0, <1>4 DEF following

\* The sources up to the one picked last have been picked once more than the others.
RoundRobin ==
    \E q \in Nat : \A s \in Sources :
        picks[s] = q + (IF s \in 1 .. counter % size THEN 1 ELSE 0)

\* A call that has still to draw says so.
DrawsLeft ==
    \A g \in Goroutines : pc[g] \in {"lock", "read", "write"} => left[g] # 0

\* The invariant: types, what the calls have left to do, and the round robin.
RobinInv ==
    /\ \E n \in 0 .. Width - 1 : size = 2 ^ n
    /\ counter \in Words
    /\ pc \in [Goroutines -> {"idle", "lock", "read", "write", "unlock"}]
    /\ source \in [Goroutines -> Sources]
    /\ left \in [Goroutines -> Nat]
    /\ seen \in [Goroutines -> Nat]
    /\ lk \in [Sources -> Goroutines \cup {Nobody}]
    /\ position \in [Sources -> Nat]
    /\ picks \in [Sources -> Nat]
    /\ DrawsLeft
    /\ RoundRobin

\* A new pool has a power of two of sources, none of them picked.
LEMMA RobinInit ==
    ASSUME Init
    PROVE  RobinInv
<1>1. PICK v \in Requested : size = nextNearestPow2uint64(v)
      BY DEF Init, groupsize
<1>2. v \in 1 .. 2 ^ (Width - 1)
      BY PoolAssumption
<1>3. PICK n \in 0 .. Width - 1 : size = 2 ^ n
      BY <1>1, <1>2, RoundsUpToPow2
<1>4. PICK z \in Nat \ {0} : z = size
      BY <1>3, SizeDivides
<1>5. counter = 0 /\ counter \in Words
  <2>1. PICK top \in Nat \ {0} : top = 2 ^ Width
        BY SizeDivides, <1>3
  <2> QED
      BY <2>1 DEF Init, Words
<1>6. 0 \in Sources
      BY <1>4 DEF Sources
<1>7. /\ pc = [g \in Goroutines |-> "idle"]
      /\ source = [g \in Goroutines |-> 0]
      /\ left = [g \in Goroutines |-> 0]
      /\ seen = [g \in Goroutines |-> 0]
      /\ lk = [s \in Sources |-> Nobody]
      /\ position = [s \in Sources |-> 0]
      /\ picks = [s \in Sources |-> 0]
      BY DEF Init
<1>8. RoundRobin
  <2>1. 0 % z = 0
        BY <1>4
  <2>2. \A s \in Sources : picks[s] = 0 + (IF s \in 1 .. 0 THEN 1 ELSE 0)
        BY <1>7
  <2>3. \A s \in Sources : picks[s] = 0 + (IF s \in 1 .. counter % size THEN 1 ELSE 0)
        BY <1>4, <1>5, <2>1, <2>2
  <2> QED
      BY <2>3 DEF RoundRobin
<1>9. DrawsLeft
      BY <1>7 DEF DrawsLeft
<1> QED
    BY <1>3, <1>5, <1>6, <1>7, <1>8, <1>9 DEF RobinInv

\* Pick returns one of the sources, the next one in turn.
LEMMA PickRobin ==
    ASSUME RobinInv, NEW g \in Goroutines, NEW n \in DrawCounts, Pick(g, n)
    PROVE  RobinInv'
<1>1. PICK e \in 0 .. Width - 1 : size = 2 ^ e
      BY DEF RobinInv
<1>2. PICK z \in Nat \ {0}, top \in Nat \ {0}, k \in Nat \ {0} :
          z = size /\ top = 2 ^ Width /\ top = z * k
      BY <1>1, SizeDivides
<1>3. PICK c \in 0 .. top - 1 : c = counter
      BY <1>2 DEF RobinInv, Words
<1>4. PICK d : d = (c + 1) % top
      OBVIOUS
<1>5. PICK r, s : r = c % z /\ s = d % z
      OBVIOUS
<1>6. /\ d \in 0 .. top - 1 /\ r \in 0 .. z - 1
      /\ s = IF r + 1 = z THEN 0 ELSE r + 1
  <2>1. /\ z \in Nat \ {0} /\ k \in Nat \ {0} /\ top \in Nat \ {0} /\ top = z * k
        /\ c \in 0 .. top - 1
        BY <1>2, <1>3
  <2>2. /\ d \in 0 .. top - 1
        /\ d % z = IF (c % z) + 1 = z THEN 0 ELSE (c % z) + 1
        /\ c % z \in 0 .. z - 1
    <3>1. InTurn(c, following(c, top), z, top)
          BY <2>1, NextSelection
    <3>2. d = following(c, top)
          BY <1>4 DEF following
    <3> QED
        BY <3>1, <3>2 DEF InTurn
  <2> QED
      BY <1>5, <2>2
<1>7. counter' = d /\ size' = size
      BY <1>2, <1>3, <1>4 DEF Pick, addUint64
<1>8. selection(counter') = s
  <2>1. and(d, 2 ^ e - 1) = d % 2 ^ e
        BY <1>6, AndIsRemainder
  <2> QED
      BY <1>1, <1>2, <1>5, <1>7, <2>1 DEF selection
<1>9. /\ source' = [source EXCEPT ![g] = s]
      /\ left' = [left EXCEPT ![g] = n]
      /\ pc' = [pc EXCEPT ![g] = "lock"]
      /\ picks' = [picks EXCEPT ![source'[g]] = @ + 1]
      /\ UNCHANGED << seen, lk, position >>
      BY <1>8 DEF Pick
<1>10. Sources' = Sources /\ Sources = 0 .. z - 1 /\ s \in Sources
       BY <1>2, <1>6, <1>7 DEF Sources
<1>11. picks' = [picks EXCEPT ![s] = @ + 1]
       BY <1>9 DEF RobinInv
<1>12. n \in Nat \ {0}
       BY PoolAssumption
<1>13. /\ source' \in [Goroutines -> Sources] /\ left' \in [Goroutines -> Nat]
       /\ pc' \in [Goroutines -> {"idle", "lock", "read", "write", "unlock"}]
       /\ picks' \in [Sources -> Nat]
  <2>1. source' \in [Goroutines -> Sources] /\ left' \in [Goroutines -> Nat]
        BY <1>9, <1>10, <1>12 DEF RobinInv
  <2>2. pc' \in [Goroutines -> {"idle", "lock", "read", "write", "unlock"}]
        BY <1>9 DEF RobinInv
  <2>3. picks' \in [Sources -> Nat]
        BY <1>10, <1>11, SMTT(30) DEF RobinInv
  <2> QED
      BY <2>1, <2>2, <2>3
<1>14. DrawsLeft'
       BY <1>9, <1>12 DEF RobinInv, DrawsLeft
<1>15. RoundRobin'
  <2>1. PICK q \in Nat : \A t \in Sources : picks[t] = q + (IF t \in 1 .. r THEN 1 ELSE 0)
        BY <1>2, <1>3, <1>5 DEF RobinInv, RoundRobin
  <2>2. ASSUME NEW t \in Sources
        PROVE  picks'[t] = q + (IF t \in 1 .. r THEN 1 ELSE 0) + (IF t = s THEN 1 ELSE 0)
        BY <1>11, <2>1 DEF RobinInv
  <2>3. CASE r + 1 = z
    <3>1. \A t \in Sources : picks'[t] = (q + 1) + (IF t \in 1 .. s THEN 1 ELSE 0)
          BY <1>6, <1>10, <2>1, <2>2, <2>3
    <3>2. q + 1 \in Nat
          BY <2>1
    <3>3. \E p \in Nat : \A t \in Sources : picks'[t] = p + (IF t \in 1 .. s THEN 1 ELSE 0)
          BY <3>1, <3>2
    <3> QED
        BY <1>2, <1>5, <1>7, <1>10, <3>3 DEF RoundRobin
  <2>4. CASE r + 1 # z
    <3>1. \A t \in Sources : picks'[t] = q + (IF t \in 1 .. s THEN 1 ELSE 0)
      <4>1. /\ s = r + 1 /\ r \in Nat /\ q \in Nat
            /\ \A t \in Sources : t \in Nat
            BY <1>6, <1>10, <2>1, <2>4
      <4>2. ASSUME NEW t \in Sources
            PROVE  picks'[t] = q + (IF t \in 1 .. s THEN 1 ELSE 0)
        <5>1. t \in 1 .. s <=> t \in 1 .. r \/ t = s
              BY <4>1
        <5>2. ~(t \in 1 .. r /\ t = s)
              BY <4>1
        <5> QED
            BY <2>2, <4>1, <5>1, <5>2
      <4> QED
          BY <4>2
    <3>2. \E p \in Nat : \A t \in Sources : picks'[t] = p + (IF t \in 1 .. s THEN 1 ELSE 0)
          BY <2>1, <3>1
    <3> QED
        BY <1>2, <1>5, <1>7, <1>10, <3>2 DEF RoundRobin
  <2> QED
      BY <2>3, <2>4
<1>16. counter' \in Words'
       BY <1>2, <1>6, <1>7 DEF Words
<1> QED
    BY <1>7, <1>9, <1>10, <1>13, <1>14, <1>15, <1>16 DEF RobinInv

\* The mutex steps of a call leave the round robin alone.
LEMMA RobinUnchanged ==
    ASSUME RoundRobin, UNCHANGED << size, counter, picks >>
    PROVE  RoundRobin' /\ Sources' = Sources
BY DEF RoundRobin, Sources

\* Lock.
LEMMA LockRobin ==
    ASSUME RobinInv, NEW g \in Goroutines, Lock(g)
    PROVE  RobinInv'
<1>1. RoundRobin' /\ Sources' = Sources
      BY RobinUnchanged DEF RobinInv, Lock
<1>2. lk' \in [Sources -> Goroutines \cup {Nobody}]
      BY DEF RobinInv, Lock
<1>3. pc' \in [Goroutines -> {"idle", "lock", "read", "write", "unlock"}]
      BY DEF RobinInv, Lock
<1>4. DrawsLeft'
      BY DEF RobinInv, Lock, DrawsLeft
<1>5. UNCHANGED << size, counter, source, left, seen, position, picks >>
      BY DEF Lock
<1> QED
    BY <1>1, <1>2, <1>3, <1>4, <1>5 DEF RobinInv, Words

\* A number is computed.
LEMMA ReadRobin ==
    ASSUME RobinInv, NEW g \in Goroutines, Read(g)
    PROVE  RobinInv'
<1>1. RoundRobin' /\ Sources' = Sources
      BY RobinUnchanged DEF RobinInv, Read
<1>2. seen' \in [Goroutines -> Nat]
      BY DEF RobinInv, Read
<1>3. pc' \in [Goroutines -> {"idle", "lock", "read", "write", "unlock"}]
      BY DEF RobinInv, Read
<1>4. DrawsLeft'
      BY DEF RobinInv, Read, DrawsLeft
<1>5. UNCHANGED << size, counter, source, left, lk, position, picks >>
      BY DEF Read
<1> QED
    BY <1>1, <1>2, <1>3, <1>4, <1>5 DEF RobinInv, Words

\* A number is drawn.
LEMMA WriteRobin ==
    ASSUME RobinInv, NEW g \in Goroutines, Write(g)
    PROVE  RobinInv'
<1>1. RoundRobin' /\ Sources' = Sources
      BY RobinUnchanged DEF RobinInv, Write
<1>2. seen' \in [Goroutines -> Nat] /\ position' \in [Sources -> Nat]
      BY DEF RobinInv, Write
<1>3. left[g] \in Nat \ {0}
      BY DEF RobinInv, Write, DrawsLeft
<1>4. left' = [left EXCEPT ![g] = left[g] - 1] /\ left'[g] = left[g] - 1
      BY DEF RobinInv, Write
<1>5. left' \in [Goroutines -> Nat]
      BY <1>3, <1>4 DEF RobinInv
<1>6. pc' = [pc EXCEPT ![g] = IF left'[g] = 0 THEN "unlock" ELSE "read"]
      BY DEF Write
<1>7. pc' \in [Goroutines -> {"idle", "lock", "read", "write", "unlock"}]
      BY <1>6 DEF RobinInv
<1>8. DrawsLeft'
  <2> SUFFICES ASSUME NEW h \in Goroutines, pc'[h] \in {"lock", "read", "write"}
               PROVE  left'[h] # 0
      BY DEF DrawsLeft
  <2>1. CASE h = g
        BY <1>6, <2>1 DEF RobinInv
  <2>2. CASE h # g
        BY <1>4, <1>6, <2>2 DEF RobinInv, DrawsLeft
  <2> QED
      BY <2>1, <2>2
<1>9. UNCHANGED << size, counter, source, lk, picks >>
      BY DEF Write
<1> QED
    BY <1>1, <1>2, <1>5, <1>7, <1>8, <1>9 DEF RobinInv, Words

\* The call returns.
LEMMA UnlockRobin ==
    ASSUME RobinInv, NEW g \in Goroutines, Unlock(g)
    PROVE  RobinInv'
<1>1. RoundRobin' /\ Sources' = Sources
      BY RobinUnchanged DEF RobinInv, Unlock
<1>2. lk' \in [Sources -> Goroutines \cup {Nobody}]
      BY DEF RobinInv, Unlock, release
<1>3. pc' \in [Goroutines -> {"idle", "lock", "read", "write", "unlock"}]
      BY DEF RobinInv, Unlock
<1>4. source' \in [Goroutines -> Sources]
  <2>1. PICK z \in Nat \ {0} : z = size
        BY SizeDivides DEF RobinInv
  <2>2. 0 \in Sources
        BY <2>1 DEF Sources
  <2> QED
      BY <2>2 DEF RobinInv, Unlock
<1>5. DrawsLeft'
      BY DEF RobinInv, Unlock, DrawsLeft
<1>6. UNCHANGED << size, counter, left, seen, position, picks >>
      BY DEF Unlock
<1> QED
    BY <1>1, <1>2, <1>3, <1>4, <1>5, <1>6 DEF RobinInv, Words

\* The round robin holds in every state of the pool.
THEOREM RobinInvariance == Spec => []RobinInv
<1>1. Init => RobinInv
      BY RobinInit
<1>2. RobinInv /\ UNCHANGED vars => RobinInv'
  <2> SUFFICES ASSUME RobinInv, UNCHANGED vars
               PROVE  RobinInv'
      OBVIOUS
  <2>1. RoundRobin' /\ Sources' = Sources
        BY RobinUnchanged DEF RobinInv, vars
  <2>2. DrawsLeft'
        BY DEF RobinInv, DrawsLeft, vars
  <2> QED
      BY <2>1, <2>2 DEF RobinInv, Words, vars
<1>3. RobinInv /\ [Next]_vars => RobinInv'
      BY <1>2, PickRobin, LockRobin, ReadRobin, WriteRobin, UnlockRobin DEF Next, CallStep
<1> QED
    BY <1>1, <1>3, PTL DEF Spec

\* For every width of the counter and every size asked for, the pool has a power of
\* two of sources and Pick never indexes outside of them.
THEOREM PoolTyped == Spec => []TypeOK
<1>1. IInv /\ RobinInv => TypeOK
  <2> SUFFICES ASSUME IInv, RobinInv
               PROVE  TypeOK
      OBVIOUS
  <2>1. PICK n \in 0 .. Width - 1 : size = 2 ^ n
        BY DEF RobinInv
  <2>2. PICK z \in Nat \ {0}, top \in Nat \ {0} : z = size /\ top = 2 ^ Width /\ z < top
        BY <2>1, SizeDivides
  <2>3. size \in Words
        BY <2>2 DEF Words
  <2>4. n \in 0 .. Width
        BY PoolAssumption
  <2>5. IsPow2(size)
        BY <2>1, <2>4 DEF IsPow2
  <2>6. numbers \in [Sources -> Seq(Nat)]
        BY DEF IInv, Shapes, PositionsCount
  <2> QED
      BY <2>3, <2>5, <2>6 DEF RobinInv, TypeOK
<1> QED
    BY <1>1, PoolInvariance, RobinInvariance, PTL

\* However many goroutines pick, whatever size was asked for and however often the
\* counter wraps, no source is picked twice more than another.
THEOREM LoadEven == Spec => []EvenLoad
<1>1. RobinInv => EvenLoad
  <2> SUFFICES ASSUME RobinInv
               PROVE  EvenLoad
      OBVIOUS
  <2>1. PICK r : r = counter % size
        OBVIOUS
  <2>2. PICK q \in Nat : \A s \in Sources : picks[s] = q + (IF s \in 1 .. r THEN 1 ELSE 0)
        BY <2>1 DEF RobinInv, RoundRobin
  <2>3. \A s \in Sources : picks[s] \in {q, q + 1}
        BY <2>2
  <2>4. \A a, b \in {q, q + 1} : a - b <= 1
        BY <2>2
  <2> QED
      BY <2>3, <2>4 DEF EvenLoad
<1> QED
    BY <1>1, RobinInvariance, PTL
=============================================================================
