----------------------------- MODULE RandomPool -----------------------------
(***************************************************************************)
(* Where span and trace identifiers come from: rand.Pool (pool.go), a      *)
(* round robin over generators each behind its own mutex (LockedRand,      *)
(* locked_rand.go), as genSeededGUID and genSeededGUID2 (util.go) use it   *)
(* from any number of goroutines.                                          *)
(*                                                                         *)
(* A math/rand generator is external: it is its position in the sequence   *)
(* of numbers that its seed determines, and drawing a number reads the     *)
(* position and then writes it, so that it takes the mutex to make a draw  *)
(* atomic.  Words have Width bits, 64 in the code.  Seed, which nobody may *)
(* call concurrently, is left out.                                         *)
(* Operators named Mut... are plausible bugs, used only for mutation       *)
(* testing of the properties.                                              *)
(***************************************************************************)
EXTENDS Integers, Sequences, FiniteSetsExt

CONSTANTS
    Goroutines,
    Nobody,
    Width,      \* bits of a uint64
    Requested,  \* sizes that NewPool may be called with
    DrawCounts, \* numbers that one call of a LockedRand method draws
    MaxPicks    \* bound: calls of Pick

Words == 0 .. 2 ^ Width - 1

ASSUME PoolAssumption ==
    /\ Nobody \notin Goroutines
    /\ Width \in Nat \ {0}
    \* powers of two, spelt out for the proofs
    /\ 2 ^ 0 = 1 /\ \A k \in 0 .. Width - 1 : 2 ^ (k + 1) = 2 * 2 ^ k
    \* util.go asks for max(16, NumCPU): never 0, never above 2^63
    /\ Requested \subseteq 1 .. 2 ^ (Width - 1)
    /\ DrawCounts \subseteq Nat \ {0}
    /\ MaxPicks \in Nat

-----------------------------------------------------------------------------
(***************************************************************************)
(* Words and their bits                                                    *)
(***************************************************************************)

Bits(w) == {i \in 0 .. Width - 1 : (w \div 2 ^ i) % 2 = 1}

Word(bits) ==
    LET upTo[k \in 0 .. Width] ==
            IF k = 0 THEN 0
            ELSE upTo[k - 1] + (IF k - 1 \in bits THEN 2 ^ (k - 1) ELSE 0)
    IN  upTo[Width]

\* v |= v >> k
orShifted(k, v) == Word(Bits(v) \cup Bits(v \div 2 ^ k))

\* v--, the highest bit smeared over all lower ones by the shifts 1, 2, 4, ...
\* below the width (1 to 32 for 64 bits), v++.
nextNearestPow2uint64(v) ==
    LET after[k \in 0 .. Width] ==
            IF k = 0 THEN (v - 1) % 2 ^ Width
            ELSE IF 2 ^ (k - 1) < Width THEN orShifted(2 ^ (k - 1), after[k - 1])
            ELSE after[k - 1]
    IN  (after[Width] + 1) % 2 ^ Width

\* x & y
and(x, y) == Word(Bits(x) \cap Bits(y))

-----------------------------------------------------------------------------
VARIABLES
    size,     \* Pool.size: the number of sources
    counter,  \* Pool.counter
    pc,       \* where each goroutine is in its call
    source,   \* the index of the generator its Pick returned (0 outside a call)
    left,     \* numbers its call has still to draw
    seen,     \* the position its draw has read (0 outside a draw)
    lk,       \* LockedRand.lk of each source: its holder, or Nobody
    position  \* of each source's generator

\* History variables.
VARIABLES
    picks,    \* how often each source was picked
    numbers   \* positions of the numbers each source gave out, in order

vars == << size, counter, pc, source, left, seen, lk, position, picks, numbers >>

Sources == 0 .. size - 1

TotalPicks == MapThenSumSet(LAMBDA s : picks[s], Sources)

MutNotRounded(v) == v

\* The number of sources of a pool asked for with size v.
groupsize(v) == nextNearestPow2uint64(v)

\* NewPool, and seed: generators with seeds of their own.
Init ==
    /\ size \in {groupsize(v) : v \in Requested}
    /\ counter = 0
    /\ pc = [g \in Goroutines |-> "idle"]
    /\ source = [g \in Goroutines |-> 0]
    /\ left = [g \in Goroutines |-> 0]
    /\ seen = [g \in Goroutines |-> 0]
    /\ lk = [s \in Sources |-> Nobody]
    /\ position = [s \in Sources |-> 0]
    /\ picks = [s \in Sources |-> 0]
    /\ numbers = [s \in Sources |-> << >>]

\* atomic.AddUint64(&r.counter, 1)
addUint64(c) == (c + 1) % 2 ^ Width

MutMaskSize(c) == and(c, size)

\* The source that the counter selects.
selection(c) == and(c, size - 1)

\* genSeededGUID, genSeededGUID2: Pick adds to the counter atomically, which
\* wraps, and returns a generator; a method of it is called next.
Pick(g, n) ==
    /\ pc[g] = "idle"
    /\ TotalPicks < MaxPicks
    /\ counter' = addUint64(counter)
    /\ source' = [source EXCEPT ![g] = selection(counter')]
    /\ left' = [left EXCEPT ![g] = n]
    /\ pc' = [pc EXCEPT ![g] = "lock"]
    /\ picks' = [picks EXCEPT ![source'[g]] = @ + 1]
    /\ UNCHANGED << size, seen, lk, position, numbers >>

MutNoWait(s) == TRUE

unlocked(s) == lk[s] = Nobody

\* lr.lk.Lock()
Lock(g) ==
    /\ pc[g] = "lock"
    /\ unlocked(source[g])
    /\ lk' = [lk EXCEPT ![source[g]] = g]
    /\ pc' = [pc EXCEPT ![g] = "read"]
    /\ UNCHANGED << size, counter, source, left, seen, position, picks, numbers >>

\* The generator computes its next number ...
Read(g) ==
    /\ pc[g] = "read"
    /\ seen' = [seen EXCEPT ![g] = position[source[g]]]
    /\ pc' = [pc EXCEPT ![g] = "write"]
    /\ UNCHANGED << size, counter, source, left, lk, position, picks, numbers >>

\* ... and moves on.  TwoUint64 draws twice, Perm and others as often as they
\* need, under one lock.
Write(g) ==
    /\ pc[g] = "write"
    /\ position' = [position EXCEPT ![source[g]] = seen[g] + 1]
    /\ numbers' = [numbers EXCEPT ![source[g]] = Append(@, seen[g])]
    /\ seen' = [seen EXCEPT ![g] = 0]
    /\ left' = [left EXCEPT ![g] = @ - 1]
    /\ pc' = [pc EXCEPT ![g] = IF left'[g] = 0 THEN "unlock" ELSE "read"]
    /\ UNCHANGED << size, counter, source, lk, picks >>

MutStayLocked(s) == UNCHANGED lk

release(s) == lk' = [lk EXCEPT ![s] = Nobody]

\* lr.lk.Unlock(), and the call returns.
Unlock(g) ==
    /\ pc[g] = "unlock"
    /\ release(source[g])
    /\ source' = [source EXCEPT ![g] = 0]
    /\ pc' = [pc EXCEPT ![g] = "idle"]
    /\ UNCHANGED << size, counter, left, seen, position, picks, numbers >>

CallStep(g) == Lock(g) \/ Read(g) \/ Write(g) \/ Unlock(g)

Next ==
    \E g \in Goroutines : (\E n \in DrawCounts : Pick(g, n)) \/ CallStep(g)

Spec == Init /\ [][Next]_vars

\* The scheduler runs every goroutine that can run, and sync.Mutex hands the
\* lock to one that has waited too long.  Nobody has to call Pick.
FairSpec == Spec /\ \A g \in Goroutines : WF_vars(CallStep(g)) /\ SF_vars(Lock(g))

-----------------------------------------------------------------------------
(***************************************************************************)
(* Properties                                                              *)
(***************************************************************************)

IsPow2(n) == \E i \in 0 .. Width : n = 2 ^ i

\* Every variable has its type: the pool has a power of two of sources, and
\* Pick never indexes outside of them, before and after the counter wraps.
TypeOK ==
    /\ size \in Words /\ IsPow2(size)
    /\ counter \in Words
    /\ pc \in [Goroutines -> {"idle", "lock", "read", "write", "unlock"}]
    /\ source \in [Goroutines -> Sources]
    /\ left \in [Goroutines -> Nat]
    /\ seen \in [Goroutines -> Nat]
    /\ lk \in [Sources -> Goroutines \cup {Nobody}]
    /\ position \in [Sources -> Nat]
    /\ picks \in [Sources -> Nat]
    /\ numbers \in [Sources -> Seq(Nat)]

\* Two goroutines that drew from one source never got the same number of its
\* sequence, and none was skipped: identifiers repeat only if math/rand does.
NumbersGivenOnce ==
    \A s \in Sources : \A i \in DOMAIN numbers[s] : numbers[s][i] = i - 1

\* The round robin has no gap: however many goroutines pick and whatever size
\* was asked for, no source is picked twice more than another, not even over
\* the wrap of the counter.
EvenLoad == \A s, t \in Sources : picks[s] - picks[t] <= 1

\* A call that picked a generator gets its numbers and returns.
CallsReturn == \A g \in Goroutines : (pc[g] = "lock") ~> (pc[g] = "idle")
=============================================================================
