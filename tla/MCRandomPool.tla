---------------------------- MODULE MCRandomPool ----------------------------
(* The pool on a small instance. *)
EXTENDS RandomPool

\* nextNearestPow2uint64 against its name: the least power of two that is not
\* below v, for every v that has one among the words.
ASSUME RoundsUp ==
    \A v \in 1 .. 2 ^ (Width - 1) :
        LET r == nextNearestPow2uint64(v)
        IN  /\ IsPow2(r) /\ r >= v
            /\ \A i \in 0 .. Width - 1 : 2 ^ i >= v => r <= 2 ^ i

\* Why util.go's max(16, ...) matters: a pool of no sources.
ASSUME RoundsZeroToZero == nextNearestPow2uint64(0) = 0
=============================================================================
