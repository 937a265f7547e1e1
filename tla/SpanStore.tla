----------------------------- MODULE SpanStore ------------------------------
(***************************************************************************)
(* What the tracer promises of finished spans, without its buffers, locks, *)
(* goroutines and retries: a store of bounded capacity that holds each     *)
(* span until a report with it is accepted, drops spans only for want of   *)
(* room, no more than it must, and counts every one it drops; what it      *)
(* discards for another reason is known, too.                              *)
(***************************************************************************)
EXTENDS Integers, FiniteSets

CONSTANTS
    Spans,
    Capacity,    \* of the buffer that collects spans
    Unsampled    \* spans nobody wants

VARIABLES
    pending,     \* spans held
    offered,     \* spans finished so far
    accepted,    \* spans in reports the collector has accepted
    dropCount,   \* drops counted
    discarded,   \* spans of reports that turned out untranslatable, or held
                 \* when the store was turned off
    off          \* disabled

vars == << pending, offered, accepted, dropCount, discarded, off >>

Init ==
    /\ pending = {}
    /\ offered = {}
    /\ accepted = {}
    /\ dropCount = 0
    /\ discarded = {}
    /\ off = FALSE

Hold(s) ==
    /\ s \notin offered
    /\ offered' = offered \cup {s}
    /\ pending' = pending \cup {s}
    /\ ~off
    /\ UNCHANGED << accepted, dropCount, discarded, off >>

\* The store is full.
Drop(s) ==
    /\ s \notin offered
    /\ offered' = offered \cup {s}
    /\ Cardinality(pending) >= Capacity
    /\ dropCount' = dropCount + 1
    /\ ~off
    /\ UNCHANGED << pending, accepted, discarded, off >>

\* The span is not sampled, or the tracer is disabled.
Ignore(s) ==
    /\ s \notin offered
    /\ off \/ s \in Unsampled
    /\ offered' = offered \cup {s}
    /\ UNCHANGED << pending, accepted, dropCount, discarded, off >>

\* The collector accepts a report, perhaps again, of spans that are pending.
Accept(S) ==
    /\ S \subseteq pending
    /\ accepted' = accepted \cup S
    /\ UNCHANGED << pending, offered, dropCount, discarded, off >>

\* The tracer learns of it and forgets the spans.
Forget(S) ==
    /\ S \subseteq pending \cap accepted
    /\ pending' = pending \ S
    /\ UNCHANGED << offered, accepted, dropCount, discarded, off >>

\* After a failed report the spans no longer all fit: as many stay as can.
Overflow(S) ==
    /\ S \subseteq pending
    /\ Cardinality(pending \ S) = Capacity
    /\ pending' = pending \ S
    /\ dropCount' = dropCount + Cardinality(S)
    /\ UNCHANGED << offered, accepted, discarded, off >>

Discard(S) ==
    /\ S \subseteq pending
    /\ pending' = pending \ S
    /\ discarded' = discarded \cup S
    /\ UNCHANGED << offered, accepted, dropCount, off >>

TurnOff(S) ==
    /\ ~off
    /\ off' = TRUE
    /\ S \subseteq pending
    /\ pending' = pending \ S
    /\ discarded' = discarded \cup S
    /\ UNCHANGED << offered, accepted, dropCount >>

Next ==
    \/ \E s \in Spans : Hold(s) \/ Drop(s) \/ Ignore(s)
    \/ \E S \in SUBSET pending :
          Accept(S) \/ Forget(S) \/ Overflow(S) \/ Discard(S) \/ TurnOff(S)

Spec == Init /\ [][Next]_vars
=============================================================================
