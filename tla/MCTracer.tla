------------------------------ MODULE MCTracer ------------------------------
(* The tracer on small instances. *)
EXTENDS Tracer, TLC

CONSTANTS SpanSize   \* RawSpan.Len() of every span

MCSpanBytes(s) == SpanSize

\* Goroutines, connections and spans without a special role are alike.
PlainSpans == Spans \ ({MetaSpan} \cup Unsampled \cup Unencodable)

Symmetry ==
    Permutations(Callers) \cup Permutations(Conns) \cup Permutations(PlainSpans)
=============================================================================
