---------------------------- MODULE ReportRequest ---------------------------
(***************************************************************************)
(* What Flush turns the flushing buffer into: the number of parts its size *)
(* heuristic picks, the requests reportRequest.SplitByParts makes of it,   *)
(* and the encoder errors that toReportRequest counts on the way.  A       *)
(* request is abstracted to the sequence of spans it carries.              *)
(***************************************************************************)
EXTENDS Integers, Sequences, FiniteSets

CONSTANTS
    SpanBytes(_),                \* RawSpan.Len()
    GRPCMaxCallSendMsgSizeBytes, \* Options
    Unencodable                  \* spans with a log object json cannot encode

\* The quotient rounded up, as Flush and SplitByParts both compute it.
CeilDiv(n, d) == (n \div d) + (IF n % d # 0 THEN 1 ELSE 0)

\* Flush estimates the size from the span at a random index (the larger of
\* two samples, which is some sample), times the number of spans.
partsFor(spans) ==
    IF spans = << >>
    THEN {1}
    ELSE { LET size == SpanBytes(spans[pivot]) * Len(spans)
           IN  IF size > GRPCMaxCallSendMsgSizeBytes
               THEN CeilDiv(size, GRPCMaxCallSendMsgSizeBytes)
               ELSE 1
           : pivot \in DOMAIN spans }

\* The slices of at most maxSize spans that SplitByParts cuts, in order.
chunksOf(spans, parts) ==
    LET maxSize == CeilDiv(Len(spans), parts)
        cut(i) == IF i * maxSize > Len(spans) THEN Len(spans) ELSE i * maxSize
    IN  [i \in 1 .. CeilDiv(Len(spans), maxSize) |->
            SubSeq(spans, (i - 1) * maxSize + 1, cut(i))]

\* r := rr copies the struct but not what rr.protoRequest points to, so every
\* part is the one protobuf request, which carries the last slice stored in it.
SplitByParts(spans, parts) ==
    IF spans = << >> \/ parts <= 1
    THEN << spans >>
    ELSE LET chunks == chunksOf(spans, parts)
         IN  [i \in DOMAIN chunks |-> chunks[Len(chunks)]]

\* EmitObject counts an error for every log object it cannot encode; a span
\* of Unencodable has one.
encoderErrors(spans) ==
    Cardinality({i \in DOMAIN spans : spans[i] \in Unencodable})
=============================================================================
