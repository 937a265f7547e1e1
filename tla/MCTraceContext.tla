--------------------------- MODULE MCTraceContext ---------------------------
(* Propagation over small numbers and a few stacks. *)
EXTENDS TraceContext

Lightstep == << "lightstep" >>
B3 == << "b3" >>
Binary == << "binary" >>
B3First == << "b3", "lightstep" >>

AllStacks == {Lightstep, B3, Binary, B3First}
B3Only == {B3}

\* Numbers with and without leading zeros.
MCTraceGUIDs == << 1, 6 >>
MCSpanGUIDs == << 2, 5 >>

\* An OpenCensus span, a child of it, and a span of another trace, with a trace
\* ID of 128 bits, that says by a link that it is its child, too.
OCRoot == [ TraceID |-> << 0, 3 >>, SpanID |-> 1, ParentSpanID |-> 0,
            Links |-> << >>, Tracestate |-> << >> ]
OCChild == [OCRoot EXCEPT !.SpanID = 4, !.ParentSpanID = 1,
                          !.Tracestate = [k \in {"user"} |-> "x"]]
OCLinked == [ TraceID |-> << 7, 6 >>, SpanID |-> 5, ParentSpanID |-> 2,
              Links |-> << [ Type |-> "parent", TraceID |-> << 7, 6 >>, SpanID |-> 2,
                             Attributes |-> << >> ],
                           [ Type |-> "child", TraceID |-> << 0, 3 >>, SpanID |-> 1,
                             Attributes |-> [k \in {"user"} |-> "y"] ] >>,
              Tracestate |-> << >> ]
OCSpans == {OCRoot, OCChild, OCLinked}

\* Two keys that differ only in case.
MCToLower(k) == IF k = "User" THEN "user" ELSE k
=============================================================================
