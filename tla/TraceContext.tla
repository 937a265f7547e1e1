---------------------------- MODULE TraceContext ----------------------------
(***************************************************************************)
(* Spans that start, hand out their contexts, get baggage and finish, and  *)
(* contexts that travel between processes through propagators (newSpan and *)
(* the baggage methods of span.go, raw_span.go, Inject and Extract of      *)
(* tracer.go).  Processes differ only in their propagators, so an action   *)
(* takes any of them.  Baggage maps are shared by reference: a context     *)
(* holds an index into `maps`, 0 for a nil map.  The OpenCensus exporter   *)
(* (lightstepoc) starts and finishes a span for each finished span that it *)
(* is given.                                                               *)
(*                                                                         *)
(* The origin of a context is what it ought to stand for: the span that    *)
(* first handed it out, as it was then.  It is history, like seen, cause,  *)
(* own and exported.                                                       *)
(* Operators named Mut... are plausible bugs, used only for mutation       *)
(* testing of the properties.                                              *)
(***************************************************************************)
EXTENDS Propagation, FiniteSets

CONSTANTS
    Propagators,   \* stacks of propagators in use
    TraceGUIDs,    \* what genSeededGUID2 and genSeededGUID generate, by the
    SpanGUIDs,     \* number of the span: random, and taken never to collide
    SetTraceIDs,   \* arguments of the options SetTraceID, ...
    SetSpanIDs,    \* ... SetSpanID and SetParentSpanID ...
    SetSampleds,   \* ... and SetSampled
    BaggageKeys,
    BaggageValues,
    PeerIDs,       \* numbers in the headers of other B3 libraries ...
    PeerUppers,    \* ... and upper halves of their trace IDs
    SpanDatas,     \* finished spans that OpenCensus gives to the exporter
    MaxSpans, MaxContexts, MaxCarriers, MaxMaps  \* bounds

\* What the Go types say of a finished span of OpenCensus.
IsSpanData(sd) ==
    /\ sd.TraceID \in Uint64 \X Uint64
    /\ sd.SpanID \in Uint64 /\ sd.ParentSpanID \in Uint64
    /\ DOMAIN sd.Links \subseteq Nat
    /\ \A i \in DOMAIN sd.Links :
          sd.Links[i].TraceID \in Uint64 \X Uint64 /\ sd.Links[i].SpanID \in Uint64

ASSUME TraceContextAssumption ==
    /\ TraceGUIDs \in Seq(Uint64 \ {0}) /\ Len(TraceGUIDs) >= MaxSpans
    /\ SpanGUIDs \in Seq(Uint64 \ {0}) /\ Len(SpanGUIDs) >= MaxSpans
    /\ SetTraceIDs \subseteq Uint64
    /\ SetSpanIDs \subseteq Uint64
    /\ PeerIDs \subseteq Uint64 \ {0}
    /\ PeerUppers \subseteq Uint64
    /\ \A sd \in SpanDatas : IsSpanData(sd)
    /\ MaxSpans \in Nat

VARIABLES
    spans,     \* spans started
    contexts,  \* contexts that Context or Extract returned
    carriers,  \* carriers written
    maps,      \* baggage maps
    recorded   \* indices of the spans given to RecordSpan and not refused

vars == << spans, contexts, carriers, maps, recorded >>

NilMap == 0

\* Reading a nil map finds nothing.
Items(m) == IF m = NilMap THEN << >> ELSE maps[m]

Init ==
    /\ spans = << >>
    /\ contexts = {}
    /\ carriers = {}
    /\ maps = << >>
    /\ recorded = {}

-----------------------------------------------------------------------------
StartSpanOptions ==
    [ SetTraceID : SetTraceIDs, SetSpanID : SetSpanIDs,
      SetParentSpanID : SetSpanIDs, SetSampled : SetSampleds ]

\* ref has the first reference, if there is one and it is to a LightStep context.
refCtx(ref) == (CHOOSE c \in ref : TRUE).context

\* The explicit IDs count only together with a trace ID; a reference overrides
\* all but the span ID, and does not pass on TraceIDUpper.
startContext(o, ref) ==
    LET explicit == [ TraceID |-> o.SetTraceID,
                      TraceIDUpper |-> 0,
                      SpanID |-> IF o.SetTraceID # 0 THEN o.SetSpanID ELSE 0,
                      Sampled |-> IF o.SetTraceID # 0 THEN o.SetSampled ELSE "" ]
    IN  IF ref = {} THEN explicit
        ELSE [explicit EXCEPT !.TraceID = refCtx(ref).TraceID, !.Sampled = refCtx(ref).Sampled]

parentSpanID(o, ref) ==
    IF ref # {} THEN refCtx(ref).SpanID
    ELSE IF o.SetTraceID # 0 THEN o.SetParentSpanID ELSE 0

\* The IDs that are still missing are generated.
generate(c, t, s) ==
    IF c.TraceID = 0 THEN [c EXCEPT !.TraceID = t, !.SpanID = s]
    ELSE IF c.SpanID = 0 THEN [c EXCEPT !.SpanID = s]
    ELSE c

MutInherits(items) == FALSE

\* The referenced baggage is copied unless it is empty.
inherits(items) == DOMAIN items # {}

withMap(c, m) ==
    [ TraceID |-> c.TraceID, TraceIDUpper |-> c.TraceIDUpper, SpanID |-> c.SpanID,
      Sampled |-> c.Sampled, Baggage |-> m ]

\* newSpan
StartSpan(o, ref) ==
    LET n == Len(spans) + 1
        items == IF ref = {} THEN << >>
                 ELSE Items(refCtx(ref).Baggage)
        copied == inherits(items)
    IN  /\ n <= MaxSpans
        /\ maps' = IF copied THEN Append(maps, items) ELSE maps
        /\ spans' = Append(spans,
              [ context |-> withMap(generate(startContext(o, ref), TraceGUIDs[n], SpanGUIDs[n]),
                                    IF copied THEN Len(maps') ELSE NilMap),
                ParentSpanID |-> parentSpanID(o, ref),
                finished |-> FALSE,
                cause |-> {c.origin : c \in ref},
                own |-> {},
                exported |-> {} ])
        /\ UNCHANGED << contexts, carriers, recorded >>

\* WithBaggageItem: a copy of the map with the item set.
put(items, k, v) == [j \in DOMAIN items \cup {k} |-> IF j = k THEN v ELSE items[j]]

MutWithBaggageItem(c, k, v) ==
    IF c.Baggage = NilMap
    THEN [ maps |-> Append(maps, put(<< >>, k, v)),
           context |-> [c EXCEPT !.Baggage = Len(maps) + 1] ]
    ELSE [ maps |-> [maps EXCEPT ![c.Baggage] = put(@, k, v)], context |-> c ]

WithBaggageItem(c, k, v) ==
    [ maps |-> Append(maps, put(Items(c.Baggage), k, v)),
      context |-> [c EXCEPT !.Baggage = Len(maps) + 1] ]

SetBaggageItem(n, k, v) ==
    LET new == WithBaggageItem(spans[n].context, k, v)
    IN  /\ ~spans[n].finished
        /\ Len(maps) < MaxMaps
        /\ maps' = new.maps
        /\ spans' = [spans EXCEPT ![n].context = new.context, ![n].own = @ \cup {k}]
        /\ UNCHANGED << contexts, carriers, recorded >>

\* Context reads raw.Context without the lock.  SetBaggageItem, running at the
\* same time, changes one word of it, so that it reads the old or the new one.
Context(n) ==
    LET c == spans[n].context
    IN  /\ Cardinality(contexts) < MaxContexts
        /\ contexts' = contexts \cup {
              [ context |-> c, seen |-> Items(c.Baggage),
                origin |-> [ TraceID |-> c.TraceID, TraceIDUpper |-> c.TraceIDUpper,
                             SpanID |-> c.SpanID, Sampled |-> c.Sampled,
                             items |-> Items(c.Baggage), b3 |-> FALSE ] ]}
        /\ UNCHANGED << spans, carriers, maps, recorded >>

\* FinishWithOptions and RecordSpan, on a tracer that is not disabled.
Finish(n) ==
    /\ ~spans[n].finished
    /\ spans' = [spans EXCEPT ![n].finished = TRUE]
    /\ recorded' = IF spans[n].context.Sampled = "false" THEN recorded
                   ELSE recorded \cup {n}
    /\ UNCHANGED << contexts, carriers, maps >>

\* The exporter.  A trace ID of OpenCensus has two halves, of which one is kept.
MutConvertTraceID(id) == id[1]

ConvertTraceID(id) == id[2]

\* Of the child links, which ExportSpan turns into references, newSpan uses the
\* first.
childLink(sd) ==
    LET children == {i \in DOMAIN sd.Links : sd.Links[i].Type = "child"}
    IN  {sd.Links[i] : i \in {j \in children : \A k \in children : j <= k}}

ConvertLinkToSpanContext(link) ==
    [ TraceID |-> ConvertTraceID(link.TraceID), SpanID |-> link.SpanID, Sampled |-> "" ]

\* ExportSpan: start a span with these IDs, set the Tracestate as its baggage,
\* and finish it.
ExportSpan(sd) ==
    LET n == Len(spans) + 1
        o == [ SetTraceID |-> ConvertTraceID(sd.TraceID), SetSpanID |-> sd.SpanID,
               SetParentSpanID |-> sd.ParentSpanID, SetSampled |-> "" ]
        ref == {[context |-> ConvertLinkToSpanContext(l)] : l \in childLink(sd)}
        linked == IF ref = {} THEN << >> ELSE (CHOOSE l \in childLink(sd) : TRUE).Attributes
        items == [k \in DOMAIN linked \cup DOMAIN sd.Tracestate |->
                     IF k \in DOMAIN sd.Tracestate THEN sd.Tracestate[k] ELSE linked[k]]
    IN  /\ n <= MaxSpans
        /\ maps' = IF inherits(items) THEN Append(maps, items) ELSE maps
        /\ spans' = Append(spans,
              [ context |-> withMap(generate(startContext(o, ref), TraceGUIDs[n], SpanGUIDs[n]),
                                    IF inherits(items) THEN Len(maps') ELSE NilMap),
                ParentSpanID |-> parentSpanID(o, ref),
                finished |-> TRUE,
                cause |-> {},
                own |-> DOMAIN items,
                exported |-> {sd} ])
        /\ recorded' = recorded \cup {n}
        /\ UNCHANGED << contexts, carriers >>

\* tracer.Inject with a context of a span or of an earlier Extract.
TracerInject(c, stack) ==
    /\ Cardinality(carriers) < MaxCarriers
    /\ carriers' = carriers \cup {
          [ content |-> Inject(stack, c.context, Items(c.context.Baggage)),
            origin |-> c.origin ]}
    /\ UNCHANGED << spans, contexts, maps, recorded >>

\* tracer.Extract of a carrier, as often as one likes.  An error leaves the
\* application without a context.
TracerExtract(carrier, stack) ==
    /\ Cardinality(contexts) < MaxContexts
    /\ \E r \in Extract(stack, carrier.content) :
          LET nil == r.family = "binary" /\ DOMAIN r.items = {}
          IN  /\ maps' = IF nil THEN maps ELSE Append(maps, r.items)
              /\ contexts' = contexts \cup {
                    [ context |-> withMap(r.context, IF nil THEN NilMap ELSE Len(maps')),
                      seen |-> r.items,
                      origin |-> [carrier.origin EXCEPT !.b3 = @ \/ r.family = "b3"] ]}
    /\ UNCHANGED << spans, carriers, recorded >>

\* Another library's B3 headers, padded: a trace ID of 64 bits, of 128 bits or
\* of a length that no trace ID has, or without a span ID.
PeerInject(id, upper, len, missing) ==
    LET h == [ traceid |-> digitsOf(upper, len - Digits) \o digitsOf(id, Digits),
               spanid |-> digitsOf(id, Digits),
               sampled |-> "0" ]
    IN  /\ Cardinality(carriers) < MaxCarriers
        /\ upper < Base ^ (len - Digits)
        /\ missing # "none" => len = Digits
        /\ carriers' = carriers \cup {
              [ content |->
                   [ kind |-> "text",
                     headers |-> [f \in {"b3"} |-> [x \in Required \ {missing} |-> h[x]]],
                     items |-> << >> ],
                origin |-> [ TraceID |-> id, TraceIDUpper |-> upper, SpanID |-> id,
                             Sampled |-> "0", items |-> << >>, b3 |-> FALSE ] ]}
        /\ UNCHANGED << spans, contexts, maps, recorded >>

Next ==
    \/ \E o \in StartSpanOptions, ref \in {{}} \cup {{c} : c \in contexts} : StartSpan(o, ref)
    \/ \E sd \in SpanDatas : ExportSpan(sd)
    \/ \E n \in DOMAIN spans :
          \/ \E k \in BaggageKeys, v \in BaggageValues : SetBaggageItem(n, k, v)
          \/ Context(n)
          \/ Finish(n)
    \/ \E stack \in Propagators :
          \/ \E c \in contexts : TracerInject(c, stack)
          \/ \E carrier \in carriers : TracerExtract(carrier, stack)
    \/ \E id \in PeerIDs, upper \in PeerUppers, len \in {Digits, 2 * Digits - 1, 2 * Digits},
          missing \in {"none", "spanid"} :
          PeerInject(id, upper, len, missing)

Spec == Init /\ [][Next]_vars

-----------------------------------------------------------------------------
\* IDs are numbers of 64 bits and a map is one that exists.
IsSpanContext(c) ==
    c \in [ TraceID : Uint64, TraceIDUpper : Uint64, SpanID : Uint64,
            Sampled : {c.Sampled}, Baggage : 0 .. Len(maps) ]

\* Every ID is a number of 64 bits and every map exists.
TypeOK ==
    /\ \A n \in DOMAIN spans :
          IsSpanContext(spans[n].context) /\ spans[n].ParentSpanID \in Uint64
    /\ \A c \in contexts : IsSpanContext(c.context)
    /\ recorded \subseteq DOMAIN spans

\* A span started with a reference is in the trace, and a child, of the span
\* that first handed the context out, whatever processes, propagators and
\* stacks the context went through on its way.  (Traces with IDs of 64 bits.)
TraceConnected ==
    \A n \in DOMAIN spans : \A o \in spans[n].cause :
        o.TraceIDUpper = 0 => /\ spans[n].context.TraceID = o.TraceID
                              /\ spans[n].ParentSpanID = o.SpanID

\* What OpenCensus exports is connected as OpenCensus had it: a span whose first
\* child link, or else whose parent, is another exported span is its child.  (A
\* span with a child link moves to the trace of the link, without its children.)
ExportedConnected ==
    \A m, n \in DOMAIN spans :
        \A child \in spans[m].exported, parent \in spans[n].exported :
            LET of == IF childLink(child) = {}
                      THEN {<< child.TraceID, child.ParentSpanID >>}
                      ELSE {<< l.TraceID, l.SpanID >> : l \in childLink(child)}
            IN  of = {<< parent.TraceID, parent.SpanID >>} /\ childLink(parent) = {}
                  => /\ spans[m].context.TraceID = spans[n].context.TraceID
                     /\ spans[m].ParentSpanID = spans[n].context.SpanID

\* A span has its cause's baggage as it was when the context was handed out,
\* the case of the keys aside, and besides only what it set itself.
BaggageInherited ==
    \A n \in DOMAIN spans : \A o \in spans[n].cause :
        LET items == Items(spans[n].context.Baggage)
            handed(k) == {o.items[j] : j \in {i \in DOMAIN o.items : k \in {i, ToLower(i)}}}
        IN  /\ \A k \in DOMAIN items : k \in spans[n].own \/ items[k] \in handed(k)
            /\ \A k \in DOMAIN o.items : {k, ToLower(k)} \cap DOMAIN items # {}

\* A context, once handed out, does not change, although its map is shared with
\* the span, whose baggage may be set by other goroutines.
ContextsStable ==
    \A c \in contexts : Items(c.context.Baggage) = c.seen

\* Nothing below a span that is not sampled is recorded, in whatever process
\* it runs, as long as no process on the way reads B3 headers.
UnsampledNotRecorded ==
    \A n \in recorded : \A o \in spans[n].cause : o.Sampled = "false" => o.b3

\* raw_span.go:71: "Propagates sampling decision": the same without exception.
SamplingPropagated ==
    \A n \in recorded : \A o \in spans[n].cause : o.Sampled # "false"
=============================================================================
