------------------------- MODULE TraceContextProofs -------------------------
(***************************************************************************)
(* What holds of trace contexts for any number of spans, processes, stacks *)
(* of propagators, baggage items and widths of the identifiers.            *)
(***************************************************************************)
EXTENDS TraceContext, PropagationProofs, SequenceTheorems, TLAPS

-----------------------------------------------------------------------------
(***************************************************************************)
(* Sequences whose elements have no type of their own                      *)
(***************************************************************************)

IsSeq(s) == s \in Seq({s[i] : i \in DOMAIN s})

\* The empty sequence is one.
LEMMA EmptyIsSeq == IsSeq(<< >>)
BY DEF IsSeq

\* The domain of such a sequence.
LEMMA SeqDomain ==
    ASSUME NEW s, IsSeq(s)
    PROVE  Len(s) \in Nat /\ DOMAIN s = 1 .. Len(s)
BY DEF IsSeq

\* Append adds an element at the end and leaves the others alone.
LEMMA AppendSeq ==
    ASSUME NEW s, IsSeq(s), NEW x
    PROVE  /\ IsSeq(Append(s, x))
           /\ Len(Append(s, x)) = Len(s) + 1
           /\ DOMAIN Append(s, x) = DOMAIN s \cup {Len(s) + 1}
           /\ Append(s, x)[Len(s) + 1] = x
           /\ \A i \in DOMAIN s : Append(s, x)[i] = s[i]
<1> DEFINE S == {s[i] : i \in DOMAIN s}
           T == S \cup {x}
           t == Append(s, x)
<1>1. s \in Seq(T) /\ x \in T
      BY DEF IsSeq
<1> HIDE DEF T, S
<1>2. /\ t \in Seq(T) /\ Len(s) \in Nat /\ DOMAIN s = 1 .. Len(s)
      /\ Len(t) = Len(s) + 1 /\ DOMAIN t = 1 .. Len(t)
      /\ t[Len(s) + 1] = x
      /\ \A i \in 1 .. Len(s) : t[i] = s[i]
      BY <1>1
<1>3. DOMAIN t = DOMAIN s \cup {Len(s) + 1}
      BY <1>2
<1>4. IsSeq(t)
      BY <1>2 DEF IsSeq
<1> QED
    BY <1>2, <1>3, <1>4

\* So does overwriting an element.
LEMMA OverwriteSeq ==
    ASSUME NEW s, IsSeq(s), NEW n \in DOMAIN s, NEW x
    PROVE  /\ IsSeq([s EXCEPT ![n] = x])
           /\ DOMAIN [s EXCEPT ![n] = x] = DOMAIN s
<1> DEFINE t == [s EXCEPT ![n] = x]
           T == {s[i] : i \in DOMAIN s} \cup {x}
<1>1. s \in Seq(T) /\ Len(s) \in Nat /\ DOMAIN s = 1 .. Len(s)
      BY DEF IsSeq
<1>2. t = [i \in 1 .. Len(s) |-> IF i = n THEN x ELSE s[i]]
      BY <1>1
<1>3. t = [i \in 1 .. Len(s) |-> t[i]] /\ DOMAIN t = 1 .. Len(s)
      BY <1>2
<1>4. t \in [1 .. Len(s) -> {t[i] : i \in DOMAIN t}]
      BY <1>3
<1> HIDE DEF t
<1>5. t \in Seq({t[i] : i \in DOMAIN t})
      BY <1>1, <1>4, SeqDef
<1> QED
    BY <1>1, <1>3, <1>5 DEF IsSeq, t

-----------------------------------------------------------------------------
(***************************************************************************)
(* The inductive invariant                                                 *)
(***************************************************************************)

\* A baggage map.
IsItems(f) == f = [k \in DOMAIN f |-> f[k]]

IsOrigin(o) ==
    /\ o = [ TraceID |-> o.TraceID, TraceIDUpper |-> o.TraceIDUpper, SpanID |-> o.SpanID,
             Sampled |-> o.Sampled, items |-> o.items, b3 |-> o.b3 ]
    /\ o.b3 \in BOOLEAN

IsSpan(s) ==
    /\ s = [ context |-> s.context, ParentSpanID |-> s.ParentSpanID,
             finished |-> s.finished, cause |-> s.cause, own |-> s.own,
             exported |-> s.exported ]
    /\ s.finished \in BOOLEAN

\* The baggage that a carrier holds.
itemsOf(content) ==
    IF content.kind = "binary" THEN content.basicCtx.BaggageItems ELSE content.items

\* What Extract relies on in what Inject wrote.
IsContent(content) ==
    /\ IsItems(itemsOf(content))
    /\ content.kind = "binary" =>
          /\ content.basicCtx.TraceId \in Uint64
          /\ content.basicCtx.SpanId \in Uint64

\* Types, those of the history included.
Shapes ==
    /\ IsSeq(maps) /\ \A i \in DOMAIN maps : IsItems(maps[i])
    /\ IsSeq(spans) /\ \A n \in DOMAIN spans : IsSpan(spans[n])
    /\ \A c \in contexts : IsOrigin(c.origin)
    /\ \A carrier \in carriers : IsOrigin(carrier.origin) /\ IsContent(carrier.content)

\* The decision not to sample, in a carrier, away from the headers of B3.
SaysUnsampled(content) ==
    IF content.kind = "binary" THEN ~content.basicCtx.Sampled
    ELSE \A f \in DOMAIN content.headers \ {"b3"} : content.headers[f].sampled = "false"

\* A context that stands for a span that is not sampled, and came through no B3
\* headers.
Unsampled(o) == o.Sampled = "false" /\ o.b3 = FALSE

\* The decision not to sample is in every context, carrier and span that it
\* should be in, and such a span is not recorded.
DecisionCarried ==
    /\ \A c \in contexts : Unsampled(c.origin) => c.context.Sampled = "false"
    /\ \A carrier \in carriers : Unsampled(carrier.origin) => SaysUnsampled(carrier.content)
    /\ \A n \in DOMAIN spans : \A o \in spans[n].cause :
          Unsampled(o) => spans[n].context.Sampled = "false"
    /\ \A n \in recorded : spans[n].cause # {} => spans[n].context.Sampled # "false"
    /\ \A n \in DOMAIN spans : \A o \in spans[n].cause : o.b3 \in BOOLEAN

IInv == TypeOK /\ Shapes /\ ContextsStable /\ DecisionCarried

-----------------------------------------------------------------------------
(***************************************************************************)
(* Inject and Extract                                                      *)
(***************************************************************************)

\* ParseUint yields a number of 64 bits or says that it cannot.
LEMMA ParseUintType ==
    ASSUME NEW v
    PROVE  ParseUint(v) \in Uint64 \cup {Bad}
BY DEF ParseUint

\* What Inject writes for a context can be read, holds the baggage as it is, and
\* says what the context says of sampling.
LEMMA InjectWrites ==
    ASSUME NEW stack, NEW sc, NEW items,
           IsItems(items),
           sc.TraceID \in Uint64, sc.SpanID \in Uint64
    PROVE  /\ IsContent(Inject(stack, sc, items))
           /\ itemsOf(Inject(stack, sc, items)) = items
           /\ sc.Sampled = "false" => SaysUnsampled(Inject(stack, sc, items))
<1> DEFINE content == Inject(stack, sc, items)
<1>1. CASE stack = << "binary" >>
  <2>1. /\ content.kind = "binary"
        /\ content.basicCtx.TraceId = sc.TraceID
        /\ content.basicCtx.SpanId = sc.SpanID
        /\ content.basicCtx.BaggageItems = items
        /\ content.basicCtx.Sampled = binarySampled(sc.Sampled)
        BY <1>1 DEF Inject
  <2>2. sc.Sampled = "false" => ~content.basicCtx.Sampled
        BY <2>1 DEF binarySampled
  <2> QED
      BY <2>1, <2>2 DEF IsContent, itemsOf, SaysUnsampled
<1>2. CASE stack # << "binary" >>
  <2>1. /\ content.kind = "text"
        /\ content.headers = [f \in stackFamilies(stack) |-> headersOf(f, sc, items)]
        /\ content.items = items
        BY <1>2 DEF Inject
  <2>2. ASSUME NEW f, f # "b3", sc.Sampled = "false"
        PROVE  headersOf(f, sc, items).sampled = "false"
        BY <2>2 DEF headersOf, textHeaders
  <2>3. \A f \in DOMAIN content.headers : content.headers[f] = headersOf(f, sc, items)
        BY <2>1
  <2> QED
      BY <2>1, <2>2, <2>3 DEF IsContent, itemsOf, SaysUnsampled
<1> QED
    BY <1>1, <1>2

\* What Extract returns was read by one member of the stack.
LEMMA ExtractedByOne ==
    ASSUME NEW stack, NEW content, NEW r \in Extract(stack, content)
    PROVE  \E family : finds(family, content) /\ r \in extracted(family, content)
BY DEF Extract

\* Lower case keys have values that were there.
LEMMA LoweredType ==
    ASSUME NEW items, IsItems(items), NEW f \in loweredItems(items)
    PROVE  /\ IsItems(f)
           /\ \A k \in DOMAIN f : \E j \in DOMAIN items : k = ToLower(j) /\ f[k] = items[j]
           /\ \A j \in DOMAIN items : ToLower(j) \in DOMAIN f
<1> DEFINE keys == {ToLower(k) : k \in DOMAIN items}
           all == {items[k] : k \in DOMAIN items}
<1>1. /\ f \in [keys -> all]
      /\ \A k \in keys : f[k] \in {items[j] : j \in {i \in DOMAIN items : ToLower(i) = k}}
      BY DEF loweredItems
<1>2. DOMAIN f = keys /\ f = [k \in DOMAIN f |-> f[k]]
      BY <1>1
<1> QED
    BY <1>1, <1>2 DEF IsItems

\* What Extract returns: a context of 64-bit numbers, and the decision not to
\* sample unless B3 headers were read.
LEMMA ExtractReads ==
    ASSUME NEW stack, NEW content, IsContent(content),
           NEW r \in Extract(stack, content)
    PROVE  /\ r.context.TraceID \in Uint64 /\ r.context.TraceIDUpper \in Uint64
           /\ r.context.SpanID \in Uint64
           /\ IsItems(r.items)
           /\ r.items = itemsOf(content) \/ r.items \in loweredItems(itemsOf(content))
           /\ SaysUnsampled(content) => r.family = "b3" \/ r.context.Sampled = "false"
<1>1. PICK family : finds(family, content) /\ r \in extracted(family, content)
      BY ExtractedByOne
<1>2. CASE family = "binary"
  <2>1. content.kind = "binary"
        BY <1>1, <1>2 DEF finds
  <2>2. /\ r.family = family
        /\ r.context.TraceID = content.basicCtx.TraceId
        /\ r.context.TraceIDUpper = 0
        /\ r.context.SpanID = content.basicCtx.SpanId
        /\ ~content.basicCtx.Sampled => r.context.Sampled = "false"
        /\ r.items = content.basicCtx.BaggageItems
    <3> DEFINE sampled == IF content.basicCtx.Sampled THEN "" ELSE "false"
    <3>1. r = [ family |-> family,
                context |-> [ TraceID |-> content.basicCtx.TraceId, TraceIDUpper |-> 0,
                              SpanID |-> content.basicCtx.SpanId, Sampled |-> sampled ],
                items |-> content.basicCtx.BaggageItems ]
          BY <1>1, <1>2, Zenon DEF extracted
    <3>2. ~content.basicCtx.Sampled => sampled = "false"
          OBVIOUS
    <3> HIDE DEF sampled
    <3> QED
        BY <3>1, <3>2
  <2> QED
      BY <2>1, <2>2, ZeroIsUint64 DEF IsContent, itemsOf, SaysUnsampled
<1>3. CASE family # "binary"
  <2> DEFINE h == content.headers[family]
             id == parseTraceID(family, h.traceid)
  <2>1. /\ content.kind = "text" /\ family \in DOMAIN content.headers
        /\ Required \subseteq DOMAIN h
        /\ Bad \notin {id.upper, id.lower, ParseUint(h.spanid)}
        BY <1>1, <1>3 DEF finds, parsed
  <2>2. PICK items \in loweredItems(content.items) :
            r = [ family |-> family, context |-> textContext(family, h), items |-> items ]
        BY <1>1, <1>3 DEF extracted
  <2>3. id.upper \in Uint64 \cup {Bad} /\ id.lower \in Uint64 \cup {Bad}
        BY ParseUintType, ZeroIsUint64
           DEF parseTraceID, b3TraceIDParser, lightstepTraceIDParser
  <2>4. /\ r.context.TraceID = id.lower /\ r.context.TraceIDUpper = id.upper
        /\ r.context.SpanID = ParseUint(h.spanid) /\ r.context.Sampled = h.sampled
        /\ r.family = family /\ r.items = items
        BY <2>2 DEF textContext
  <2>5. itemsOf(content) = content.items /\ IsItems(content.items)
        BY <2>1 DEF itemsOf, IsContent
  <2>6. IsItems(r.items) /\ r.items \in loweredItems(itemsOf(content))
        BY <2>2, <2>4, <2>5, LoweredType
  <2>7. /\ r.context.TraceID \in Uint64 /\ r.context.TraceIDUpper \in Uint64
        /\ r.context.SpanID \in Uint64
        BY <2>1, <2>3, <2>4, ParseUintType
  <2>8. SaysUnsampled(content) => r.family = "b3" \/ r.context.Sampled = "false"
        BY <2>1, <2>4 DEF SaysUnsampled
  <2> QED
      BY <2>6, <2>7, <2>8
<1> QED
    BY <1>2, <1>3

-----------------------------------------------------------------------------
(***************************************************************************)
(* How a step may change the state                                         *)
(***************************************************************************)

\* Maps are never written to: a step may only make a new one.
MapsGrow == maps' = maps \/ \E x : IsItems(x) /\ maps' = Append(maps, x)

\* What was a map stays that map.
LEMMA MapsKept ==
    ASSUME Shapes, MapsGrow
    PROVE  /\ IsSeq(maps)' /\ \A i \in DOMAIN maps' : IsItems(maps'[i])
           /\ Len(maps) \in Nat /\ Len(maps') \in Nat /\ Len(maps) <= Len(maps')
           /\ \A m \in 0 .. Len(maps) :
                 /\ m \in 0 .. Len(maps')
                 /\ m # NilMap => m \in DOMAIN maps /\ maps'[m] = maps[m]
<1>1. IsSeq(maps) /\ Len(maps) \in Nat /\ DOMAIN maps = 1 .. Len(maps)
      BY SeqDomain DEF Shapes
<1>2. CASE maps' = maps
      BY <1>1, <1>2 DEF Shapes, NilMap, IsSeq
<1>3. ASSUME NEW x, IsItems(x), maps' = Append(maps, x)
      PROVE  /\ IsSeq(maps)' /\ \A i \in DOMAIN maps' : IsItems(maps'[i])
             /\ Len(maps') = Len(maps) + 1
             /\ \A i \in DOMAIN maps : maps'[i] = maps[i]
      BY <1>1, <1>3, AppendSeq DEF Shapes, IsSeq
<1>4. CASE \E x : IsItems(x) /\ maps' = Append(maps, x)
      BY <1>1, <1>3, <1>4 DEF NilMap
<1> QED
    BY <1>2, <1>4 DEF MapsGrow

\* Contexts, and what they see, survive the making of a map.
LEMMA ContextsKept ==
    ASSUME Shapes, MapsGrow, NEW c, IsSpanContext(c)
    PROVE  IsSpanContext(c)' /\ Items(c.Baggage)' = Items(c.Baggage)
<1>1. c.Baggage \in 0 .. Len(maps)
      BY DEF IsSpanContext
<1>2. c.Baggage \in 0 .. Len(maps')
      BY <1>1, MapsKept
<1>3. IsSpanContext(c)'
      BY <1>2 DEF IsSpanContext
<1>4. Items(c.Baggage)' = Items(c.Baggage)
      BY <1>1, MapsKept DEF Items
<1> QED
    BY <1>3, <1>4

\* What a step has to show of the contexts when it leaves them alone.
LEMMA ContextsAlone ==
    ASSUME IInv, MapsGrow, UNCHANGED contexts
    PROVE  /\ \A c \in contexts' : IsSpanContext(c.context)' /\ IsOrigin(c.origin)
           /\ ContextsStable'
           /\ \A c \in contexts' : Unsampled(c.origin) => c.context.Sampled = "false"
<1>1. SUFFICES ASSUME NEW c \in contexts
               PROVE  /\ IsSpanContext(c.context)' /\ IsOrigin(c.origin)
                      /\ Items(c.context.Baggage)' = c.seen
                      /\ Unsampled(c.origin) => c.context.Sampled = "false"
      BY DEF ContextsStable
<1>2. /\ Shapes /\ IsSpanContext(c.context) /\ IsOrigin(c.origin)
      /\ Items(c.context.Baggage) = c.seen
      /\ Unsampled(c.origin) => c.context.Sampled = "false"
      BY DEF IInv, TypeOK, Shapes, ContextsStable, DecisionCarried
<1> QED
    BY <1>2, ContextsKept

\* A new span keeps the invariant if it is one, carries the decision of its
\* cause, and is recorded at once only if it has none.
LEMMA SpanAdded ==
    ASSUME IInv, MapsGrow, NEW s,
           IsSpan(s), IsSpanContext(s.context)', s.ParentSpanID \in Uint64,
           \A o \in s.cause : /\ o.b3 \in BOOLEAN
                              /\ Unsampled(o) => s.context.Sampled = "false",
           spans' = Append(spans, s),
           UNCHANGED << contexts, carriers >>,
           \/ recorded' = recorded
           \/ recorded' = recorded \cup {Len(spans) + 1} /\ s.cause = {}
    PROVE  IInv'
<1>1. IsSeq(spans)
      BY DEF IInv, Shapes
<1>2. /\ IsSeq(spans)'
      /\ DOMAIN spans' = DOMAIN spans \cup {Len(spans) + 1}
      /\ spans'[Len(spans) + 1] = s
      /\ \A n \in DOMAIN spans : spans'[n] = spans[n]
      /\ Len(spans) + 1 \notin DOMAIN spans
      BY <1>1, AppendSeq, SeqDomain DEF IsSeq
<1>3. TypeOK'
  <2>1. ASSUME NEW n \in DOMAIN spans
        PROVE  IsSpanContext(spans[n].context)' /\ spans[n].ParentSpanID \in Uint64
    <3>1. Shapes /\ IsSpanContext(spans[n].context) /\ spans[n].ParentSpanID \in Uint64
          BY DEF IInv, TypeOK
    <3>2. PICK c : c = spans[n].context
          OBVIOUS
    <3>3. IsSpanContext(c)'
          BY <3>1, <3>2, ContextsKept
    <3> QED
        BY <1>2, <3>1, <3>2, <3>3
  <2> QED
      BY <1>2, <2>1, ContextsAlone DEF IInv, TypeOK
<1>4. Shapes'
      BY <1>2, MapsKept, ContextsAlone DEF IInv, Shapes
<1>5. DecisionCarried'
  <2>1. \A n \in DOMAIN spans' : \A o \in spans'[n].cause :
            /\ o.b3 \in BOOLEAN
            /\ Unsampled(o) => spans'[n].context.Sampled = "false"
        BY <1>2 DEF IInv, DecisionCarried
  <2>2. \A n \in recorded' : spans'[n].cause # {} => spans'[n].context.Sampled # "false"
        BY <1>2 DEF IInv, TypeOK, DecisionCarried
  <2> QED
      BY <2>1, <2>2, ContextsAlone DEF IInv, DecisionCarried
<1> QED
    BY <1>3, <1>4, <1>5, ContextsAlone DEF IInv

\* A change of a span keeps the invariant if it leaves the cause and the
\* decision alone, and records the span only if it is sampled.
LEMMA SpanChanged ==
    ASSUME IInv, MapsGrow, NEW n \in DOMAIN spans, NEW s,
           IsSpan(s), IsSpanContext(s.context)',
           s.ParentSpanID = spans[n].ParentSpanID, s.cause = spans[n].cause,
           s.context.Sampled = spans[n].context.Sampled,
           spans' = [spans EXCEPT ![n] = s],
           UNCHANGED << contexts, carriers >>,
           \/ recorded' = recorded
           \/ recorded' = recorded \cup {n} /\ s.context.Sampled # "false"
    PROVE  IInv'
<1>1. IsSeq(spans)
      BY DEF IInv, Shapes
<1>2. /\ IsSeq(spans)' /\ DOMAIN spans' = DOMAIN spans
  <2>1. /\ IsSeq([spans EXCEPT ![n] = s])
        /\ DOMAIN [spans EXCEPT ![n] = s] = DOMAIN spans
        BY <1>1, OverwriteSeq
  <2>2. IsSeq(spans')
        BY <2>1
  <2> QED
      BY <2>1, <2>2 DEF IsSeq
<1>3. \A m \in DOMAIN spans : spans'[m] = IF m = n THEN s ELSE spans[m]
      BY <1>2
<1>4. TypeOK'
  <2>1. ASSUME NEW m \in DOMAIN spans
        PROVE  IsSpanContext(spans[m].context)' /\ spans'[m].ParentSpanID \in Uint64
    <3>1. Shapes /\ IsSpanContext(spans[m].context) /\ spans[m].ParentSpanID \in Uint64
          BY DEF IInv, TypeOK
    <3>2. PICK c : c = spans[m].context
          OBVIOUS
    <3>3. IsSpanContext(c)'
          BY <3>1, <3>2, ContextsKept
    <3> QED
        BY <1>3, <3>1, <3>2, <3>3
  <2> QED
      BY <1>2, <2>1, ContextsAlone DEF IInv, TypeOK
<1>5. Shapes'
  <2>1. \A m \in DOMAIN spans' : IsSpan(spans'[m])
        BY <1>2, <1>3 DEF IInv, Shapes
  <2>2. IsSeq(maps)' /\ \A i \in DOMAIN maps' : IsItems(maps'[i])
        BY MapsKept DEF IInv
  <2> QED
      BY <1>2, <2>1, <2>2, ContextsAlone DEF IInv, Shapes
<1>6. DecisionCarried'
  <2>1. \A m \in DOMAIN spans' : /\ spans'[m].cause = spans[m].cause
                                 /\ spans'[m].context.Sampled = spans[m].context.Sampled
        BY <1>2, <1>3
  <2>2. \A m \in recorded' : spans'[m].cause # {} => spans'[m].context.Sampled # "false"
        BY <1>2, <2>1 DEF IInv, TypeOK, DecisionCarried
  <2> QED
      BY <1>2, <2>1, <2>2, ContextsAlone DEF IInv, DecisionCarried
<1> QED
    BY <1>4, <1>5, <1>6, ContextsAlone DEF IInv

\* A step that leaves the spans alone keeps what the invariant says of them.
LEMMA SpansAlone ==
    ASSUME IInv, MapsGrow, UNCHANGED << spans, recorded >>
    PROVE  /\ \A n \in DOMAIN spans' :
                 IsSpanContext(spans[n].context)' /\ spans'[n].ParentSpanID \in Uint64
           /\ recorded' \subseteq DOMAIN spans'
           /\ IsSeq(spans)' /\ \A n \in DOMAIN spans' : IsSpan(spans[n])'
           /\ IsSeq(maps)' /\ \A i \in DOMAIN maps' : IsItems(maps[i])'
<1>1. ASSUME NEW n \in DOMAIN spans
      PROVE  IsSpanContext(spans[n].context)' /\ spans[n].ParentSpanID \in Uint64
  <2>1. Shapes /\ IsSpanContext(spans[n].context) /\ spans[n].ParentSpanID \in Uint64
        BY DEF IInv, TypeOK
  <2>2. PICK c : c = spans[n].context
        OBVIOUS
  <2>3. IsSpanContext(c)'
        BY <2>1, <2>2, ContextsKept
  <2> QED
      BY <2>1, <2>2, <2>3
<1>2. /\ Shapes /\ recorded \subseteq DOMAIN spans
      BY DEF IInv, TypeOK
<1>3. IsSeq(spans)' /\ \A n \in DOMAIN spans' : IsSpan(spans[n])'
      BY <1>2 DEF Shapes, IsSeq
<1>4. IsSeq(maps)' /\ \A i \in DOMAIN maps' : IsItems(maps[i])'
      BY <1>2, MapsKept
<1> QED
    BY <1>1, <1>2, <1>3, <1>4

\* A new context keeps the invariant if it sees what it stands for and carries
\* the decision of its origin.
LEMMA ContextAdded ==
    ASSUME IInv, MapsGrow, NEW c,
           IsSpanContext(c.context)', IsOrigin(c.origin),
           Items(c.context.Baggage)' = c.seen,
           Unsampled(c.origin) => c.context.Sampled = "false",
           contexts' = contexts \cup {c},
           UNCHANGED << spans, carriers, recorded >>
    PROVE  IInv'
<1>1. ASSUME NEW d \in contexts
      PROVE  /\ IsSpanContext(d.context)' /\ IsOrigin(d.origin)
             /\ Items(d.context.Baggage)' = d.seen
             /\ Unsampled(d.origin) => d.context.Sampled = "false"
  <2>1. /\ Shapes /\ IsSpanContext(d.context) /\ IsOrigin(d.origin)
        /\ Items(d.context.Baggage) = d.seen
        /\ Unsampled(d.origin) => d.context.Sampled = "false"
        BY DEF IInv, TypeOK, Shapes, ContextsStable, DecisionCarried
  <2> QED
      BY <2>1, ContextsKept
<1>2. TypeOK'
      BY <1>1, SpansAlone DEF TypeOK
<1>3. Shapes'
      BY <1>1, SpansAlone DEF IInv, Shapes
<1>4. ContextsStable'
      BY <1>1 DEF ContextsStable
<1>5. DecisionCarried'
      BY <1>1 DEF IInv, DecisionCarried
<1> QED
    BY <1>2, <1>3, <1>4, <1>5 DEF IInv

\* A new carrier keeps the invariant if it can be read and carries the decision
\* of its origin.
LEMMA CarrierAdded ==
    ASSUME IInv, NEW carrier,
           IsOrigin(carrier.origin), IsContent(carrier.content),
           Unsampled(carrier.origin) => SaysUnsampled(carrier.content),
           carriers' = carriers \cup {carrier},
           UNCHANGED << spans, contexts, maps, recorded >>
    PROVE  IInv'
<1>1. TypeOK' /\ ContextsStable'
      BY DEF IInv, TypeOK, IsSpanContext, ContextsStable, Items
<1>2. Shapes'
      BY DEF IInv, Shapes, IsSeq
<1>3. DecisionCarried'
      BY DEF IInv, DecisionCarried
<1> QED
    BY <1>1, <1>2, <1>3 DEF IInv

-----------------------------------------------------------------------------
(***************************************************************************)
(* The actions                                                             *)
(***************************************************************************)

\* A nil map reads like an empty one, which there is only one of.
LEMMA NoItems ==
    /\ IsItems(<< >>) /\ DOMAIN << >> = {}
    /\ \A f : IsItems(f) /\ DOMAIN f = {} => f = << >>
BY DEF IsItems

\* The baggage of a context is a baggage map.
LEMMA ItemsType ==
    ASSUME Shapes, NEW c, IsSpanContext(c)
    PROVE  IsItems(Items(c.Baggage))
<1>1. c.Baggage \in 0 .. Len(maps) /\ DOMAIN maps = 1 .. Len(maps) /\ Len(maps) \in Nat
      BY SeqDomain DEF IsSpanContext, Shapes
<1>2. CASE c.Baggage = NilMap
      BY <1>2, NoItems DEF Items
<1>3. CASE c.Baggage # NilMap
  <2>1. c.Baggage \in DOMAIN maps
        BY <1>1, <1>3 DEF NilMap
  <2> QED
      BY <1>3, <2>1 DEF Items, Shapes
<1> QED
    BY <1>2, <1>3

\* newSpan: the identifiers are numbers of 64 bits, whichever of them are
\* explicit, referenced or generated, and the reference's decision is kept.
LEMMA NewContext ==
    ASSUME NEW o, o.SetTraceID \in Uint64, o.SetSpanID \in Uint64,
           o.SetParentSpanID \in Uint64,
           NEW ref,
           ref # {} => refCtx(ref).TraceID \in Uint64 /\ refCtx(ref).SpanID \in Uint64,
           NEW t \in Uint64, NEW s \in Uint64
    PROVE  /\ generate(startContext(o, ref), t, s).TraceID \in Uint64
           /\ generate(startContext(o, ref), t, s).TraceIDUpper \in Uint64
           /\ generate(startContext(o, ref), t, s).SpanID \in Uint64
           /\ ref # {} => generate(startContext(o, ref), t, s).Sampled = refCtx(ref).Sampled
           /\ parentSpanID(o, ref) \in Uint64
<1> DEFINE explicit == [ TraceID |-> o.SetTraceID,
                         TraceIDUpper |-> 0,
                         SpanID |-> IF o.SetTraceID # 0 THEN o.SetSpanID ELSE 0,
                         Sampled |-> IF o.SetTraceID # 0 THEN o.SetSampled ELSE "" ]
           c == startContext(o, ref)
<1>1. /\ c = [ TraceID |-> c.TraceID, TraceIDUpper |-> c.TraceIDUpper,
               SpanID |-> c.SpanID, Sampled |-> c.Sampled ]
      /\ c.TraceID \in Uint64 /\ c.TraceIDUpper \in Uint64 /\ c.SpanID \in Uint64
      /\ ref # {} => c.Sampled = refCtx(ref).Sampled
  <2>1. /\ explicit.TraceID \in Uint64 /\ explicit.TraceIDUpper \in Uint64
        /\ explicit.SpanID \in Uint64
        BY ZeroIsUint64
  <2>2. CASE ref = {}
    <3>1. c = explicit
          BY <2>2 DEF startContext
    <3> QED
        BY <2>1, <2>2, <3>1
  <2>3. CASE ref # {}
    <3>1. c = [explicit EXCEPT !.TraceID = refCtx(ref).TraceID,
                               !.Sampled = refCtx(ref).Sampled]
          BY <2>3 DEF startContext
    <3> QED
        BY <2>1, <2>3, <3>1
  <2> QED
      BY <2>2, <2>3
<1> HIDE DEF c
<1>2. /\ generate(c, t, s).TraceID \in Uint64
      /\ generate(c, t, s).TraceIDUpper \in Uint64
      /\ generate(c, t, s).SpanID \in Uint64
      /\ generate(c, t, s).Sampled = c.Sampled
      BY <1>1 DEF generate
<1>3. parentSpanID(o, ref) \in Uint64
      BY ZeroIsUint64 DEF parentSpanID
<1> QED
    BY <1>1, <1>2, <1>3 DEF c

\* A map that is made for items, unless there are none, holds them.
LEMMA NewMap ==
    ASSUME Shapes, NEW items, IsItems(items), NEW m,
           maps' = IF inherits(items) THEN Append(maps, items) ELSE maps,
           m = IF inherits(items) THEN Len(maps') ELSE NilMap
    PROVE  MapsGrow /\ m \in 0 .. Len(maps') /\ Items(m)' = items
<1>1. MapsGrow
      BY DEF MapsGrow
<1>2. Len(maps') \in Nat /\ IsSeq(maps)
      BY <1>1, MapsKept DEF Shapes
<1>3. CASE inherits(items)
  <2>1. Len(maps') = Len(maps) + 1 /\ maps'[Len(maps) + 1] = items /\ Len(maps) \in Nat
        BY <1>2, <1>3, AppendSeq, SeqDomain
  <2> QED
      BY <1>1, <1>2, <1>3, <2>1 DEF Items, NilMap
<1>4. CASE ~inherits(items)
  <2>1. items = << >>
        BY <1>4, NoItems DEF inherits
  <2> QED
      BY <1>1, <1>2, <1>4, <2>1 DEF Items, NilMap
<1> QED
    BY <1>3, <1>4

\* StartSpan: the new span has the origin of the reference for its cause and the
\* items of the reference for its baggage.
LEMMA StartSpanStep ==
    ASSUME IInv, NEW o \in StartSpanOptions,
           NEW ref \in {{}} \cup {{c} : c \in contexts}, StartSpan(o, ref)
    PROVE  /\ IInv' /\ MapsGrow
           /\ \E s, t, u :
                 /\ spans' = Append(spans, s)
                 /\ s.cause = {c.origin : c \in ref}
                 /\ s.own = {} /\ s.exported = {}
                 /\ t # 0
                 /\ s.context.TraceID = generate(startContext(o, ref), t, u).TraceID
                 /\ s.ParentSpanID = parentSpanID(o, ref)
                 /\ Items(s.context.Baggage)'
                       = IF ref = {} THEN << >> ELSE Items(refCtx(ref).Baggage)
           /\ UNCHANGED << contexts, carriers >>
<1> DEFINE n == Len(spans) + 1
           items == IF ref = {} THEN << >> ELSE Items(refCtx(ref).Baggage)
           g == generate(startContext(o, ref), TraceGUIDs[n], SpanGUIDs[n])
<1>m. PICK m : m = IF inherits(items) THEN Len(maps') ELSE NilMap
      OBVIOUS
<1>1. PICK s : s = [ context |-> withMap(g, m), ParentSpanID |-> parentSpanID(o, ref),
                     finished |-> FALSE, cause |-> {c.origin : c \in ref},
                     own |-> {}, exported |-> {} ]
      OBVIOUS
<1>2. /\ n <= MaxSpans
      /\ maps' = IF inherits(items) THEN Append(maps, items) ELSE maps
      /\ spans' = Append(spans, s)
      /\ UNCHANGED << contexts, carriers, recorded >>
      BY <1>m, <1>1, Zenon DEF StartSpan
<1>3. ref # {} => \E c \in contexts : ref = {c} /\ refCtx(ref) = c.context
      BY DEF refCtx
<1>4. Shapes /\ (ref # {} => IsSpanContext(refCtx(ref)))
      BY <1>3 DEF IInv, TypeOK
<1>5. IsItems(items)
      BY <1>4, ItemsType, NoItems
<1>6. MapsGrow /\ m \in 0 .. Len(maps') /\ Items(m)' = items
      BY <1>m, <1>2, <1>4, <1>5, NewMap
<1>7. TraceGUIDs[n] \in Uint64 \ {0} /\ SpanGUIDs[n] \in Uint64 \ {0}
  <2>1. Len(spans) \in Nat
        BY <1>4, SeqDomain DEF Shapes
  <2>2. n \in 1 .. Len(TraceGUIDs) /\ n \in 1 .. Len(SpanGUIDs)
        BY <1>2, <2>1, TraceContextAssumption
  <2> QED
      BY <2>2, TraceContextAssumption
<1>8. /\ g.TraceID \in Uint64 /\ g.TraceIDUpper \in Uint64 /\ g.SpanID \in Uint64
      /\ ref # {} => g.Sampled = refCtx(ref).Sampled
      /\ parentSpanID(o, ref) \in Uint64
  <2>1. o.SetTraceID \in Uint64 /\ o.SetSpanID \in Uint64 /\ o.SetParentSpanID \in Uint64
        BY TraceContextAssumption DEF StartSpanOptions
  <2>2. ref # {} => refCtx(ref).TraceID \in Uint64 /\ refCtx(ref).SpanID \in Uint64
        BY <1>4 DEF IsSpanContext
  <2> QED
      BY <1>7, <2>1, <2>2, NewContext
<1> HIDE DEF g, n
<1>9. /\ IsSpan(s) /\ s.cause = {c.origin : c \in ref} /\ s.ParentSpanID \in Uint64
      /\ s.own = {} /\ s.exported = {} /\ s.ParentSpanID = parentSpanID(o, ref)
      BY <1>1, <1>8 DEF IsSpan
<1>10. /\ IsSpanContext(s.context)' /\ s.context.Sampled = g.Sampled
       /\ s.context.Baggage = m /\ s.context.TraceID = g.TraceID
       BY <1>1, <1>6, <1>8 DEF IsSpanContext, withMap
<1>11. \A h \in s.cause : h.b3 \in BOOLEAN
                          /\ (Unsampled(h) => s.context.Sampled = "false")
       BY <1>3, <1>8, <1>9, <1>10 DEF IInv, Shapes, IsOrigin, DecisionCarried
<1>12. IInv'
       BY <1>2, <1>6, <1>9, <1>10, <1>11, SpanAdded
<1>13. Items(s.context.Baggage)' = items
       BY <1>6, <1>10
<1>14. \E t, u : t # 0 /\ g.TraceID = generate(startContext(o, ref), t, u).TraceID
       BY <1>7 DEF g
<1> QED
    BY <1>2, <1>6, <1>9, <1>10, <1>12, <1>13, <1>14

\* What ExportSpan gives newSpan.
exportOptions(sd) ==
    [ SetTraceID |-> ConvertTraceID(sd.TraceID), SetSpanID |-> sd.SpanID,
      SetParentSpanID |-> sd.ParentSpanID, SetSampled |-> "" ]

exportRef(sd) == {[context |-> ConvertLinkToSpanContext(l)] : l \in childLink(sd)}

\* The identifiers that ExportSpan gives newSpan are numbers of 64 bits.
LEMMA ExportTypes ==
    ASSUME NEW sd \in SpanDatas
    PROVE  /\ exportOptions(sd).SetTraceID \in Uint64
           /\ exportOptions(sd).SetSpanID \in Uint64
           /\ exportOptions(sd).SetParentSpanID \in Uint64
           /\ exportRef(sd) # {} =>
                 refCtx(exportRef(sd)).TraceID \in Uint64 /\ refCtx(exportRef(sd)).SpanID \in Uint64
<1>1. /\ sd.TraceID \in Uint64 \X Uint64 /\ sd.SpanID \in Uint64 /\ sd.ParentSpanID \in Uint64
      /\ \A i \in DOMAIN sd.Links :
            sd.Links[i].TraceID \in Uint64 \X Uint64 /\ sd.Links[i].SpanID \in Uint64
      BY TraceContextAssumption DEF IsSpanData
<1>2. ASSUME exportRef(sd) # {}
      PROVE  refCtx(exportRef(sd)).TraceID \in Uint64 /\ refCtx(exportRef(sd)).SpanID \in Uint64
  <2>1. PICK l \in childLink(sd) : refCtx(exportRef(sd)) = ConvertLinkToSpanContext(l)
    <3>1. PICK e \in exportRef(sd) : refCtx(exportRef(sd)) = e.context
          BY <1>2 DEF refCtx
    <3>2. PICK l \in childLink(sd) : e = [context |-> ConvertLinkToSpanContext(l)]
          BY <3>1 DEF exportRef
    <3> QED
        BY <3>1, <3>2
  <2>2. l.TraceID \in Uint64 \X Uint64 /\ l.SpanID \in Uint64
        BY <1>1 DEF childLink
  <2>3. l.TraceID[2] \in Uint64
        BY <2>2
  <2>4. /\ ConvertLinkToSpanContext(l).TraceID = l.TraceID[2]
        /\ ConvertLinkToSpanContext(l).SpanID = l.SpanID
        BY DEF ConvertLinkToSpanContext, ConvertTraceID
  <2> QED
      BY <2>1, <2>2, <2>3, <2>4
<1> QED
    BY <1>1, <1>2 DEF exportOptions, ConvertTraceID

\* ExportSpan: the new span has the identifiers that newSpan makes of the options.
LEMMA ExportSpanStep ==
    ASSUME IInv, NEW sd \in SpanDatas, ExportSpan(sd)
    PROVE  /\ IInv' /\ MapsGrow
           /\ \E s, t, u :
                 /\ spans' = Append(spans, s)
                 /\ s.cause = {} /\ s.exported = {sd} /\ t # 0
                 /\ LET g == generate(startContext(exportOptions(sd), exportRef(sd)), t, u)
                    IN  s.context.TraceID = g.TraceID /\ s.context.SpanID = g.SpanID
                 /\ s.ParentSpanID = parentSpanID(exportOptions(sd), exportRef(sd))
           /\ UNCHANGED << contexts, carriers >>
<1> DEFINE n == Len(spans) + 1
           o == exportOptions(sd)
           ref == exportRef(sd)
           linked == IF ref = {} THEN << >>
                     ELSE (CHOOSE l \in childLink(sd) : TRUE).Attributes
           items == [k \in DOMAIN linked \cup DOMAIN sd.Tracestate |->
                        IF k \in DOMAIN sd.Tracestate THEN sd.Tracestate[k] ELSE linked[k]]
           m == IF inherits(items) THEN Len(maps') ELSE NilMap
           g == generate(startContext(o, ref), TraceGUIDs[n], SpanGUIDs[n])
<1>1. PICK s : s = [ context |-> withMap(g, m), ParentSpanID |-> parentSpanID(o, ref),
                     finished |-> TRUE, cause |-> {}, own |-> DOMAIN items,
                     exported |-> {sd} ]
      OBVIOUS
<1>2. /\ n <= MaxSpans
      /\ maps' = IF inherits(items) THEN Append(maps, items) ELSE maps
      /\ spans' = Append(spans, s)
      /\ recorded' = recorded \cup {n}
      /\ UNCHANGED << contexts, carriers >>
      BY <1>1, Zenon DEF ExportSpan, exportOptions, exportRef
<1>3. IsItems(items)
      BY DEF IsItems
<1>4. MapsGrow
      BY <1>2, <1>3 DEF MapsGrow
<1>5. Shapes
      BY DEF IInv
<1>6. TraceGUIDs[n] \in Uint64 \ {0} /\ SpanGUIDs[n] \in Uint64 \ {0}
  <2>1. Len(spans) \in Nat
        BY <1>5, SeqDomain DEF Shapes
  <2>2. n \in 1 .. Len(TraceGUIDs) /\ n \in 1 .. Len(SpanGUIDs)
        BY <1>2, <2>1, TraceContextAssumption
  <2> QED
      BY <2>2, TraceContextAssumption
<1>7. /\ g.TraceID \in Uint64 /\ g.TraceIDUpper \in Uint64 /\ g.SpanID \in Uint64
      /\ parentSpanID(o, ref) \in Uint64
      BY <1>6, ExportTypes, NewContext
<1>8. m \in 0 .. Len(maps')
  <2>1. Len(maps') \in Nat
        BY <1>5, <1>4, MapsKept
  <2> QED
      BY <2>1 DEF NilMap
<1> HIDE DEF g, m, items, n, o, ref
<1>9. /\ IsSpan(s) /\ s.cause = {} /\ s.exported = {sd}
      /\ s.ParentSpanID = parentSpanID(o, ref) /\ s.ParentSpanID \in Uint64
      BY <1>1, <1>7 DEF IsSpan
<1>10. /\ IsSpanContext(s.context)'
       /\ s.context.TraceID = g.TraceID /\ s.context.SpanID = g.SpanID
       BY <1>1, <1>7, <1>8 DEF IsSpanContext, withMap
<1>11. IInv'
       BY <1>2, <1>4, <1>9, <1>10, SpanAdded DEF n
<1> QED
    BY <1>2, <1>4, <1>6, <1>9, <1>10, <1>11 DEF g, o, ref

\* SetBaggageItem: the span has a new map with the item put into it.
LEMMA SetBaggageItemStep ==
    ASSUME IInv, NEW n \in DOMAIN spans, NEW k, NEW v, SetBaggageItem(n, k, v)
    PROVE  /\ IInv' /\ MapsGrow
           /\ \E s : /\ spans' = [spans EXCEPT ![n] = s]
                    /\ s.cause = spans[n].cause /\ s.exported = spans[n].exported
                    /\ s.own = spans[n].own \cup {k}
                    /\ s.ParentSpanID = spans[n].ParentSpanID
                    /\ s.context.TraceID = spans[n].context.TraceID
                    /\ s.context.SpanID = spans[n].context.SpanID
                    /\ Items(s.context.Baggage)'
                          = put(Items(spans[n].context.Baggage), k, v)
           /\ UNCHANGED << contexts, carriers >>
<1> DEFINE c == spans[n].context
           items == put(Items(c.Baggage), k, v)
<1>1. PICK s : s = [spans[n] EXCEPT !.context = [c EXCEPT !.Baggage = Len(maps) + 1],
                                    !.own = @ \cup {k}]
      OBVIOUS
<1>2. /\ maps' = Append(maps, items)
      /\ spans' = [spans EXCEPT ![n] = s]
      /\ UNCHANGED << contexts, carriers, recorded >>
      BY <1>1 DEF SetBaggageItem, WithBaggageItem
<1>3. IsSpan(spans[n]) /\ IsSpanContext(c) /\ Shapes
      BY DEF IInv, TypeOK, Shapes
<1>4. IsItems(items)
      BY DEF IsItems, put
<1>5. /\ MapsGrow /\ Len(maps) \in Nat /\ Len(maps') = Len(maps) + 1
      /\ maps'[Len(maps) + 1] = items
      BY <1>2, <1>3, <1>4, AppendSeq, SeqDomain DEF MapsGrow, Shapes
<1>6. /\ s = [ context |-> [c EXCEPT !.Baggage = Len(maps) + 1],
               ParentSpanID |-> spans[n].ParentSpanID, finished |-> spans[n].finished,
               cause |-> spans[n].cause, own |-> spans[n].own \cup {k},
               exported |-> spans[n].exported ]
      BY <1>1, <1>3 DEF IsSpan
<1>7. /\ IsSpan(s) /\ s.ParentSpanID = spans[n].ParentSpanID /\ s.cause = spans[n].cause
      /\ s.own = spans[n].own \cup {k} /\ s.exported = spans[n].exported
      BY <1>3, <1>6 DEF IsSpan
<1>8. /\ IsSpanContext(s.context)' /\ s.context.Sampled = c.Sampled
      /\ s.context.TraceID = c.TraceID /\ s.context.SpanID = c.SpanID
      /\ s.context.Baggage = Len(maps) + 1
      BY <1>3, <1>5, <1>6 DEF IsSpanContext
<1>9. IInv'
      BY <1>2, <1>5, <1>7, <1>8, SpanChanged
<1>10. Items(s.context.Baggage)' = items
       BY <1>5, <1>8 DEF Items, NilMap
<1> QED
    BY <1>2, <1>5, <1>7, <1>8, <1>9, <1>10

\* Context.
LEMMA ContextStep ==
    ASSUME IInv, NEW n \in DOMAIN spans, Context(n)
    PROVE  IInv'
<1> DEFINE c == spans[n].context
<1>1. PICK d : d = [ context |-> c, seen |-> Items(c.Baggage),
                     origin |-> [ TraceID |-> c.TraceID, TraceIDUpper |-> c.TraceIDUpper,
                                  SpanID |-> c.SpanID, Sampled |-> c.Sampled,
                                  items |-> Items(c.Baggage), b3 |-> FALSE ] ]
      OBVIOUS
<1>2. /\ contexts' = contexts \cup {d}
      /\ UNCHANGED << spans, carriers, maps, recorded >>
      BY <1>1 DEF Context
<1>3. IsSpanContext(c) /\ MapsGrow
      BY <1>2 DEF IInv, TypeOK, MapsGrow
<1>4. IsSpanContext(d.context)' /\ Items(d.context.Baggage)' = d.seen
      BY <1>1, <1>2, <1>3 DEF IsSpanContext, Items
<1>5. IsOrigin(d.origin) /\ (Unsampled(d.origin) => d.context.Sampled = "false")
      BY <1>1 DEF IsOrigin, Unsampled
<1> QED
    BY <1>2, <1>3, <1>4, <1>5, ContextAdded

\* Finish.
LEMMA FinishStep ==
    ASSUME IInv, NEW n \in DOMAIN spans, Finish(n)
    PROVE  IInv'
<1>1. PICK s : s = [spans[n] EXCEPT !.finished = TRUE]
      OBVIOUS
<1>2. /\ spans' = [spans EXCEPT ![n] = s]
      /\ recorded' = IF spans[n].context.Sampled = "false" THEN recorded
                     ELSE recorded \cup {n}
      /\ UNCHANGED << contexts, carriers, maps >>
      BY <1>1 DEF Finish
<1>3. IsSpan(spans[n]) /\ IsSpanContext(spans[n].context) /\ MapsGrow
      BY <1>2 DEF IInv, TypeOK, Shapes, MapsGrow
<1>4. /\ IsSpan(s) /\ s.ParentSpanID = spans[n].ParentSpanID
      /\ s.cause = spans[n].cause /\ s.context = spans[n].context
      BY <1>1, <1>3 DEF IsSpan
<1>5. IsSpanContext(s.context)'
      BY <1>2, <1>3, <1>4 DEF IsSpanContext
<1> QED
    BY <1>2, <1>3, <1>4, <1>5, SpanChanged

\* Inject.
LEMMA TracerInjectStep ==
    ASSUME IInv, NEW c \in contexts, NEW stack, TracerInject(c, stack)
    PROVE  IInv'
<1> DEFINE items == Items(c.context.Baggage)
<1>1. PICK carrier : carrier = [ content |-> Inject(stack, c.context, items),
                                 origin |-> c.origin ]
      OBVIOUS
<1>2. /\ carriers' = carriers \cup {carrier}
      /\ UNCHANGED << spans, contexts, maps, recorded >>
      BY <1>1 DEF TracerInject
<1>3. /\ Shapes /\ IsSpanContext(c.context) /\ IsOrigin(c.origin)
      /\ Unsampled(c.origin) => c.context.Sampled = "false"
      BY DEF IInv, TypeOK, Shapes, DecisionCarried
<1>4. IsItems(items)
      BY <1>3, ItemsType
<1>5. c.context.TraceID \in Uint64 /\ c.context.SpanID \in Uint64
      BY <1>3 DEF IsSpanContext
<1>6. /\ IsContent(carrier.content)
      /\ c.context.Sampled = "false" => SaysUnsampled(carrier.content)
      BY <1>1, <1>4, <1>5, InjectWrites
<1>7. carrier.origin = c.origin
      BY <1>1
<1> QED
    BY <1>2, <1>3, <1>6, <1>7, CarrierAdded

\* Extract: the new context has the items as they were written or in lower case,
\* and stands for what the carrier stands for.
LEMMA TracerExtractStep ==
    ASSUME IInv, NEW carrier \in carriers, NEW stack, TracerExtract(carrier, stack)
    PROVE  /\ IInv' /\ MapsGrow
           /\ \E c :
                 /\ contexts' = contexts \cup {c}
                 /\ c.origin.TraceID = carrier.origin.TraceID
                 /\ c.origin.TraceIDUpper = carrier.origin.TraceIDUpper
                 /\ c.origin.SpanID = carrier.origin.SpanID
                 /\ c.origin.items = carrier.origin.items
                 /\ \/ c.seen = itemsOf(carrier.content)
                    \/ c.seen \in loweredItems(itemsOf(carrier.content))
                 /\ \E r \in Extract(stack, carrier.content) :
                       /\ c.context.TraceID = r.context.TraceID
                       /\ c.context.TraceIDUpper = r.context.TraceIDUpper
                       /\ c.context.SpanID = r.context.SpanID
           /\ UNCHANGED << spans, carriers >>
<1>1. PICK r \in Extract(stack, carrier.content) :
          LET nil == r.family = "binary" /\ DOMAIN r.items = {}
          IN  /\ maps' = IF nil THEN maps ELSE Append(maps, r.items)
              /\ contexts' = contexts \cup {
                    [ context |-> withMap(r.context, IF nil THEN NilMap ELSE Len(maps')),
                      seen |-> r.items,
                      origin |-> [carrier.origin EXCEPT !.b3 = @ \/ r.family = "b3"] ]}
      BY DEF TracerExtract
<1> DEFINE nil == r.family = "binary" /\ DOMAIN r.items = {}
<1>m. PICK m : m = IF nil THEN NilMap ELSE Len(maps')
      OBVIOUS
<1>2. PICK c : c = [ context |-> withMap(r.context, m), seen |-> r.items,
                     origin |-> [carrier.origin EXCEPT !.b3 = @ \/ r.family = "b3"] ]
      OBVIOUS
<1>3. /\ maps' = IF nil THEN maps ELSE Append(maps, r.items)
      /\ contexts' = contexts \cup {c}
      /\ UNCHANGED << spans, carriers, recorded >>
      BY <1>1, <1>m, <1>2, Zenon DEF TracerExtract
<1>4. /\ Shapes /\ IsOrigin(carrier.origin) /\ IsContent(carrier.content)
      /\ Unsampled(carrier.origin) => SaysUnsampled(carrier.content)
      BY DEF IInv, Shapes, DecisionCarried
<1>5. /\ r.context.TraceID \in Uint64 /\ r.context.TraceIDUpper \in Uint64
      /\ r.context.SpanID \in Uint64
      /\ IsItems(r.items)
      /\ \/ r.items = itemsOf(carrier.content)
         \/ r.items \in loweredItems(itemsOf(carrier.content))
      /\ SaysUnsampled(carrier.content) => r.family = "b3" \/ r.context.Sampled = "false"
      BY <1>4, ExtractReads
<1>6. MapsGrow
      BY <1>3, <1>5 DEF MapsGrow
<1>7. m \in 0 .. Len(maps') /\ Items(m)' = r.items
  <2>1. Len(maps') \in Nat /\ IsSeq(maps)
        BY <1>4, <1>6, MapsKept DEF Shapes
  <2>2. CASE nil
    <3>1. m = 0 /\ DOMAIN r.items = {}
          BY <1>m, <2>2 DEF NilMap
    <3>2. r.items = << >>
          BY <1>5, <3>1, NoItems
    <3> QED
        BY <2>1, <3>1, <3>2 DEF Items, NilMap
  <2>3. CASE ~nil
    <3>1. maps' = Append(maps, r.items)
          BY <1>3, <2>3
    <3>2. Len(maps') = Len(maps) + 1 /\ maps'[Len(maps) + 1] = r.items /\ Len(maps) \in Nat
          BY <2>1, <3>1, AppendSeq, SeqDomain
    <3>3. m = Len(maps')
          BY <1>m, <2>3
    <3> QED
        BY <2>1, <3>2, <3>3 DEF Items, NilMap
  <2> QED
      BY <2>2, <2>3
<1>8. /\ c.context = withMap(r.context, m) /\ c.seen = r.items
      /\ c.origin = [carrier.origin EXCEPT !.b3 = @ \/ r.family = "b3"]
      BY <1>2
<1> HIDE DEF nil
<1>9. /\ IsSpanContext(c.context)' /\ c.context.Baggage = m
      /\ c.context.TraceID = r.context.TraceID
      /\ c.context.TraceIDUpper = r.context.TraceIDUpper
      /\ c.context.SpanID = r.context.SpanID
      BY <1>5, <1>7, <1>8 DEF IsSpanContext, withMap
<1>10. Items(c.context.Baggage)' = c.seen
       BY <1>7, <1>8, <1>9 DEF Items
<1>11. /\ IsOrigin(c.origin)
       /\ c.origin.TraceID = carrier.origin.TraceID
       /\ c.origin.TraceIDUpper = carrier.origin.TraceIDUpper
       /\ c.origin.SpanID = carrier.origin.SpanID
       /\ c.origin.items = carrier.origin.items
       /\ Unsampled(c.origin) => Unsampled(carrier.origin) /\ r.family # "b3"
       BY <1>4, <1>8 DEF IsOrigin, Unsampled
<1>12. Unsampled(c.origin) => c.context.Sampled = "false"
       BY <1>4, <1>5, <1>8, <1>11 DEF withMap
<1>13. IInv'
       BY <1>3, <1>6, <1>9, <1>10, <1>11, <1>12, ContextAdded
<1>14. \/ c.seen = itemsOf(carrier.content)
       \/ c.seen \in loweredItems(itemsOf(carrier.content))
       BY <1>5, <1>8
<1>15. \E e \in Extract(stack, carrier.content) :
           /\ c.context.TraceID = e.context.TraceID
           /\ c.context.TraceIDUpper = e.context.TraceIDUpper
           /\ c.context.SpanID = e.context.SpanID
       BY <1>9
<1> QED
    BY <1>3, <1>6, <1>11, <1>13, <1>14, <1>15

\* The headers of another library.
LEMMA PeerInjectStep ==
    ASSUME IInv, NEW id, NEW upper, NEW len, NEW missing,
           PeerInject(id, upper, len, missing)
    PROVE  IInv'
<1> DEFINE h == [ traceid |-> digitsOf(upper, len - Digits) \o digitsOf(id, Digits),
                  spanid |-> digitsOf(id, Digits),
                  sampled |-> "0" ]
           written == [f \in {"b3"} |-> [x \in Required \ {missing} |-> h[x]]]
<1>1. PICK carrier :
          carrier = [ content |-> [ kind |-> "text", headers |-> written, items |-> << >> ],
                      origin |-> [ TraceID |-> id, TraceIDUpper |-> upper, SpanID |-> id,
                                   Sampled |-> "0", items |-> << >>, b3 |-> FALSE ] ]
      OBVIOUS
<1>2. /\ carriers' = carriers \cup {carrier}
      /\ UNCHANGED << spans, contexts, maps, recorded >>
      BY <1>1, Zenon DEF PeerInject
<1> HIDE DEF written
<1>3. IsOrigin(carrier.origin) /\ ~Unsampled(carrier.origin)
      BY <1>1 DEF IsOrigin, Unsampled
<1>4. IsContent(carrier.content)
      BY <1>1, NoItems DEF IsContent, itemsOf
<1> QED
    BY <1>2, <1>3, <1>4, CarrierAdded

\* Every step keeps the invariant.
THEOREM ContextInvariance == Spec => []IInv
<1>1. Init => IInv
  <2> SUFFICES ASSUME Init PROVE IInv
      OBVIOUS
  <2>1. TypeOK /\ ContextsStable /\ DecisionCarried
        BY DEF Init, TypeOK, ContextsStable, DecisionCarried
  <2>2. Shapes
        BY EmptyIsSeq DEF Init, Shapes
  <2> QED
      BY <2>1, <2>2 DEF IInv
<1>2. IInv /\ [Next]_vars => IInv'
  <2> SUFFICES ASSUME IInv, [Next]_vars PROVE IInv'
      OBVIOUS
  <2>1. CASE Next
        BY <2>1, StartSpanStep, ExportSpanStep, SetBaggageItemStep, ContextStep, FinishStep,
           TracerInjectStep, TracerExtractStep, PeerInjectStep
           DEF Next
  <2>2. CASE UNCHANGED vars
    <3>1. TypeOK' /\ ContextsStable' /\ DecisionCarried'
          BY <2>2 DEF vars, IInv, TypeOK, IsSpanContext, ContextsStable, Items,
                      DecisionCarried
    <3>2. Shapes'
          BY <2>2 DEF vars, IInv, Shapes, IsSeq
    <3> QED
        BY <3>1, <3>2 DEF IInv
  <2> QED
      BY <2>1, <2>2
<1> QED
    BY <1>1, <1>2, PTL DEF Spec

\* Every identifier in every context, whoever wrote the headers it was read
\* from, is a number of 64 bits, and every baggage map exists (newSpan, Extract).
THEOREM ContextsTyped == Spec => []TypeOK
BY ContextInvariance, PTL DEF IInv

\* A context, once handed out by Context or Extract, never changes, whatever
\* SetBaggageItem does meanwhile to the span it came from (WithBaggageItem).
THEOREM HandedOutStable == Spec => []ContextsStable
BY ContextInvariance, PTL DEF IInv

\* Nothing below a span that is not sampled is recorded, through any number of
\* processes and propagators, unless one of them reads B3 headers.
THEOREM UnsampledStaysOut == Spec => []UnsampledNotRecorded
<1>1. IInv => UnsampledNotRecorded
      BY DEF IInv, TypeOK, DecisionCarried, Unsampled, UnsampledNotRecorded
<1> QED
    BY <1>1, ContextInvariance, PTL

-----------------------------------------------------------------------------
(***************************************************************************)
(* Baggage                                                                 *)
(***************************************************************************)

\* strings.ToLower of a string in lower case is that string.
LowerTwice == \A k : ToLower(ToLower(k)) = ToLower(k)

\* The items are the given ones, the case of their keys aside, and besides only
\* such as the owner set.
Handed(items, given, own) ==
    /\ \A k \in DOMAIN items :
          k \in own \/ \E i \in DOMAIN given : k \in {i, ToLower(i)} /\ items[k] = given[i]
    /\ \A k \in DOMAIN given : k \in DOMAIN items \/ ToLower(k) \in DOMAIN items

\* Baggage on its way: what a context sees and what a carrier holds.
HandedOn ==
    /\ \A c \in contexts : Handed(c.seen, c.origin.items, {})
    /\ \A carrier \in carriers : Handed(itemsOf(carrier.content), carrier.origin.items, {})

SpansHanded ==
    \A n \in DOMAIN spans : \A o \in spans[n].cause :
        Handed(Items(spans[n].context.Baggage), o.items, spans[n].own)

BaggageInv == HandedOn /\ SpansHanded

\* Items are handed on as they are and, whatever the propagator did to their
\* keys before, in lower case.
LEMMA HandedFurther ==
    ASSUME LowerTwice, NEW items, IsItems(items), NEW given, Handed(items, given, {}),
           NEW f \in loweredItems(items)
    PROVE  Handed(f, given, {})
<1>1. ASSUME NEW k \in DOMAIN f
      PROVE  \E i \in DOMAIN given : k \in {i, ToLower(i)} /\ f[k] = given[i]
  <2>1. PICK j \in DOMAIN items : k = ToLower(j) /\ f[k] = items[j]
        BY LoweredType
  <2>2. PICK i \in DOMAIN given : j \in {i, ToLower(i)} /\ items[j] = given[i]
        BY DEF Handed
  <2>3. k = ToLower(i)
        BY <2>1, <2>2 DEF LowerTwice
  <2> QED
      BY <2>1, <2>2, <2>3
<1>2. ASSUME NEW k \in DOMAIN given
      PROVE  ToLower(k) \in DOMAIN f
  <2>1. PICK j \in DOMAIN items : j \in {k, ToLower(k)}
        BY DEF Handed
  <2>2. ToLower(j) = ToLower(k)
        BY <2>1 DEF LowerTwice
  <2> QED
      BY <2>2, LoweredType
<1> QED
    BY <1>1, <1>2 DEF Handed

\* A step that leaves a span's context, cause and own items alone leaves its
\* baggage alone.
LEMMA SpanBaggageKept ==
    ASSUME IInv, BaggageInv, MapsGrow, NEW n \in DOMAIN spans,
           spans'[n].context = spans[n].context, spans'[n].cause = spans[n].cause,
           spans'[n].own = spans[n].own
    PROVE  \A o \in spans'[n].cause :
               Handed(Items(spans[n].context.Baggage)', o.items, spans'[n].own)
<1>1. PICK c : c = spans[n].context
      OBVIOUS
<1>2. Shapes /\ IsSpanContext(c)
      BY <1>1 DEF IInv, TypeOK
<1>3. Items(c.Baggage)' = Items(c.Baggage)
      BY <1>2, ContextsKept
<1>4. Items(spans[n].context.Baggage)' = Items(spans[n].context.Baggage)
      BY <1>1, <1>3
<1> QED
    BY <1>4 DEF BaggageInv, SpansHanded

\* Spans that a step leaves alone keep their baggage.
LEMMA SpansBaggageKept ==
    ASSUME IInv, BaggageInv, MapsGrow, UNCHANGED spans
    PROVE  SpansHanded'
<1>1. ASSUME NEW n \in DOMAIN spans
      PROVE  \A o \in spans'[n].cause :
                 Handed(Items(spans[n].context.Baggage)', o.items, spans'[n].own)
      BY SpanBaggageKept
<1> QED
    BY <1>1 DEF SpansHanded

\* A new span whose baggage is that of its cause keeps the invariant.
LEMMA SpanAddedBaggage ==
    ASSUME IInv, BaggageInv, MapsGrow, NEW s, spans' = Append(spans, s),
           \A o \in s.cause : Handed(Items(s.context.Baggage)', o.items, s.own)
    PROVE  SpansHanded'
<1>1. IsSeq(spans)
      BY DEF IInv, Shapes
<1>2. /\ DOMAIN spans' = DOMAIN spans \cup {Len(spans) + 1}
      /\ spans'[Len(spans) + 1] = s
      /\ \A n \in DOMAIN spans : spans'[n] = spans[n]
      BY <1>1, AppendSeq
<1>3. ASSUME NEW n \in DOMAIN spans
      PROVE  \A o \in spans'[n].cause :
                 Handed(Items(spans[n].context.Baggage)', o.items, spans'[n].own)
      BY <1>2, SpanBaggageKept
<1>4. \A o \in spans'[Len(spans) + 1].cause :
          Handed(Items(s.context.Baggage)', o.items, spans'[Len(spans) + 1].own)
      BY <1>2
<1> QED
    BY <1>2, <1>3, <1>4 DEF SpansHanded, Items

\* A change of one span keeps the invariant if its baggage is still its cause's.
LEMMA SpanChangedBaggage ==
    ASSUME IInv, BaggageInv, MapsGrow, NEW n \in DOMAIN spans, NEW s,
           spans' = [spans EXCEPT ![n] = s],
           \A o \in s.cause : Handed(Items(s.context.Baggage)', o.items, s.own)
    PROVE  SpansHanded'
<1>1. /\ DOMAIN spans' = DOMAIN spans /\ spans'[n] = s
      /\ \A m \in DOMAIN spans \ {n} : spans'[m] = spans[m]
      OBVIOUS
<1>2. ASSUME NEW m \in DOMAIN spans \ {n}
      PROVE  \A o \in spans'[m].cause :
                 Handed(Items(spans[m].context.Baggage)', o.items, spans'[m].own)
      BY <1>1, SpanBaggageKept
<1> QED
    BY <1>1, <1>2 DEF SpansHanded, Items

\* Every action keeps what is said of baggage.
LEMMA BaggageStep ==
    ASSUME LowerTwice, IInv, BaggageInv, Next
    PROVE  BaggageInv'
<1>1. ASSUME NEW o \in StartSpanOptions, NEW ref \in {{}} \cup {{c} : c \in contexts},
             StartSpan(o, ref)
      PROVE  BaggageInv'
  <2>1. MapsGrow /\ UNCHANGED << contexts, carriers >>
        BY <1>1, StartSpanStep
  <2>2. PICK s : /\ spans' = Append(spans, s)
                 /\ s.cause = {c.origin : c \in ref}
                 /\ s.own = {}
                 /\ Items(s.context.Baggage)'
                       = IF ref = {} THEN << >> ELSE Items(refCtx(ref).Baggage)
        BY <1>1, StartSpanStep
  <2>3. ASSUME NEW c \in contexts, ref = {c}
        PROVE  Items(refCtx(ref).Baggage) = c.seen /\ Handed(c.seen, c.origin.items, {})
        BY <2>3 DEF refCtx, IInv, ContextsStable, BaggageInv, HandedOn
  <2>4. \A h \in s.cause : Handed(Items(s.context.Baggage)', h.items, s.own)
        BY <2>2, <2>3
  <2>5. SpansHanded'
        BY <2>1, <2>2, <2>4, SpanAddedBaggage
  <2> QED
      BY <2>1, <2>5 DEF BaggageInv, HandedOn
<1>2. ASSUME NEW sd \in SpanDatas, ExportSpan(sd)
      PROVE  BaggageInv'
  <2>1. MapsGrow /\ UNCHANGED << contexts, carriers >>
        BY <1>2, ExportSpanStep
  <2>2. PICK s : spans' = Append(spans, s) /\ s.cause = {}
        BY <1>2, ExportSpanStep
  <2>3. SpansHanded'
        BY <2>1, <2>2, SpanAddedBaggage
  <2> QED
      BY <2>1, <2>3 DEF BaggageInv, HandedOn
<1>3. ASSUME NEW n \in DOMAIN spans, NEW k, NEW v, SetBaggageItem(n, k, v)
      PROVE  BaggageInv'
  <2>1. MapsGrow /\ UNCHANGED << contexts, carriers >>
        BY <1>3, SetBaggageItemStep
  <2>2. PICK s : /\ spans' = [spans EXCEPT ![n] = s]
                 /\ s.cause = spans[n].cause /\ s.own = spans[n].own \cup {k}
                 /\ Items(s.context.Baggage)' = put(Items(spans[n].context.Baggage), k, v)
        BY <1>3, SetBaggageItemStep
  <2>3. \A o \in s.cause : Handed(Items(s.context.Baggage)', o.items, s.own)
        BY <2>2 DEF BaggageInv, SpansHanded, Handed, put
  <2>4. SpansHanded'
        BY <2>1, <2>2, <2>3, SpanChangedBaggage
  <2> QED
      BY <2>1, <2>4 DEF BaggageInv, HandedOn
<1>4. ASSUME NEW n \in DOMAIN spans, Context(n)
      PROVE  BaggageInv'
  <2>1. MapsGrow /\ UNCHANGED << spans, carriers >>
        BY <1>4 DEF Context, MapsGrow
  <2>2. PICK c : contexts' = contexts \cup {c} /\ c.seen = c.origin.items
    <3> DEFINE sc == spans[n].context
               c == [ context |-> sc, seen |-> Items(sc.Baggage),
                      origin |-> [ TraceID |-> sc.TraceID, TraceIDUpper |-> sc.TraceIDUpper,
                                   SpanID |-> sc.SpanID, Sampled |-> sc.Sampled,
                                   items |-> Items(sc.Baggage), b3 |-> FALSE ] ]
    <3>1. contexts' = contexts \cup {c}
          BY <1>4 DEF Context
    <3>2. c.seen = c.origin.items
          OBVIOUS
    <3> QED
        BY <3>1, <3>2
  <2>3. Handed(c.seen, c.origin.items, {})
        BY <2>2 DEF Handed
  <2> QED
      BY <2>1, <2>2, <2>3, SpansBaggageKept DEF BaggageInv, HandedOn
<1>5. ASSUME NEW n \in DOMAIN spans, Finish(n)
      PROVE  BaggageInv'
  <2>1. MapsGrow /\ UNCHANGED << contexts, carriers, maps >>
        BY <1>5 DEF Finish, MapsGrow
  <2>2. PICK s : s = [spans[n] EXCEPT !.finished = TRUE]
        OBVIOUS
  <2>3. spans' = [spans EXCEPT ![n] = s]
        BY <1>5, <2>2 DEF Finish
  <2>4. s.context = spans[n].context /\ s.cause = spans[n].cause /\ s.own = spans[n].own
    <3>1. IsSpan(spans[n])
          BY DEF IInv, Shapes
    <3> QED
        BY <2>2, <3>1 DEF IsSpan
  <2>5. \A o \in s.cause : Handed(Items(s.context.Baggage)', o.items, s.own)
        BY <2>1, <2>4 DEF BaggageInv, SpansHanded, Items
  <2>6. SpansHanded'
        BY <2>1, <2>3, <2>5, SpanChangedBaggage
  <2> QED
      BY <2>1, <2>6 DEF BaggageInv, HandedOn
<1>6. ASSUME NEW c \in contexts, NEW stack, TracerInject(c, stack)
      PROVE  BaggageInv'
  <2> DEFINE items == Items(c.context.Baggage)
  <2>1. MapsGrow /\ UNCHANGED << spans, contexts >>
        BY <1>6 DEF TracerInject, MapsGrow
  <2>2. PICK carrier : /\ carriers' = carriers \cup {carrier}
                       /\ carrier.content = Inject(stack, c.context, items)
                       /\ carrier.origin = c.origin
    <3> DEFINE carrier == [ content |-> Inject(stack, c.context, items),
                            origin |-> c.origin ]
    <3>1. carriers' = carriers \cup {carrier}
          BY <1>6 DEF TracerInject
    <3>2. /\ carrier.content = Inject(stack, c.context, items)
          /\ carrier.origin = c.origin
          OBVIOUS
    <3> QED
        BY <3>1, <3>2
  <2>3. IsSpanContext(c.context) /\ Shapes /\ items = c.seen
        BY DEF IInv, TypeOK, ContextsStable
  <2>4. IsItems(items) /\ c.context.TraceID \in Uint64 /\ c.context.SpanID \in Uint64
        BY <2>3, ItemsType DEF IsSpanContext
  <2>5. itemsOf(carrier.content) = items
        BY <2>2, <2>4, InjectWrites
  <2>6. Handed(itemsOf(carrier.content), carrier.origin.items, {})
        BY <2>2, <2>3, <2>5 DEF BaggageInv, HandedOn
  <2> QED
      BY <2>1, <2>2, <2>6, SpansBaggageKept DEF BaggageInv, HandedOn
<1>7. ASSUME NEW carrier \in carriers, NEW stack, TracerExtract(carrier, stack)
      PROVE  BaggageInv'
  <2>1. MapsGrow /\ UNCHANGED << spans, carriers >>
        BY <1>7, TracerExtractStep
  <2>2. PICK c : /\ contexts' = contexts \cup {c}
                 /\ c.origin.items = carrier.origin.items
                 /\ \/ c.seen = itemsOf(carrier.content)
                    \/ c.seen \in loweredItems(itemsOf(carrier.content))
        BY <1>7, TracerExtractStep
  <2>3. /\ Handed(itemsOf(carrier.content), carrier.origin.items, {})
        /\ IsItems(itemsOf(carrier.content))
        BY DEF BaggageInv, HandedOn, IInv, Shapes, IsContent
  <2>4. Handed(c.seen, c.origin.items, {})
        BY <2>2, <2>3, HandedFurther
  <2> QED
      BY <2>1, <2>2, <2>4, SpansBaggageKept DEF BaggageInv, HandedOn
<1>8. ASSUME NEW id, NEW upper, NEW len, NEW missing, PeerInject(id, upper, len, missing)
      PROVE  BaggageInv'
  <2>1. MapsGrow /\ UNCHANGED << spans, contexts >>
        BY <1>8 DEF PeerInject, MapsGrow
  <2>2. PICK carrier : /\ carriers' = carriers \cup {carrier}
                       /\ itemsOf(carrier.content) = << >>
                       /\ carrier.origin.items = << >>
    <3> DEFINE h == [ traceid |-> digitsOf(upper, len - Digits) \o digitsOf(id, Digits),
                      spanid |-> digitsOf(id, Digits),
                      sampled |-> "0" ]
               written == [f \in {"b3"} |-> [x \in Required \ {missing} |-> h[x]]]
               carrier ==
                   [ content |-> [ kind |-> "text", headers |-> written, items |-> << >> ],
                     origin |-> [ TraceID |-> id, TraceIDUpper |-> upper, SpanID |-> id,
                                  Sampled |-> "0", items |-> << >>, b3 |-> FALSE ] ]
    <3>1. carriers' = carriers \cup {carrier}
          BY <1>8, Zenon DEF PeerInject
    <3> HIDE DEF written
    <3>2. itemsOf(carrier.content) = << >> /\ carrier.origin.items = << >>
          BY DEF itemsOf
    <3> QED
        BY <3>1, <3>2
  <2>3. Handed(itemsOf(carrier.content), carrier.origin.items, {})
        BY <2>2, NoItems DEF Handed
  <2> QED
      BY <2>1, <2>2, <2>3, SpansBaggageKept DEF BaggageInv, HandedOn
<1> QED
    BY <1>1, <1>2, <1>3, <1>4, <1>5, <1>6, <1>7, <1>8 DEF Next

\* What is said of baggage always holds.
THEOREM BaggageInvariance ==
    ASSUME LowerTwice
    PROVE  Spec => []BaggageInv
<1>1. Init => BaggageInv
      BY DEF Init, BaggageInv, HandedOn, SpansHanded
<1>2. IInv /\ BaggageInv /\ [Next]_vars => BaggageInv'
  <2>1. ASSUME BaggageInv, UNCHANGED vars
        PROVE  BaggageInv'
        BY <2>1 DEF vars, BaggageInv, HandedOn, SpansHanded, Items
  <2> QED
      BY <2>1, BaggageStep
<1> QED
    BY <1>1, <1>2, ContextInvariance, PTL DEF Spec

\* A span has the baggage of the span that its reference stands for, as it was
\* when that context was handed out, through any number of processes and
\* propagators, the case of the keys aside (newSpan, Inject, Extract).
THEOREM BaggageArrives ==
    ASSUME LowerTwice
    PROVE  Spec => []BaggageInherited
<1>1. BaggageInv => BaggageInherited
  <2> SUFFICES ASSUME BaggageInv, NEW n \in DOMAIN spans, NEW o \in spans[n].cause
               PROVE  LET items == Items(spans[n].context.Baggage)
                          handed(k) == {o.items[j] : j \in {i \in DOMAIN o.items :
                                                              k \in {i, ToLower(i)}}}
                      IN  /\ \A k \in DOMAIN items :
                                k \in spans[n].own \/ items[k] \in handed(k)
                          /\ \A k \in DOMAIN o.items : {k, ToLower(k)} \cap DOMAIN items # {}
      BY DEF BaggageInherited
  <2>1. Handed(Items(spans[n].context.Baggage), o.items, spans[n].own)
        BY DEF BaggageInv, SpansHanded
  <2> QED
      BY <2>1 DEF Handed
<1> QED
    BY <1>1, BaggageInvariance, PTL

-----------------------------------------------------------------------------
(***************************************************************************)
(* The exporter                                                            *)
(***************************************************************************)

\* OpenCensus never makes a span ID of 0, nor a trace ID whose half that is
\* kept is 0, except that one by a chance of 1 in 2^64.
ValidIDs == \A sd \in SpanDatas : ConvertTraceID(sd.TraceID) # 0 /\ sd.SpanID # 0

\* An exported span has the identifiers of OpenCensus, or those of its link.
ExportedAs(s, sd) ==
    /\ sd \in SpanDatas
    /\ childLink(sd) = {} => /\ s.context.TraceID = ConvertTraceID(sd.TraceID)
                             /\ s.context.SpanID = sd.SpanID
                             /\ s.ParentSpanID = sd.ParentSpanID
    /\ \A l \in childLink(sd) :
          /\ ConvertTraceID(l.TraceID) # 0
                => s.context.TraceID = ConvertTraceID(l.TraceID)
          /\ s.ParentSpanID = l.SpanID

ExportInv == \A n \in DOMAIN spans : \A sd \in spans[n].exported : ExportedAs(spans[n], sd)

\* There is at most one first child link.
LEMMA OneChildLink ==
    ASSUME NEW sd \in SpanDatas, NEW l \in childLink(sd), NEW m \in childLink(sd)
    PROVE  l = m
<1>1. DOMAIN sd.Links \subseteq Nat
      BY TraceContextAssumption DEF IsSpanData
<1> DEFINE children == {i \in DOMAIN sd.Links : sd.Links[i].Type = "child"}
<1>2. PICK i \in children : l = sd.Links[i] /\ \A k \in children : i <= k
      BY DEF childLink
<1>3. PICK j \in children : m = sd.Links[j] /\ \A k \in children : j <= k
      BY DEF childLink
<1>4. i = j
      BY <1>1, <1>2, <1>3
<1> QED
    BY <1>2, <1>3, <1>4

\* What newSpan makes of the options of ExportSpan.
LEMMA ExportedIDs ==
    ASSUME ValidIDs, NEW sd \in SpanDatas, NEW t, NEW u, NEW s,
           LET g == generate(startContext(exportOptions(sd), exportRef(sd)), t, u)
           IN  s.context.TraceID = g.TraceID /\ s.context.SpanID = g.SpanID,
           s.ParentSpanID = parentSpanID(exportOptions(sd), exportRef(sd))
    PROVE  ExportedAs(s, sd)
<1> DEFINE o == exportOptions(sd)
           ref == exportRef(sd)
           c == startContext(o, ref)
<1>1. /\ o.SetTraceID = ConvertTraceID(sd.TraceID) /\ o.SetSpanID = sd.SpanID
      /\ o.SetParentSpanID = sd.ParentSpanID
      /\ o.SetTraceID # 0 /\ o.SetSpanID # 0
      BY DEF exportOptions, ValidIDs
<1>2. CASE childLink(sd) = {}
  <2>1. ref = {}
        BY <1>2 DEF exportRef
  <2> HIDE DEF ref, o
  <2>2. /\ c = [ TraceID |-> c.TraceID, TraceIDUpper |-> c.TraceIDUpper,
                 SpanID |-> c.SpanID, Sampled |-> c.Sampled ]
        /\ c.TraceID = o.SetTraceID /\ c.SpanID = o.SetSpanID
        BY <1>1, <2>1 DEF startContext
  <2> HIDE DEF c
  <2>3. generate(c, t, u) = c
        BY <1>1, <2>2 DEF generate
  <2>4. s.context.TraceID = o.SetTraceID /\ s.context.SpanID = o.SetSpanID
        BY <2>2, <2>3 DEF c, ref, o
  <2>5. s.ParentSpanID = o.SetParentSpanID
    <3>1. s.ParentSpanID = parentSpanID(o, ref)
          BY DEF o, ref
    <3> QED
        BY <1>1, <2>1, <3>1 DEF parentSpanID
  <2> QED
      BY <1>1, <1>2, <2>4, <2>5 DEF ExportedAs
<1>3. ASSUME NEW l \in childLink(sd)
      PROVE  ExportedAs(s, sd)
  <2>1. \A m \in childLink(sd) : m = l
        BY OneChildLink
  <2>2. /\ ref # {} /\ refCtx(ref) = ConvertLinkToSpanContext(l)
    <3>1. ref # {} /\ \A e \in ref : e = [context |-> ConvertLinkToSpanContext(l)]
          BY <2>1 DEF exportRef
    <3> HIDE DEF ref
    <3>2. (CHOOSE e \in ref : TRUE) = [context |-> ConvertLinkToSpanContext(l)]
          BY <3>1
    <3> QED
        BY <3>1, <3>2 DEF refCtx
  <2>3. refCtx(ref).TraceID = ConvertTraceID(l.TraceID) /\ refCtx(ref).SpanID = l.SpanID
    <3>1. /\ ConvertLinkToSpanContext(l).TraceID = ConvertTraceID(l.TraceID)
          /\ ConvertLinkToSpanContext(l).SpanID = l.SpanID
          BY DEF ConvertLinkToSpanContext
    <3> QED
        BY <2>2, <3>1
  <2> HIDE DEF ref, o
  <2>4. /\ c = [ TraceID |-> c.TraceID, TraceIDUpper |-> c.TraceIDUpper,
                 SpanID |-> c.SpanID, Sampled |-> c.Sampled ]
        /\ c.TraceID = refCtx(ref).TraceID /\ c.SpanID = o.SetSpanID
        BY <1>1, <2>2 DEF startContext
  <2> HIDE DEF c
  <2>5. c.TraceID # 0 => generate(c, t, u) = c
        BY <1>1, <2>4 DEF generate
  <2>6. s.context.TraceID = generate(c, t, u).TraceID
        BY DEF c, ref, o
  <2>7. s.ParentSpanID = l.SpanID
    <3>1. s.ParentSpanID = parentSpanID(o, ref)
          BY DEF o, ref
    <3> QED
        BY <2>2, <2>3, <3>1 DEF parentSpanID
  <2> QED
      BY <2>1, <2>3, <2>4, <2>5, <2>6, <2>7 DEF ExportedAs
<1> QED
    BY <1>2, <1>3

\* Every action keeps what is said of exported spans: only ExportSpan makes one,
\* and nothing changes its identifiers.
LEMMA ExportStep ==
    ASSUME ValidIDs, IInv, ExportInv, Next
    PROVE  ExportInv'
<1>1. IsSeq(spans)
      BY DEF IInv, Shapes
<1>2. ASSUME NEW s, spans' = Append(spans, s), \A sd \in s.exported : ExportedAs(s, sd)
      PROVE  ExportInv'
  <2>1. /\ DOMAIN spans' = DOMAIN spans \cup {Len(spans) + 1}
        /\ spans'[Len(spans) + 1] = s
        /\ \A n \in DOMAIN spans : spans'[n] = spans[n]
        BY <1>1, <1>2, AppendSeq
  <2> QED
      BY <1>2, <2>1 DEF ExportInv
<1>3. ASSUME NEW n \in DOMAIN spans, NEW s, spans' = [spans EXCEPT ![n] = s],
             s.exported = spans[n].exported,
             s.ParentSpanID = spans[n].ParentSpanID,
             s.context.TraceID = spans[n].context.TraceID,
             s.context.SpanID = spans[n].context.SpanID
      PROVE  ExportInv'
  <2>1. \A sd \in s.exported : ExportedAs(s, sd)
        BY <1>3 DEF ExportInv, ExportedAs
  <2>2. /\ DOMAIN spans' = DOMAIN spans /\ spans'[n] = s
        /\ \A m \in DOMAIN spans \ {n} : spans'[m] = spans[m]
        BY <1>3
  <2> QED
      BY <2>1, <2>2 DEF ExportInv
<1>4. ASSUME NEW o \in StartSpanOptions, NEW ref \in {{}} \cup {{c} : c \in contexts},
             StartSpan(o, ref)
      PROVE  ExportInv'
  <2>1. PICK s : spans' = Append(spans, s) /\ s.exported = {}
        BY <1>4, StartSpanStep
  <2> QED
      BY <1>2, <2>1
<1>5. ASSUME NEW sd \in SpanDatas, ExportSpan(sd)
      PROVE  ExportInv'
  <2>1. PICK s, t, u :
            /\ spans' = Append(spans, s) /\ s.exported = {sd}
            /\ LET g == generate(startContext(exportOptions(sd), exportRef(sd)), t, u)
               IN  s.context.TraceID = g.TraceID /\ s.context.SpanID = g.SpanID
            /\ s.ParentSpanID = parentSpanID(exportOptions(sd), exportRef(sd))
        BY <1>5, ExportSpanStep
  <2>2. ExportedAs(s, sd)
        BY <2>1, ExportedIDs
  <2> QED
      BY <1>2, <2>1, <2>2
<1>6. ASSUME NEW n \in DOMAIN spans, NEW k, NEW v, SetBaggageItem(n, k, v)
      PROVE  ExportInv'
      BY <1>3, <1>6, SetBaggageItemStep
<1>7. ASSUME NEW n \in DOMAIN spans, Finish(n)
      PROVE  ExportInv'
  <2>1. PICK s : s = [spans[n] EXCEPT !.finished = TRUE]
        OBVIOUS
  <2>2. spans' = [spans EXCEPT ![n] = s]
        BY <1>7, <2>1 DEF Finish
  <2>3. IsSpan(spans[n])
        BY DEF IInv, Shapes
  <2>4. /\ s.context = spans[n].context /\ s.exported = spans[n].exported
        /\ s.ParentSpanID = spans[n].ParentSpanID
        BY <2>1, <2>3 DEF IsSpan
  <2> QED
      BY <1>3, <2>2, <2>4
<1>8. ASSUME UNCHANGED spans
      PROVE  ExportInv'
      BY <1>8 DEF ExportInv
<1>9. ASSUME NEW n, NEW c, NEW carrier, NEW stack, NEW id, NEW upper, NEW len, NEW missing,
             \/ Context(n) \/ TracerInject(c, stack) \/ TracerExtract(carrier, stack)
             \/ PeerInject(id, upper, len, missing)
      PROVE  UNCHANGED spans
      BY <1>9 DEF Context, TracerInject, TracerExtract, PeerInject
<1> QED
    BY <1>4, <1>5, <1>6, <1>7, <1>8, <1>9 DEF Next

\* What is said of exported spans always holds.
THEOREM ExportInvariance ==
    ASSUME ValidIDs
    PROVE  Spec => []ExportInv
<1>1. Init => ExportInv
      BY DEF Init, ExportInv
<1>2. IInv /\ ExportInv /\ [Next]_vars => ExportInv'
  <2>1. ASSUME ExportInv, UNCHANGED vars
        PROVE  ExportInv'
        BY <2>1 DEF vars, ExportInv
  <2> QED
      BY <2>1, ExportStep
<1> QED
    BY <1>1, <1>2, ContextInvariance, PTL DEF Spec

\* Spans exported from OpenCensus, with trace IDs of 128 bits of which half are
\* kept, and in whatever order they come, are connected as they were there
\* (ExportSpan, ConvertTraceID, ConvertLinkToSpanContext).
THEOREM ExportConnects ==
    ASSUME ValidIDs
    PROVE  Spec => []ExportedConnected
<1>1. ExportInv => ExportedConnected
  <2> SUFFICES ASSUME ExportInv, NEW m \in DOMAIN spans, NEW n \in DOMAIN spans,
                      NEW child \in spans[m].exported, NEW parent \in spans[n].exported,
                      LET of == IF childLink(child) = {}
                                THEN {<< child.TraceID, child.ParentSpanID >>}
                                ELSE {<< l.TraceID, l.SpanID >> : l \in childLink(child)}
                      IN  of = {<< parent.TraceID, parent.SpanID >>},
                      childLink(parent) = {}
               PROVE  /\ spans[m].context.TraceID = spans[n].context.TraceID
                      /\ spans[m].ParentSpanID = spans[n].context.SpanID
      BY DEF ExportedConnected
  <2>1. ExportedAs(spans[m], child) /\ ExportedAs(spans[n], parent)
        BY DEF ExportInv
  <2>2. /\ spans[n].context.TraceID = ConvertTraceID(parent.TraceID)
        /\ spans[n].context.SpanID = parent.SpanID
        /\ ConvertTraceID(parent.TraceID) # 0
        BY <2>1 DEF ExportedAs, ValidIDs
  <2>3. CASE childLink(child) = {}
    <3>1. << child.TraceID, child.ParentSpanID >> = << parent.TraceID, parent.SpanID >>
          BY <2>3, Zenon
    <3>2. child.TraceID = parent.TraceID /\ child.ParentSpanID = parent.SpanID
          BY <3>1
    <3> QED
        BY <2>1, <2>2, <2>3, <3>2 DEF ExportedAs
  <2>4. CASE childLink(child) # {}
    <3>1. PICK l \in childLink(child) :
              << l.TraceID, l.SpanID >> = << parent.TraceID, parent.SpanID >>
          BY <2>4, Zenon
    <3>2. l.TraceID = parent.TraceID /\ l.SpanID = parent.SpanID
          BY <3>1
    <3> QED
        BY <2>1, <2>2, <3>2 DEF ExportedAs
  <2> QED
      BY <2>3, <2>4
<1> QED
    BY <1>1, ExportInvariance, PTL
-----------------------------------------------------------------------------
(***************************************************************************)
(* Traces                                                                  *)
(***************************************************************************)

\* A context has the identifiers of what it stands for.
SameIDs(sc, o) == sc.TraceID = o.TraceID /\ sc.TraceIDUpper = 0 /\ sc.SpanID = o.SpanID

\* Whoever of the readers of a carrier finds all fields there reads these
\* identifiers.
CarriesIDs(content, o) ==
    /\ content.kind = "binary" =>
          content.basicCtx.TraceId = o.TraceID /\ content.basicCtx.SpanId = o.SpanID
    /\ content.kind = "text" =>
          \A f \in DOMAIN content.headers :
              Required \subseteq DOMAIN content.headers[f] =>
                 /\ parseTraceID(f, content.headers[f].traceid)
                       = [ upper |-> 0, lower |-> o.TraceID ]
                 /\ ParseUint(content.headers[f].spanid) = o.SpanID

\* The identifiers of a trace with an ID of 64 bits on their way.
IDsCarried ==
    /\ \A c \in contexts :
          c.origin.TraceID # 0 /\ (c.origin.TraceIDUpper = 0 => SameIDs(c.context, c.origin))
    /\ \A carrier \in carriers :
          /\ carrier.origin.TraceID # 0
          /\ carrier.origin.TraceIDUpper = 0 => CarriesIDs(carrier.content, carrier.origin)

\* No span is without a trace.
SpansTraced == \A n \in DOMAIN spans : spans[n].context.TraceID # 0

TraceInv == IDsCarried /\ SpansTraced /\ TraceConnected

\* Inject writes the identifiers of the context so that they can be read again.
LEMMA InjectedIDs ==
    ASSUME NEW stack, NEW sc, NEW items, sc.TraceID \in Uint64, sc.SpanID \in Uint64,
           NEW o, SameIDs(sc, o)
    PROVE  CarriesIDs(Inject(stack, sc, items), o)
<1> DEFINE content == Inject(stack, sc, items)
<1>1. CASE stack = << "binary" >>
  <2>1. /\ content.kind = "binary"
        /\ content.basicCtx.TraceId = sc.TraceID
        /\ content.basicCtx.SpanId = sc.SpanID
        BY <1>1 DEF Inject
  <2> QED
      BY <2>1 DEF CarriesIDs, SameIDs
<1>2. CASE stack # << "binary" >>
  <2>1. /\ content.kind = "text"
        /\ content.headers = [f \in stackFamilies(stack) |-> headersOf(f, sc, items)]
        BY <1>2 DEF Inject
  <2>2. ASSUME NEW f
        PROVE  /\ parseTraceID(f, headersOf(f, sc, items).traceid)
                     = [ upper |-> 0, lower |-> sc.TraceID ]
               /\ ParseUint(headersOf(f, sc, items).spanid) = sc.SpanID
    <3>1. ParseUint(FormatUint(sc.SpanID)) = sc.SpanID
          BY RoundTrip
    <3>2. CASE f = "b3"
      <4>1. /\ headersOf(f, sc, items).traceid = formatTraceID(sc.TraceID, 0)
            /\ headersOf(f, sc, items).spanid = FormatUint(sc.SpanID)
            BY <3>2 DEF headersOf, textHeaders, SameIDs
      <4>2. b3TraceIDParser(formatTraceID(sc.TraceID, 0))
              = [ upper |-> 0, lower |-> sc.TraceID ]
            BY B3RoundTrip
      <4> QED
          BY <3>1, <3>2, <4>1, <4>2 DEF parseTraceID
    <3>3. CASE f # "b3"
      <4>1. /\ headersOf(f, sc, items).traceid = FormatUint(sc.TraceID)
            /\ headersOf(f, sc, items).spanid = FormatUint(sc.SpanID)
            BY <3>3 DEF headersOf, textHeaders
      <4>2. ParseUint(FormatUint(sc.TraceID)) = sc.TraceID
            BY RoundTrip
      <4> QED
          BY <3>1, <3>3, <4>1, <4>2 DEF parseTraceID, lightstepTraceIDParser
    <3> QED
        BY <3>2, <3>3
  <2>3. \A f \in DOMAIN content.headers : content.headers[f] = headersOf(f, sc, items)
        BY <2>1
  <2> HIDE DEF content
  <2>4. CarriesIDs(content, o)
        BY <2>1, <2>2, <2>3 DEF CarriesIDs, SameIDs
  <2> QED
      BY <2>4 DEF content
<1> QED
    BY <1>1, <1>2

\* Whichever member of a stack reads the carrier, it reads these identifiers.
LEMMA ExtractedIDs ==
    ASSUME NEW stack, NEW content, NEW o, CarriesIDs(content, o),
           NEW r \in Extract(stack, content)
    PROVE  SameIDs(r.context, o)
<1>1. PICK family : finds(family, content) /\ r \in extracted(family, content)
      BY ExtractedByOne
<1>2. CASE family = "binary"
  <2>1. content.kind = "binary"
        BY <1>1, <1>2 DEF finds
  <2>2. PICK sampled :
            r = [ family |-> family,
                  context |-> [ TraceID |-> content.basicCtx.TraceId, TraceIDUpper |-> 0,
                                SpanID |-> content.basicCtx.SpanId, Sampled |-> sampled ],
                  items |-> content.basicCtx.BaggageItems ]
        BY <1>1, <1>2, Zenon DEF extracted
  <2> QED
      BY <2>1, <2>2 DEF CarriesIDs, SameIDs
<1>3. CASE family # "binary"
  <2> DEFINE h == content.headers[family]
  <2>1. /\ content.kind = "text" /\ family \in DOMAIN content.headers
        /\ Required \subseteq DOMAIN h
        BY <1>1, <1>3 DEF finds
  <2>2. PICK items :
            r = [ family |-> family, context |-> textContext(family, h), items |-> items ]
        BY <1>1, <1>3 DEF extracted
  <2>3. /\ parseTraceID(family, h.traceid) = [ upper |-> 0, lower |-> o.TraceID ]
        /\ ParseUint(h.spanid) = o.SpanID
        BY <2>1 DEF CarriesIDs
  <2> HIDE DEF h
  <2>4. /\ textContext(family, h).TraceID = o.TraceID
        /\ textContext(family, h).TraceIDUpper = 0
        /\ textContext(family, h).SpanID = o.SpanID
        BY <2>3 DEF textContext
  <2> QED
      BY <2>2, <2>4 DEF SameIDs
<1> QED
    BY <1>2, <1>3

\* newSpan leaves no span without a trace, and puts one with a reference into the
\* trace, and below the span, that the reference names.
LEMMA NewSpanIDs ==
    ASSUME NEW o, NEW ref, NEW t, NEW u, t # 0
    PROVE  /\ generate(startContext(o, ref), t, u).TraceID # 0
           /\ ref # {} /\ refCtx(ref).TraceID # 0 =>
                 /\ generate(startContext(o, ref), t, u).TraceID = refCtx(ref).TraceID
                 /\ parentSpanID(o, ref) = refCtx(ref).SpanID
<1> DEFINE c == startContext(o, ref)
<1>1. /\ c = [ TraceID |-> c.TraceID, TraceIDUpper |-> c.TraceIDUpper,
               SpanID |-> c.SpanID, Sampled |-> c.Sampled ]
      /\ ref # {} => c.TraceID = refCtx(ref).TraceID
      BY DEF startContext
<1> HIDE DEF c
<1>2. /\ generate(c, t, u).TraceID # 0
      /\ c.TraceID # 0 => generate(c, t, u).TraceID = c.TraceID
      BY <1>1 DEF generate
<1>3. ref # {} => parentSpanID(o, ref) = refCtx(ref).SpanID
      BY DEF parentSpanID
<1> QED
    BY <1>1, <1>2, <1>3 DEF c

\* Another library's headers, if they are complete, carry its identifiers.
LEMMA PeerIDsCarried ==
    ASSUME NEW id \in Uint64, NEW len \in {Digits, 2 * Digits - 1, 2 * Digits},
           NEW content, content.kind = "text", DOMAIN content.headers = {"b3"},
           NEW missing, DOMAIN content.headers["b3"] = Required \ {missing},
           missing # "traceid" => content.headers["b3"].traceid
                                    = digitsOf(0, len - Digits) \o digitsOf(id, Digits),
           missing # "spanid" => content.headers["b3"].spanid = digitsOf(id, Digits),
           NEW o, o.TraceID = id, o.SpanID = id
    PROVE  CarriesIDs(content, o)
<1> SUFFICES ASSUME NEW f \in DOMAIN content.headers,
                    Required \subseteq DOMAIN content.headers[f]
             PROVE  /\ parseTraceID(f, content.headers[f].traceid)
                          = [ upper |-> 0, lower |-> id ]
                    /\ ParseUint(content.headers[f].spanid) = id
    BY DEF CarriesIDs
<1>1. f = "b3"
      OBVIOUS
<1>2. missing # "traceid" /\ missing # "spanid"
      BY <1>1 DEF Required
<1>3. b3TraceIDParser(content.headers[f].traceid) = [ upper |-> 0, lower |-> id ]
      BY <1>1, <1>2, PeerTraceID
<1>4. ParseUint(content.headers[f].spanid) = id
      BY <1>1, <1>2, Uint64Fits, ParseDigits
<1> QED
    BY <1>1, <1>3, <1>4 DEF parseTraceID

\* A new span with the identifiers of its cause keeps the invariant.
LEMMA SpanAddedIDs ==
    ASSUME IInv, SpansTraced, TraceConnected, NEW s, spans' = Append(spans, s),
           s.context.TraceID # 0,
           \A o \in s.cause : o.TraceIDUpper = 0 => /\ s.context.TraceID = o.TraceID
                                                    /\ s.ParentSpanID = o.SpanID
    PROVE  SpansTraced' /\ TraceConnected'
<1>1. IsSeq(spans)
      BY DEF IInv, Shapes
<1>2. /\ DOMAIN spans' = DOMAIN spans \cup {Len(spans) + 1}
      /\ spans'[Len(spans) + 1] = s
      /\ \A n \in DOMAIN spans : spans'[n] = spans[n]
      BY <1>1, AppendSeq
<1> QED
    BY <1>2 DEF SpansTraced, TraceConnected

\* A change of a span that leaves its identifiers and its cause alone does, too.
LEMMA SpanChangedIDs ==
    ASSUME SpansTraced, TraceConnected, NEW n \in DOMAIN spans, NEW s,
           spans' = [spans EXCEPT ![n] = s],
           s.cause = spans[n].cause, s.ParentSpanID = spans[n].ParentSpanID,
           s.context.TraceID = spans[n].context.TraceID
    PROVE  SpansTraced' /\ TraceConnected'
<1>1. /\ DOMAIN spans' = DOMAIN spans /\ spans'[n] = s
      /\ \A m \in DOMAIN spans \ {n} : spans'[m] = spans[m]
      OBVIOUS
<1> QED
    BY <1>1 DEF SpansTraced, TraceConnected

\* Every action keeps what is said of traces.
LEMMA TraceStep ==
    ASSUME IInv, TraceInv, Next
    PROVE  TraceInv'
<1>1. ASSUME NEW o \in StartSpanOptions, NEW ref \in {{}} \cup {{c} : c \in contexts},
             StartSpan(o, ref)
      PROVE  TraceInv'
  <2>1. PICK s, t, u :
            /\ spans' = Append(spans, s) /\ s.cause = {c.origin : c \in ref} /\ t # 0
            /\ s.context.TraceID = generate(startContext(o, ref), t, u).TraceID
            /\ s.ParentSpanID = parentSpanID(o, ref)
        BY <1>1, StartSpanStep
  <2>2. /\ s.context.TraceID # 0
        /\ ref # {} /\ refCtx(ref).TraceID # 0 =>
              s.context.TraceID = refCtx(ref).TraceID /\ s.ParentSpanID = refCtx(ref).SpanID
        BY <2>1, NewSpanIDs
  <2>3. ASSUME NEW h \in s.cause, h.TraceIDUpper = 0
        PROVE  s.context.TraceID = h.TraceID /\ s.ParentSpanID = h.SpanID
    <3>1. PICK c \in contexts : ref = {c} /\ h = c.origin
          BY <2>1, <2>3
    <3>2. refCtx(ref) = c.context
          BY <3>1 DEF refCtx
    <3>3. h.TraceID # 0 /\ SameIDs(c.context, h)
          BY <2>3, <3>1 DEF TraceInv, IDsCarried
    <3> QED
        BY <2>2, <3>1, <3>2, <3>3 DEF SameIDs
  <2>4. SpansTraced' /\ TraceConnected'
        BY <2>1, <2>2, <2>3, SpanAddedIDs DEF TraceInv
  <2>5. UNCHANGED << contexts, carriers >>
        BY <1>1 DEF StartSpan
  <2> QED
      BY <2>4, <2>5 DEF TraceInv, IDsCarried
<1>2. ASSUME NEW sd \in SpanDatas, ExportSpan(sd)
      PROVE  TraceInv'
  <2>1. PICK s, t, u :
            /\ spans' = Append(spans, s) /\ s.cause = {} /\ t # 0
            /\ s.context.TraceID
                 = generate(startContext(exportOptions(sd), exportRef(sd)), t, u).TraceID
        BY <1>2, ExportSpanStep
  <2>2. s.context.TraceID # 0
        BY <2>1, NewSpanIDs
  <2>3. SpansTraced' /\ TraceConnected'
        BY <2>1, <2>2, SpanAddedIDs DEF TraceInv
  <2>4. UNCHANGED << contexts, carriers >>
        BY <1>2, ExportSpanStep
  <2> QED
      BY <2>3, <2>4 DEF TraceInv, IDsCarried
<1>3. ASSUME NEW n \in DOMAIN spans, NEW k, NEW v, SetBaggageItem(n, k, v)
      PROVE  TraceInv'
  <2>1. PICK s : /\ spans' = [spans EXCEPT ![n] = s]
                 /\ s.cause = spans[n].cause /\ s.ParentSpanID = spans[n].ParentSpanID
                 /\ s.context.TraceID = spans[n].context.TraceID
        BY <1>3, SetBaggageItemStep
  <2>2. UNCHANGED << contexts, carriers >>
        BY <1>3, SetBaggageItemStep
  <2> QED
      BY <2>1, <2>2, SpanChangedIDs DEF TraceInv, IDsCarried
<1>4. ASSUME NEW n \in DOMAIN spans, Context(n)
      PROVE  TraceInv'
  <2> DEFINE sc == spans[n].context
  <2>1. PICK c : c = [ context |-> sc, seen |-> Items(sc.Baggage),
                       origin |-> [ TraceID |-> sc.TraceID, TraceIDUpper |-> sc.TraceIDUpper,
                                    SpanID |-> sc.SpanID, Sampled |-> sc.Sampled,
                                    items |-> Items(sc.Baggage), b3 |-> FALSE ] ]
        OBVIOUS
  <2>2. contexts' = contexts \cup {c} /\ UNCHANGED << spans, carriers >>
        BY <1>4, <2>1 DEF Context
  <2>3. c.origin.TraceID # 0 /\ (c.origin.TraceIDUpper = 0 => SameIDs(c.context, c.origin))
        BY <2>1 DEF TraceInv, SpansTraced, SameIDs
  <2> QED
      BY <2>2, <2>3 DEF TraceInv, IDsCarried, SpansTraced, TraceConnected
<1>5. ASSUME NEW n \in DOMAIN spans, Finish(n)
      PROVE  TraceInv'
  <2>1. PICK s : s = [spans[n] EXCEPT !.finished = TRUE]
        OBVIOUS
  <2>2. spans' = [spans EXCEPT ![n] = s] /\ UNCHANGED << contexts, carriers >>
        BY <1>5, <2>1 DEF Finish
  <2>3. IsSpan(spans[n])
        BY DEF IInv, Shapes
  <2>4. /\ s.context = spans[n].context /\ s.cause = spans[n].cause
        /\ s.ParentSpanID = spans[n].ParentSpanID
        BY <2>1, <2>3 DEF IsSpan
  <2> QED
      BY <2>2, <2>4, SpanChangedIDs DEF TraceInv, IDsCarried
<1>6. ASSUME NEW c \in contexts, NEW stack, TracerInject(c, stack)
      PROVE  TraceInv'
  <2>1. PICK carrier :
            carrier = [ content |-> Inject(stack, c.context, Items(c.context.Baggage)),
                        origin |-> c.origin ]
        OBVIOUS
  <2>2. carriers' = carriers \cup {carrier} /\ UNCHANGED << spans, contexts >>
        BY <1>6, <2>1 DEF TracerInject
  <2>3. c.context.TraceID \in Uint64 /\ c.context.SpanID \in Uint64
        BY DEF IInv, TypeOK, IsSpanContext
  <2>4. c.origin.TraceID # 0 /\ (c.origin.TraceIDUpper = 0 => SameIDs(c.context, c.origin))
        BY DEF TraceInv, IDsCarried
  <2>5. carrier.origin.TraceIDUpper = 0 => CarriesIDs(carrier.content, carrier.origin)
        BY <2>1, <2>3, <2>4, InjectedIDs
  <2>6. carrier.origin.TraceID # 0
        BY <2>1, <2>4
  <2> QED
      BY <2>2, <2>5, <2>6 DEF TraceInv, IDsCarried, SpansTraced, TraceConnected
<1>7. ASSUME NEW carrier \in carriers, NEW stack, TracerExtract(carrier, stack)
      PROVE  TraceInv'
  <2>1. PICK c :
            /\ contexts' = contexts \cup {c}
            /\ c.origin.TraceID = carrier.origin.TraceID
            /\ c.origin.TraceIDUpper = carrier.origin.TraceIDUpper
            /\ c.origin.SpanID = carrier.origin.SpanID
            /\ \E r \in Extract(stack, carrier.content) :
                  /\ c.context.TraceID = r.context.TraceID
                  /\ c.context.TraceIDUpper = r.context.TraceIDUpper
                  /\ c.context.SpanID = r.context.SpanID
        BY <1>7, TracerExtractStep
  <2>2. UNCHANGED << spans, carriers >>
        BY <1>7, TracerExtractStep
  <2>3. PICK r \in Extract(stack, carrier.content) :
            /\ c.context.TraceID = r.context.TraceID
            /\ c.context.TraceIDUpper = r.context.TraceIDUpper
            /\ c.context.SpanID = r.context.SpanID
        BY <2>1
  <2>4. /\ carrier.origin.TraceID # 0
        /\ carrier.origin.TraceIDUpper = 0 => CarriesIDs(carrier.content, carrier.origin)
        BY DEF TraceInv, IDsCarried
  <2>5. carrier.origin.TraceIDUpper = 0 => SameIDs(r.context, carrier.origin)
        BY <2>4, ExtractedIDs
  <2>6. c.origin.TraceID # 0 /\ (c.origin.TraceIDUpper = 0 => SameIDs(c.context, c.origin))
        BY <2>1, <2>3, <2>4, <2>5 DEF SameIDs
  <2> QED
      BY <2>1, <2>2, <2>6 DEF TraceInv, IDsCarried, SpansTraced, TraceConnected
<1>8. ASSUME NEW id \in PeerIDs, NEW upper \in PeerUppers,
             NEW len \in {Digits, 2 * Digits - 1, 2 * Digits}, NEW missing,
             PeerInject(id, upper, len, missing)
      PROVE  TraceInv'
  <2>1. PICK h : h = [ traceid |-> digitsOf(upper, len - Digits) \o digitsOf(id, Digits),
                       spanid |-> digitsOf(id, Digits),
                       sampled |-> "0" ]
        OBVIOUS
  <2>2. PICK written : written = [f \in {"b3"} |-> [x \in Required \ {missing} |-> h[x]]]
        OBVIOUS
  <2>3. PICK carrier :
            carrier = [ content |-> [ kind |-> "text", headers |-> written, items |-> << >> ],
                        origin |-> [ TraceID |-> id, TraceIDUpper |-> upper, SpanID |-> id,
                                     Sampled |-> "0", items |-> << >>, b3 |-> FALSE ] ]
        OBVIOUS
  <2>4. carriers' = carriers \cup {carrier} /\ UNCHANGED << spans, contexts >>
        BY <1>8, <2>1, <2>2, <2>3, Zenon DEF PeerInject
  <2>5. id \in Uint64 /\ id # 0
        BY TraceContextAssumption
  <2>6. /\ carrier.content.kind = "text" /\ carrier.content.headers = written
        /\ carrier.origin.TraceID = id /\ carrier.origin.SpanID = id
        /\ carrier.origin.TraceIDUpper = upper
        BY <2>3
  <2>7. ASSUME upper = 0
        PROVE  CarriesIDs(carrier.content, carrier.origin)
    <3>1. h.traceid = digitsOf(0, len - Digits) \o digitsOf(id, Digits)
          BY <2>1, <2>7
    <3>2. h.spanid = digitsOf(id, Digits)
          BY <2>1
    <3>3. /\ DOMAIN written = {"b3"}
          /\ written["b3"] = [x \in Required \ {missing} |-> h[x]]
          BY <2>2
    <3>4. /\ DOMAIN written["b3"] = Required \ {missing}
          /\ missing # "traceid" => written["b3"].traceid = h.traceid
          /\ missing # "spanid" => written["b3"].spanid = h.spanid
          BY <3>3 DEF Required
    <3> QED
        BY <2>5, <2>6, <3>1, <3>2, <3>3, <3>4, PeerIDsCarried
  <2> QED
      BY <2>4, <2>5, <2>6, <2>7 DEF TraceInv, IDsCarried, SpansTraced, TraceConnected
<1> QED
    BY <1>1, <1>2, <1>3, <1>4, <1>5, <1>6, <1>7, <1>8 DEF Next

\* What is said of traces always holds.
THEOREM TraceInvariance == Spec => []TraceInv
<1>1. Init => TraceInv
      BY DEF Init, TraceInv, IDsCarried, SpansTraced, TraceConnected
<1>2. IInv /\ TraceInv /\ [Next]_vars => TraceInv'
  <2>1. ASSUME TraceInv, UNCHANGED vars
        PROVE  TraceInv'
        BY <2>1 DEF vars, TraceInv, IDsCarried, SpansTraced, TraceConnected
  <2> QED
      BY <2>1, TraceStep
<1> QED
    BY <1>1, <1>2, ContextInvariance, PTL DEF Spec

\* A span started with a reference is in the trace, and a child, of the span that
\* first handed the context out, whatever processes, propagators, stacks and
\* other libraries' headers the context went through, for every width of the
\* identifiers (newSpan, Inject, Extract, formatTraceID, b3TraceIDParser).
THEOREM TraceStaysConnected == Spec => []TraceConnected
BY TraceInvariance, PTL DEF TraceInv
=============================================================================
