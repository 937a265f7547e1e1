---------------------------- MODULE Propagation -----------------------------
(***************************************************************************)
(* propagation_*.go: how a span context becomes headers or bytes and is    *)
(* read from them again.                                                   *)
(*                                                                         *)
(* A number is formatted as a sequence of digits.  The code has 16 digits  *)
(* to the base 16 in 64 bits; here both are parameters.  The headers of a  *)
(* family ("lightstep" or "b3") are a function of three fields.  A text    *)
(* carrier has the families written into it and the baggage headers; a     *)
(* binary carrier has the protobuf message.  Key matching by lower case is *)
(* kept for baggage, whose keys it changes.                                *)
(* Operators named Mut... are plausible bugs, used only for mutation       *)
(* testing of the properties.                                              *)
(***************************************************************************)
EXTENDS Integers, Sequences

CONSTANTS
    Base,
    Digits,             \* digits of a 64-bit number
    ToLower(_),         \* strings.ToLower on baggage keys
    b3FieldNameSampled  \* "x-b3-sampled" as a baggage key

ASSUME PropagationAssumption ==
    /\ Base \in Nat \ {0, 1}
    /\ Digits \in Nat \ {0, 1}
    \* what a power is, for provers that do not know it
    /\ Base ^ 0 = 1
    /\ \A k \in 0 .. Digits - 1 : Base ^ (k + 1) = Base * Base ^ k

Uint64 == 0 .. Base ^ Digits - 1

\* A parse error.
Bad == -1

\* The k lowest digits of n.
digitsOf(n, k) == [i \in 1 .. k |-> (n \div Base ^ (k - i)) % Base]

\* strconv.FormatUint: no leading zeros.
FormatUint(n) ==
    digitsOf(n, CHOOSE k \in 1 .. Digits : n < Base ^ k /\ (k > 1 => n >= Base ^ (k - 1)))

\* strconv.ParseUint: leading zeros are fine, nothing and too much are not.
ParseUint(v) ==
    LET value[i \in 0 .. Len(v)] == IF i = 0 THEN 0 ELSE value[i - 1] * Base + v[i]
    IN  IF v # << >> /\ value[Len(v)] \in Uint64 THEN value[Len(v)] ELSE Bad

formatTraceID(lower, upper) ==
    IF upper = 0 THEN FormatUint(lower) ELSE FormatUint(upper) \o FormatUint(lower)

MutB3TraceIDParser(v) ==
    IF Len(v) = 2 * Digits
    THEN [ upper |-> ParseUint(SubSeq(v, 1, Digits - 1)),
           lower |-> ParseUint(SubSeq(v, Digits, 2 * Digits - 1)) ]
    ELSE [ upper |-> 0, lower |-> ParseUint(v) ]

\* The upper half is read without its last digit (v[:15]).
b3TraceIDParser(v) ==
    IF Len(v) = 2 * Digits
    THEN [ upper |-> ParseUint(SubSeq(v, 1, Digits - 1)),
           lower |-> ParseUint(SubSeq(v, Digits + 1, 2 * Digits)) ]
    ELSE [ upper |-> 0, lower |-> ParseUint(v) ]

lightstepTraceIDParser(v) == [ upper |-> 0, lower |-> ParseUint(v) ]

-----------------------------------------------------------------------------
(***************************************************************************)
(* Inject: sc is a SpanContext, items its baggage.                         *)
(***************************************************************************)

textHeaders(traceID, spanID, sampled) ==
    [ traceid |-> traceID, spanid |-> spanID,
      sampled |-> IF sampled = "" THEN "true" ELSE sampled ]

\* The B3 propagator looks for the decision in the baggage, not in Sampled.
b3Sample(items) ==
    IF b3FieldNameSampled \in DOMAIN items /\ items[b3FieldNameSampled] # ""
    THEN items[b3FieldNameSampled] ELSE "1"

headersOf(family, sc, items) ==
    IF family = "b3"
    THEN textHeaders(formatTraceID(sc.TraceID, sc.TraceIDUpper),
                     FormatUint(sc.SpanID), b3Sample(items))
    ELSE textHeaders(FormatUint(sc.TraceID), FormatUint(sc.SpanID), sc.Sampled)

MutBinarySampled(sampled) == TRUE

binarySampled(sampled) == sampled \in {"", "true", "1"}

\* A propagator is the sequence of those in its stack.  A stack lets each of
\* them write and ignores the errors of those that cannot use a text carrier.
stackFamilies(stack) == {stack[i] : i \in DOMAIN stack} \ {"binary"}

Inject(stack, sc, items) ==
    IF stack = << "binary" >>
    THEN [ kind |-> "binary",
           basicCtx |-> [ TraceId |-> sc.TraceID, SpanId |-> sc.SpanID,
                          Sampled |-> binarySampled(sc.Sampled), BaggageItems |-> items ] ]
    ELSE [ kind |-> "text",
           headers |-> [f \in stackFamilies(stack) |-> headersOf(f, sc, items)],
           items |-> items ]

-----------------------------------------------------------------------------
(***************************************************************************)
(* Extract: the possible results, since a map is iterated in any order.    *)
(***************************************************************************)

Required == {"traceid", "spanid", "sampled"}

parseTraceID(family, v) ==
    IF family = "b3" THEN b3TraceIDParser(v) ELSE lightstepTraceIDParser(v)

\* Every number of the headers h could be parsed.
MutParsed(family, h) == TRUE

parsed(family, h) ==
    LET id == parseTraceID(family, h.traceid)
    IN  Bad \notin {id.upper, id.lower, ParseUint(h.spanid)}

\* Whether the member of a stack finds a context in the carrier.  The code counts
\* the headers it knows; the carriers here have each of them at most once.
finds(family, carrier) ==
    IF family = "binary"
    THEN carrier.kind = "binary"
    ELSE /\ carrier.kind = "text"
         /\ family \in DOMAIN carrier.headers
         /\ Required \subseteq DOMAIN carrier.headers[family]
         /\ parsed(family, carrier.headers[family])

textContext(family, h) ==
    LET id == parseTraceID(family, h.traceid)
    IN  [ TraceID |-> id.lower, TraceIDUpper |-> id.upper,
          SpanID |-> ParseUint(h.spanid), Sampled |-> h.sampled ]

\* Keys come out in lower case; of two that differ only in case, either wins.
loweredItems(items) ==
    LET keys == {ToLower(k) : k \in DOMAIN items}
        values(k) == {items[j] : j \in {i \in DOMAIN items : ToLower(i) = k}}
    IN  {f \in [keys -> {items[k] : k \in DOMAIN items}] :
            \A k \in keys : f[k] \in values(k)}

\* What one member makes of a carrier in which it finds a context.
extracted(family, carrier) ==
    IF family = "binary"
    THEN LET b == carrier.basicCtx
         IN  {[ family |-> family,
                context |-> [ TraceID |-> b.TraceId, TraceIDUpper |-> 0,
                              SpanID |-> b.SpanId,
                              Sampled |-> IF b.Sampled THEN "" ELSE "false" ],
                items |-> b.BaggageItems ]}
    ELSE {[ family |-> family,
            context |-> textContext(family, carrier.headers[family]),
            items |-> items ] : items \in loweredItems(carrier.items)}

\* The first member that finds a context; no result is an error.
Extract(stack, carrier) ==
    LET able == {i \in DOMAIN stack : finds(stack[i], carrier)}
    IN  UNION {extracted(stack[i], carrier) :
                  i \in {j \in able : \A k \in able : j <= k}}
=============================================================================
