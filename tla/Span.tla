-------------------------------- MODULE Span --------------------------------
(***************************************************************************)
(* spanImpl (span.go): one span, its setters, its log buffer and Finish,   *)
(* called by any number of goroutines.  Every method runs under the span's *)
(* own mutex, so each is one action.                                       *)
(*                                                                         *)
(* A log record is its place in the order in which records were given to   *)
(* the span, which is also its timestamp; `dropped` is 0 except in the     *)
(* record by which Finish replaces the records it lost.  Operation name,   *)
(* tags and baggage are the fields of an abstract function.                *)
(* Operators named Mut... are plausible bugs, used only for mutation       *)
(* testing of the properties.                                              *)
(***************************************************************************)
EXTENDS Integers, Sequences

CONSTANTS
    LogLimits,     \* the values of Options.MaxLogsPerSpan to consider
    DropModes,     \* the values of Options.DropSpanLogs to consider
    Fields,        \* operation name, tag keys and baggage keys
    Values,
    NoValue,
    MaxLogs        \* bound: records given to the span

\* Options.Initialize replaces 0 by the default.
ASSUME SpanAssumption ==
    /\ LogLimits \subseteq Nat \ {0}
    /\ DropModes \subseteq BOOLEAN
    /\ NoValue \notin Values
    /\ MaxLogs \in Nat

VARIABLES
    maxLogsPerSpan,   \* tracer.opts.MaxLogsPerSpan
    dropSpanLogs,     \* tracer.opts.DropSpanLogs
    finished,
    attributes,       \* raw.Operation, raw.Tags, raw.Context.Baggage
    logs,             \* raw.Logs
    numDroppedLogs,
    recorded,         \* what RecordSpan was given, in order
    logged            \* history: number of records given to appendLog

options == << maxLogsPerSpan, dropSpanLogs >>
vars == << options, finished, attributes, logs, numDroppedLogs, recorded, logged >>

LogRecord == [ time : Nat, dropped : Nat ]

record(t) == [ time |-> t, dropped |-> 0 ]

Init ==
    /\ maxLogsPerSpan \in LogLimits /\ dropSpanLogs \in DropModes
    /\ finished = FALSE
    /\ attributes = [f \in Fields |-> NoValue]
    /\ logs = << >>
    /\ numDroppedLogs = 0
    /\ recorded = << >>
    /\ logged = 0

-----------------------------------------------------------------------------
numOld(n) == (n - 1) \div 2

\* Where appendLog overwrites a full buffer (an index from 0).
MutOverwriteAll(dropped) == dropped % maxLogsPerSpan

overwritten(dropped) ==
    LET numNew == maxLogsPerSpan - numOld(maxLogsPerSpan)
    IN  numOld(maxLogsPerSpan) + (dropped % numNew)

MutAppendLog(b, lr) ==
    IF Len(b.logs) <= maxLogsPerSpan
    THEN [b EXCEPT !.logs = Append(@, lr)]
    ELSE [ logs |-> [b.logs EXCEPT ![overwritten(b.numDroppedLogs) + 1] = lr],
           numDroppedLogs |-> b.numDroppedLogs + 1 ]

appendLog(b, lr) ==
    IF Len(b.logs) < maxLogsPerSpan
    THEN [b EXCEPT !.logs = Append(@, lr)]
    ELSE [ logs |-> [b.logs EXCEPT ![overwritten(b.numDroppedLogs) + 1] = lr],
           numDroppedLogs |-> b.numDroppedLogs + 1 ]

buffered == [ logs |-> logs, numDroppedLogs |-> numDroppedLogs ]

\* appendLog of n records, the ones FinishOptions carry.
appendLogs(n) ==
    LET after[k \in 0 .. n] ==
            IF k = 0 THEN buffered ELSE appendLog(after[k - 1], record(logged + k))
    IN  after[n]

\* A round of the loop of the rotate algorithm, whose indices are from 0; it ends
\* when first meets middle.
rotateRound(r) ==
    LET first == r.first + 1
        next == r.next + 1
        atEnd == next = Len(r.buf)
    IN  IF r.first = r.middle THEN r
        ELSE [ buf |-> [r.buf EXCEPT ![first] = r.buf[next], ![next] = r.buf[first]],
               first |-> first,
               middle |-> IF ~atEnd /\ first = r.middle THEN next ELSE r.middle,
               next |-> IF atEnd THEN r.middle ELSE next ]

\* pos circular left shifts.  Every round moves first, so that there are no more
\* rounds than records.
rotateLogBuffer(buf, pos) ==
    LET after[k \in 0 .. Len(buf)] ==
            IF k = 0 THEN [ buf |-> buf, first |-> 0, middle |-> pos, next |-> pos ]
            ELSE rotateRound(after[k - 1])
    IN  after[Len(buf)].buf

\* De-circularises a buffer that dropped records, and says how many.
MutNoRotation(b) ==
    LET old == numOld(Len(b.logs))
    IN  IF b.numDroppedLogs = 0 THEN b.logs
        ELSE [b.logs EXCEPT ![old + 1] =
                 [ time |-> b.logs[old + 1].time, dropped |-> b.numDroppedLogs + 1 ]]

summarised(b) ==
    LET old == numOld(Len(b.logs))
        numNew == Len(b.logs) - old
        rotated == SubSeq(b.logs, 1, old)
                     \o rotateLogBuffer(SubSeq(b.logs, old + 1, Len(b.logs)),
                                        b.numDroppedLogs % numNew)
    IN  IF b.numDroppedLogs = 0 THEN b.logs
        ELSE [rotated EXCEPT ![old + 1] =
                 [ time |-> rotated[old + 1].time, dropped |-> b.numDroppedLogs + 1 ]]

-----------------------------------------------------------------------------
\* What every setter asks under the lock.
MutMutable == TRUE

mutable == ~finished

\* SetOperationName, SetTag and SetBaggageItem.
Set(f, v) ==
    /\ mutable
    /\ attributes' = [attributes EXCEPT ![f] = v]
    /\ UNCHANGED << options, finished, logs, numDroppedLogs, recorded, logged >>

\* LogFields, LogKV and Log.
LogFields ==
    /\ mutable
    /\ ~dropSpanLogs
    /\ logged < MaxLogs
    /\ logged' = logged + 1
    /\ LET b == appendLog(buffered, record(logged'))
       IN  logs' = b.logs /\ numDroppedLogs' = b.numDroppedLogs
    /\ UNCHANGED << options, finished, attributes, recorded >>

\* FinishWithOptions with n records in LogRecords and BulkLogData, which are
\* appended whatever DropSpanLogs says.
FinishWithOptions(n) ==
    /\ mutable
    /\ logged + n <= MaxLogs
    /\ finished' = TRUE
    /\ logged' = logged + n
    /\ LET b == appendLogs(n)
       IN  /\ numDroppedLogs' = b.numDroppedLogs
           /\ logs' = summarised(b)
    /\ recorded' = Append(recorded, [ attributes |-> attributes, logs |-> logs' ])
    /\ UNCHANGED << options, attributes >>

Next ==
    \/ \E f \in Fields, v \in Values : Set(f, v)
    \/ LogFields
    \/ \E n \in 0 .. MaxLogs : FinishWithOptions(n)

Spec == Init /\ [][Next]_vars

-----------------------------------------------------------------------------
\* Types, and no more records than MaxLogsPerSpan allows.
TypeOK ==
    /\ maxLogsPerSpan \in LogLimits /\ dropSpanLogs \in DropModes
    /\ finished \in BOOLEAN
    /\ attributes \in [Fields -> Values \cup {NoValue}]
    /\ logs \in Seq(LogRecord) /\ Len(logs) <= maxLogsPerSpan
    /\ numDroppedLogs \in Nat
    /\ logged \in 0 .. MaxLogs

\* The recorded logs, whatever the calls that led there and however often the
\* circular part of the buffer wrapped: all of them in order if they fit;
\* otherwise the oldest, then one record that counts exactly the missing ones
\* and has the time of the last of them, then the newest, in order.
LogsSummarised ==
    finished =>
        LET old == numOld(maxLogsPerSpan)
            missing == logged - (maxLogsPerSpan - 1)
        IN  logs = IF logged <= maxLogsPerSpan
                   THEN [i \in 1 .. logged |-> record(i)]
                   ELSE [i \in 1 .. maxLogsPerSpan |->
                           CASE i <= old -> record(i)
                             [] i = old + 1 -> [ time |-> old + missing, dropped |-> missing ]
                             [] OTHER -> record(logged - maxLogsPerSpan + i)]

\* RecordSpan gets the span once, and what it got stays as it was: the tracer
\* holds the same tags, baggage and logs that the span's methods would change.
RecordedForGood ==
    \A i \in DOMAIN recorded :
        i = 1 /\ recorded[i] = [ attributes |-> attributes, logs |-> logs ]
=============================================================================
