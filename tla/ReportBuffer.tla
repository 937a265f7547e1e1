---------------------------- MODULE ReportBuffer ----------------------------
(***************************************************************************)
(* report_buffer.go: the buffer of finished spans together with the drop   *)
(* and encoder-error accounting that a report carries.  A buffer is a      *)
(* record; each method of *reportBuffer is an operator from the buffer     *)
(* before the call to the buffer after it.  The capacity of the slice is   *)
(* the same for every buffer of a tracer (opts.MaxBufferedSpans).          *)
(*                                                                         *)
(* Times are natural numbers; 0 is Go's zero time.Time{}, which is before  *)
(* every time the clock shows.                                             *)
(*                                                                         *)
(* Operators named Mut... are plausible bugs, used only for mutation       *)
(* testing of the properties.                                              *)
(***************************************************************************)
EXTENDS Integers, Sequences

CONSTANTS MaxBufferedSpans, Spans

\* Options.Initialize replaces 0 by the default, and make([]RawSpan, 0, size)
\* panics on a negative size.
ASSUME BufferAssumption == MaxBufferedSpans \in Nat \ {0}

ZeroTime == 0

Buffers ==
    [ rawSpans                     : Seq(Spans),
      droppedSpanCount             : Nat,
      reportedDroppedSpanCount     : Nat,
      logEncoderErrorCount         : Nat,
      reportedLogEncoderErrorCount : Nat,
      reportStart                  : Nat,
      reportEnd                    : Nat ]

newSpansBuffer ==
    [ rawSpans                     |-> << >>,
      droppedSpanCount             |-> 0,
      reportedDroppedSpanCount     |-> 0,
      logEncoderErrorCount         |-> 0,
      reportedLogEncoderErrorCount |-> 0,
      reportStart                  |-> ZeroTime,
      reportEnd                    |-> ZeroTime ]

isFull(b) == Len(b.rawSpans) = MaxBufferedSpans

isHalfFull(b) == Len(b.rawSpans) > MaxBufferedSpans \div 2

setCurrent(b, now) == [b EXCEPT !.reportStart = now, !.reportEnd = now]

setFlushing(b, now) == [b EXCEPT !.reportEnd = now]

MutClearSpansOnly(b) ==
    [b EXCEPT !.rawSpans = << >>, !.reportStart = ZeroTime, !.reportEnd = ZeroTime]

\* Every field is reset; the slice keeps its capacity.
clear(b) == newSpansBuffer

MutAddSpanSilently(b, span) ==
    IF isFull(b) THEN b ELSE [b EXCEPT !.rawSpans = Append(@, span)]

addSpan(b, span) ==
    IF isFull(b)
    THEN [b EXCEPT !.droppedSpanCount = @ + 1]
    ELSE [b EXCEPT !.rawSpans = Append(@, span)]

MutMergeSpaceUnlimited(b, from) == Len(from.rawSpans)

MutMergeSpaceNone(b, from) == 0

\* How many spans of `from` still fit into b: mergeFrom moves these and drops
\* the others.
mergeSpace(b, from) ==
    LET space == MaxBufferedSpans - Len(b.rawSpans)
        unreported == Len(from.rawSpans)
    IN  IF space > unreported THEN unreported ELSE space

mergeDropped(b, from) == Len(from.rawSpans) - mergeSpace(b, from)

\* The report window of the merged buffer starts with the earlier window.
MutMergeStartLater(b, from) == b.reportStart

mergeStart(b, from) ==
    IF from.reportStart < b.reportStart THEN from.reportStart ELSE b.reportStart

mergeEnd(b, from) ==
    IF from.reportEnd > b.reportEnd THEN from.reportEnd ELSE b.reportEnd

MutMergeForgetReported(b, from) == b.reportedDroppedSpanCount

mergeReported(b, from) ==
    b.reportedDroppedSpanCount + from.reportedDroppedSpanCount

\* The buffer b after b.mergeFrom(&from); the call also clears from.
mergeFrom(b, from) ==
    [ rawSpans |-> b.rawSpans \o SubSeq(from.rawSpans, 1, mergeSpace(b, from)),
      droppedSpanCount |->
          b.droppedSpanCount + from.droppedSpanCount + mergeDropped(b, from),
      reportedDroppedSpanCount |-> mergeReported(b, from),
      logEncoderErrorCount |-> b.logEncoderErrorCount + from.logEncoderErrorCount,
      reportedLogEncoderErrorCount |->
          b.reportedLogEncoderErrorCount + from.reportedLogEncoderErrorCount,
      reportStart |-> mergeStart(b, from),
      reportEnd |-> mergeEnd(b, from) ]

\* What reportDroppedSpanCount and reportLogEncoderErrorCount return ...
unreportedDropped(b) == b.droppedSpanCount - b.reportedDroppedSpanCount

unreportedEncoderErrors(b) ==
    b.logEncoderErrorCount - b.reportedLogEncoderErrorCount

\* ... and the buffer after both calls.
markReported(b) ==
    [b EXCEPT !.reportedDroppedSpanCount = b.droppedSpanCount,
              !.reportedLogEncoderErrorCount = b.logEncoderErrorCount]
=============================================================================
