---------------------------- MODULE TracerProofs ----------------------------
(***************************************************************************)
(* Safety of the tracer for every number of goroutines, spans, connections *)
(* and failures, every buffer capacity and every transport.                *)
(***************************************************************************)
EXTENDS Tracer, SequenceTheorems, FiniteSetTheorems, TLAPS

-----------------------------------------------------------------------------
(***************************************************************************)
(* What each method of reportBuffer does to a well-formed buffer           *)
(***************************************************************************)

\* A buffer within its capacity that has told no more drops and encoder errors
\* than it counted: what the comments on reportBuffer's fields promise.
WellFormed(b) ==
    /\ b \in Buffers
    /\ Len(b.rawSpans) <= MaxBufferedSpans
    /\ unreportedDropped(b) >= 0
    /\ unreportedEncoderErrors(b) >= 0

\* A new buffer is well formed.
LEMMA NewBufferWellFormed == WellFormed(newSpansBuffer)
BY BufferAssumption
   DEF WellFormed, newSpansBuffer, Buffers, unreportedDropped,
       unreportedEncoderErrors, ZeroTime

\* setCurrent and setFlushing change the window only.
LEMMA WindowOnly ==
    ASSUME NEW b, WellFormed(b), NEW t \in Nat
    PROVE  /\ WellFormed(setCurrent(b, t))
           /\ WellFormed(setFlushing(b, t))
           /\ unreportedDropped(setCurrent(b, t)) = unreportedDropped(b)
           /\ unreportedDropped(setFlushing(b, t)) = unreportedDropped(b)
           /\ unreportedEncoderErrors(setCurrent(b, t)) = unreportedEncoderErrors(b)
           /\ unreportedEncoderErrors(setFlushing(b, t)) = unreportedEncoderErrors(b)
           /\ setCurrent(b, t).reportStart = t
           /\ setFlushing(b, t).reportStart = b.reportStart
           /\ setFlushing(b, t).reportEnd = t
BY DEF WellFormed, setCurrent, setFlushing, Buffers, unreportedDropped,
       unreportedEncoderErrors

\* The types of a buffer's fields.
LEMMA FieldTypes ==
    ASSUME NEW b \in Buffers
    PROVE  /\ b.rawSpans \in Seq(Spans)
           /\ Len(b.rawSpans) \in Nat
           /\ b.droppedSpanCount \in Nat
           /\ b.reportedDroppedSpanCount \in Nat
           /\ b.logEncoderErrorCount \in Nat
           /\ b.reportedLogEncoderErrorCount \in Nat
           /\ b.reportStart \in Nat
           /\ b.reportEnd \in Nat
BY DEF Buffers

\* addSpan keeps the span or counts it.
LEMMA AddSpanCounts ==
    ASSUME NEW b, WellFormed(b), NEW s \in Spans,
           NEW b2, b2 = addSpan(b, s)
    PROVE  /\ WellFormed(b2)
           /\ Len(b2.rawSpans) - Len(b.rawSpans) \in {0, 1}
           /\ unreportedDropped(b2) = unreportedDropped(b)
                + (1 - (Len(b2.rawSpans) - Len(b.rawSpans)))
           /\ unreportedEncoderErrors(b2) = unreportedEncoderErrors(b)
           /\ b2.reportStart = b.reportStart
<1>0. /\ b \in Buffers
      /\ b.rawSpans \in Seq(Spans) /\ Len(b.rawSpans) \in Nat
      /\ b.droppedSpanCount \in Nat /\ b.reportedDroppedSpanCount \in Nat
      /\ b.logEncoderErrorCount \in Nat /\ b.reportedLogEncoderErrorCount \in Nat
      /\ b.reportStart \in Nat /\ b.reportEnd \in Nat
      BY FieldTypes DEF WellFormed
<1>1. CASE isFull(b)
  <2>1. b2 = [b EXCEPT !.droppedSpanCount = b.droppedSpanCount + 1]
        BY <1>1 DEF addSpan
  <2>2. b2 \in Buffers
        BY <1>0, <2>1 DEF Buffers
  <2>3. /\ b2.rawSpans = b.rawSpans
        /\ b2.droppedSpanCount = b.droppedSpanCount + 1
        /\ b2.reportedDroppedSpanCount = b.reportedDroppedSpanCount
        /\ b2.logEncoderErrorCount = b.logEncoderErrorCount
        /\ b2.reportedLogEncoderErrorCount = b.reportedLogEncoderErrorCount
        /\ b2.reportStart = b.reportStart
        BY <1>0, <2>1 DEF Buffers
  <2> QED
      BY <1>0, <2>2, <2>3
      DEF WellFormed, unreportedDropped, unreportedEncoderErrors
<1>2. CASE ~isFull(b)
  <2>1. b2 = [b EXCEPT !.rawSpans = Append(b.rawSpans, s)]
        BY <1>2 DEF addSpan
  <2>2. /\ Append(b.rawSpans, s) \in Seq(Spans)
        /\ Len(Append(b.rawSpans, s)) = Len(b.rawSpans) + 1
        BY <1>0
  <2>3. b2 \in Buffers
        BY <1>0, <2>1, <2>2 DEF Buffers
  <2>4. Len(b.rawSpans) + 1 <= MaxBufferedSpans
        BY <1>0, <1>2, BufferAssumption DEF WellFormed, isFull
  <2>5. /\ Len(b2.rawSpans) = Len(b.rawSpans) + 1
        /\ b2.droppedSpanCount = b.droppedSpanCount
        /\ b2.reportedDroppedSpanCount = b.reportedDroppedSpanCount
        /\ b2.logEncoderErrorCount = b.logEncoderErrorCount
        /\ b2.reportedLogEncoderErrorCount = b.reportedLogEncoderErrorCount
        /\ b2.reportStart = b.reportStart
        BY <1>0, <2>1, <2>2 DEF Buffers
  <2> QED
      BY <1>0, <2>3, <2>4, <2>5
      DEF WellFormed, unreportedDropped, unreportedEncoderErrors
<1> QED  BY <1>1, <1>2

\* mergeFrom keeps or counts every span of the failed report, adds up both
\* buffers' counters, and starts the window with the earlier one.
LEMMA MergeFromCounts ==
    ASSUME NEW b, WellFormed(b), NEW from, WellFormed(from),
           NEW b2, b2 = mergeFrom(b, from)
    PROVE  /\ WellFormed(b2)
           /\ Len(b2.rawSpans) - Len(b.rawSpans) \in 0 .. Len(from.rawSpans)
           /\ unreportedDropped(b2) =
                unreportedDropped(b) + unreportedDropped(from)
                + (Len(from.rawSpans) - (Len(b2.rawSpans) - Len(b.rawSpans)))
           /\ unreportedEncoderErrors(b2) =
                unreportedEncoderErrors(b) + unreportedEncoderErrors(from)
           /\ b2.reportStart = mergeStart(b, from)
<1> DEFINE k == mergeSpace(b, from)
<1>0. b \in Buffers /\ from \in Buffers
      BY DEF WellFormed
<1>1. /\ b.rawSpans \in Seq(Spans) /\ Len(b.rawSpans) \in Nat
      /\ from.rawSpans \in Seq(Spans) /\ Len(from.rawSpans) \in Nat
      BY <1>0, FieldTypes
<1>2. /\ b.droppedSpanCount \in Nat /\ b.reportedDroppedSpanCount \in Nat
      /\ from.droppedSpanCount \in Nat /\ from.reportedDroppedSpanCount \in Nat
      BY <1>0, FieldTypes
<1>3. /\ b.logEncoderErrorCount \in Nat /\ b.reportedLogEncoderErrorCount \in Nat
      /\ from.logEncoderErrorCount \in Nat /\ from.reportedLogEncoderErrorCount \in Nat
      BY <1>0, FieldTypes
<1>4. k \in Nat /\ k <= Len(from.rawSpans) /\ Len(b.rawSpans) + k <= MaxBufferedSpans
  <2>1. \A n, m, c \in Nat :
           n <= c => /\ (IF c - n > m THEN m ELSE c - n) \in Nat
                     /\ (IF c - n > m THEN m ELSE c - n) <= m
                     /\ n + (IF c - n > m THEN m ELSE c - n) <= c
        OBVIOUS
  <2>2. MaxBufferedSpans \in Nat /\ Len(b.rawSpans) <= MaxBufferedSpans
        BY BufferAssumption DEF WellFormed
  <2> QED
      BY <1>1, <2>1, <2>2 DEF mergeSpace
<1> HIDE DEF k
<1>5. /\ SubSeq(from.rawSpans, 1, k) \in Seq(Spans)
      /\ Len(SubSeq(from.rawSpans, 1, k)) = k
  <2>1. \A i \in 1 .. k : from.rawSpans[i] \in Spans
        BY <1>1, <1>4, ElementOfSeq
  <2>2. 1 \in Int /\ k \in Int
        BY <1>4
  <2>3. /\ SubSeq(from.rawSpans, 1, k) \in Seq(Spans)
        /\ Len(SubSeq(from.rawSpans, 1, k)) = IF 1 <= k THEN k - 1 + 1 ELSE 0
        BY <2>1, <2>2, SubSeqProperties
  <2>4. (IF 1 <= k THEN k - 1 + 1 ELSE 0) = k
        BY <1>4
  <2> QED
      BY <2>3, <2>4
<1>6. b2.rawSpans = b.rawSpans \o SubSeq(from.rawSpans, 1, k)
      BY DEF mergeFrom, k
<1>7. b2.rawSpans \in Seq(Spans) /\ Len(b2.rawSpans) = Len(b.rawSpans) + k
      BY <1>1, <1>5, <1>6, ConcatProperties
<1>8. /\ b2.droppedSpanCount = b.droppedSpanCount + from.droppedSpanCount
                                 + (Len(from.rawSpans) - k)
      /\ b2.reportedDroppedSpanCount =
           b.reportedDroppedSpanCount + from.reportedDroppedSpanCount
      BY DEF mergeFrom, mergeReported, mergeDropped, k
<1>9. /\ b2.logEncoderErrorCount = b.logEncoderErrorCount + from.logEncoderErrorCount
      /\ b2.reportedLogEncoderErrorCount =
           b.reportedLogEncoderErrorCount + from.reportedLogEncoderErrorCount
      BY DEF mergeFrom
<1>10. b2.droppedSpanCount \in Nat /\ b2.reportedDroppedSpanCount \in Nat
       BY <1>1, <1>2, <1>4, <1>8, SMTT(30)
<1>11. b2.logEncoderErrorCount \in Nat /\ b2.reportedLogEncoderErrorCount \in Nat
       BY <1>3, <1>9
<1>12. /\ b2.reportStart = mergeStart(b, from) /\ b2.reportStart \in Nat
       /\ b2.reportEnd \in Nat
       BY <1>0, FieldTypes DEF mergeFrom, mergeStart, mergeEnd
<1>13. b2 = [ rawSpans |-> b2.rawSpans,
              droppedSpanCount |-> b2.droppedSpanCount,
              reportedDroppedSpanCount |-> b2.reportedDroppedSpanCount,
              logEncoderErrorCount |-> b2.logEncoderErrorCount,
              reportedLogEncoderErrorCount |-> b2.reportedLogEncoderErrorCount,
              reportStart |-> b2.reportStart,
              reportEnd |-> b2.reportEnd ]
       BY DEF mergeFrom
<1>14. b2 \in Buffers
       BY <1>7, <1>10, <1>11, <1>12, <1>13 DEF Buffers
<1>15. /\ unreportedDropped(b2) =
             unreportedDropped(b) + unreportedDropped(from) + (Len(from.rawSpans) - k)
       /\ unreportedDropped(b2) >= 0
  <2>1. unreportedDropped(b) >= 0 /\ unreportedDropped(from) >= 0
        BY DEF WellFormed
  <2>2. \A d1, r1, d2, r2, n, j \in Nat :
           (d1 + d2 + (n - j)) - (r1 + r2) = (d1 - r1) + (d2 - r2) + (n - j)
        OBVIOUS
  <2>3. unreportedDropped(b2) =
           unreportedDropped(b) + unreportedDropped(from) + (Len(from.rawSpans) - k)
        BY <1>1, <1>2, <1>4, <1>8, <2>2 DEF unreportedDropped
  <2>4. unreportedDropped(b) \in Int /\ unreportedDropped(from) \in Int
        BY <1>2 DEF unreportedDropped
  <2>5. Len(from.rawSpans) - k >= 0 /\ Len(from.rawSpans) - k \in Int
        BY <1>1, <1>4
  <2> QED
      BY <2>1, <2>3, <2>4, <2>5
<1>16. /\ unreportedEncoderErrors(b2) =
             unreportedEncoderErrors(b) + unreportedEncoderErrors(from)
       /\ unreportedEncoderErrors(b2) >= 0
  <2>1. unreportedEncoderErrors(b) >= 0 /\ unreportedEncoderErrors(from) >= 0
        BY DEF WellFormed
  <2> QED
      BY <1>3, <1>9, <2>1 DEF unreportedEncoderErrors
<1>17. Len(b2.rawSpans) - Len(b.rawSpans) = k
       BY <1>1, <1>4, <1>7
<1>18. WellFormed(b2)
       BY <1>4, <1>7, <1>14, <1>15, <1>16 DEF WellFormed
<1>19. Len(b2.rawSpans) - Len(b.rawSpans) \in 0 .. Len(from.rawSpans)
  <2>1. k \in 0 .. Len(from.rawSpans)
        BY <1>1, <1>4
  <2> QED
      BY <1>17, <2>1
<1> QED
    BY <1>12, <1>15, <1>16, <1>17, <1>18, <1>19

\* After a status report nothing is left to tell, and nothing else changed.
LEMMA MarkReportedTellsAll ==
    ASSUME NEW b, WellFormed(b)
    PROVE  /\ WellFormed(markReported(b))
           /\ unreportedDropped(markReported(b)) = 0
           /\ unreportedEncoderErrors(markReported(b)) = 0
           /\ markReported(b).reportStart = b.reportStart
           /\ markReported(b).rawSpans = b.rawSpans
<1> DEFINE m == markReported(b)
<1>0. /\ b \in Buffers
      /\ b.rawSpans \in Seq(Spans) /\ Len(b.rawSpans) \in Nat
      /\ b.droppedSpanCount \in Nat /\ b.reportedDroppedSpanCount \in Nat
      /\ b.logEncoderErrorCount \in Nat /\ b.reportedLogEncoderErrorCount \in Nat
      /\ b.reportStart \in Nat /\ b.reportEnd \in Nat
      BY FieldTypes DEF WellFormed
<1>1. m \in Buffers
      BY <1>0 DEF markReported, Buffers
<1>2. /\ m.rawSpans = b.rawSpans
      /\ m.droppedSpanCount = b.droppedSpanCount
      /\ m.reportedDroppedSpanCount = b.droppedSpanCount
      /\ m.logEncoderErrorCount = b.logEncoderErrorCount
      /\ m.reportedLogEncoderErrorCount = b.logEncoderErrorCount
      /\ m.reportStart = b.reportStart
      BY <1>0 DEF markReported, Buffers
<1> HIDE DEF m
<1> QED
    BY <1>0, <1>1, <1>2
    DEF WellFormed, unreportedDropped, unreportedEncoderErrors, m

-----------------------------------------------------------------------------
(***************************************************************************)
(* What Flush sends                                                        *)
(***************************************************************************)

\* CeilDiv of a positive number is positive.
LEMMA CeilDivType ==
    ASSUME NEW n \in Nat, NEW d \in Nat \ {0}
    PROVE  CeilDiv(n, d) \in Nat /\ (n # 0 => CeilDiv(n, d) # 0)
<1>1. n \div d \in Nat /\ n % d \in Nat
      OBVIOUS
<1>2. n = d * (n \div d) + (n % d)
      OBVIOUS
<1>3. ASSUME n \div d = 0, n % d = 0 PROVE n = 0
      BY <1>2, <1>3
<1> QED
    BY <1>1, <1>3 DEF CeilDiv

\* Whatever the split, Flush has at least one part to send, made of spans.
LEMMA RequestPartsType ==
    ASSUME NEW spans \in Seq(Spans), NEW r \in requestParts(spans)
    PROVE  r \in Seq(Seq(Spans)) /\ r # << >>
<1>1. << spans >> \in Seq(Seq(Spans)) /\ << spans >> # << >>
      OBVIOUS
<1>2. CASE Transport = "http"
      BY <1>1, <1>2 DEF requestParts
<1>3. CASE Transport # "http"
  <2>1. PICK parts \in partsFor(spans) : r = SplitByParts(spans, parts)
        BY <1>3 DEF requestParts
  <2>2. CASE spans = << >> \/ parts <= 1
        BY <1>1, <2>1, <2>2 DEF SplitByParts
  <2>3. CASE ~(spans = << >> \/ parts <= 1)
    <3> DEFINE n == Len(spans)
               maxSize == CeilDiv(n, parts)
               m == CeilDiv(n, maxSize)
               chunks == chunksOf(spans, parts)
    <3>1. n \in Nat \ {0} /\ DOMAIN spans = 1 .. n
          BY <2>3, EmptySeq, LenProperties
    <3>2. parts \in Nat \ {0}
      <4>1. PICK pivot \in DOMAIN spans :
               parts = IF SpanBytes(spans[pivot]) * n > GRPCMaxCallSendMsgSizeBytes
                       THEN CeilDiv(SpanBytes(spans[pivot]) * n,
                                    GRPCMaxCallSendMsgSizeBytes)
                       ELSE 1
            BY <2>1, <2>3 DEF partsFor
      <4>2. SpanBytes(spans[pivot]) * n \in Nat
        <5>1. SpanBytes(spans[pivot]) \in Nat
              BY <3>1, ElementOfSeq, TracerAssumption
        <5> QED
            BY <3>1, <5>1
      <4>3. parts \in Nat
            BY <4>1, <4>2, CeilDivType, TracerAssumption
      <4> QED
          BY <2>3, <4>3
    <3>3. maxSize \in Nat \ {0}
          BY <3>1, <3>2, CeilDivType
    <3>4. m \in Nat \ {0}
          BY <3>1, <3>3, CeilDivType
    <3> HIDE DEF m, maxSize
    <3>5. chunks = [i \in 1 .. m |->
                      SubSeq(spans, (i - 1) * maxSize + 1,
                             IF i * maxSize > n THEN n ELSE i * maxSize)]
          BY DEF chunksOf, m, maxSize
    <3>6. ASSUME NEW i \in 1 .. m
          PROVE  SubSeq(spans, (i - 1) * maxSize + 1,
                        IF i * maxSize > n THEN n ELSE i * maxSize) \in Seq(Spans)
      <4> DEFINE lo == (i - 1) * maxSize + 1
                 hi == IF i * maxSize > n THEN n ELSE i * maxSize
      <4>1. (i - 1) * maxSize \in Nat /\ i * maxSize \in Nat
            BY <3>3, <3>4
      <4>2. lo \in Int /\ lo >= 1 /\ hi \in Int /\ hi <= n
            BY <3>1, <4>1
      <4> HIDE DEF lo, hi
      <4>3. \A j \in lo .. hi : spans[j] \in Spans
            BY <3>1, <4>2, ElementOfSeq
      <4>4. SubSeq(spans, lo, hi) \in Seq(Spans)
            BY <4>2, <4>3, SubSeqProperties
      <4> QED
          BY <4>4 DEF lo, hi
    <3>7. /\ chunks \in [1 .. m -> Seq(Spans)]
          /\ DOMAIN chunks = 1 .. m
          BY <3>5, <3>6
    <3>8. chunks \in Seq(Seq(Spans)) /\ Len(chunks) = m
          BY <3>4, <3>7
    <3> HIDE DEF chunks
    <3>9. r = [i \in 1 .. m |-> chunks[m]]
          BY <2>1, <2>3, <3>7, <3>8 DEF SplitByParts, chunks
    <3>10. chunks[m] \in Seq(Spans)
          BY <3>4, <3>7
    <3>11. r \in Seq(Seq(Spans)) /\ Len(r) = m
          BY <3>4, <3>9, <3>10
    <3> QED
        BY <3>4, <3>11, EmptySeq
  <2> QED
      BY <2>2, <2>3
<1> QED
    BY <1>2, <1>3

\* The number of encoder errors of a report is a number.
LEMMA EncoderErrorsType ==
    ASSUME NEW spans \in Seq(Spans)
    PROVE  encoderErrors(spans) \in Nat
<1> DEFINE bad == {i \in DOMAIN spans : spans[i] \in Unencodable}
<1>1. IsFiniteSet(1 .. Len(spans))
      BY FS_Interval, LenProperties
<1>2. IsFiniteSet(bad)
      BY <1>1, FS_Subset, LenProperties
<1> QED
    BY <1>2, FS_CardinalityType DEF encoderErrors

-----------------------------------------------------------------------------
(***************************************************************************)
(* The inductive invariant                                                 *)
(***************************************************************************)

\* While Flush has a part to send or waits for an answer there is a part left.
RequestPending ==
    \A p \in Procs : pc[p] \in {"report", "await"} => request # << >>

\* No window ends in the future, and a report in flight does not end before
\* the last report did.
WindowsOrdered ==
    ~disabled =>
        /\ covered <= clock
        /\ reportInFlight => /\ covered <= flushing.reportEnd
                             /\ flushing.reportEnd <= clock

\* The account of the encoder errors, whichever spans had them.
EncoderErrorsTold ==
    /\ unreportedEncoderErrors(buffer) >= 0
    /\ unreportedEncoderErrors(flushing) >= 0
    /\ ledger.toldErrors + unreportedEncoderErrors(buffer)
         + unreportedEncoderErrors(flushing) + ledger.lostErrors = ledger.errors

\* The two accounts keep each other's counters natural numbers, which TypeOK
\* needs; the collector's answer takes the head of the request, which must not
\* be empty; two goroutines in flight could empty it under each other, or swap
\* in a buffer that is not empty, so FlushExclusive is needed; and the window
\* of a failed report starts where the last successful one ended only if the
\* windows are ordered.
IInv ==
    /\ TypeOK
    /\ DropsAccounted
    /\ EncoderErrorsTold
    /\ FlushExclusive
    /\ RequestPending
    /\ FlushingEmptyBetweenFlushes
    /\ WindowsTile
    /\ WindowsOrdered

\* The steps of the tracer, one by one.
LEMMA NextCases ==
    ASSUME Next
    PROVE  \/ \E s \in Spans : RecordSpan(s)
           \/ Disable
           \/ Tick
           \/ LoopTick
           \/ LoopAgain
           \/ \E c \in Conns : ConnectClient(c)
           \/ ConnectClientFails
           \/ SwapConnection
           \/ CloseOldConnection
           \/ LoopClosed
           \/ \E p \in Procs : \/ PreFlushRefused(p)
                               \/ PreFlush(p)
                               \/ MetaCreate(p)
                               \/ Translate(p)
                               \/ TranslateFails(p)
                               \/ Report(p)
                               \/ \E delivered \in BOOLEAN : ReportFails(p, delivered)
                               \/ \E errs, disables \in BOOLEAN, devMode \in DevModes :
                                     Respond(p, errs, disables, devMode)
                               \/ DisableCommand(p)
                               \/ PostFlush(p)
           \/ \E p \in Callers : \/ FlushCall(p)
                                 \/ CloseCall(p)
                                 \/ \E deadline \in BOOLEAN : CloseBegin(p, deadline)
                                 \/ CloseAgain(p)
                                 \/ CloseFlush(p)
                                 \/ CloseDeadline(p)
                                 \/ CloseSwap(p)
                                 \/ CloseConnection(p)
BY DEF Next, LoopStep, FlushStep, CloseStep

\* No step takes a control variable out of its type.
LEMMA ControlStep ==
    ASSUME ControlOK, Next
    PROVE  ControlOK'
<1> USE DEF Procs, ControlOK,
            bufferVars, flushVars, connVars, loopVars, closeVars, metaVars, history
<1>1. ASSUME NEW s \in Spans, RecordSpan(s)
      PROVE  ControlOK'
      BY TracerAssumption, <1>1
      DEF Places, RecordSpan, record
<1>2. ASSUME Disable
      PROVE  ControlOK'
      BY TracerAssumption, <1>2
      DEF Places, Disable, disable
<1>3. ASSUME Tick
      PROVE  ControlOK'
      BY TracerAssumption, <1>3
      DEF Places, Tick
<1>4. ASSUME LoopTick
      PROVE  ControlOK'
  <2>1. pc' \in [Procs -> Places]
        BY <1>4, TracerAssumption DEF Places, LoopTick
  <2>2. reconnect' \in BOOLEAN
    <3>1. CASE disabled
          BY <1>4, <3>1 DEF LoopTick
    <3>2. CASE ~disabled
      <4>1. PICK should \in ShouldReconnect : reconnect' = (~reportInFlight /\ should)
            BY <1>4, <3>2 DEF LoopTick
      <4> QED
          BY <4>1, Zenon
    <3> QED
        BY <3>1, <3>2
  <2>3. tick' \in BOOLEAN
        BY <1>4 DEF LoopTick
  <2> QED
      BY <1>4, <2>1, <2>2, <2>3
      DEF LoopTick
<1>5. ASSUME LoopAgain
      PROVE  ControlOK'
      BY TracerAssumption, <1>5
      DEF Places, LoopAgain
<1>6. ASSUME ConnectClientFails
      PROVE  ControlOK'
  <2>1. pc' \in [Procs -> Places] /\ failures' \in Nat
        BY <1>6, TracerAssumption DEF Places, ConnectClientFails
  <2>2. reconnect' \in BOOLEAN
        BY <1>6 DEF ConnectClientFails
  <2> QED
      BY <1>6, <2>1, <2>2
      DEF ConnectClientFails
<1>7. ASSUME SwapConnection
      PROVE  ControlOK'
      BY TracerAssumption, <1>7
      DEF Places, SwapConnection, oldConnection
<1>8. ASSUME CloseOldConnection
      PROVE  ControlOK'
  <2>1. /\ pc' \in [Procs -> Places]
        /\ held' \in Conns \cup {NoConn}
        /\ open' \subseteq Conns
        BY <1>8, TracerAssumption DEF Places, CloseOldConnection
  <2>2. reconnect' \in BOOLEAN
        BY <1>8 DEF CloseOldConnection
  <2> QED
      BY <1>8, <2>1, <2>2
      DEF CloseOldConnection
<1>9. ASSUME LoopClosed
      PROVE  ControlOK'
      BY TracerAssumption, <1>9
      DEF Places, LoopClosed, closeLoopClosedChannel
<1>10. ASSUME NEW c \in Conns, ConnectClient(c)
      PROVE  ControlOK'
      BY TracerAssumption, <1>10
      DEF Places, ConnectClient
<1>11. ASSUME NEW p \in Procs, PreFlushRefused(p)
      PROVE  ControlOK'
      BY TracerAssumption, <1>11
      DEF Places, PreFlushRefused, noteClose, afterFlush, unlock, lockFree
<1>12. ASSUME NEW p \in Procs, PreFlush(p)
      PROVE  ControlOK'
      BY TracerAssumption, <1>12
      DEF Places, PreFlush, now, lockFree
<1>13. ASSUME NEW p \in Procs, MetaCreate(p)
      PROVE  ControlOK'
      BY TracerAssumption, <1>13
      DEF Places, MetaCreate, record
<1>14. ASSUME NEW p \in Procs, Translate(p)
      PROVE  ControlOK'
      BY TracerAssumption, <1>14
      DEF Places, Translate
<1>15. ASSUME NEW p \in Procs, TranslateFails(p)
      PROVE  ControlOK'
      BY TracerAssumption, <1>15
      DEF Places, TranslateFails
<1>16. ASSUME NEW p \in Procs, Report(p)
      PROVE  ControlOK'
      BY TracerAssumption, <1>16
      DEF Places, Report
<1>17. ASSUME NEW p \in Procs, DisableCommand(p)
      PROVE  ControlOK'
  <2>1. pc' \in [Procs -> Places]
        BY <1>17, TracerAssumption DEF Places, DisableCommand, afterPart
  <2>2. disabled' \in BOOLEAN
        BY <1>17 DEF DisableCommand, disable
  <2> QED
      BY <1>17, <2>1, <2>2
      DEF DisableCommand
<1>18. ASSUME NEW p \in Procs, PostFlush(p)
      PROVE  ControlOK'
  <2>1. pc' \in [Procs -> Places]
        BY <1>18, TracerAssumption DEF Places, PostFlush, afterFlush
  <2>2. /\ reportInFlight' \in BOOLEAN
        /\ flushingLock' \in Procs \cup {NoProc}
        /\ flushErr' \in {"none", "translate", "transport", "report"}
        /\ closeResult' \in {"none", "sent", "failed"}
        BY <1>18 DEF PostFlush, unlock, noteClose
  <2> QED
      BY <1>18, <2>1, <2>2
      DEF PostFlush
<1>19. ASSUME NEW p \in Procs, NEW delivered \in BOOLEAN,
             ReportFails(p, delivered)
      PROVE  ControlOK'
      BY TracerAssumption, <1>19
      DEF Places, ReportFails
<1>20. ASSUME NEW p \in Procs, NEW errs \in BOOLEAN, NEW disables \in BOOLEAN,
             NEW devMode \in DevModes, Respond(p, errs, disables, devMode)
      PROVE  ControlOK'
      BY TracerAssumption, <1>20
      DEF Places, Respond, afterPart, errorState
<1>21. ASSUME NEW p \in Callers, FlushCall(p)
      PROVE  ControlOK'
      BY TracerAssumption, <1>21
      DEF Places, FlushCall
<1>22. ASSUME NEW p \in Callers, CloseCall(p)
      PROVE  ControlOK'
      BY TracerAssumption, <1>22
      DEF Places, CloseCall
<1>23. ASSUME NEW p \in Callers, CloseAgain(p)
      PROVE  ControlOK'
      BY TracerAssumption, <1>23
      DEF Places, CloseAgain
<1>24. ASSUME NEW p \in Callers, CloseFlush(p)
      PROVE  ControlOK'
      BY TracerAssumption, <1>24
      DEF Places, CloseFlush, closeWaited
<1>25. ASSUME NEW p \in Callers, CloseDeadline(p)
      PROVE  ControlOK'
      BY TracerAssumption, <1>25
      DEF Places, CloseDeadline
<1>26. ASSUME NEW p \in Callers, CloseSwap(p)
      PROVE  ControlOK'
      BY TracerAssumption, <1>26
      DEF Places, CloseSwap
<1>27. ASSUME NEW p \in Callers, CloseConnection(p)
      PROVE  ControlOK'
      BY TracerAssumption, <1>27
      DEF Places, CloseConnection
<1>28. ASSUME NEW p \in Callers, NEW deadline \in BOOLEAN,
             CloseBegin(p, deadline)
      PROVE  ControlOK'
      BY TracerAssumption, <1>28
      DEF Places, CloseBegin
<1> QED
    BY <1>1, <1>2, <1>3, <1>4, <1>5, <1>6, <1>7, <1>8, <1>9, <1>10, <1>11,
       <1>12, <1>13, <1>14, <1>15, <1>16, <1>17, <1>18, <1>19, <1>20, <1>21,
       <1>22, <1>23, <1>24, <1>25, <1>26, <1>27, <1>28, NextCases

\* flushingLock is taken and released together with the flush it protects.
LEMMA LockStep ==
    ASSUME ControlOK, FlushExclusive, Next
    PROVE  FlushExclusive'
<1> USE DEF Procs,
            bufferVars, flushVars, connVars, loopVars, closeVars, metaVars, history
<1>1. ASSUME NEW s \in Spans, RecordSpan(s)
      PROVE  FlushExclusive'
      BY TracerAssumption, <1>1
      DEF ControlOK, FlushExclusive, InFlight, RecordSpan, record
<1>2. ASSUME Disable
      PROVE  FlushExclusive'
      BY TracerAssumption, <1>2
      DEF ControlOK, FlushExclusive, InFlight, Disable, disable
<1>3. ASSUME Tick
      PROVE  FlushExclusive'
      BY TracerAssumption, <1>3
      DEF ControlOK, FlushExclusive, InFlight, Tick
<1>4. ASSUME LoopTick
      PROVE  FlushExclusive'
      BY TracerAssumption, <1>4
      DEF ControlOK, FlushExclusive, InFlight, LoopTick, ShouldReconnect
<1>5. ASSUME LoopAgain
      PROVE  FlushExclusive'
      BY TracerAssumption, <1>5
      DEF ControlOK, FlushExclusive, InFlight, LoopAgain
<1>6. ASSUME ConnectClientFails
      PROVE  FlushExclusive'
      BY TracerAssumption, <1>6
      DEF ControlOK, FlushExclusive, InFlight, ConnectClientFails
<1>7. ASSUME SwapConnection
      PROVE  FlushExclusive'
      BY TracerAssumption, <1>7
      DEF ControlOK, FlushExclusive, InFlight, SwapConnection, oldConnection
<1>8. ASSUME CloseOldConnection
      PROVE  FlushExclusive'
      BY TracerAssumption, <1>8
      DEF ControlOK, FlushExclusive, InFlight, CloseOldConnection
<1>9. ASSUME LoopClosed
      PROVE  FlushExclusive'
      BY TracerAssumption, <1>9
      DEF ControlOK, FlushExclusive, InFlight, LoopClosed, closeLoopClosedChannel
<1>10. ASSUME NEW c \in Conns, ConnectClient(c)
      PROVE  FlushExclusive'
      BY TracerAssumption, <1>10
      DEF ControlOK, FlushExclusive, InFlight, ConnectClient
<1>11. ASSUME NEW p \in Procs, PreFlushRefused(p)
      PROVE  FlushExclusive'
      BY TracerAssumption, <1>11
      DEF ControlOK, FlushExclusive, InFlight, PreFlushRefused, noteClose, afterFlush, unlock, lockFree
<1>12. ASSUME NEW p \in Procs, PreFlush(p)
      PROVE  FlushExclusive'
      BY TracerAssumption, <1>12
      DEF ControlOK, FlushExclusive, InFlight, PreFlush, now, lockFree
<1>13. ASSUME NEW p \in Procs, MetaCreate(p)
      PROVE  FlushExclusive'
      BY TracerAssumption, <1>13
      DEF ControlOK, FlushExclusive, InFlight, MetaCreate, record
<1>14. ASSUME NEW p \in Procs, Translate(p)
      PROVE  FlushExclusive'
      BY TracerAssumption, <1>14
      DEF ControlOK, FlushExclusive, InFlight, Translate
<1>15. ASSUME NEW p \in Procs, TranslateFails(p)
      PROVE  FlushExclusive'
      BY TracerAssumption, <1>15
      DEF ControlOK, FlushExclusive, InFlight, TranslateFails
<1>16. ASSUME NEW p \in Procs, Report(p)
      PROVE  FlushExclusive'
      BY TracerAssumption, <1>16
      DEF ControlOK, FlushExclusive, InFlight, Report
<1>17. ASSUME NEW p \in Procs, DisableCommand(p)
      PROVE  FlushExclusive'
      BY TracerAssumption, <1>17
      DEF ControlOK, FlushExclusive, InFlight, DisableCommand, disable, afterPart
<1>18. ASSUME NEW p \in Procs, PostFlush(p)
      PROVE  FlushExclusive'
      BY TracerAssumption, <1>18
      DEF ControlOK, FlushExclusive, InFlight, PostFlush, noteClose, afterFlush, unlock, postFlushSent, postFlushUntranslatable, postFlushFailed
<1>19. ASSUME NEW p \in Procs, NEW delivered \in BOOLEAN,
             ReportFails(p, delivered)
      PROVE  FlushExclusive'
      BY TracerAssumption, <1>19
      DEF ControlOK, FlushExclusive, InFlight, ReportFails
<1>20. ASSUME NEW p \in Procs, NEW errs \in BOOLEAN, NEW disables \in BOOLEAN,
             NEW devMode \in DevModes, Respond(p, errs, disables, devMode)
      PROVE  FlushExclusive'
      BY TracerAssumption, <1>20
      DEF ControlOK, FlushExclusive, InFlight, Respond, afterPart, errorState
<1>21. ASSUME NEW p \in Callers, FlushCall(p)
      PROVE  FlushExclusive'
      BY TracerAssumption, <1>21
      DEF ControlOK, FlushExclusive, InFlight, FlushCall
<1>22. ASSUME NEW p \in Callers, CloseCall(p)
      PROVE  FlushExclusive'
      BY TracerAssumption, <1>22
      DEF ControlOK, FlushExclusive, InFlight, CloseCall
<1>23. ASSUME NEW p \in Callers, CloseAgain(p)
      PROVE  FlushExclusive'
      BY TracerAssumption, <1>23
      DEF ControlOK, FlushExclusive, InFlight, CloseAgain
<1>24. ASSUME NEW p \in Callers, CloseFlush(p)
      PROVE  FlushExclusive'
      BY TracerAssumption, <1>24
      DEF ControlOK, FlushExclusive, InFlight, CloseFlush, closeWaited
<1>25. ASSUME NEW p \in Callers, CloseDeadline(p)
      PROVE  FlushExclusive'
      BY TracerAssumption, <1>25
      DEF ControlOK, FlushExclusive, InFlight, CloseDeadline
<1>26. ASSUME NEW p \in Callers, CloseSwap(p)
      PROVE  FlushExclusive'
      BY TracerAssumption, <1>26
      DEF ControlOK, FlushExclusive, InFlight, CloseSwap
<1>27. ASSUME NEW p \in Callers, CloseConnection(p)
      PROVE  FlushExclusive'
      BY TracerAssumption, <1>27
      DEF ControlOK, FlushExclusive, InFlight, CloseConnection
<1>28. ASSUME NEW p \in Callers, NEW deadline \in BOOLEAN,
             CloseBegin(p, deadline)
      PROVE  FlushExclusive'
      BY TracerAssumption, <1>28
      DEF ControlOK, FlushExclusive, InFlight, CloseBegin
<1> QED
    BY <1>1, <1>2, <1>3, <1>4, <1>5, <1>6, <1>7, <1>8, <1>9, <1>10, <1>11,
       <1>12, <1>13, <1>14, <1>15, <1>16, <1>17, <1>18, <1>19, <1>20, <1>21,
       <1>22, <1>23, <1>24, <1>25, <1>26, <1>27, <1>28, NextCases

-----------------------------------------------------------------------------
(***************************************************************************)
(* The counters                                                            *)
(***************************************************************************)

\* What the counters of the two buffers and the ledger satisfy together.
Counting ==
    /\ WellFormed(buffer) /\ WellFormed(flushing)
    /\ ledger \in Ledger
    /\ ledger.told + unreportedDropped(buffer) + unreportedDropped(flushing)
         + ledger.lost = ledger.dropped
    /\ ledger.toldErrors + unreportedEncoderErrors(buffer)
         + unreportedEncoderErrors(flushing) + ledger.lostErrors = ledger.errors

\* The types of the ledger's fields.
LEMMA LedgerFields ==
    ASSUME NEW l \in Ledger
    PROVE  /\ l.dropped \in Nat /\ l.told \in Nat /\ l.lost \in Nat
           /\ l.errors \in Nat /\ l.toldErrors \in Nat /\ l.lostErrors \in Nat
           /\ l.rejected \subseteq Spans /\ l.repeats \in Nat
           /\ l.collected \in Nat /\ l.forfeited \in Nat
BY DEF Ledger

\* A well-formed buffer has natural numbers left to tell.
LEMMA UnreportedTypes ==
    ASSUME NEW b, WellFormed(b)
    PROVE  /\ unreportedDropped(b) \in Nat
           /\ unreportedEncoderErrors(b) \in Nat
           /\ b.droppedSpanCount \in Nat
<1>1. b \in Buffers /\ unreportedDropped(b) >= 0 /\ unreportedEncoderErrors(b) >= 0
      BY DEF WellFormed
<1>2. /\ b.droppedSpanCount \in Nat /\ b.reportedDroppedSpanCount \in Nat
      /\ b.logEncoderErrorCount \in Nat /\ b.reportedLogEncoderErrorCount \in Nat
      BY <1>1, FieldTypes
<1> QED
    BY <1>1, <1>2 DEF unreportedDropped, unreportedEncoderErrors

\* An empty buffer has nothing to tell.
LEMMA NothingUnreported ==
    /\ unreportedDropped(newSpansBuffer) = 0
    /\ unreportedEncoderErrors(newSpansBuffer) = 0
BY DEF unreportedDropped, unreportedEncoderErrors, newSpansBuffer

\* RecordSpan counts the span it cannot keep.
LEMMA RecordCounts ==
    ASSUME Counting, NEW s \in Spans, record(s), flushing' = flushing
    PROVE  Counting'
<1>1. CASE recordable(s)
  <2>1. /\ buffer' = addSpan(buffer, s)
        /\ ledger' = [ledger EXCEPT !.dropped =
                        ledger.dropped + NotKept(1, buffer, buffer')]
        BY <1>1 DEF record
  <2> DEFINE d == 1 - (Len(buffer'.rawSpans) - Len(buffer.rawSpans))
  <2>2. /\ WellFormed(buffer')
        /\ Len(buffer'.rawSpans) - Len(buffer.rawSpans) \in {0, 1}
        /\ unreportedDropped(buffer') = unreportedDropped(buffer) + d
        /\ unreportedEncoderErrors(buffer') = unreportedEncoderErrors(buffer)
        BY <2>1, AddSpanCounts DEF Counting
  <2>3. d \in Nat
        BY <2>2
  <2>4. NotKept(1, buffer, buffer') = d
        BY DEF NotKept
  <2> HIDE DEF d
  <2>5. /\ ledger' \in Ledger
        /\ ledger'.dropped = ledger.dropped + d
        /\ ledger'.told = ledger.told /\ ledger'.lost = ledger.lost
        /\ ledger'.errors = ledger.errors /\ ledger'.toldErrors = ledger.toldErrors
        /\ ledger'.lostErrors = ledger.lostErrors
        BY <2>1, <2>3, <2>4, LedgerFields DEF Counting, Ledger
  <2>6. /\ unreportedDropped(buffer) \in Nat /\ unreportedDropped(flushing) \in Nat
        /\ ledger.told \in Nat /\ ledger.lost \in Nat /\ ledger.dropped \in Nat
        BY UnreportedTypes, LedgerFields DEF Counting
  <2>7. ledger'.told + unreportedDropped(buffer') + unreportedDropped(flushing)
          + ledger'.lost = ledger'.dropped
        BY <2>2, <2>3, <2>5, <2>6 DEF Counting
  <2> QED
      BY <2>2, <2>5, <2>7 DEF Counting
<1>2. CASE ~recordable(s)
      BY <1>2 DEF record, Counting
<1> QED
    BY <1>1, <1>2

\* Disable moves what the buffer had to tell to what is lost.
LEMMA DisableCounts ==
    ASSUME Counting, disable, flushing' = flushing
    PROVE  Counting'
<1>1. CASE disabled
      BY <1>1 DEF disable, Counting
<1>2. CASE ~disabled
  <2>1. /\ buffer' = newSpansBuffer
        /\ ledger' = [ledger EXCEPT
                        !.lost = ledger.lost + unreportedDropped(buffer),
                        !.lostErrors = ledger.lostErrors + unreportedEncoderErrors(buffer),
                        !.forfeited = ledger.forfeited + buffer.droppedSpanCount]
        BY <1>2 DEF disable, clear
  <2>2. /\ unreportedDropped(buffer) \in Nat /\ unreportedDropped(flushing) \in Nat
        /\ unreportedEncoderErrors(buffer) \in Nat
        /\ unreportedEncoderErrors(flushing) \in Nat
        /\ buffer.droppedSpanCount \in Nat
        BY UnreportedTypes DEF Counting
  <2>3. /\ ledger.dropped \in Nat /\ ledger.told \in Nat /\ ledger.lost \in Nat
        /\ ledger.errors \in Nat /\ ledger.toldErrors \in Nat
        /\ ledger.lostErrors \in Nat /\ ledger.forfeited \in Nat
        BY LedgerFields DEF Counting
  <2>4. /\ ledger'.dropped = ledger.dropped /\ ledger'.told = ledger.told
        /\ ledger'.lost = ledger.lost + unreportedDropped(buffer)
        /\ ledger'.errors = ledger.errors /\ ledger'.toldErrors = ledger.toldErrors
        /\ ledger'.lostErrors = ledger.lostErrors + unreportedEncoderErrors(buffer)
        BY <2>1 DEF Counting, Ledger
  <2>5. ledger' \in Ledger
    <3>1. /\ ledger.lost + unreportedDropped(buffer) \in Nat
          /\ ledger.lostErrors + unreportedEncoderErrors(buffer) \in Nat
          /\ ledger.forfeited + buffer.droppedSpanCount \in Nat
          BY <2>2, <2>3
    <3> QED
        BY <2>1, <3>1 DEF Counting, Ledger
  <2>6. ledger'.told + 0 + unreportedDropped(flushing) + ledger'.lost = ledger'.dropped
        BY <2>2, <2>3, <2>4 DEF Counting
  <2>7. ledger'.toldErrors + 0 + unreportedEncoderErrors(flushing) + ledger'.lostErrors
          = ledger'.errors
        BY <2>2, <2>3, <2>4 DEF Counting
  <2> QED
      BY <2>1, <2>5, <2>6, <2>7, NothingUnreported, NewBufferWellFormed DEF Counting
<1> QED
    BY <1>1, <1>2

\* A buffer holds finitely many spans.
LEMMA FiniteSpans ==
    ASSUME NEW b \in Buffers
    PROVE  IsFiniteSet(SpansOf(b)) /\ SpansOf(b) \subseteq Spans
<1> DEFINE q == b.rawSpans
<1>1. q \in Seq(Spans)
      BY FieldTypes
<1>2. /\ DOMAIN q = 1 .. Len(q) /\ Len(q) \in Nat
      /\ q \in [1 .. Len(q) -> Spans]
      BY <1>1, LenProperties
<1>3. q \in [DOMAIN q -> SpansOf(b)] /\ \A t \in SpansOf(b) : \E i \in DOMAIN q : q[i] = t
      BY <1>2 DEF SpansOf
<1>4. q \in Surjection(DOMAIN q, SpansOf(b))
      BY <1>3 DEF Surjection
<1>5. IsFiniteSet(DOMAIN q)
      BY <1>2, FS_Interval
<1>6. SpansOf(b) \subseteq Spans
      BY <1>2 DEF SpansOf
<1> QED
    BY <1>4, <1>5, <1>6, FS_Surjection

\* The conversion adds the encoder errors to the flushing buffer.
LEMMA ConversionCounts ==
    ASSUME Counting, countEncoderErrors, buffer' = buffer
    PROVE  Counting'
<1> DEFINE n == encoderErrors(flushing.rawSpans)
           bad == SpansOf(flushing) \cap Unencodable
           again == Cardinality(ledger.rejected \cap bad)
<1>0. flushing \in Buffers
      BY DEF Counting, WellFormed
<1>1. /\ flushing.rawSpans \in Seq(Spans) /\ Len(flushing.rawSpans) \in Nat
      /\ flushing.droppedSpanCount \in Nat /\ flushing.reportedDroppedSpanCount \in Nat
      /\ flushing.logEncoderErrorCount \in Nat
      /\ flushing.reportedLogEncoderErrorCount \in Nat
      BY <1>0, FieldTypes
<1>2. n \in Nat
      BY <1>1, EncoderErrorsType
<1>3. /\ flushing' = [flushing EXCEPT !.logEncoderErrorCount =
                        flushing.logEncoderErrorCount + n]
      /\ ledger' = [ledger EXCEPT !.errors = ledger.errors + n,
                                  !.rejected = ledger.rejected \cup bad,
                                  !.repeats = ledger.repeats + again]
      BY DEF countEncoderErrors
<1>r. bad \subseteq Spans /\ again \in Nat
  <2>1. bad \subseteq Spans /\ IsFiniteSet(bad)
        BY <1>0, FiniteSpans, FS_Subset
  <2>2. IsFiniteSet(ledger.rejected \cap bad)
        BY <2>1, FS_Subset
  <2> QED
      BY <2>1, <2>2, FS_CardinalityType
<1> HIDE DEF n, bad, again
<1>4. flushing' \in Buffers
      BY <1>0, <1>1, <1>2, <1>3, SMTT(30) DEF Buffers
<1>5. /\ flushing'.rawSpans = flushing.rawSpans
      /\ unreportedDropped(flushing') = unreportedDropped(flushing)
      BY <1>0, <1>3 DEF Buffers, unreportedDropped
<1>6. unreportedEncoderErrors(flushing') = unreportedEncoderErrors(flushing) + n
  <2>1. /\ flushing'.logEncoderErrorCount = flushing.logEncoderErrorCount + n
        /\ flushing'.reportedLogEncoderErrorCount = flushing.reportedLogEncoderErrorCount
        BY <1>0, <1>3 DEF Buffers
  <2> QED
      BY <1>1, <1>2, <2>1 DEF unreportedEncoderErrors
<1>7. /\ unreportedDropped(flushing) \in Nat /\ unreportedEncoderErrors(flushing) \in Nat
      /\ unreportedEncoderErrors(buffer) \in Nat
      BY UnreportedTypes DEF Counting
<1>8. WellFormed(flushing')
      BY <1>2, <1>4, <1>5, <1>6, <1>7 DEF Counting, WellFormed
<1>9. /\ ledger.errors \in Nat /\ ledger.toldErrors \in Nat /\ ledger.lostErrors \in Nat
      /\ ledger.errors + n \in Nat /\ ledger.repeats + again \in Nat
      /\ ledger.rejected \cup bad \in SUBSET Spans
  <2>1. /\ ledger.errors \in Nat /\ ledger.toldErrors \in Nat /\ ledger.lostErrors \in Nat
        /\ ledger.repeats \in Nat /\ ledger.rejected \subseteq Spans
        BY LedgerFields DEF Counting
  <2> QED
      BY <1>2, <1>r, <2>1
<1>10. /\ ledger' \in Ledger
       /\ ledger'.dropped = ledger.dropped /\ ledger'.told = ledger.told
       /\ ledger'.lost = ledger.lost
       /\ ledger'.errors = ledger.errors + n
       /\ ledger'.toldErrors = ledger.toldErrors
       /\ ledger'.lostErrors = ledger.lostErrors
  <2>1. PICK e, r, a : /\ e = ledger.errors + n /\ r = ledger.rejected \cup bad
                       /\ a = ledger.repeats + again
                       /\ e \in Nat /\ r \in SUBSET Spans /\ a \in Nat
        BY <1>9
  <2>2. ledger' = [ledger EXCEPT !.errors = e, !.rejected = r, !.repeats = a]
        BY <1>3, <2>1
  <2>3. ledger' \in Ledger
        BY <2>1, <2>2 DEF Counting, Ledger
  <2> QED
      BY <2>1, <2>2, <2>3 DEF Counting, Ledger
<1>11. ledger'.toldErrors + unreportedEncoderErrors(buffer)
         + unreportedEncoderErrors(flushing') + ledger'.lostErrors = ledger'.errors
       BY <1>2, <1>6, <1>7, <1>9, <1>10 DEF Counting
<1> QED
    BY <1>5, <1>8, <1>10, <1>11 DEF Counting

\* A successful flush tells what the flushing buffer had to tell.
LEMMA SentCounts ==
    ASSUME Counting, postFlushSent
    PROVE  Counting'
<1>1. /\ flushing' = newSpansBuffer /\ buffer' = buffer
      /\ ledger' = [ledger EXCEPT
                      !.told = ledger.told + unreportedDropped(flushing),
                      !.toldErrors = ledger.toldErrors + unreportedEncoderErrors(flushing)]
      BY DEF postFlushSent, clear
<1>2. /\ unreportedDropped(buffer) \in Nat /\ unreportedDropped(flushing) \in Nat
      /\ unreportedEncoderErrors(buffer) \in Nat
      /\ unreportedEncoderErrors(flushing) \in Nat
      BY UnreportedTypes DEF Counting
<1>3. /\ ledger.dropped \in Nat /\ ledger.told \in Nat /\ ledger.lost \in Nat
      /\ ledger.errors \in Nat /\ ledger.toldErrors \in Nat /\ ledger.lostErrors \in Nat
      BY LedgerFields DEF Counting
<1>4. /\ ledger'.dropped = ledger.dropped /\ ledger'.lost = ledger.lost
      /\ ledger'.told = ledger.told + unreportedDropped(flushing)
      /\ ledger'.errors = ledger.errors /\ ledger'.lostErrors = ledger.lostErrors
      /\ ledger'.toldErrors = ledger.toldErrors + unreportedEncoderErrors(flushing)
      BY <1>1 DEF Counting, Ledger
<1>5. ledger' \in Ledger
  <2>1. /\ ledger.told + unreportedDropped(flushing) \in Nat
        /\ ledger.toldErrors + unreportedEncoderErrors(flushing) \in Nat
        BY <1>2, <1>3
  <2> QED
      BY <1>1, <2>1 DEF Counting, Ledger
<1>6. ledger'.told + unreportedDropped(buffer) + 0 + ledger'.lost = ledger'.dropped
      BY <1>2, <1>3, <1>4 DEF Counting
<1>7. ledger'.toldErrors + unreportedEncoderErrors(buffer) + 0 + ledger'.lostErrors
        = ledger'.errors
      BY <1>2, <1>3, <1>4 DEF Counting
<1> QED
    BY <1>1, <1>5, <1>6, <1>7, NothingUnreported, NewBufferWellFormed DEF Counting

\* After a translation error the counts of the flushing buffer are lost, and
\* the event tells those of the other buffer.
LEMMA UntranslatableCounts ==
    ASSUME Counting, postFlushUntranslatable
    PROVE  Counting'
<1>1. /\ flushing' = newSpansBuffer /\ buffer' = markReported(buffer)
      /\ ledger' = [ledger EXCEPT
                      !.told = ledger.told + unreportedDropped(buffer),
                      !.toldErrors = ledger.toldErrors + unreportedEncoderErrors(buffer),
                      !.lost = ledger.lost + unreportedDropped(flushing),
                      !.lostErrors = ledger.lostErrors + unreportedEncoderErrors(flushing),
                      !.forfeited = ledger.forfeited + flushing.droppedSpanCount]
      BY DEF postFlushUntranslatable, clear
<1>2. /\ unreportedDropped(buffer) \in Nat /\ unreportedDropped(flushing) \in Nat
      /\ unreportedEncoderErrors(buffer) \in Nat
      /\ unreportedEncoderErrors(flushing) \in Nat
      /\ flushing.droppedSpanCount \in Nat
      BY UnreportedTypes DEF Counting
<1>3. /\ ledger.dropped \in Nat /\ ledger.told \in Nat /\ ledger.lost \in Nat
      /\ ledger.errors \in Nat /\ ledger.toldErrors \in Nat /\ ledger.lostErrors \in Nat
      /\ ledger.forfeited \in Nat
      BY LedgerFields DEF Counting
<1>4. /\ WellFormed(buffer')
      /\ unreportedDropped(buffer') = 0
      /\ unreportedEncoderErrors(buffer') = 0
      BY <1>1, MarkReportedTellsAll DEF Counting
<1>5. /\ ledger'.dropped = ledger.dropped
      /\ ledger'.told = ledger.told + unreportedDropped(buffer)
      /\ ledger'.lost = ledger.lost + unreportedDropped(flushing)
      BY <1>1 DEF Counting, Ledger
<1>6. /\ ledger'.errors = ledger.errors
      /\ ledger'.toldErrors = ledger.toldErrors + unreportedEncoderErrors(buffer)
      /\ ledger'.lostErrors = ledger.lostErrors + unreportedEncoderErrors(flushing)
      BY <1>1 DEF Counting, Ledger
<1>7. ledger' \in Ledger
  <2>1. /\ ledger.told + unreportedDropped(buffer) \in Nat
        /\ ledger.toldErrors + unreportedEncoderErrors(buffer) \in Nat
        /\ ledger.lost + unreportedDropped(flushing) \in Nat
        /\ ledger.lostErrors + unreportedEncoderErrors(flushing) \in Nat
        /\ ledger.forfeited + flushing.droppedSpanCount \in Nat
        BY <1>2, <1>3
  <2> QED
      BY <1>1, <2>1 DEF Counting, Ledger
<1>8. ledger'.told + 0 + 0 + ledger'.lost = ledger'.dropped
      BY <1>2, <1>3, <1>5 DEF Counting
<1>9. ledger'.toldErrors + 0 + 0 + ledger'.lostErrors = ledger'.errors
      BY <1>2, <1>3, <1>6 DEF Counting
<1> QED
    BY <1>1, <1>4, <1>7, <1>8, <1>9, NothingUnreported, NewBufferWellFormed DEF Counting

\* After a failed report the merged buffer tells the counts of both.
LEMMA FailedCounts ==
    ASSUME Counting, postFlushFailed
    PROVE  Counting'
<1> DEFINE merged == mergeFrom(buffer, flushing)
           d == Len(flushing.rawSpans) - (Len(merged.rawSpans) - Len(buffer.rawSpans))
<1>1. /\ flushing' = newSpansBuffer /\ buffer' = markReported(merged)
      /\ ledger' = [ledger EXCEPT
                      !.dropped = ledger.dropped + d,
                      !.told = ledger.told + unreportedDropped(merged),
                      !.toldErrors = ledger.toldErrors + unreportedEncoderErrors(merged)]
      BY DEF postFlushFailed, mergedAway, clear, NotKept
<1>2. /\ unreportedDropped(buffer) \in Nat /\ unreportedDropped(flushing) \in Nat
      /\ unreportedEncoderErrors(buffer) \in Nat
      /\ unreportedEncoderErrors(flushing) \in Nat
      BY UnreportedTypes DEF Counting
<1>3. /\ ledger.dropped \in Nat /\ ledger.told \in Nat /\ ledger.lost \in Nat
      /\ ledger.errors \in Nat /\ ledger.toldErrors \in Nat /\ ledger.lostErrors \in Nat
      BY LedgerFields DEF Counting
<1>4. /\ WellFormed(merged)
      /\ Len(merged.rawSpans) - Len(buffer.rawSpans) \in 0 .. Len(flushing.rawSpans)
      /\ unreportedDropped(merged) = unreportedDropped(buffer) + unreportedDropped(flushing) + d
      /\ unreportedEncoderErrors(merged) =
           unreportedEncoderErrors(buffer) + unreportedEncoderErrors(flushing)
      BY MergeFromCounts DEF Counting
<1>5. d \in Nat
  <2>1. Len(flushing.rawSpans) \in Nat
        BY FieldTypes DEF Counting, WellFormed
  <2>2. \A n \in Nat : \A k \in 0 .. n : n - k \in Nat
        OBVIOUS
  <2> QED
      BY <1>4, <2>1, <2>2
<1> HIDE DEF merged, d
<1>6. /\ WellFormed(buffer')
      /\ unreportedDropped(buffer') = 0
      /\ unreportedEncoderErrors(buffer') = 0
      BY <1>1, <1>4, MarkReportedTellsAll
<1>7. /\ unreportedDropped(merged) \in Nat
      /\ unreportedEncoderErrors(merged) \in Nat
      BY <1>4, UnreportedTypes
<1>8. /\ ledger'.dropped = ledger.dropped + d
      /\ ledger'.told = ledger.told + unreportedDropped(merged)
      /\ ledger'.lost = ledger.lost
      BY <1>1 DEF Counting, Ledger
<1>9. /\ ledger'.errors = ledger.errors
      /\ ledger'.toldErrors = ledger.toldErrors + unreportedEncoderErrors(merged)
      /\ ledger'.lostErrors = ledger.lostErrors
      BY <1>1 DEF Counting, Ledger
<1>10. ledger' \in Ledger
  <2>1. /\ ledger.dropped + d \in Nat
        /\ ledger.told + unreportedDropped(merged) \in Nat
        /\ ledger.toldErrors + unreportedEncoderErrors(merged) \in Nat
        BY <1>3, <1>5, <1>7
  <2> QED
      BY <1>1, <2>1 DEF Counting, Ledger
<1>11. ledger'.told + 0 + 0 + ledger'.lost = ledger'.dropped
  <2>1. unreportedDropped(merged) = unreportedDropped(buffer) + unreportedDropped(flushing) + d
        BY <1>4
  <2>2. ledger.told + unreportedDropped(buffer) + unreportedDropped(flushing) + ledger.lost
          = ledger.dropped
        BY DEF Counting
  <2> QED
      BY <1>2, <1>3, <1>5, <1>8, <2>1, <2>2
<1>12. ledger'.toldErrors + 0 + 0 + ledger'.lostErrors = ledger'.errors
      BY <1>2, <1>3, <1>4, <1>9 DEF Counting
<1> QED
    BY <1>1, <1>6, <1>10, <1>11, <1>12, NothingUnreported, NewBufferWellFormed DEF Counting

\* preFlush exchanges the buffers and changes only their windows.
LEMMA PreFlushCounts ==
    ASSUME ControlOK, Counting, NEW p \in Procs, PreFlush(p)
    PROVE  Counting'
<1>1. now \in Nat
      BY TracerAssumption DEF ControlOK, now
<1>2. /\ buffer' = setCurrent(flushing, now)
      /\ flushing' = setFlushing(buffer, now)
      /\ ledger' = ledger
      BY DEF PreFlush, history
<1>3. /\ WellFormed(buffer') /\ WellFormed(flushing')
      /\ unreportedDropped(buffer') = unreportedDropped(flushing)
      /\ unreportedDropped(flushing') = unreportedDropped(buffer)
      /\ unreportedEncoderErrors(buffer') = unreportedEncoderErrors(flushing)
      /\ unreportedEncoderErrors(flushing') = unreportedEncoderErrors(buffer)
      BY <1>1, <1>2, WindowOnly DEF Counting
<1>4. /\ unreportedDropped(buffer) \in Nat /\ unreportedDropped(flushing) \in Nat
      /\ unreportedEncoderErrors(buffer) \in Nat
      /\ unreportedEncoderErrors(flushing) \in Nat
      /\ ledger.told \in Nat /\ ledger.toldErrors \in Nat
      BY UnreportedTypes, LedgerFields DEF Counting
<1> QED
    BY <1>2, <1>3, <1>4 DEF Counting

\* The steps that change the data, and that all the others leave it alone.
LEMMA DataSteps ==
    ASSUME Next
    PROVE  \/ \E s \in Spans : RecordSpan(s)
           \/ Disable
           \/ \E p \in Procs : \/ PreFlush(p)
                               \/ MetaCreate(p)
                               \/ Translate(p)
                               \/ TranslateFails(p)
                               \/ \E delivered \in BOOLEAN : ReportFails(p, delivered)
                               \/ \E errs, disables \in BOOLEAN, devMode \in DevModes :
                                     Respond(p, errs, disables, devMode)
                               \/ DisableCommand(p)
                               \/ PostFlush(p)
           \/ \E p \in Callers, deadline \in BOOLEAN : CloseBegin(p, deadline)
           \/ UNCHANGED << bufferVars, request, reportInFlight, disabled, clock, fate,
                           received, ledger, covered, beforeClose >>
<1> DEFINE Same == UNCHANGED << bufferVars, request, reportInFlight, disabled, clock,
                                fate, received, ledger, covered, beforeClose >>
<1> USE DEF bufferVars, flushVars, history
<1>1. Tick \/ LoopTick \/ LoopAgain \/ ConnectClientFails => Same
      BY DEF Tick, LoopTick, LoopAgain, ConnectClientFails
<1>2. SwapConnection \/ CloseOldConnection \/ LoopClosed => Same
      BY DEF SwapConnection, CloseOldConnection, LoopClosed
<1>3. \A c \in Conns : ConnectClient(c) => Same
      BY DEF ConnectClient
<1>4. \A p \in Procs : PreFlushRefused(p) \/ Report(p) => Same
      BY DEF PreFlushRefused, Report
<1>5. \A p \in Callers : FlushCall(p) \/ CloseCall(p) \/ CloseAgain(p) => Same
      BY DEF FlushCall, CloseCall, CloseAgain
<1>6. \A p \in Callers : CloseFlush(p) \/ CloseDeadline(p) => Same
      BY DEF CloseFlush, CloseDeadline
<1>7. \A p \in Callers : CloseSwap(p) \/ CloseConnection(p) => Same
      BY DEF CloseSwap, CloseConnection
<1> HIDE DEF Same
<1>8. \/ \E s \in Spans : RecordSpan(s)
      \/ Disable
      \/ \E p \in Procs : \/ PreFlush(p)
                          \/ MetaCreate(p)
                          \/ Translate(p)
                          \/ TranslateFails(p)
                          \/ \E delivered \in BOOLEAN : ReportFails(p, delivered)
                          \/ \E errs, disables \in BOOLEAN, devMode \in DevModes :
                                Respond(p, errs, disables, devMode)
                          \/ DisableCommand(p)
                          \/ PostFlush(p)
      \/ \E p \in Callers, deadline \in BOOLEAN : CloseBegin(p, deadline)
      \/ Same
      BY NextCases, <1>1, <1>2, <1>3, <1>4, <1>5, <1>6, <1>7
<1> QED
    BY <1>8 DEF Same

\* A flush ends in one of three ways.
LEMMA PostFlushCases ==
    ASSUME NEW p \in Procs, PostFlush(p)
    PROVE  postFlushSent \/ postFlushUntranslatable \/ postFlushFailed
BY DEF PostFlush

\* No step breaks the accounting.
LEMMA CountStep ==
    ASSUME ControlOK, Counting, Next
    PROVE  Counting'
<1>1. ASSUME NEW s \in Spans, RecordSpan(s)
      PROVE  Counting'
      BY <1>1, RecordCounts DEF RecordSpan
<1>2. ASSUME Disable
      PROVE  Counting'
      BY <1>2, DisableCounts DEF Disable
<1>3. ASSUME NEW p \in Procs, PreFlush(p)
      PROVE  Counting'
      BY <1>3, PreFlushCounts
<1>4. ASSUME NEW p \in Procs, MetaCreate(p)
      PROVE  Counting'
  <2>1. MetaSpan \in Spans
        BY TracerAssumption
  <2> QED
      BY <1>4, <2>1, RecordCounts DEF MetaCreate
<1>5. ASSUME NEW p \in Procs, Translate(p) \/ TranslateFails(p)
      PROVE  Counting'
      BY <1>5, ConversionCounts DEF Translate, TranslateFails
<1>6. ASSUME NEW p \in Procs, NEW delivered \in BOOLEAN, ReportFails(p, delivered)
      PROVE  Counting'
      BY <1>6 DEF ReportFails, Counting, bufferVars
<1>7. ASSUME NEW p \in Procs, NEW errs \in BOOLEAN, NEW disables \in BOOLEAN,
             NEW devMode \in DevModes, Respond(p, errs, disables, devMode)
      PROVE  Counting'
  <2>1. /\ buffer' = buffer /\ flushing' = flushing
        /\ \/ ledger' = ledger
           \/ ledger' = [ledger EXCEPT !.collected =
                           ledger.collected + flushing.droppedSpanCount]
        BY <1>7 DEF Respond, bufferVars
  <2>2. ledger \in Ledger /\ ledger.collected \in Nat /\ flushing.droppedSpanCount \in Nat
        BY UnreportedTypes, LedgerFields DEF Counting
  <2>3. ledger.collected + flushing.droppedSpanCount \in Nat
        BY <2>2
  <2>4. /\ ledger' \in Ledger
        /\ ledger'.told = ledger.told /\ ledger'.lost = ledger.lost
        /\ ledger'.dropped = ledger.dropped /\ ledger'.errors = ledger.errors
        /\ ledger'.toldErrors = ledger.toldErrors
        /\ ledger'.lostErrors = ledger.lostErrors
        BY <2>1, <2>2, <2>3 DEF Ledger
  <2> QED
      BY <2>1, <2>4 DEF Counting
<1>8. ASSUME NEW p \in Procs, DisableCommand(p)
      PROVE  Counting'
      BY <1>8, DisableCounts DEF DisableCommand
<1>9. ASSUME NEW p \in Procs, PostFlush(p)
      PROVE  Counting'
      BY <1>9, PostFlushCases, SentCounts, UntranslatableCounts, FailedCounts
<1>10. ASSUME NEW p \in Callers, NEW deadline \in BOOLEAN, CloseBegin(p, deadline)
       PROVE  Counting'
       BY <1>10 DEF CloseBegin, Counting, bufferVars
<1>11. ASSUME UNCHANGED << bufferVars, ledger >>
       PROVE  Counting'
       BY <1>11 DEF Counting, bufferVars
<1> QED
    BY <1>1, <1>2, <1>3, <1>4, <1>5, <1>6, <1>7, <1>8, <1>9, <1>10, <1>11, DataSteps

-----------------------------------------------------------------------------
(***************************************************************************)
(* The other data                                                          *)
(***************************************************************************)

\* A sequence of spans is made of spans.
LEMMA SeqOfSpans ==
    ASSUME NEW q \in Seq(Spans)
    PROVE  {q[i] : i \in DOMAIN q} \subseteq Spans
BY ElementOfSeq, LenProperties

\* The part in hand and the parts left, when there is one in hand.
LEMMA PartTypes ==
    ASSUME request \in Seq(Seq(Spans)), request # << >>
    PROVE  partSpans \subseteq Spans /\ Tail(request) \in Seq(Seq(Spans))
<1>1. Head(request) \in Seq(Spans) /\ Tail(request) \in Seq(Seq(Spans))
      BY HeadTailProperties
<1> QED
    BY <1>1, SeqOfSpans DEF partSpans

\* The rest of DataOK, besides the buffers and the ledger.
RestOK ==
    /\ request \in Seq(Seq(Spans))
    /\ fate \in [Spans -> {"new", "ignored", "held", "sent", "dropped", "discarded"}]
    /\ received \subseteq Spans
    /\ covered \in Nat
    /\ beforeClose \subseteq Spans

\* No step takes the rest of the data out of its type.
LEMMA RestStep ==
    ASSUME Counting, RestOK, RequestPending, Next
    PROVE  RestOK'
<1>0. /\ buffer \in Buffers /\ flushing \in Buffers
      /\ buffer.rawSpans \in Seq(Spans) /\ flushing.rawSpans \in Seq(Spans)
      /\ flushing.reportEnd \in Nat
      BY FieldTypes DEF Counting, WellFormed
<1>1. << >> \in Seq(Seq(Spans))
      OBVIOUS
<1> USE DEF RestOK
<1>2. ASSUME NEW s \in Spans, RecordSpan(s)
      PROVE  RestOK'
      BY <1>2 DEF RecordSpan, record, flushVars
<1>3. ASSUME Disable
      PROVE  RestOK'
      BY <1>3 DEF Disable, disable, flushVars
<1>4. ASSUME NEW p \in Procs, PreFlush(p)
      PROVE  RestOK'
      BY <1>4 DEF PreFlush, history
<1>5. ASSUME NEW p \in Procs, MetaCreate(p)
      PROVE  RestOK'
      BY <1>5, TracerAssumption DEF MetaCreate, record, flushVars
<1>6. ASSUME NEW p \in Procs, Translate(p)
      PROVE  RestOK'
      BY <1>0, <1>6, RequestPartsType DEF Translate
<1>7. ASSUME NEW p \in Procs, TranslateFails(p)
      PROVE  RestOK'
      BY <1>1, <1>7 DEF TranslateFails
<1>8. ASSUME NEW p \in Procs, NEW delivered \in BOOLEAN, ReportFails(p, delivered)
      PROVE  RestOK'
  <2>1. partSpans \subseteq Spans
        BY <1>8, PartTypes DEF ReportFails, RequestPending
  <2> QED
      BY <1>1, <1>8, <2>1 DEF ReportFails
<1>9. ASSUME NEW p \in Procs, NEW errs \in BOOLEAN, NEW disables \in BOOLEAN,
             NEW devMode \in DevModes, Respond(p, errs, disables, devMode)
      PROVE  RestOK'
  <2>1. partSpans \subseteq Spans /\ Tail(request) \in Seq(Seq(Spans))
        BY <1>9, PartTypes DEF Respond, RequestPending
  <2>2. request' = << >> \/ request' = Tail(request)
        BY <1>9 DEF Respond
  <2>3. received' = received \/ received' = received \cup partSpans
        BY <1>9 DEF Respond
  <2>4. UNCHANGED << fate, covered, beforeClose >>
        BY <1>9 DEF Respond
  <2> QED
      BY <1>1, <2>1, <2>2, <2>3, <2>4
<1>10. ASSUME NEW p \in Procs, DisableCommand(p)
       PROVE  RestOK'
       BY <1>10 DEF DisableCommand, disable, flushVars
<1>11. ASSUME NEW p \in Procs, PostFlush(p)
       PROVE  RestOK'
  <2>1. UNCHANGED << request, received, beforeClose >>
        BY <1>11 DEF PostFlush
  <2>2. postFlushSent \/ postFlushUntranslatable \/ postFlushFailed
        BY <1>11, PostFlushCases
  <2> QED
      BY <1>0, <2>1, <2>2
      DEF postFlushSent, postFlushUntranslatable, postFlushFailed
<1>12. ASSUME NEW p \in Callers, NEW deadline \in BOOLEAN, CloseBegin(p, deadline)
       PROVE  RestOK'
  <2>1. Held \subseteq Spans
        BY <1>0, SeqOfSpans DEF Held, SpansOf
  <2> QED
      BY <1>12, <2>1 DEF CloseBegin, flushVars
<1>13. ASSUME UNCHANGED << request, fate, received, covered, beforeClose >>
       PROVE  RestOK'
       BY <1>13
<1> QED
    BY <1>2, <1>3, <1>4, <1>5, <1>6, <1>7, <1>8, <1>9, <1>10, <1>11, <1>12, <1>13,
       DataSteps

-----------------------------------------------------------------------------
(***************************************************************************)
(* What depends on the flushing lock                                       *)
(***************************************************************************)

\* A goroutine with a part to send has one.
LEMMA RequestStep ==
    ASSUME ControlOK, Counting, FlushExclusive, RequestPending, Next
    PROVE  RequestPending'
<1>0. flushing.rawSpans \in Seq(Spans)
      BY FieldTypes DEF Counting, WellFormed
<1>1. ASSUME NEW p \in Procs, Translate(p)
      PROVE  RequestPending'
      BY <1>0, <1>1, RequestPartsType DEF Translate, RequestPending
<1>2. ASSUME NEW p \in Procs, InFlight(p),
             pc' = [pc EXCEPT ![p] = pc'[p]],
             pc'[p] \in {"report", "await"} => request' # << >>
      PROVE  RequestPending'
      BY <1>2 DEF ControlOK, FlushExclusive, RequestPending, InFlight
<1>3. ASSUME request' = request,
             \A p \in Procs : pc'[p] \in {"report", "await"} => pc[p] \in {"report", "await"}
      PROVE  RequestPending'
      BY <1>3 DEF RequestPending
<1>4. ASSUME NEW p \in Procs,
             \/ TranslateFails(p)
             \/ \E delivered \in BOOLEAN : ReportFails(p, delivered)
             \/ \E errs, disables \in BOOLEAN, devMode \in DevModes :
                   Respond(p, errs, disables, devMode)
             \/ DisableCommand(p)
      PROVE  RequestPending'
  <2>1. InFlight(p)
        BY <1>4 DEF InFlight, TranslateFails, ReportFails, Respond, DisableCommand
  <2>2. pc' = [pc EXCEPT ![p] = pc'[p]]
        BY <1>4 DEF ControlOK, TranslateFails, ReportFails, Respond, DisableCommand
  <2>3. pc'[p] \in {"report", "await"} => request' # << >>
        BY <1>4 DEF ControlOK, TranslateFails, ReportFails, Respond, DisableCommand,
                    afterPart, flushVars
  <2> QED
      BY <1>2, <2>1, <2>2, <2>3
<1> USE DEF Procs, ControlOK, flushVars
<1>5. ASSUME \/ \E s \in Spans : RecordSpan(s)
             \/ Disable
             \/ Tick
      PROVE  RequestPending'
      BY <1>3, <1>5 DEF RecordSpan, Disable, Tick
<1>6. ASSUME \/ LoopTick \/ LoopAgain \/ ConnectClientFails
             \/ \E c \in Conns : ConnectClient(c)
      PROVE  RequestPending'
  <2>1. /\ request' = request
        /\ pc' = [pc EXCEPT ![ReportLoop] = pc'[ReportLoop]]
        /\ pc'[ReportLoop] \notin {"report", "await"}
        BY <1>6 DEF LoopTick, LoopAgain, ConnectClientFails, ConnectClient
  <2> QED
      BY <1>3, <2>1
<1>7. ASSUME SwapConnection \/ CloseOldConnection \/ LoopClosed
      PROVE  RequestPending'
      BY <1>3, <1>7 DEF SwapConnection, CloseOldConnection, LoopClosed
<1>8. ASSUME NEW p \in Procs,
             PreFlushRefused(p) \/ PreFlush(p) \/ MetaCreate(p) \/ Report(p) \/ PostFlush(p)
      PROVE  RequestPending'
  <2>1. /\ request' = request
        /\ pc' = [pc EXCEPT ![p] = pc'[p]]
        BY <1>8 DEF PreFlushRefused, PreFlush, MetaCreate, Report, PostFlush
  <2>2. pc'[p] \in {"report", "await"} => pc[p] \in {"report", "await"}
        BY <1>8 DEF PreFlushRefused, PreFlush, MetaCreate, Report, PostFlush, afterFlush
  <2> QED
      BY <1>3, <2>1, <2>2
<1>9. ASSUME NEW p \in Callers,
             \/ FlushCall(p) \/ CloseCall(p) \/ CloseAgain(p) \/ CloseFlush(p)
             \/ CloseDeadline(p) \/ CloseSwap(p) \/ CloseConnection(p)
             \/ \E deadline \in BOOLEAN : CloseBegin(p, deadline)
      PROVE  RequestPending'
  <2>1. /\ request' = request
        /\ pc' = [pc EXCEPT ![p] = pc'[p]]
        /\ pc'[p] \notin {"report", "await"}
        BY <1>9 DEF FlushCall, CloseCall, CloseAgain, CloseFlush, closeWaited,
                    CloseDeadline, CloseSwap, CloseConnection, CloseBegin
  <2> QED
      BY <1>3, <2>1
<1> QED
    BY <1>1, <1>4, <1>5, <1>6, <1>7, <1>8, <1>9, NextCases

\* A flush that ends leaves the flushing buffer empty, and only a flush that
\* holds the lock fills it.
LEMMA EmptyStep ==
    ASSUME ControlOK, FlushExclusive, FlushingEmptyBetweenFlushes, Next
    PROVE  FlushingEmptyBetweenFlushes'
<1>1. ASSUME NEW p \in Procs, PostFlush(p)
      PROVE  flushing' = newSpansBuffer
      BY <1>1, PostFlushCases
      DEF postFlushSent, postFlushUntranslatable, postFlushFailed, mergedAway, clear
<1>2. ASSUME NEW p \in Procs, PreFlush(p)
      PROVE  flushingLock' # NoProc
      BY <1>2, TracerAssumption DEF PreFlush
<1>3. ASSUME NEW p \in Procs, Translate(p) \/ TranslateFails(p)
      PROVE  flushingLock' # NoProc
  <2>1. flushingLock = p
        BY <1>3 DEF FlushExclusive, InFlight, Translate, TranslateFails
  <2> QED
      BY <1>3, <2>1, TracerAssumption DEF Translate, TranslateFails
<1>4. ASSUME \/ \E s \in Spans : RecordSpan(s)
             \/ Disable
             \/ \E p \in Procs : \/ MetaCreate(p)
                                 \/ DisableCommand(p)
                                 \/ Report(p)
                                 \/ PreFlushRefused(p)
                                 \/ \E delivered \in BOOLEAN : ReportFails(p, delivered)
                                 \/ \E errs, disables \in BOOLEAN, devMode \in DevModes :
                                       Respond(p, errs, disables, devMode)
      PROVE  flushing' = flushing /\ (flushingLock' = NoProc => flushingLock = NoProc)
      BY <1>4 DEF RecordSpan, Disable, MetaCreate, DisableCommand, Report, ReportFails,
                  Respond, PreFlushRefused, lockFree, flushVars, bufferVars
<1>5. ASSUME \/ Tick \/ LoopTick \/ LoopAgain \/ ConnectClientFails
             \/ SwapConnection \/ CloseOldConnection \/ LoopClosed
             \/ \E c \in Conns : ConnectClient(c)
      PROVE  flushing' = flushing /\ flushingLock' = flushingLock
      BY <1>5 DEF Tick, LoopTick, LoopAgain, ConnectClientFails, SwapConnection,
                  CloseOldConnection, LoopClosed, ConnectClient, flushVars, bufferVars
<1>6. ASSUME NEW p \in Callers,
             \/ FlushCall(p) \/ CloseCall(p) \/ CloseAgain(p) \/ CloseFlush(p)
             \/ CloseDeadline(p) \/ CloseSwap(p) \/ CloseConnection(p)
             \/ \E deadline \in BOOLEAN : CloseBegin(p, deadline)
      PROVE  flushing' = flushing /\ flushingLock' = flushingLock
      BY <1>6 DEF FlushCall, CloseCall, CloseAgain, CloseFlush, CloseDeadline, CloseSwap,
                  CloseConnection, CloseBegin, flushVars, bufferVars
<1> QED
    BY <1>1, <1>2, <1>3, <1>4, <1>5, <1>6, NextCases DEF FlushingEmptyBetweenFlushes

-----------------------------------------------------------------------------
(***************************************************************************)
(* The report windows                                                      *)
(***************************************************************************)

\* The steps that change a window are those of preFlush, postFlush and Disable.
LEMMA WindowStep ==
    ASSUME ControlOK, Counting, RestOK, FlushExclusive, WindowsTile, WindowsOrdered, Next
    PROVE  WindowsTile' /\ WindowsOrdered'
<1>0. /\ buffer \in Buffers /\ flushing \in Buffers
      /\ WellFormed(buffer) /\ WellFormed(flushing)
      BY DEF Counting, WellFormed
<1>1. /\ buffer.reportStart \in Nat /\ flushing.reportStart \in Nat
      /\ flushing.reportEnd \in Nat /\ covered \in Nat
      /\ clock \in Nat /\ now \in Nat /\ clock <= now
      BY <1>0, FieldTypes, TracerAssumption DEF RestOK, ControlOK, now
<1>2. ASSUME \/ disabled'
             \/ /\ UNCHANGED << reportInFlight, disabled, clock, covered >>
                /\ buffer'.reportStart = buffer.reportStart
                /\ flushing'.reportStart = flushing.reportStart
                /\ flushing'.reportEnd = flushing.reportEnd
      PROVE  WindowsTile' /\ WindowsOrdered'
      BY <1>2 DEF WindowsTile, WindowsOrdered
<1>3. ASSUME NEW s \in Spans, record(s)
      PROVE  buffer'.reportStart = buffer.reportStart
      BY <1>0, <1>3, AddSpanCounts, ZenonT(40) DEF record
<1>4. ASSUME NEW s \in Spans, RecordSpan(s)
      PROVE  WindowsTile' /\ WindowsOrdered'
      BY <1>2, <1>3, <1>4 DEF RecordSpan, flushVars
<1>5. ASSUME NEW p \in Procs, MetaCreate(p)
      PROVE  WindowsTile' /\ WindowsOrdered'
      BY <1>2, <1>3, <1>5, TracerAssumption DEF MetaCreate, flushVars
<1>6. ASSUME Disable \/ \E p \in Procs : DisableCommand(p)
      PROVE  WindowsTile' /\ WindowsOrdered'
      BY <1>2, <1>6 DEF Disable, DisableCommand, disable, flushVars
<1>7. ASSUME NEW p \in Procs, Translate(p) \/ TranslateFails(p)
      PROVE  WindowsTile' /\ WindowsOrdered'
  <2>1. /\ flushing'.reportStart = flushing.reportStart
        /\ flushing'.reportEnd = flushing.reportEnd
        BY <1>0, <1>7 DEF Translate, TranslateFails, countEncoderErrors, Buffers
  <2> QED
      BY <1>2, <1>7, <2>1 DEF Translate, TranslateFails
<1>8. ASSUME NEW p \in Procs, NEW delivered \in BOOLEAN, ReportFails(p, delivered)
      PROVE  WindowsTile' /\ WindowsOrdered'
      BY <1>2, <1>8 DEF ReportFails, bufferVars
<1>9. ASSUME NEW p \in Procs, NEW errs \in BOOLEAN, NEW disables \in BOOLEAN,
             NEW devMode \in DevModes, Respond(p, errs, disables, devMode)
      PROVE  WindowsTile' /\ WindowsOrdered'
      BY <1>2, <1>9 DEF Respond, bufferVars
<1>10. ASSUME NEW p \in Procs, PreFlush(p)
       PROVE  WindowsTile' /\ WindowsOrdered'
  <2>1. ~reportInFlight /\ ~disabled
        BY <1>10 DEF PreFlush, lockFree, FlushExclusive
  <2>2. buffer.reportStart = covered /\ covered <= clock
        BY <2>1 DEF WindowsTile, WindowsOrdered
  <2>3. /\ buffer'.reportStart = now
        /\ flushing'.reportStart = buffer.reportStart
        /\ flushing'.reportEnd = now
        BY <1>0, <1>1, <1>10, WindowOnly DEF PreFlush
  <2>4. clock' = now /\ covered' = covered /\ reportInFlight'
        BY <1>10 DEF PreFlush, history
  <2> QED
      BY <1>1, <2>2, <2>3, <2>4 DEF WindowsTile, WindowsOrdered
<1>11. ASSUME NEW p \in Procs, PostFlush(p)
       PROVE  WindowsTile' /\ WindowsOrdered'
  <2>1. /\ reportInFlight /\ ~reportInFlight'
        /\ clock' = clock /\ disabled' = disabled
        BY <1>11, TracerAssumption DEF PostFlush, FlushExclusive, InFlight
  <2>2. SUFFICES ASSUME ~disabled
                 PROVE  buffer'.reportStart = covered' /\ covered' <= clock
        BY <2>1 DEF WindowsTile, WindowsOrdered
  <2>3. /\ flushing.reportStart = covered /\ buffer.reportStart = flushing.reportEnd
        /\ covered <= clock /\ covered <= flushing.reportEnd
        /\ flushing.reportEnd <= clock
        BY <2>1, <2>2 DEF WindowsTile, WindowsOrdered
  <2>4. CASE postFlushSent
        BY <2>3, <2>4 DEF postFlushSent
  <2>5. CASE postFlushUntranslatable
        BY <1>0, <2>3, <2>5, MarkReportedTellsAll DEF postFlushUntranslatable
  <2>6. CASE postFlushFailed
    <3> DEFINE merged == mergeFrom(buffer, flushing)
    <3>1. WellFormed(merged)
          BY <1>0, MergeFromCounts
    <3>2. merged.reportStart = mergeStart(buffer, flushing)
          BY DEF mergeFrom
    <3>3. buffer' = markReported(merged) /\ covered' = covered
          BY <2>6 DEF postFlushFailed
    <3> HIDE DEF merged
    <3>4. buffer'.reportStart = mergeStart(buffer, flushing)
          BY <3>1, <3>2, <3>3, MarkReportedTellsAll
    <3>5. mergeStart(buffer, flushing) = covered
          BY <1>1, <2>3 DEF mergeStart
    <3> QED
        BY <2>3, <3>3, <3>4, <3>5
  <2> QED
      BY <1>11, <2>4, <2>5, <2>6, PostFlushCases
<1>12. ASSUME NEW p \in Callers, NEW deadline \in BOOLEAN, CloseBegin(p, deadline)
       PROVE  WindowsTile' /\ WindowsOrdered'
       BY <1>2, <1>12 DEF CloseBegin, bufferVars, flushVars
<1>13. ASSUME UNCHANGED << bufferVars, reportInFlight, disabled, clock, covered >>
       PROVE  WindowsTile' /\ WindowsOrdered'
       BY <1>2, <1>13 DEF bufferVars
<1> QED
    BY <1>4, <1>5, <1>6, <1>7, <1>8, <1>9, <1>10, <1>11, <1>12, <1>13, DataSteps

-----------------------------------------------------------------------------
(***************************************************************************)
(* The theorems                                                            *)
(***************************************************************************)

\* The invariant in the terms of the step lemmas.
LEMMA IInvParts ==
    IInv <=> /\ ControlOK /\ Counting /\ RestOK /\ FlushExclusive /\ RequestPending
             /\ FlushingEmptyBetweenFlushes /\ WindowsTile /\ WindowsOrdered
BY DEF IInv, TypeOK, DataOK, DropsAccounted, EncoderErrorsTold, Counting,
       WellFormed, RestOK

\* CreateTracer establishes the invariant.
LEMMA InitInv ==
    ASSUME Init
    PROVE  IInv
<1>1. ControlOK
  <2>1. pc \in [Procs -> Places] /\ clock \in 1 .. MaxClock /\ age \in 0 .. PeriodTicks
        BY TracerAssumption DEF Init, Places
  <2>2. /\ connection \in Conns /\ clientConn \in Conns /\ open \subseteq Conns
        /\ wire = NoConn /\ held = NoConn /\ taken = NoConn
        BY DEF Init
  <2>3. /\ reportInFlight \in BOOLEAN /\ disabled \in BOOLEAN /\ tick \in BOOLEAN
        /\ reconnect \in BOOLEAN /\ closeDone \in BOOLEAN /\ closeDeadline \in BOOLEAN
        /\ reportLoopClosed \in BOOLEAN /\ firstReportHasRun \in BOOLEAN
        BY DEF Init
  <2>4. metaEventReportingEnabled \in BOOLEAN
        BY TracerAssumption, Zenon DEF Init
  <2>5. /\ flushingLock = NoProc /\ closer = NoProc /\ failures = 0
        /\ flushErr = "none" /\ closeResult = "none"
        BY DEF Init
  <2> QED
      BY <2>1, <2>2, <2>3, <2>4, <2>5 DEF ControlOK
<1>2. WellFormed(buffer) /\ WellFormed(flushing)
      BY NewBufferWellFormed, WindowOnly DEF Init
<1>3. /\ unreportedDropped(buffer) = 0 /\ unreportedEncoderErrors(buffer) = 0
      /\ unreportedDropped(flushing) = 0 /\ unreportedEncoderErrors(flushing) = 0
      BY NewBufferWellFormed, WindowOnly, NothingUnreported DEF Init
<1>4. Counting
  <2>1. ledger \in Ledger
        BY DEF Init, Ledger
  <2>2. /\ ledger.told + 0 + 0 + ledger.lost = ledger.dropped
        /\ ledger.toldErrors + 0 + 0 + ledger.lostErrors = ledger.errors
        BY DEF Init
  <2> QED
      BY <1>2, <1>3, <2>1, <2>2 DEF Counting
<1>5. RestOK
      BY DEF Init, RestOK
<1>6. FlushExclusive /\ RequestPending /\ FlushingEmptyBetweenFlushes
      BY TracerAssumption
      DEF Init, FlushExclusive, InFlight, RequestPending, FlushingEmptyBetweenFlushes, Procs
<1>7. WindowsTile /\ WindowsOrdered
  <2>1. buffer.reportStart = 1
        BY NewBufferWellFormed, WindowOnly DEF Init
  <2> QED
      BY <2>1 DEF Init, WindowsTile, WindowsOrdered
<1> QED
    BY <1>1, <1>4, <1>5, <1>6, <1>7, IInvParts

\* Every step of every goroutine preserves it.
LEMMA StepInv ==
    ASSUME IInv, [Next]_vars
    PROVE  IInv'
<1> USE DEF vars, bufferVars, flushVars, connVars, loopVars, closeVars, metaVars, history
<1>1. /\ ControlOK /\ Counting /\ RestOK /\ FlushExclusive /\ RequestPending
      /\ FlushingEmptyBetweenFlushes /\ WindowsTile /\ WindowsOrdered
      BY IInvParts
<1>2. CASE Next
  <2>1. /\ ControlOK' /\ Counting' /\ RestOK' /\ FlushExclusive' /\ RequestPending'
        /\ FlushingEmptyBetweenFlushes' /\ WindowsTile' /\ WindowsOrdered'
        BY <1>1, <1>2, ControlStep, CountStep, RestStep, LockStep, RequestStep,
           EmptyStep, WindowStep
  <2> QED
      BY <2>1, IInvParts, PTL
<1>3. CASE UNCHANGED vars
  <2>1. ControlOK'
        BY <1>1, <1>3 DEF ControlOK
  <2>2. Counting'
        BY <1>1, <1>3 DEF Counting
  <2>3. RestOK' /\ RequestPending' /\ FlushingEmptyBetweenFlushes'
        BY <1>1, <1>3 DEF RestOK, RequestPending, FlushingEmptyBetweenFlushes
  <2>4. FlushExclusive' /\ WindowsTile' /\ WindowsOrdered'
        BY <1>1, <1>3 DEF FlushExclusive, InFlight, WindowsTile, WindowsOrdered
  <2> QED
      BY <2>1, <2>2, <2>3, <2>4, IInvParts, PTL
<1> QED
    BY <1>2, <1>3

\* The invariant holds in every state of the tracer.
THEOREM Invariance == Spec => []IInv
BY InitInv, StepInv, PTL DEF Spec

\* In every behaviour of the tracer every variable keeps its type and no
\* buffer outgrows MaxBufferedSpans, merging failed reports included.
THEOREM TypeCorrect == Spec => []TypeOK
<1>1. IInv => TypeOK
      BY DEF IInv
<1> QED
    BY <1>1, Invariance, PTL

\* The drop counts of reportBuffer add up: every dropped span is told by a
\* status report event, waits in a buffer, or was cleared, exactly once.
THEOREM DropAccounting == Spec => []DropsAccounted
<1>1. IInv => DropsAccounted
      BY DEF IInv
<1> QED
    BY <1>1, Invariance, PTL

\* At most one goroutine is between preFlush and postFlush, and
\* reportInFlight says whether one is.
THEOREM FlushExclusion == Spec => []FlushExclusive
<1>1. IInv => FlushExclusive
      BY DEF IInv
<1> QED
    BY <1>1, Invariance, PTL

\* preFlush always swaps in an empty buffer.
THEOREM FlushingEmpty == Spec => []FlushingEmptyBetweenFlushes
<1>1. IInv => FlushingEmptyBetweenFlushes
      BY DEF IInv
<1> QED
    BY <1>1, Invariance, PTL

\* The windows of the reports follow each other without gap or overlap, through
\* any number of failed reports.
THEOREM WindowTiling == Spec => []WindowsTile
<1>1. IInv => WindowsTile
      BY DEF IInv
<1> QED
    BY <1>1, Invariance, PTL

-----------------------------------------------------------------------------
(***************************************************************************)
(* Who owns the tracer's connections: reconnectClient and Close, run by    *)
(* different goroutines around the flushes of any number of others, leak   *)
(* none and never bring one back.                                          *)
(***************************************************************************)

\* closeOnce lets one goroutine in, which stays the closer until it is done.
OneCloser ==
    /\ \A p \in Callers : pc[p] \in {"closeWait", "closeSwap", "closeConn"}
                             => closer = p /\ ~closeDone
    /\ pc[ReportLoop] \notin {"closeWait", "closeSwap", "closeConn", "idle", "once"}
    /\ closer = NoProc => ~closeDone

\* Close goes past its wait only when the report loop has ended.
CloserWaited ==
    /\ closer # NoProc /\ ~closeDone /\ pc[closer] # "closeWait" => reportLoopClosed
    /\ reportLoopClosed => pc[ReportLoop] = "returned"

\* Only such a Close gives the tracer's connection up, before it closes it.
GivenUp ==
    /\ connection = NoConn => pc[ReportLoop] = "returned"
    /\ (\E p \in Callers : pc[p] = "closeConn") => connection = NoConn
    /\ (\A p \in Callers : pc[p] # "closeConn") => taken = NoConn

\* reconnectClient holds a second connection between connecting and closing.
LoopHolds ==
    IF pc[ReportLoop] \in {"swap", "closeOld"}
    THEN held \in open /\ held # connection
    ELSE held = NoConn

ConnInv ==
    /\ ControlOK
    /\ OneCloser
    /\ CloserWaited
    /\ GivenUp
    /\ LoopHolds
    /\ ConnectionsOwned

-----------------------------------------------------------------------------
FlushPlaces == {"flush", "meta", "convert", "report", "await", "disable", "post"}

\* What the ownership of connections is about.
ownership == << connection, clientConn, open, held, closer, closeDone, taken,
                reportLoopClosed >>

\* Flush moves its own goroutine and leaves the connections alone.
LEMMA FlushMoves ==
    ASSUME ControlOK, NEW p \in Procs, FlushStep(p)
    PROVE  /\ UNCHANGED ownership
           /\ pc[p] \in FlushPlaces
           /\ \E place \in FlushPlaces \cup {afterFlush(p)} :
                 pc' = [pc EXCEPT ![p] = place]
<1> USE DEF ownership, FlushPlaces, connVars, loopVars, closeVars
<1>1. CASE PreFlushRefused(p)
      BY <1>1 DEF PreFlushRefused
<1>2. CASE PreFlush(p)
      BY <1>2 DEF PreFlush
<1>3. CASE MetaCreate(p)
      BY <1>3 DEF MetaCreate
<1>4. CASE Translate(p) \/ TranslateFails(p)
      BY <1>4 DEF Translate, TranslateFails
<1>5. CASE Report(p)
      BY <1>5 DEF Report
<1>6. ASSUME NEW delivered \in BOOLEAN, ReportFails(p, delivered)
      PROVE  /\ UNCHANGED ownership
             /\ pc[p] \in FlushPlaces
             /\ pc' = [pc EXCEPT ![p] = "post"]
      BY <1>6 DEF ReportFails
<1>7. ASSUME NEW errs \in BOOLEAN, NEW disables \in BOOLEAN, NEW devMode \in DevModes,
             Respond(p, errs, disables, devMode)
      PROVE  /\ UNCHANGED ownership
             /\ pc[p] \in FlushPlaces
             /\ \E place \in FlushPlaces : pc' = [pc EXCEPT ![p] = place]
      BY <1>7 DEF Respond, afterPart
<1>8. CASE DisableCommand(p)
      BY <1>8 DEF DisableCommand, afterPart
<1>9. CASE PostFlush(p)
      BY <1>9 DEF PostFlush
<1> QED
    BY <1>1, <1>2, <1>3, <1>4, <1>5, <1>6, <1>7, <1>8, <1>9 DEF FlushStep

\* The other steps that move no goroutine and no connection.
LEMMA QuietSteps ==
    ASSUME (\E s \in Spans : RecordSpan(s)) \/ Disable \/ Tick
    PROVE  UNCHANGED << ownership, pc >>
BY DEF RecordSpan, Disable, Tick, ownership, connVars, loopVars, closeVars

-----------------------------------------------------------------------------
\* A flush, whoever runs it, keeps the connections with their owners.
LEMMA FlushConn ==
    ASSUME ConnInv, ControlOK', NEW p \in Procs, FlushStep(p)
    PROVE  ConnInv'
<1>1. /\ UNCHANGED ownership
      /\ pc[p] \in FlushPlaces
      BY FlushMoves DEF ConnInv
<1>2. PICK place \in FlushPlaces \cup {afterFlush(p)} : pc' = [pc EXCEPT ![p] = place]
      BY FlushMoves DEF ConnInv
<1>3. /\ place \notin {"closeWait", "closeConn", "once", "swap", "closeOld"}
      /\ place = "closeSwap" => p \in Callers /\ p = closer /\ ~closeDone
      /\ p = ReportLoop => place \notin {"closeSwap", "idle"}
      BY <1>2, TracerAssumption DEF FlushPlaces, afterFlush, Procs
<1>4. /\ pc'[p] = place
      /\ \A q \in Procs \ {p} : pc'[q] = pc[q]
      BY <1>2 DEF ConnInv, ControlOK
<1>5. OneCloser'
      BY <1>1, <1>3, <1>4 DEF ConnInv, OneCloser, ownership, Procs
<1>6. CloserWaited'
      BY <1>1, <1>3, <1>4 DEF ConnInv, CloserWaited, ownership, FlushPlaces, ControlOK, Procs
<1>7. GivenUp'
      BY <1>1, <1>3, <1>4 DEF ConnInv, GivenUp, ownership, FlushPlaces, Procs
<1>8. LoopHolds' /\ ConnectionsOwned'
      BY <1>1, <1>3, <1>4
      DEF ConnInv, LoopHolds, ConnectionsOwned, ownership, FlushPlaces, Procs
<1> QED
    BY <1>5, <1>6, <1>7, <1>8 DEF ConnInv

\* The report loop connects, swaps and closes connections one at a time, and
\* only while the tracer has one.
LEMMA LoopConn ==
    ASSUME ConnInv, ControlOK', LoopStep
    PROVE  ConnInv'
<1> USE TracerAssumption
    DEF ConnInv, ControlOK, Procs, OneCloser, CloserWaited, GivenUp, LoopHolds,
        ConnectionsOwned, bufferVars, connVars, loopVars, closeVars
<1>1. CASE LoopTick
      BY <1>1 DEF LoopTick
<1>2. CASE LoopAgain
      BY <1>2 DEF LoopAgain
<1>3. ASSUME NEW c \in Conns, ConnectClient(c)
      PROVE  ConnInv'
      BY <1>3 DEF ConnectClient
<1>4. CASE ConnectClientFails
      BY <1>4 DEF ConnectClientFails
<1>5. CASE SwapConnection
      BY <1>5 DEF SwapConnection, oldConnection
<1>6. CASE CloseOldConnection
      BY <1>6 DEF CloseOldConnection
<1>7. CASE LoopClosed
      BY <1>7 DEF LoopClosed, closeLoopClosedChannel
<1> QED
    BY <1>1, <1>2, <1>3, <1>4, <1>5, <1>6, <1>7 DEF LoopStep

\* Close takes the connection from a tracer whose report loop has ended.
LEMMA CloseConn ==
    ASSUME ConnInv, ControlOK', NEW p \in Callers,
           FlushCall(p) \/ CloseCall(p) \/ CloseStep(p)
    PROVE  ConnInv'
<1> USE TracerAssumption
    DEF ConnInv, ControlOK, Procs, OneCloser, CloserWaited, GivenUp, LoopHolds,
        ConnectionsOwned, bufferVars, connVars, loopVars, closeVars
<1>1. CASE FlushCall(p)
      BY <1>1 DEF FlushCall
<1>2. CASE CloseCall(p)
      BY <1>2 DEF CloseCall
<1>3. ASSUME NEW deadline \in BOOLEAN, CloseBegin(p, deadline)
      PROVE  ConnInv'
      BY <1>3 DEF CloseBegin
<1>4. CASE CloseAgain(p)
      BY <1>4 DEF CloseAgain
<1>5. CASE CloseFlush(p)
      BY <1>5 DEF CloseFlush, closeWaited
<1>6. CASE CloseDeadline(p)
      BY <1>6 DEF CloseDeadline
<1>7. CASE CloseSwap(p)
      BY <1>7 DEF CloseSwap
<1>8. CASE CloseConnection(p)
      BY <1>8 DEF CloseConnection
<1> QED
    BY <1>1, <1>2, <1>3, <1>4, <1>5, <1>6, <1>7, <1>8 DEF CloseStep

\* A tracer starts with one connection, its own.
LEMMA InitConn ==
    ASSUME Init
    PROVE  ConnInv
<1>1. ControlOK
      BY InitInv, IInvParts
<1>2. OneCloser /\ CloserWaited
      BY TracerAssumption DEF Init, OneCloser, CloserWaited, Procs
<1>3. GivenUp /\ LoopHolds /\ ConnectionsOwned
      BY TracerAssumption DEF Init, GivenUp, LoopHolds, ConnectionsOwned, Procs
<1> QED
    BY <1>1, <1>2, <1>3 DEF ConnInv

\* Every step preserves it.
LEMMA StepConn ==
    ASSUME ConnInv, [Next]_vars
    PROVE  ConnInv'
<1>1. CASE Next
  <2>1. ControlOK'
        BY <1>1, ControlStep DEF ConnInv
  <2>2. CASE (\E s \in Spans : RecordSpan(s)) \/ Disable \/ Tick
    <3>1. UNCHANGED << ownership, pc >>
          BY <2>2, QuietSteps
    <3> QED
        BY <2>1, <3>1 DEF ownership, ConnInv, OneCloser, CloserWaited, GivenUp,
                          LoopHolds, ConnectionsOwned
  <2> QED
      BY <1>1, <2>1, <2>2, FlushConn, LoopConn, CloseConn DEF Next
<1>2. CASE UNCHANGED vars
  <2>1. UNCHANGED << ownership, pc >> /\ ControlOK'
        BY <1>2 DEF vars, ownership, bufferVars, flushVars, connVars, loopVars, closeVars,
                    metaVars, history, ConnInv, ControlOK
  <2> QED
      BY <2>1 DEF ownership, ConnInv, OneCloser, CloserWaited, GivenUp, LoopHolds,
                  ConnectionsOwned
<1> QED
    BY <1>1, <1>2

\* The invariant holds in every state of the tracer.
THEOREM ConnInvariance == Spec => []ConnInv
BY InitConn, StepConn, PTL DEF Spec

\* Reconnecting, closing and flushing in any order and by any number of
\* goroutines leak no connection, never leave the tracer with a closed one, and
\* never make reconnectClient close a nil one.
THEOREM ConnectionOwnership == Spec => []ConnectionsOwned
<1>1. ConnInv => ConnectionsOwned
      BY DEF ConnInv
<1> QED
    BY <1>1, ConnInvariance, PTL

\* Close is final: when the tracer has given its connection up, no step of the
\* report loop or of another goroutine gives it one again.
THEOREM ClosingIsFinal == Spec => ClosedForGood
<1> DEFINE Final == connection = NoConn => connection' = NoConn
<1>1. ASSUME ConnInv, [Next]_vars
      PROVE  [Final]_vars
  <2>1. CASE (\E s \in Spans : RecordSpan(s)) \/ Disable \/ Tick
        BY <2>1, QuietSteps DEF ownership
  <2>2. CASE LoopStep
    <3>1. SwapConnection => connection # NoConn
          BY <1>1 DEF SwapConnection, ConnInv, GivenUp
    <3>2. LoopTick \/ LoopAgain \/ ConnectClientFails => connection' = connection
          BY DEF LoopTick, LoopAgain, ConnectClientFails, connVars
    <3>3. CloseOldConnection \/ LoopClosed => connection' = connection
          BY DEF CloseOldConnection, LoopClosed, connVars
    <3>4. \A c \in Conns : ConnectClient(c) => connection' = connection
          BY DEF ConnectClient
    <3> QED
        BY <2>2, <3>1, <3>2, <3>3, <3>4 DEF LoopStep
  <2>3. ASSUME NEW p \in Procs, FlushStep(p)
        PROVE  Final
        BY <1>1, <2>3, FlushMoves DEF ownership, ConnInv
  <2>4. ASSUME NEW p \in Callers, FlushCall(p) \/ CloseCall(p) \/ CloseStep(p)
        PROVE  Final
    <3>1. FlushCall(p) \/ CloseCall(p) \/ CloseAgain(p) => connection' = connection
          BY DEF FlushCall, CloseCall, CloseAgain, connVars
    <3>2. CloseFlush(p) \/ CloseDeadline(p) \/ CloseConnection(p)
             => connection' = connection
          BY DEF CloseFlush, CloseDeadline, CloseConnection, connVars
    <3>3. \A deadline \in BOOLEAN : CloseBegin(p, deadline) => connection' = connection
          BY DEF CloseBegin, connVars
    <3>4. CloseSwap(p) => connection' = NoConn
          BY DEF CloseSwap
    <3> QED
        BY <2>4, <3>1, <3>2, <3>3, <3>4 DEF CloseStep
  <2> QED
      BY <1>1, <2>1, <2>2, <2>3, <2>4 DEF Next
<1>2. ConnInv /\ [Next]_vars => [Final]_vars
      BY <1>1
<1> QED
    BY <1>2, ConnInvariance, PTL DEF Spec, ClosedForGood
=============================================================================
