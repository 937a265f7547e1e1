--------------------------- MODULE SpanFateProofs ---------------------------
(***************************************************************************)
(* What becomes of finished spans: the swaps and merges of the two buffers *)
(* lose and double none, what counts as sent was received, Close leaves    *)
(* nothing behind, and the tracer implements SpanStore.                    *)
(***************************************************************************)
EXTENDS TracerProofs

-----------------------------------------------------------------------------
(***************************************************************************)
(* Sequences without repetition                                            *)
(***************************************************************************)

Elements(q) == {q[i] : i \in DOMAIN q}

\* addSpan: a new element at the end.
LEMMA AppendDistinct ==
    ASSUME NEW q \in Seq(Spans), IsInjective(q), NEW s \in Spans, s \notin Elements(q)
    PROVE  /\ IsInjective(Append(q, s))
           /\ Elements(Append(q, s)) = Elements(q) \cup {s}
<1> DEFINE r == Append(q, s)
           n == Len(q)
<1>1. /\ n \in Nat /\ DOMAIN q = 1 .. n
      /\ DOMAIN r = 1 .. n + 1
      /\ r[n + 1] = s
      /\ \A i \in 1 .. n : r[i] = q[i]
      BY LenProperties, AppendProperties
<1> HIDE DEF r, n
<1>2. \A i \in 1 .. n + 1 : i \in 1 .. n \/ i = n + 1
      BY <1>1
<1>3. \A i \in 1 .. n : r[i] \in Elements(q) /\ r[i] # s
      BY <1>1 DEF Elements
<1>4. IsInjective(r)
      BY <1>1, <1>2, <1>3 DEF IsInjective
<1>5. Elements(r) = Elements(q) \cup {s}
      BY <1>1, <1>2 DEF Elements
<1> QED
    BY <1>4, <1>5 DEF r

\* mergeFrom: a sequence and a prefix of another.
LEMMA MergeDistinct ==
    ASSUME NEW b \in Seq(Spans), NEW f \in Seq(Spans), NEW k \in 0 .. Len(f),
           IsInjective(b), IsInjective(f), Elements(b) \cap Elements(f) = {},
           NEW m, m = b \o SubSeq(f, 1, k)
    PROVE  /\ m \in Seq(Spans)
           /\ Len(m) = Len(b) + k
           /\ IsInjective(m)
           /\ Elements(b) \subseteq Elements(m)
           /\ Elements(m) \subseteq Elements(b) \cup Elements(f)
<1> DEFINE c == SubSeq(f, 1, k)
           n == Len(b)
<1>1. /\ n \in Nat /\ DOMAIN b = 1 .. n
      /\ Len(f) \in Nat /\ DOMAIN f = 1 .. Len(f)
      /\ k \in Nat /\ k <= Len(f)
      BY LenProperties
<1>2. c \in Seq(Spans) /\ Len(c) = k /\ \A i \in 1 .. k : c[i] = f[i]
  <2>1. \A i \in 1 .. k : f[i] \in Spans
        BY <1>1, ElementOfSeq
  <2>2. 1 \in Int /\ k \in Int
        BY <1>1
  <2>3. /\ c \in Seq(Spans)
        /\ Len(c) = IF 1 <= k THEN k - 1 + 1 ELSE 0
        /\ \A i \in 1 .. k - 1 + 1 : c[i] = f[1 + i - 1]
        BY <2>1, <2>2, SubSeqProperties
  <2> QED
      BY <1>1, <2>3
<1> HIDE DEF c
<1>3. /\ m \in Seq(Spans)
      /\ Len(m) = n + k
      /\ \A i \in 1 .. n + k : m[i] = IF i <= n THEN b[i] ELSE c[i - n]
      BY <1>2, ConcatProperties DEF c
<1>4. DOMAIN m = 1 .. n + k
      BY <1>3, LenProperties
<1> HIDE DEF n
<1>5. \A i \in 1 .. n : m[i] = b[i] /\ i \in DOMAIN m
      BY <1>1, <1>3, <1>4
<1>6. \A i \in DOMAIN m : i \in 1 .. n \/ (i - n \in 1 .. k /\ m[i] = f[i - n])
      BY <1>1, <1>2, <1>3, <1>4
<1>7. \A i \in 1 .. n, j \in DOMAIN f : b[i] # f[j]
      BY <1>1 DEF Elements
<1>8. \A i \in 1 .. k : i \in DOMAIN f
      BY <1>1
<1>9. IsInjective(m)
  <2> SUFFICES ASSUME NEW i \in DOMAIN m, NEW j \in DOMAIN m, m[i] = m[j]
               PROVE  i = j
      BY DEF IsInjective
  <2>1. CASE i \in 1 .. n /\ j \in 1 .. n
        BY <1>1, <1>5, <2>1 DEF IsInjective
  <2>2. CASE i \in 1 .. n /\ j \notin 1 .. n
        BY <1>5, <1>6, <1>7, <1>8, <2>2
  <2>3. CASE i \notin 1 .. n /\ j \in 1 .. n
        BY <1>5, <1>6, <1>7, <1>8, <2>3
  <2>4. CASE i \notin 1 .. n /\ j \notin 1 .. n
    <3>1. i - n \in DOMAIN f /\ j - n \in DOMAIN f /\ f[i - n] = f[j - n]
          BY <1>6, <1>8, <2>4
    <3>2. i - n = j - n
          BY <3>1 DEF IsInjective
    <3> QED
        BY <1>1, <1>4, <3>2
  <2> QED
      BY <2>1, <2>2, <2>3, <2>4
<1>10. Elements(b) \subseteq Elements(m)
      BY <1>1, <1>5 DEF Elements
<1>11. Elements(m) \subseteq Elements(b) \cup Elements(f)
      BY <1>1, <1>5, <1>6, <1>8 DEF Elements
<1> QED
    BY <1>3, <1>9, <1>10, <1>11 DEF n

\* An element of such a sequence is at one place.
LEMMA OnePlace ==
    ASSUME NEW q \in Seq(Spans), IsInjective(q), NEW s
    PROVE  Cardinality({i \in DOMAIN q : q[i] = s})
             = IF s \in Elements(q) THEN 1 ELSE 0
<1>1. CASE s \in Elements(q)
  <2>1. PICK i \in DOMAIN q : q[i] = s
        BY <1>1 DEF Elements
  <2>2. {j \in DOMAIN q : q[j] = s} = {i}
        BY <2>1 DEF IsInjective
  <2> QED
      BY <1>1, <2>2, FS_Singleton
<1>2. CASE s \notin Elements(q)
  <2>1. {j \in DOMAIN q : q[j] = s} = {}
        BY <1>2 DEF Elements
  <2> QED
      BY <1>2, <2>1, FS_EmptySet
<1> QED
    BY <1>1, <1>2

\* Such a sequence has as many elements as it is long.
LEMMA CountElements ==
    ASSUME NEW q \in Seq(Spans), IsInjective(q)
    PROVE  IsFiniteSet(Elements(q)) /\ Cardinality(Elements(q)) = Len(q)
<1> DEFINE n == Len(q)
<1>1. n \in Nat /\ DOMAIN q = 1 .. n /\ q = [i \in 1 .. n |-> q[i]]
      BY LenProperties
<1> HIDE DEF n
<1>2. q \in [1 .. n -> Elements(q)]
      BY <1>1 DEF Elements
<1>3. \A i, j \in 1 .. n : q[i] = q[j] => i = j
      BY <1>1 DEF IsInjective
<1>4. \A e \in Elements(q) : \E i \in 1 .. n : q[i] = e
      BY <1>1 DEF Elements
<1>5. q \in Bijection(1 .. n, Elements(q))
      BY <1>2, <1>3, <1>4 DEF Bijection, Injection, Surjection, IsInjective
<1>6. ExistsBijection(1 .. n, Elements(q))
      BY <1>5 DEF ExistsBijection
<1> QED
    BY <1>1, <1>6, FS_CountingElements, FS_NatBijection DEF n

-----------------------------------------------------------------------------
(***************************************************************************)
(* What each operation does to the spans                                   *)
(***************************************************************************)

\* A span is in one buffer at most, once.
Apart ==
    /\ IsInjective(buffer.rawSpans)
    /\ IsInjective(flushing.rawSpans)
    /\ SpansOf(buffer) \cap SpansOf(flushing) = {}

\* A span is held while it is in a buffer.
FateOfHeld == \A s \in Spans : fate[s] = "held" <=> s \in Held

\* The meta span is recorded once.
MetaOnce ==
    /\ ~firstReportHasRun => fate[MetaSpan] = "new"
    /\ \A p \in Procs : pc[p] = "meta" => ~firstReportHasRun

SpansInv == Apart /\ FateOfHeld /\ MetaOnce

\* The buffers' spans are sequences of spans.
LEMMA BufferSpans ==
    ASSUME Counting
    PROVE  /\ buffer \in Buffers /\ flushing \in Buffers
           /\ buffer.rawSpans \in Seq(Spans) /\ flushing.rawSpans \in Seq(Spans)
           /\ SpansOf(buffer) = Elements(buffer.rawSpans)
           /\ SpansOf(flushing) = Elements(flushing.rawSpans)
           /\ Held \subseteq Spans
<1>1. /\ buffer \in Buffers /\ flushing \in Buffers
      /\ buffer.rawSpans \in Seq(Spans) /\ flushing.rawSpans \in Seq(Spans)
      BY FieldTypes DEF Counting, WellFormed
<1>2. /\ SpansOf(buffer) = Elements(buffer.rawSpans)
      /\ SpansOf(flushing) = Elements(flushing.rawSpans)
      BY DEF SpansOf, Elements
<1>3. SpansOf(buffer) \subseteq Spans /\ SpansOf(flushing) \subseteq Spans
      BY <1>1, SeqOfSpans DEF SpansOf
<1> QED
    BY <1>1, <1>2, <1>3 DEF Held

\* An empty buffer has no spans.
LEMMA EmptyBuffer ==
    /\ newSpansBuffer.rawSpans = << >>
    /\ SpansOf(newSpansBuffer) = {}
    /\ IsInjective(newSpansBuffer.rawSpans)
<1>1. newSpansBuffer.rawSpans = << >>
      BY DEF newSpansBuffer
<1>2. DOMAIN << >> = {}
      OBVIOUS
<1> QED
    BY <1>1, <1>2 DEF SpansOf, IsInjective

\* RecordSpan: the span is kept, or dropped for want of room, or not wanted.
LEMMA RecordEffect ==
    ASSUME Counting, RestOK, Apart, FateOfHeld,
           NEW s \in Spans, fate[s] = "new", record(s), flushing' = flushing
    PROVE  /\ Apart' /\ FateOfHeld'
           /\ \/ /\ ~disabled
                 /\ fate' = [fate EXCEPT ![s] = "held"]
                 /\ SpansOf(buffer') = SpansOf(buffer) \cup {s}
                 /\ ledger'.dropped = ledger.dropped
              \/ /\ ~disabled
                 /\ fate' = [fate EXCEPT ![s] = "dropped"]
                 /\ isFull(buffer)
                 /\ SpansOf(buffer') = SpansOf(buffer)
                 /\ ledger'.dropped = ledger.dropped + 1
              \/ /\ disabled \/ s \in Unsampled
                 /\ fate' = [fate EXCEPT ![s] = "ignored"]
                 /\ SpansOf(buffer') = SpansOf(buffer)
                 /\ ledger' = ledger
<1>0. /\ buffer \in Buffers /\ buffer.rawSpans \in Seq(Spans)
      /\ SpansOf(buffer) = Elements(buffer.rawSpans)
      /\ Len(buffer.rawSpans) \in Nat
      /\ ledger \in Ledger /\ ledger.dropped \in Nat
      BY BufferSpans, LenProperties, LedgerFields DEF Counting
<1>1. s \notin Held /\ s \notin Elements(buffer.rawSpans)
      BY <1>0 DEF FateOfHeld, Held
<1>2. fate \in [Spans -> {"new", "ignored", "held", "sent", "dropped", "discarded"}]
      BY DEF RestOK
<1>3. CASE recordable(s) /\ ~isFull(buffer)
  <2>1. buffer' = [buffer EXCEPT !.rawSpans = Append(buffer.rawSpans, s)]
        BY <1>3 DEF record, addSpan
  <2>2. buffer'.rawSpans = Append(buffer.rawSpans, s)
        BY <1>0, <2>1 DEF Buffers
  <2>3. /\ IsInjective(buffer'.rawSpans)
        /\ SpansOf(buffer') = SpansOf(buffer) \cup {s}
        BY <1>0, <1>1, <2>2, AppendDistinct DEF Apart, SpansOf, Elements
  <2>4. NotKept(1, buffer, buffer') = 0
        BY <1>0, <2>2 DEF NotKept
  <2>5. /\ fate' = [fate EXCEPT ![s] = "held"]
        /\ ledger'.dropped = ledger.dropped
        /\ ~disabled
        BY <1>0, <1>3, <2>3, <2>4 DEF record, recordable, Ledger
  <2>6. Apart'
        BY <1>1, <2>3 DEF Apart, Held
  <2>7. FateOfHeld'
        BY <1>2, <2>3, <2>5 DEF FateOfHeld, Held
  <2> QED
      BY <2>3, <2>5, <2>6, <2>7
<1>4. CASE recordable(s) /\ isFull(buffer)
  <2>1. buffer' = [buffer EXCEPT !.droppedSpanCount = buffer.droppedSpanCount + 1]
        BY <1>4 DEF record, addSpan
  <2>2. buffer'.rawSpans = buffer.rawSpans
        BY <1>0, <2>1 DEF Buffers
  <2>3. SpansOf(buffer') = SpansOf(buffer)
        BY <2>2 DEF SpansOf
  <2>4. NotKept(1, buffer, buffer') = 1
        BY <1>0, <2>2 DEF NotKept
  <2>5. /\ fate' = [fate EXCEPT ![s] = "dropped"]
        /\ ledger'.dropped = ledger.dropped + 1
        /\ ~disabled
        BY <1>0, <1>1, <1>4, <2>3, <2>4 DEF record, recordable, Ledger
  <2>6. Apart'
        BY <2>2, <2>3 DEF Apart
  <2>7. FateOfHeld'
        BY <1>1, <1>2, <2>3, <2>5 DEF FateOfHeld, Held
  <2> QED
      BY <1>4, <2>3, <2>5, <2>6, <2>7
<1>5. CASE ~recordable(s)
  <2>1. /\ fate' = [fate EXCEPT ![s] = "ignored"]
        /\ buffer' = buffer /\ ledger' = ledger
        /\ disabled \/ s \in Unsampled
        BY <1>5 DEF record, recordable
  <2>2. Apart'
        BY <2>1 DEF Apart
  <2>3. FateOfHeld'
        BY <1>1, <1>2, <2>1 DEF FateOfHeld, Held
  <2> QED
      BY <2>1, <2>2, <2>3
<1> QED
    BY <1>3, <1>4, <1>5

\* Disable gives up the spans of the buffer, not those of the report in flight.
LEMMA DisableEffect ==
    ASSUME Counting, RestOK, Apart, FateOfHeld, ~disabled, disable, flushing' = flushing
    PROVE  /\ Apart' /\ FateOfHeld'
           /\ disabled'
           /\ SpansOf(buffer') = {}
           /\ fate' = [s \in Spans |->
                         IF s \in SpansOf(buffer) THEN "discarded" ELSE fate[s]]
           /\ ledger'.dropped = ledger.dropped
<1>1. /\ buffer' = newSpansBuffer /\ disabled'
      /\ fate' = [s \in Spans |-> IF s \in SpansOf(buffer) THEN "discarded" ELSE fate[s]]
      BY DEF disable, clear
<1>2. SpansOf(buffer') = {} /\ IsInjective(buffer'.rawSpans)
      BY <1>1, EmptyBuffer
<1>3. ledger'.dropped = ledger.dropped
      BY DEF disable, Counting, Ledger
<1>4. Apart'
      BY <1>2 DEF Apart
<1>5. FateOfHeld'
      BY <1>1, <1>2 DEF FateOfHeld, Held, Apart
<1> QED
    BY <1>1, <1>2, <1>3, <1>4, <1>5

\* preFlush moves the spans from one buffer to the other, which was empty.
LEMMA PreFlushEffect ==
    ASSUME Counting, ControlOK, FlushingEmptyBetweenFlushes, Apart, FateOfHeld,
           NEW p \in Procs, PreFlush(p)
    PROVE  /\ Apart' /\ FateOfHeld'
           /\ SpansOf(flushing) = {}
           /\ SpansOf(buffer') = {}
           /\ SpansOf(flushing') = SpansOf(buffer)
<1>1. flushing = newSpansBuffer
      BY DEF PreFlush, lockFree, FlushingEmptyBetweenFlushes
<1>2. /\ buffer'.rawSpans = flushing.rawSpans
      /\ flushing'.rawSpans = buffer.rawSpans
      BY BufferSpans DEF PreFlush, setCurrent, setFlushing, Buffers
<1>3. SpansOf(buffer') = SpansOf(flushing) /\ SpansOf(flushing') = SpansOf(buffer)
      BY <1>2 DEF SpansOf
<1>4. SpansOf(flushing) = {}
      BY <1>1, EmptyBuffer
<1>5. Apart'
      BY <1>2, <1>3, <1>4 DEF Apart
<1>6. FateOfHeld'
      BY <1>3 DEF FateOfHeld, Held, PreFlush, history
<1> QED
    BY <1>3, <1>4, <1>5, <1>6

\* The conversion counts errors and leaves the spans alone.
LEMMA ConvertEffect ==
    ASSUME Counting, Apart, FateOfHeld, countEncoderErrors, UNCHANGED << buffer, fate >>
    PROVE  /\ Apart' /\ FateOfHeld'
           /\ flushing'.rawSpans = flushing.rawSpans
           /\ SpansOf(flushing') = SpansOf(flushing)
           /\ ledger'.dropped = ledger.dropped
<1>1. flushing'.rawSpans = flushing.rawSpans
      BY BufferSpans DEF countEncoderErrors, Buffers
<1>2. SpansOf(flushing') = SpansOf(flushing)
      BY <1>1 DEF SpansOf
<1>3. ledger'.dropped = ledger.dropped
      BY DEF countEncoderErrors, Counting, Ledger
<1> QED
    BY <1>1, <1>2, <1>3 DEF Apart, FateOfHeld, Held

\* A successful flush forgets the spans it sent.
LEMMA SentEffect ==
    ASSUME Counting, RestOK, Apart, FateOfHeld, postFlushSent
    PROVE  /\ Apart' /\ FateOfHeld'
           /\ SpansOf(buffer') = SpansOf(buffer)
           /\ SpansOf(flushing') = {}
           /\ fate' = [s \in Spans |->
                         IF s \in SpansOf(flushing) THEN "sent" ELSE fate[s]]
           /\ ledger'.dropped = ledger.dropped
<1>1. /\ flushing' = newSpansBuffer /\ buffer' = buffer
      /\ fate' = [s \in Spans |-> IF s \in SpansOf(flushing) THEN "sent" ELSE fate[s]]
      BY DEF postFlushSent, clear
<1>2. SpansOf(flushing') = {} /\ IsInjective(flushing'.rawSpans)
      BY <1>1, EmptyBuffer
<1>3. ledger'.dropped = ledger.dropped
      BY DEF postFlushSent, Counting, Ledger
<1>4. Apart'
      BY <1>1, <1>2 DEF Apart
<1>5. FateOfHeld'
      BY <1>1, <1>2 DEF FateOfHeld, Held, Apart
<1> QED
    BY <1>1, <1>2, <1>3, <1>4, <1>5

\* A flush that could not be translated gives its spans up.
LEMMA UntranslatableEffect ==
    ASSUME Counting, RestOK, Apart, FateOfHeld, postFlushUntranslatable
    PROVE  /\ Apart' /\ FateOfHeld'
           /\ SpansOf(buffer') = SpansOf(buffer)
           /\ SpansOf(flushing') = {}
           /\ fate' = [s \in Spans |->
                         IF s \in SpansOf(flushing) THEN "discarded" ELSE fate[s]]
           /\ ledger'.dropped = ledger.dropped
<1>1. /\ flushing' = newSpansBuffer /\ buffer' = markReported(buffer)
      /\ fate' = [s \in Spans |->
                    IF s \in SpansOf(flushing) THEN "discarded" ELSE fate[s]]
      BY DEF postFlushUntranslatable, clear
<1>2. SpansOf(flushing') = {} /\ IsInjective(flushing'.rawSpans)
      BY <1>1, EmptyBuffer
<1>3. buffer'.rawSpans = buffer.rawSpans
      BY <1>1, MarkReportedTellsAll DEF Counting
<1>4. SpansOf(buffer') = SpansOf(buffer)
      BY <1>3 DEF SpansOf
<1>5. ledger'.dropped = ledger.dropped
      BY DEF postFlushUntranslatable, Counting, Ledger
<1>6. Apart'
      BY <1>2, <1>3, <1>4 DEF Apart
<1>7. FateOfHeld'
      BY <1>1, <1>2, <1>4 DEF FateOfHeld, Held, Apart
<1> QED
    BY <1>1, <1>2, <1>4, <1>5, <1>6, <1>7

\* The spans that mergeFrom finds no room for.
Overflowing == Held \ SpansOf(mergeFrom(buffer, flushing))

\* After a failed flush as many of its spans as fit go back into the buffer; each
\* of the others is counted as a drop.
LEMMA FailedEffect ==
    ASSUME Counting, RestOK, Apart, FateOfHeld, postFlushFailed
    PROVE  /\ Apart' /\ FateOfHeld'
           /\ Overflowing \subseteq SpansOf(flushing)
           /\ SpansOf(buffer') = Held \ Overflowing
           /\ SpansOf(flushing') = {}
           /\ fate' = [s \in Spans |-> IF s \in Overflowing THEN "dropped" ELSE fate[s]]
           /\ ledger'.dropped = ledger.dropped + Cardinality(Overflowing)
           /\ Overflowing # {} => Cardinality(SpansOf(buffer')) = MaxBufferedSpans
<1> DEFINE b == buffer.rawSpans
           f == flushing.rawSpans
           k == mergeSpace(buffer, flushing)
           m == mergeFrom(buffer, flushing)
<1>1. /\ b \in Seq(Spans) /\ f \in Seq(Spans)
      /\ SpansOf(buffer) = Elements(b) /\ SpansOf(flushing) = Elements(f)
      /\ Held = Elements(b) \cup Elements(f)
      /\ Len(b) \in Nat /\ Len(f) \in Nat
      /\ Len(b) <= MaxBufferedSpans
      BY BufferSpans, LenProperties DEF Held, Counting, WellFormed
<1>2. /\ k \in 0 .. Len(f)
      /\ k # Len(f) => Len(b) + k = MaxBufferedSpans
  <2>1. \A n, l, c \in Nat :
           n <= c => LET j == IF c - n > l THEN l ELSE c - n
                     IN  j \in 0 .. l /\ (j # l => n + j = c)
        OBVIOUS
  <2> QED
      BY <1>1, <2>1, BufferAssumption DEF mergeSpace
<1>3. m.rawSpans = b \o SubSeq(f, 1, k)
      BY DEF mergeFrom
<1>4. WellFormed(m)
      BY MergeFromCounts DEF Counting
<1> HIDE DEF k, m
<1>5. /\ m.rawSpans \in Seq(Spans)
      /\ Len(m.rawSpans) = Len(b) + k
      /\ IsInjective(m.rawSpans)
      /\ Elements(b) \subseteq Elements(m.rawSpans)
      /\ Elements(m.rawSpans) \subseteq Elements(b) \cup Elements(f)
      BY <1>1, <1>2, <1>3, MergeDistinct DEF Apart
<1> HIDE DEF b, f
<1>6. SpansOf(m) = Elements(m.rawSpans)
      BY DEF SpansOf, Elements
<1>7. Overflowing = Elements(f) \ Elements(m.rawSpans)
      BY <1>1, <1>5, <1>6 DEF m, Overflowing
<1>8. /\ flushing' = newSpansBuffer /\ buffer' = markReported(m)
      /\ fate' = [s \in Spans |->
                    IF s \in SpansOf(flushing) \ SpansOf(m) THEN "dropped" ELSE fate[s]]
      /\ ledger' = [ledger EXCEPT
                      !.dropped = ledger.dropped + NotKept(Len(f), buffer, m),
                      !.told = ledger.told + unreportedDropped(m),
                      !.toldErrors = ledger.toldErrors + unreportedEncoderErrors(m)]
      BY DEF postFlushFailed, mergedAway, clear, m, f
<1>9. buffer'.rawSpans = m.rawSpans
      BY <1>4, <1>8, MarkReportedTellsAll
<1>10. SpansOf(buffer') = Elements(m.rawSpans) /\ IsInjective(buffer'.rawSpans)
      BY <1>5, <1>9 DEF SpansOf, Elements
<1>11. SpansOf(flushing') = {} /\ IsInjective(flushing'.rawSpans)
      BY <1>8, EmptyBuffer
<1>12. Elements(m.rawSpans) = Held \ Overflowing /\ Overflowing \subseteq SpansOf(flushing)
      BY <1>1, <1>5, <1>7
<1>13. fate' = [s \in Spans |-> IF s \in Overflowing THEN "dropped" ELSE fate[s]]
      BY <1>1, <1>6, <1>7, <1>8
<1>14. Cardinality(Overflowing) = Len(f) - k
  <2>1. /\ IsFiniteSet(Elements(b)) /\ Cardinality(Elements(b)) = Len(b)
        /\ IsFiniteSet(Elements(f)) /\ Cardinality(Elements(f)) = Len(f)
        BY <1>1, CountElements DEF Apart, b, f
  <2>2. IsFiniteSet(Elements(m.rawSpans)) /\ Cardinality(Elements(m.rawSpans)) = Len(b) + k
        BY <1>5, CountElements
  <2>3. Elements(b) \cap Elements(f) = {}
        BY <1>1 DEF Apart
  <2>4. /\ IsFiniteSet(Elements(b) \cup Elements(f))
        /\ Cardinality(Elements(b) \cup Elements(f))
             = Cardinality(Elements(b)) + Cardinality(Elements(f))
                 - Cardinality(Elements(b) \cap Elements(f))
        BY <2>1, FS_Union
  <2>5. Cardinality(Elements(b) \cap Elements(f)) = 0
        BY <2>3, FS_EmptySet
  <2>6. IsFiniteSet(Held) /\ Cardinality(Held) = Len(b) + Len(f)
        BY <1>1, <2>1, <2>4, <2>5
  <2>7. Cardinality(Held \ Elements(m.rawSpans))
          = Cardinality(Held) - Cardinality(Held \cap Elements(m.rawSpans))
        BY <2>6, FS_Difference
  <2>8. Held \cap Elements(m.rawSpans) = Elements(m.rawSpans)
        BY <1>1, <1>5
  <2>9. Overflowing = Held \ Elements(m.rawSpans)
        BY <1>6 DEF m, Overflowing
  <2>10. Cardinality(Overflowing) = (Len(b) + Len(f)) - (Len(b) + k)
        BY <2>2, <2>6, <2>7, <2>8, <2>9
  <2>11. \A x, y, z \in Nat : (x + y) - (x + z) = y - z
        OBVIOUS
  <2>12. Len(b) \in Nat /\ Len(f) \in Nat /\ k \in Nat
        BY <1>1, <1>2
  <2> QED
      BY <2>10, <2>11, <2>12
<1>15. NotKept(Len(f), buffer, m) = Len(f) - k
      BY <1>1, <1>2, <1>5 DEF NotKept, b
<1>16. ledger'.dropped = ledger.dropped + Cardinality(Overflowing)
      BY <1>8, <1>14, <1>15 DEF Counting, Ledger
<1>17. ASSUME Overflowing # {}
       PROVE  Cardinality(SpansOf(buffer')) = MaxBufferedSpans
  <2>1. IsFiniteSet(Elements(f))
        BY <1>1, CountElements DEF Apart, f
  <2>2. IsFiniteSet(Overflowing)
        BY <1>7, <2>1, FS_Difference
  <2>3. Cardinality(Overflowing) # 0
        BY <1>17, <2>2, FS_EmptySet
  <2>4. k # Len(f)
        BY <1>1, <1>14, <2>3
  <2> QED
      BY <1>2, <1>5, <1>10, <2>4, CountElements
<1>18. Apart'
      BY <1>10, <1>11 DEF Apart
<1>19. FateOfHeld'
      BY <1>10, <1>11, <1>12, <1>13 DEF FateOfHeld, Held
<1> QED
    BY <1>10, <1>11, <1>12, <1>13, <1>16, <1>17, <1>18, <1>19

-----------------------------------------------------------------------------
(***************************************************************************)
(* No span is lost or doubled                                              *)
(***************************************************************************)

\* Only preFlush sends a goroutine to record the meta span, and only that
\* goroutine notes that the first report has run.
LEMMA MetaFrame ==
    ASSUME ControlOK, Next
    PROVE  \/ \E p \in Procs : PreFlush(p) \/ MetaCreate(p)
           \/ /\ firstReportHasRun' = firstReportHasRun
              /\ \A q \in Procs : pc'[q] = "meta" => pc[q] = "meta"
<1> DEFINE Frame == /\ firstReportHasRun' = firstReportHasRun
                    /\ \A q \in Procs : pc'[q] = "meta" => pc[q] = "meta"
<1> USE DEF ControlOK, metaVars, Procs
<1>1. (\E s \in Spans : RecordSpan(s)) \/ Disable \/ Tick => Frame
      BY DEF RecordSpan, Disable, Tick
<1>2. LoopTick \/ LoopAgain \/ ConnectClientFails => Frame
      BY DEF LoopTick, LoopAgain, ConnectClientFails
<1>3. SwapConnection \/ CloseOldConnection \/ LoopClosed => Frame
      BY DEF SwapConnection, CloseOldConnection, LoopClosed
<1>4. \A c \in Conns : ConnectClient(c) => Frame
      BY DEF ConnectClient
<1>5. \A p \in Procs : PreFlushRefused(p) \/ Report(p) => Frame
      BY DEF PreFlushRefused, Report, afterFlush
<1>6. \A p \in Procs : Translate(p) \/ TranslateFails(p) => Frame
      BY DEF Translate, TranslateFails
<1>7. \A p \in Procs, delivered \in BOOLEAN : ReportFails(p, delivered) => Frame
      BY DEF ReportFails
<1>8. \A p \in Procs, errs, disables \in BOOLEAN, devMode \in DevModes :
         Respond(p, errs, disables, devMode) => Frame
      BY DEF Respond, afterPart
<1>9. \A p \in Procs : DisableCommand(p) \/ PostFlush(p) => Frame
      BY DEF DisableCommand, PostFlush, afterPart, afterFlush
<1>10. \A p \in Callers : FlushCall(p) \/ CloseCall(p) \/ CloseAgain(p) => Frame
      BY DEF FlushCall, CloseCall, CloseAgain
<1>11. \A p \in Callers : CloseFlush(p) \/ CloseDeadline(p) => Frame
      BY DEF CloseFlush, closeWaited, CloseDeadline
<1>12. \A p \in Callers : CloseSwap(p) \/ CloseConnection(p) => Frame
      BY DEF CloseSwap, CloseConnection
<1>13. \A p \in Callers, deadline \in BOOLEAN : CloseBegin(p, deadline) => Frame
      BY DEF CloseBegin
<1> HIDE DEF Frame
<1>14. (\E p \in Procs : PreFlush(p) \/ MetaCreate(p)) \/ Frame
      BY NextCases, <1>1, <1>2, <1>3, <1>4, <1>5, <1>6, <1>7, <1>8, <1>9, <1>10, <1>11,
         <1>12, <1>13
<1> QED
    BY <1>14 DEF Frame

\* A new span is in no buffer, so only recording it ends its being new.
LEMMA NewStaysNew ==
    ASSUME IInv, Apart, FateOfHeld, Next, NEW s \in Spans, fate[s] = "new"
    PROVE  fate'[s] = "new" \/ RecordSpan(s) \/ (s = MetaSpan /\ \E p \in Procs : MetaCreate(p))
<1>0. /\ Counting /\ RestOK /\ ControlOK
      /\ s \notin SpansOf(buffer) /\ s \notin SpansOf(flushing)
      /\ fate \in [Spans -> {"new", "ignored", "held", "sent", "dropped", "discarded"}]
      BY IInvParts DEF FateOfHeld, Held, RestOK
<1>1. ASSUME NEW r \in Spans, record(r), r # s
      PROVE  fate'[s] = "new"
      BY <1>0, <1>1 DEF record
<1>2. disable => fate'[s] = "new"
      BY <1>0 DEF disable
<1>3. ASSUME NEW p \in Procs, PostFlush(p)
      PROVE  fate'[s] = "new"
  <2>1. CASE postFlushSent
        BY <1>0, <2>1 DEF postFlushSent
  <2>2. CASE postFlushUntranslatable
        BY <1>0, <2>2 DEF postFlushUntranslatable
  <2>3. CASE postFlushFailed
        BY <1>0, <2>3 DEF postFlushFailed
  <2> QED
      BY <1>3, <2>1, <2>2, <2>3, PostFlushCases
<1>4. \A p \in Procs : PreFlush(p) \/ Translate(p) \/ TranslateFails(p) => fate'[s] = "new"
      BY DEF PreFlush, Translate, TranslateFails, history
<1>5. \A p \in Procs : /\ \A delivered \in BOOLEAN : ReportFails(p, delivered) => fate'[s] = "new"
                       /\ \A errs, disables \in BOOLEAN, devMode \in DevModes :
                             Respond(p, errs, disables, devMode) => fate'[s] = "new"
      BY DEF ReportFails, Respond
<1>6. \A p \in Callers, deadline \in BOOLEAN : CloseBegin(p, deadline) => fate'[s] = "new"
      BY DEF CloseBegin
<1>7. \A r \in Spans : RecordSpan(r) => record(r)
      BY DEF RecordSpan
<1>8. \A p \in Procs : /\ MetaCreate(p) => record(MetaSpan)
                       /\ DisableCommand(p) => disable
      BY DEF MetaCreate, DisableCommand
<1>9. Disable => disable
      BY DEF Disable
<1> QED
    BY DataSteps, TracerAssumption, <1>1, <1>2, <1>3, <1>4, <1>5, <1>6, <1>7, <1>8, <1>9

\* A step leaves the spans where they are, or is one of the operations above.
LEMMA SpansStay ==
    ASSUME Apart, FateOfHeld, UNCHANGED << bufferVars, fate >>
    PROVE  Apart' /\ FateOfHeld' /\ SpansOf(buffer') = SpansOf(buffer)
           /\ SpansOf(flushing') = SpansOf(flushing)
BY DEF Apart, FateOfHeld, Held, SpansOf, bufferVars

\* Every step keeps each span in one place, and its fate says so.
LEMMA ApartStep ==
    ASSUME IInv, SpansInv, Next
    PROVE  Apart' /\ FateOfHeld'
<1>0. /\ Counting /\ RestOK /\ ControlOK /\ FlushExclusive /\ FlushingEmptyBetweenFlushes
      /\ Apart /\ FateOfHeld /\ MetaOnce
      BY IInvParts DEF SpansInv
<1> DEFINE Goal == Apart' /\ FateOfHeld'
<1>1. ASSUME NEW s \in Spans, RecordSpan(s)
      PROVE  Goal
      BY <1>0, <1>1, RecordEffect DEF RecordSpan
<1>2. Disable => Goal
      BY <1>0, DisableEffect DEF Disable
<1>3. ASSUME NEW p \in Procs, MetaCreate(p)
      PROVE  Goal
  <2>1. fate[MetaSpan] = "new" /\ MetaSpan \in Spans
        BY <1>0, <1>3, TracerAssumption DEF MetaCreate, MetaOnce
  <2> QED
      BY <1>0, <1>3, <2>1, RecordEffect DEF MetaCreate
<1>4. \A p \in Procs : PreFlush(p) => Goal
      BY <1>0, PreFlushEffect
<1>5. \A p \in Procs : Translate(p) \/ TranslateFails(p) => Goal
      BY <1>0, ConvertEffect DEF Translate, TranslateFails
<1>6. ASSUME NEW p \in Procs, DisableCommand(p)
      PROVE  Goal
  <2>1. CASE disabled
    <3>1. UNCHANGED << bufferVars, fate >>
          BY <1>6, <2>1 DEF DisableCommand, disable, bufferVars
    <3> QED
        BY <1>0, <3>1, SpansStay
  <2>2. CASE ~disabled
        BY <1>0, <1>6, <2>2, DisableEffect DEF DisableCommand
  <2> QED
      BY <2>1, <2>2
<1>7. \A p \in Procs : PostFlush(p) => Goal
      BY <1>0, PostFlushCases, SentEffect, UntranslatableEffect, FailedEffect
<1>8. ASSUME UNCHANGED << bufferVars, fate >>
      PROVE  Goal
      BY <1>0, <1>8, SpansStay
<1>9. \A p \in Procs :
         /\ \A delivered \in BOOLEAN :
               ReportFails(p, delivered) => UNCHANGED << bufferVars, fate >>
         /\ \A errs, disables \in BOOLEAN, devMode \in DevModes :
               Respond(p, errs, disables, devMode) => UNCHANGED << bufferVars, fate >>
      BY DEF ReportFails, Respond
<1>10. \A p \in Callers, deadline \in BOOLEAN :
         CloseBegin(p, deadline) => UNCHANGED << bufferVars, fate >>
      BY DEF CloseBegin
<1> HIDE DEF Goal
<1>11. Goal
      BY DataSteps, <1>1, <1>2, <1>3, <1>4, <1>5, <1>6, <1>7, <1>8, <1>9, <1>10
<1> QED
    BY <1>11 DEF Goal

\* Every step records the meta span at most once.
LEMMA MetaStep ==
    ASSUME IInv, SpansInv, Next
    PROVE  MetaOnce'
<1>0. /\ ControlOK /\ FlushExclusive /\ Apart /\ FateOfHeld /\ MetaOnce
      /\ MetaSpan \in Spans
      BY IInvParts, TracerAssumption DEF SpansInv
<1>1. ASSUME NEW p \in Procs, PreFlush(p)
      PROVE  MetaOnce'
      BY <1>0, <1>1 DEF PreFlush, MetaOnce, ControlOK, metaVars, history
<1>2. ASSUME NEW p \in Procs, MetaCreate(p)
      PROVE  MetaOnce'
  <2>1. \A q \in Procs : q # p => pc[q] # "meta"
        BY <1>0, <1>2 DEF MetaCreate, FlushExclusive, InFlight
  <2>2. \A q \in Procs : pc'[q] # "meta"
        BY <1>0, <1>2, <2>1 DEF MetaCreate, ControlOK
  <2> QED
      BY <1>2, <2>2 DEF MetaCreate, MetaOnce
<1>3. ASSUME ~ \E p \in Procs : PreFlush(p) \/ MetaCreate(p)
      PROVE  MetaOnce'
  <2>1. /\ firstReportHasRun' = firstReportHasRun
        /\ \A q \in Procs : pc'[q] = "meta" => pc[q] = "meta"
        BY <1>0, <1>3, MetaFrame
  <2>2. ~RecordSpan(MetaSpan)
        BY DEF RecordSpan
  <2>3. fate[MetaSpan] = "new" => fate'[MetaSpan] = "new"
        BY <1>0, <1>3, <2>2, NewStaysNew
  <2> QED
      BY <1>0, <2>1, <2>3 DEF MetaOnce
<1> QED
    BY <1>1, <1>2, <1>3

\* CreateTracer starts with empty buffers and nothing recorded.
LEMMA InitSpans ==
    ASSUME Init
    PROVE  SpansInv
<1>1. buffer.rawSpans = << >> /\ flushing.rawSpans = << >>
      BY DEF Init, setCurrent, newSpansBuffer
<1>2. DOMAIN << >> = {}
      OBVIOUS
<1>3. SpansOf(buffer) = {} /\ SpansOf(flushing) = {}
      BY <1>1, <1>2 DEF SpansOf
<1>4. Apart
      BY <1>1, <1>2, <1>3 DEF Apart, IsInjective
<1>5. FateOfHeld
      BY <1>3 DEF Init, FateOfHeld, Held
<1>6. MetaOnce
      BY TracerAssumption DEF Init, MetaOnce
<1> QED
    BY <1>4, <1>5, <1>6 DEF SpansInv

\* Every step preserves it.
LEMMA StepSpans ==
    ASSUME IInv, SpansInv, [Next]_vars
    PROVE  SpansInv'
<1>1. CASE Next
      BY <1>1, ApartStep, MetaStep DEF SpansInv
<1>2. CASE UNCHANGED vars
  <2>1. UNCHANGED << bufferVars, fate, pc, firstReportHasRun >>
        BY <1>2 DEF vars, metaVars, history
  <2> QED
      BY <2>1, SpansStay DEF SpansInv, MetaOnce
<1> QED
    BY <1>1, <1>2

\* The invariant holds in every state of the tracer.
THEOREM SpansInvariance == Spec => []SpansInv
BY InitSpans, StepSpans, Invariance, PTL DEF Spec

\* Any number of flushes, failed and successful, beside any number of
\* goroutines that finish spans, lose and double none: a span is held exactly
\* while it is at one place of one of the two buffers.
THEOREM SpansHeldOnce == Spec => []HeldExactlyOnce
<1>1. ASSUME IInv, SpansInv
      PROVE  HeldExactlyOnce
  <2>0. /\ buffer.rawSpans \in Seq(Spans) /\ flushing.rawSpans \in Seq(Spans)
        /\ SpansOf(buffer) = Elements(buffer.rawSpans)
        /\ SpansOf(flushing) = Elements(flushing.rawSpans)
        BY <1>1, IInvParts, BufferSpans
  <2> SUFFICES ASSUME NEW s \in Spans
               PROVE  Cardinality({i \in DOMAIN buffer.rawSpans : buffer.rawSpans[i] = s})
                        + Cardinality({i \in DOMAIN flushing.rawSpans :
                                          flushing.rawSpans[i] = s})
                        = IF fate[s] = "held" THEN 1 ELSE 0
      BY DEF HeldExactlyOnce
  <2>1. Cardinality({i \in DOMAIN buffer.rawSpans : buffer.rawSpans[i] = s})
          = IF s \in SpansOf(buffer) THEN 1 ELSE 0
        BY <1>1, <2>0, OnePlace DEF SpansInv, Apart
  <2>2. Cardinality({i \in DOMAIN flushing.rawSpans : flushing.rawSpans[i] = s})
          = IF s \in SpansOf(flushing) THEN 1 ELSE 0
        BY <1>1, <2>0, OnePlace DEF SpansInv, Apart
  <2>3. /\ fate[s] = "held" <=> s \in SpansOf(buffer) \/ s \in SpansOf(flushing)
        /\ ~(s \in SpansOf(buffer) /\ s \in SpansOf(flushing))
        BY <1>1 DEF SpansInv, Apart, FateOfHeld, Held
  <2> QED
      BY <2>1, <2>2, <2>3
<1>2. IInv /\ SpansInv => HeldExactlyOnce
      BY <1>1
<1> QED
    BY <1>2, Invariance, SpansInvariance, PTL

-----------------------------------------------------------------------------
(***************************************************************************)
(* Close flushes what the tracer held when it was called                   *)
(***************************************************************************)

\* Only finishing a span brings it into the tracer, and only preFlush and
\* postFlush bring other spans into the buffer.
LEMMA HeldWereNew ==
    ASSUME IInv, SpansInv, Next
    PROVE  /\ \A s \in Held' : s \in Held \/ fate[s] = "new"
           /\ \/ \E p \in Procs : PreFlush(p) \/ PostFlush(p)
              \/ \A s \in SpansOf(buffer') : s \in SpansOf(buffer) \/ fate[s] = "new"
<1>0. /\ Counting /\ RestOK /\ ControlOK /\ FlushExclusive /\ FlushingEmptyBetweenFlushes
      /\ Apart /\ FateOfHeld /\ MetaOnce
      BY IInvParts DEF SpansInv
<1> DEFINE NewB == \A s \in SpansOf(buffer') : s \in SpansOf(buffer) \/ fate[s] = "new"
           NewH == \A s \in Held' : s \in Held \/ fate[s] = "new"
<1>1. ASSUME NEW s \in Spans, fate[s] = "new", record(s), flushing' = flushing
      PROVE  NewB /\ NewH
  <2>1. SpansOf(buffer') \subseteq SpansOf(buffer) \cup {s}
        BY <1>0, <1>1, RecordEffect
  <2>2. SpansOf(flushing') = SpansOf(flushing)
        BY <1>1 DEF SpansOf
  <2> QED
      BY <1>1, <2>1, <2>2 DEF Held
<1>2. ASSUME UNCHANGED bufferVars
      PROVE  NewB /\ NewH
      BY <1>2 DEF bufferVars, SpansOf, Held
<1>3. ASSUME disable, flushing' = flushing
      PROVE  NewB /\ NewH
  <2>1. CASE disabled
        BY <1>2, <1>3, <2>1 DEF disable, bufferVars
  <2>2. CASE ~disabled
    <3>1. SpansOf(buffer') = {} /\ SpansOf(flushing') = SpansOf(flushing)
          BY <1>0, <1>3, <2>2, DisableEffect DEF SpansOf
    <3> QED
        BY <3>1 DEF Held
  <2> QED
      BY <2>1, <2>2
<1>4. ASSUME NEW s \in Spans, RecordSpan(s)
      PROVE  NewB /\ NewH
      BY <1>1, <1>4 DEF RecordSpan
<1>5. ASSUME NEW p \in Procs, MetaCreate(p)
      PROVE  NewB /\ NewH
  <2>1. fate[MetaSpan] = "new" /\ MetaSpan \in Spans
        BY <1>0, <1>5, TracerAssumption DEF MetaCreate, MetaOnce
  <2> QED
      BY <1>1, <1>5, <2>1 DEF MetaCreate
<1>6. Disable \/ (\E p \in Procs : DisableCommand(p)) => NewB /\ NewH
      BY <1>3 DEF Disable, DisableCommand
<1>7. ASSUME NEW p \in Procs, Translate(p) \/ TranslateFails(p)
      PROVE  NewB /\ NewH
  <2>1. SpansOf(buffer') = SpansOf(buffer) /\ SpansOf(flushing') = SpansOf(flushing)
        BY <1>0, <1>7, ConvertEffect DEF Translate, TranslateFails, SpansOf
  <2> QED
      BY <2>1 DEF Held
<1>8. \A p \in Procs : PreFlush(p) => NewH
      BY <1>0, PreFlushEffect DEF Held
<1>9. \A p \in Procs : PostFlush(p) => NewH
  <2>1. postFlushSent => Held' \subseteq Held
        BY <1>0, SentEffect DEF Held
  <2>2. postFlushUntranslatable => Held' \subseteq Held
        BY <1>0, UntranslatableEffect DEF Held
  <2>3. postFlushFailed => Held' \subseteq Held
        BY <1>0, FailedEffect DEF Held
  <2> QED
      BY <2>1, <2>2, <2>3, PostFlushCases
<1>10. \A p \in Procs :
         /\ \A delivered \in BOOLEAN : ReportFails(p, delivered) => UNCHANGED bufferVars
         /\ \A errs, disables \in BOOLEAN, devMode \in DevModes :
               Respond(p, errs, disables, devMode) => UNCHANGED bufferVars
      BY DEF ReportFails, Respond
<1>11. \A p \in Callers, deadline \in BOOLEAN :
         CloseBegin(p, deadline) => UNCHANGED bufferVars
      BY DEF CloseBegin
<1> HIDE DEF NewB, NewH
<1>12. NewH /\ (NewB \/ \E p \in Procs : PreFlush(p) \/ PostFlush(p))
      BY DataSteps, <1>2, <1>4, <1>5, <1>6, <1>7, <1>8, <1>9, <1>10, <1>11
<1> QED
    BY <1>12 DEF NewB, NewH

\* A span that has been finished stays finished.
LEMMA FinishedForGood ==
    ASSUME IInv, Next, NEW s \in Spans, fate[s] # "new"
    PROVE  fate'[s] # "new"
<1>0. fate \in [Spans -> {"new", "ignored", "held", "sent", "dropped", "discarded"}]
      BY IInvParts DEF RestOK
<1>1. ASSUME NEW r \in Spans, record(r)
      PROVE  fate'[s] # "new"
      BY <1>0, <1>1 DEF record
<1>2. disable => fate'[s] # "new"
      BY <1>0 DEF disable
<1>3. \A p \in Procs : PostFlush(p) => fate'[s] # "new"
  <2>1. postFlushSent \/ postFlushUntranslatable => fate'[s] # "new"
        BY DEF postFlushSent, postFlushUntranslatable
  <2>2. postFlushFailed => fate'[s] # "new"
        BY DEF postFlushFailed
  <2> QED
      BY <2>1, <2>2, PostFlushCases
<1>4. \A p \in Procs : PreFlush(p) \/ Translate(p) \/ TranslateFails(p) => fate' = fate
      BY DEF PreFlush, Translate, TranslateFails, history
<1>5. \A p \in Procs : /\ \A delivered \in BOOLEAN : ReportFails(p, delivered) => fate' = fate
                       /\ \A errs, disables \in BOOLEAN, devMode \in DevModes :
                             Respond(p, errs, disables, devMode) => fate' = fate
      BY DEF ReportFails, Respond
<1>6. \A p \in Callers, deadline \in BOOLEAN : CloseBegin(p, deadline) => fate' = fate
      BY DEF CloseBegin
<1>7. \A r \in Spans : RecordSpan(r) => record(r)
      BY DEF RecordSpan
<1>8. \A p \in Procs : /\ MetaCreate(p) => record(MetaSpan)
                       /\ DisableCommand(p) => disable
      BY DEF MetaCreate, DisableCommand
<1>9. Disable => disable
      BY DEF Disable
<1> QED
    BY DataSteps, TracerAssumption, <1>1, <1>2, <1>3, <1>4, <1>5, <1>6, <1>7, <1>8, <1>9

\* The spans held when Close was called have been finished.
ClosedOver == \A s \in beforeClose : s \in Spans /\ fate[s] # "new"

\* While the flush of Close, or a later one of the same goroutine, is in flight
\* those spans are in its report or gone.
CloserTookAll ==
    closer # NoProc /\ InFlight(closer) => beforeClose \cap SpansOf(buffer) = {}

CloseInv == ClosedOver /\ CloserTookAll /\ CloseFlushes

\* Besides preFlush, the end of a flush and the start of Close, no step takes the
\* closer into a flush or to the closing of the connection.
LEMMA CloserFrame ==
    ASSUME ConnInv, Next
    PROVE  \/ \E p \in Procs : PreFlush(p) \/ PreFlushRefused(p) \/ PostFlush(p)
           \/ \E p \in Callers, deadline \in BOOLEAN : CloseBegin(p, deadline)
           \/ /\ UNCHANGED << closer, beforeClose, closeResult >>
              /\ closer # NoProc /\ InFlight(closer)' => InFlight(closer)
              /\ closer # NoProc /\ pc'[closer] \in {"closeSwap", "closeConn"}
                    => pc[closer] \in {"closeSwap", "closeConn"}
<1> DEFINE Frame ==
              /\ UNCHANGED << closer, beforeClose, closeResult >>
              /\ closer # NoProc /\ InFlight(closer)' => InFlight(closer)
              /\ closer # NoProc /\ pc'[closer] \in {"closeSwap", "closeConn"}
                    => pc[closer] \in {"closeSwap", "closeConn"}
<1>0. pc \in [Procs -> Places] /\ closer \in Callers \cup {NoProc} /\ Procs = Callers \cup {ReportLoop}
      BY DEF ConnInv, ControlOK, Procs
<1> USE DEF InFlight, closeVars, history
<1>1. (\E s \in Spans : RecordSpan(s)) \/ Disable \/ Tick => Frame
      BY DEF RecordSpan, Disable, Tick
<1>2. LoopTick \/ LoopAgain \/ ConnectClientFails => Frame
      BY <1>0 DEF LoopTick, LoopAgain, ConnectClientFails
<1>3. SwapConnection \/ CloseOldConnection \/ LoopClosed => Frame
      BY <1>0 DEF SwapConnection, CloseOldConnection, LoopClosed
<1>4. \A c \in Conns : ConnectClient(c) => Frame
      BY <1>0 DEF ConnectClient
<1>5. \A p \in Procs : Report(p) \/ MetaCreate(p) => Frame
      BY <1>0 DEF Report, MetaCreate
<1>6. \A p \in Procs : Translate(p) \/ TranslateFails(p) => Frame
      BY <1>0 DEF Translate, TranslateFails
<1>7. \A p \in Procs, delivered \in BOOLEAN : ReportFails(p, delivered) => Frame
      BY <1>0 DEF ReportFails
<1>8. \A p \in Procs, errs, disables \in BOOLEAN, devMode \in DevModes :
         Respond(p, errs, disables, devMode) => Frame
      BY <1>0 DEF Respond, afterPart
<1>9. \A p \in Procs : DisableCommand(p) => Frame
      BY <1>0 DEF DisableCommand, afterPart
<1>10. \A p \in Callers : FlushCall(p) \/ CloseCall(p) \/ CloseAgain(p) => Frame
      BY <1>0 DEF FlushCall, CloseCall, CloseAgain
<1>11. \A p \in Callers : CloseFlush(p) \/ CloseDeadline(p) => Frame
      BY <1>0 DEF CloseFlush, closeWaited, CloseDeadline
<1>12. \A p \in Callers : CloseSwap(p) \/ CloseConnection(p) => Frame
      BY <1>0 DEF CloseSwap, CloseConnection
<1> HIDE DEF Frame
<1>13. \/ \E p \in Procs : PreFlush(p) \/ PreFlushRefused(p) \/ PostFlush(p)
       \/ \E p \in Callers, deadline \in BOOLEAN : CloseBegin(p, deadline)
       \/ Frame
      BY NextCases, <1>1, <1>2, <1>3, <1>4, <1>5, <1>6, <1>7, <1>8, <1>9, <1>10, <1>11, <1>12
<1> QED
    BY <1>13 DEF Frame

\* Every step preserves it.
LEMMA CloseInvStep ==
    ASSUME IInv, ConnInv, SpansInv, CloseInv, Next
    PROVE  CloseInv'
<1>0. /\ Counting /\ RestOK /\ ControlOK /\ FlushExclusive /\ FlushingEmptyBetweenFlushes
      /\ Apart /\ FateOfHeld /\ OneCloser
      /\ pc \in [Procs -> Places] /\ closer \in Callers \cup {NoProc}
      /\ Callers \subseteq Procs /\ Held \subseteq Spans
      BY IInvParts, BufferSpans DEF SpansInv, ConnInv, ControlOK, Procs
<1>1. \A s \in beforeClose : s \in Spans /\ fate'[s] # "new"
      BY FinishedForGood DEF CloseInv, ClosedOver
<1>2. \A s \in beforeClose : s \in Held' => s \in Held
      BY HeldWereNew DEF CloseInv, ClosedOver
<1>3. ASSUME NEW p \in Callers, NEW deadline \in BOOLEAN, CloseBegin(p, deadline)
      PROVE  CloseInv'
  <2>1. closer' = p /\ pc'[p] = "closeWait" /\ beforeClose' = Held /\ fate' = fate
        BY <1>0, <1>3 DEF CloseBegin
  <2>2. ClosedOver'
        BY <1>0, <2>1 DEF ClosedOver, FateOfHeld
  <2> QED
      BY <2>1, <2>2 DEF CloseInv, CloserTookAll, CloseFlushes, InFlight
<1>4. ASSUME NEW p \in Procs, PreFlush(p)
      PROVE  CloseInv'
  <2>1. /\ SpansOf(buffer') = {} /\ UNCHANGED << closer, beforeClose, closeResult >>
        /\ \A q \in Procs : pc'[q] \in {"closeSwap", "closeConn"} => pc'[q] = pc[q]
        BY <1>0, <1>4, PreFlushEffect DEF PreFlush, closeVars, history
  <2> QED
      BY <1>0, <1>1, <1>2, <2>1
      DEF CloseInv, ClosedOver, CloserTookAll, CloseFlushes
<1>5. ASSUME NEW p \in Procs, PreFlushRefused(p)
      PROVE  CloseInv'
  <2>1. /\ UNCHANGED << closer, beforeClose, closeDone, bufferVars >>
        /\ pc'[p] = afterFlush(p) /\ \A q \in Procs \ {p} : pc'[q] = pc[q]
        /\ closeResult' = IF p = closer /\ ~closeDone THEN "failed" ELSE closeResult
        BY <1>0, <1>5 DEF PreFlushRefused, noteClose, closeVars
  <2>2. SpansOf(buffer') = SpansOf(buffer)
        BY <2>1 DEF bufferVars, SpansOf
  <2>3. \A q \in Procs : InFlight(q)' => InFlight(q)
        BY <2>1 DEF InFlight, afterFlush
  <2>4. CloserTookAll'
        BY <1>0, <2>1, <2>2, <2>3 DEF CloseInv, CloserTookAll
  <2>5. CloseFlushes'
    <3> SUFFICES ASSUME closer # NoProc, pc'[closer] \in {"closeSwap", "closeConn"},
                        closeResult' # "failed"
                 PROVE  beforeClose \cap Held' = {}
        BY <2>1 DEF CloseFlushes
    <3>1. p # closer
          BY <2>1, <1>0 DEF afterFlush
    <3>2. pc[closer] \in {"closeSwap", "closeConn"} /\ closeResult # "failed"
          BY <1>0, <2>1, <3>1
    <3> QED
        BY <1>2, <3>2 DEF CloseInv, CloseFlushes
  <2> QED
      BY <1>1, <2>1, <2>4, <2>5 DEF CloseInv, ClosedOver
<1>6. ASSUME NEW p \in Procs, PostFlush(p)
      PROVE  CloseInv'
  <2>1. /\ UNCHANGED << closer, beforeClose, closeDone >>
        /\ pc[p] = "post"
        /\ pc'[p] = afterFlush(p) /\ \A q \in Procs \ {p} : pc'[q] = pc[q]
        /\ closeResult' = IF p = closer /\ ~closeDone
                          THEN IF flushErr = "none" THEN "sent" ELSE "failed"
                          ELSE closeResult
        BY <1>0, <1>6 DEF PostFlush, noteClose, closeVars
  <2>2. \A q \in Procs : ~InFlight(q)'
    <3>1. \A q \in Procs \ {p} : ~InFlight(q)
          BY <1>0, <2>1 DEF FlushExclusive, InFlight
    <3> QED
        BY <2>1, <3>1 DEF InFlight, afterFlush
  <2>3. CloserTookAll'
        BY <1>0, <2>1, <2>2 DEF CloserTookAll
  <2>4. CloseFlushes'
    <3> SUFFICES ASSUME closer # NoProc, pc'[closer] \in {"closeSwap", "closeConn"},
                        closeResult' # "failed"
                 PROVE  beforeClose \cap Held' = {}
        BY <2>1 DEF CloseFlushes
    <3>1. CASE p = closer
      <4>1. ~closeDone /\ flushErr = "none"
            BY <1>0, <2>1, <3>1 DEF afterFlush
      <4>2. postFlushSent
            BY <1>6, <4>1 DEF PostFlush
      <4>3. Held' = SpansOf(buffer)
            BY <1>0, <4>2, SentEffect DEF Held
      <4>4. beforeClose \cap SpansOf(buffer) = {}
            BY <2>1, <3>1 DEF CloseInv, CloserTookAll, InFlight
      <4> QED
          BY <4>3, <4>4
    <3>2. CASE p # closer
      <4>1. pc[closer] \in {"closeSwap", "closeConn"} /\ closeResult # "failed"
            BY <1>0, <2>1, <3>2
      <4> QED
          BY <1>2, <4>1 DEF CloseInv, CloseFlushes
    <3> QED
        BY <3>1, <3>2
  <2> QED
      BY <1>1, <2>1, <2>3, <2>4 DEF CloseInv, ClosedOver
<1>7. CASE ~ \E p \in Procs : PreFlush(p) \/ PreFlushRefused(p) \/ PostFlush(p)
  <2>1. CASE \E p \in Callers, deadline \in BOOLEAN : CloseBegin(p, deadline)
        BY <1>3, <2>1
  <2>2. CASE ~ \E p \in Callers, deadline \in BOOLEAN : CloseBegin(p, deadline)
    <3>1. /\ UNCHANGED << closer, beforeClose, closeResult >>
          /\ closer # NoProc /\ InFlight(closer)' => InFlight(closer)
          /\ closer # NoProc /\ pc'[closer] \in {"closeSwap", "closeConn"}
                => pc[closer] \in {"closeSwap", "closeConn"}
          BY <1>7, <2>2, CloserFrame
    <3>2. \A s \in beforeClose : s \in SpansOf(buffer') => s \in SpansOf(buffer)
          BY <1>7, HeldWereNew DEF CloseInv, ClosedOver
    <3>3. ClosedOver'
          BY <1>1, <3>1 DEF ClosedOver
    <3>4. CloserTookAll'
          BY <3>1, <3>2 DEF CloseInv, CloserTookAll, InFlight
    <3>5. CloseFlushes'
          BY <1>2, <3>1 DEF CloseInv, CloseFlushes
    <3> QED
        BY <3>3, <3>4, <3>5 DEF CloseInv
  <2> QED
      BY <2>1, <2>2
<1> QED
    BY <1>4, <1>5, <1>6, <1>7

\* The invariant holds in every state of the tracer.
THEOREM CloseInvariance == Spec => []CloseInv
<1>1. Init => CloseInv
      BY DEF Init, CloseInv, ClosedOver, CloserTookAll, CloseFlushes
<1>2. ASSUME IInv, ConnInv, SpansInv, CloseInv, UNCHANGED vars
      PROVE  CloseInv'
      BY <1>2 DEF vars, bufferVars, closeVars, history, CloseInv, ClosedOver,
                  CloserTookAll, CloseFlushes, InFlight, SpansOf, Held
<1>3. IInv /\ ConnInv /\ SpansInv /\ CloseInv /\ [Next]_vars => CloseInv'
      BY <1>2, CloseInvStep
<1> QED
    BY <1>1, <1>3, Invariance, ConnInvariance, SpansInvariance, PTL DEF Spec

\* However many goroutines finish spans, flush and call Close, and whatever the
\* network does: when Close goes on to close the connection and its flush has not
\* failed, it leaves none of the spans behind that the tracer held when Close
\* was called.
THEOREM CloseLeavesNothing == Spec => []CloseFlushes
<1>1. CloseInv => CloseFlushes
      BY DEF CloseInv
<1> QED
    BY <1>1, CloseInvariance, PTL

-----------------------------------------------------------------------------
(***************************************************************************)
(* What the collector gets from a tracer whose flushes send their reports  *)
(* in one part: each span that counts as sent, each drop once, and in all  *)
(* the tracer implements SpanStore.                                        *)
(***************************************************************************)

\* No flush splits its report.
OnePart == \A q \in Seq(Spans) : Len(q) <= MaxBufferedSpans => requestParts(q) = {<< q >>}

\* So it is over HTTP, whose requests SplitByParts leaves whole ...
LEMMA HTTPNeverSplits ==
    ASSUME Transport = "http"
    PROVE  OnePart
BY DEF OnePart, requestParts

\* ... and with the other clients when a full buffer fits into one message.
LEMMA SmallReportsNeverSplit ==
    ASSUME \A s \in Spans : SpanBytes(s) * MaxBufferedSpans <= GRPCMaxCallSendMsgSizeBytes
    PROVE  OnePart
<1> SUFFICES ASSUME NEW q \in Seq(Spans), Len(q) <= MaxBufferedSpans, Transport # "http"
             PROVE  requestParts(q) = {<< q >>}
    BY HTTPNeverSplits DEF OnePart
<1>1. ASSUME q # << >>, NEW i \in DOMAIN q
      PROVE  ~(SpanBytes(q[i]) * Len(q) > GRPCMaxCallSendMsgSizeBytes)
  <2>1. q[i] \in Spans /\ SpanBytes(q[i]) \in Nat /\ Len(q) \in Nat
        BY <1>1, TracerAssumption, LenProperties, ElementOfSeq
  <2>2. SpanBytes(q[i]) * MaxBufferedSpans <= GRPCMaxCallSendMsgSizeBytes
        BY <2>1
  <2>3. \A a, l, m, g \in Nat : l <= m /\ a * m <= g => ~(a * l > g)
    <3> TAKE a \in Nat, l \in Nat, m \in Nat, g \in Nat
    <3> HAVE l <= m /\ a * m <= g
    <3>1. m - l \in Nat /\ a * (m - l) = a * m - a * l
          OBVIOUS
    <3>2. a * (m - l) \in Nat /\ a * m \in Nat /\ a * l \in Nat
          BY <3>1
    <3> QED
        BY <3>1, <3>2
  <2> QED
      BY <2>1, <2>2, <2>3, BufferAssumption, TracerAssumption
<1>2. partsFor(q) = {1}
  <2>1. CASE q = << >>
        BY <2>1 DEF partsFor
  <2>2. CASE q # << >>
    <3>1. 1 \in DOMAIN q
          BY <2>2, LenProperties, EmptySeq
    <3> QED
        BY <1>1, <2>2, <3>1 DEF partsFor
  <2> QED
      BY <2>1, <2>2
<1>3. SplitByParts(q, 1) = << q >>
      BY DEF SplitByParts
<1> QED
    BY <1>2, <1>3 DEF requestParts

-----------------------------------------------------------------------------
(***************************************************************************)
(* What was sent was received                                              *)
(***************************************************************************)

\* A flush asks for its spans in one request ...
Asked == \A p \in Procs : pc[p] \in {"report", "await"} => request = << flushing.rawSpans >>

\* ... and once it has an answer without an error the collector has them.
Answered ==
    \A p \in Procs : pc[p] \in {"disable", "post"} =>
        /\ request = << >>
        /\ flushErr = "none" => SpansOf(flushing) \subseteq received

DeliveryInv == Asked /\ Answered /\ SentWereReceived

\* The steps that neither ask nor answer nor end a flush.
LEMMA AnswerFrame ==
    ASSUME ControlOK, Next
    PROVE  \/ \E p \in Procs : \/ PreFlush(p) \/ Translate(p) \/ TranslateFails(p)
                               \/ \E delivered \in BOOLEAN : ReportFails(p, delivered)
                               \/ \E errs, disables \in BOOLEAN, devMode \in DevModes :
                                     Respond(p, errs, disables, devMode)
                               \/ DisableCommand(p) \/ PostFlush(p)
           \/ /\ UNCHANGED << request, flushErr, flushing, received >>
              /\ \A q \in Procs :
                    /\ pc'[q] \in {"disable", "post"} => pc'[q] = pc[q]
                    /\ pc[q] \in {"disable", "post"} => pc'[q] = pc[q]
                    /\ pc'[q] \in {"report", "await"} => pc[q] \in {"report", "await"}
<1> DEFINE Frame ==
              /\ UNCHANGED << request, flushErr, flushing, received >>
              /\ \A q \in Procs :
                    /\ pc'[q] \in {"disable", "post"} => pc'[q] = pc[q]
                    /\ pc[q] \in {"disable", "post"} => pc'[q] = pc[q]
                    /\ pc'[q] \in {"report", "await"} => pc[q] \in {"report", "await"}
<1>0. pc \in [Procs -> Places] /\ Procs = Callers \cup {ReportLoop}
      BY DEF ControlOK, Procs
<1> USE DEF bufferVars, flushVars, history
<1>1. (\E s \in Spans : RecordSpan(s)) \/ Disable \/ Tick => Frame
      BY DEF RecordSpan, Disable, Tick
<1>2. LoopTick \/ LoopAgain \/ ConnectClientFails => Frame
      BY <1>0 DEF LoopTick, LoopAgain, ConnectClientFails
<1>3. SwapConnection \/ CloseOldConnection \/ LoopClosed => Frame
      BY <1>0 DEF SwapConnection, CloseOldConnection, LoopClosed
<1>4. \A c \in Conns : ConnectClient(c) => Frame
      BY <1>0 DEF ConnectClient
<1>5. \A p \in Procs : Report(p) \/ MetaCreate(p) => Frame
      BY <1>0 DEF Report, MetaCreate
<1>6. \A p \in Procs : PreFlushRefused(p) => Frame
      BY <1>0 DEF PreFlushRefused, afterFlush
<1>7. \A p \in Callers : FlushCall(p) \/ CloseCall(p) \/ CloseAgain(p) => Frame
      BY <1>0 DEF FlushCall, CloseCall, CloseAgain
<1>8. \A p \in Callers : CloseFlush(p) \/ CloseDeadline(p) => Frame
      BY <1>0 DEF CloseFlush, closeWaited, CloseDeadline
<1>9. \A p \in Callers : CloseSwap(p) \/ CloseConnection(p) => Frame
      BY <1>0 DEF CloseSwap, CloseConnection
<1>10. \A p \in Callers, deadline \in BOOLEAN : CloseBegin(p, deadline) => Frame
      BY <1>0 DEF CloseBegin
<1> HIDE DEF Frame
<1>11. \/ \E p \in Procs : \/ PreFlush(p) \/ Translate(p) \/ TranslateFails(p)
                           \/ \E delivered \in BOOLEAN : ReportFails(p, delivered)
                           \/ \E errs, disables \in BOOLEAN, devMode \in DevModes :
                                 Respond(p, errs, disables, devMode)
                           \/ DisableCommand(p) \/ PostFlush(p)
       \/ Frame
      BY NextCases, <1>1, <1>2, <1>3, <1>4, <1>5, <1>6, <1>7, <1>8, <1>9, <1>10
<1> QED
    BY <1>11 DEF Frame

\* The part in hand is the whole report, and its answer leaves nothing to ask.
LEMMA WholePart ==
    ASSUME Counting, Asked, NEW p \in Procs, pc[p] = "await"
    PROVE  partSpans = SpansOf(flushing) /\ Tail(request) = << >>
<1>1. request = << flushing.rawSpans >>
      BY DEF Asked
<1>2. Head(request) = flushing.rawSpans /\ Tail(request) = << >>
      BY <1>1
<1> QED
    BY <1>2 DEF partSpans, SpansOf

\* Nobody else is in flight beside the goroutine that holds the lock.
LEMMA OthersWait ==
    ASSUME FlushExclusive, NEW p \in Procs, InFlight(p) \/ flushingLock = NoProc
    PROVE  \A q \in Procs \ {p} :
              pc[q] \notin {"meta", "convert", "report", "await", "disable", "post"}
BY TracerAssumption DEF FlushExclusive, InFlight, Procs

\* The steps of a flush keep what was asked and answered.
LEMMA AskStep ==
    ASSUME OnePart, IInv, Asked, Answered, Next
    PROVE  Asked' /\ Answered'
<1>0. /\ ControlOK /\ Counting /\ FlushExclusive
      /\ pc \in [Procs -> Places]
      /\ flushing.rawSpans \in Seq(Spans) /\ Len(flushing.rawSpans) <= MaxBufferedSpans
      BY IInvParts, BufferSpans DEF ControlOK, Counting, WellFormed
<1>1. ASSUME NEW p \in Procs, PreFlush(p)
      PROVE  Asked' /\ Answered'
  <2>1. \A q \in Procs \ {p} : pc'[q] \notin {"report", "await", "disable", "post"}
        BY <1>0, <1>1, OthersWait DEF PreFlush, lockFree
  <2>2. pc'[p] \in {"meta", "convert"}
        BY <1>0, <1>1 DEF PreFlush
  <2> QED
      BY <2>1, <2>2 DEF Asked, Answered
<1>2. ASSUME NEW p \in Procs, Translate(p)
      PROVE  Asked' /\ Answered'
  <2>1. \A q \in Procs \ {p} : pc'[q] \notin {"report", "await", "disable", "post"}
        BY <1>0, <1>2, OthersWait DEF Translate, InFlight
  <2>2. pc'[p] = "report" /\ request' = << flushing.rawSpans >>
        BY <1>0, <1>2 DEF Translate, OnePart
  <2>3. flushing'.rawSpans = flushing.rawSpans
        BY <1>0, <1>2, BufferSpans DEF Translate, countEncoderErrors, Buffers
  <2> QED
      BY <2>1, <2>2, <2>3 DEF Asked, Answered
<1>3. ASSUME NEW p \in Procs, TranslateFails(p)
      PROVE  Asked' /\ Answered'
  <2>1. \A q \in Procs \ {p} : pc'[q] \notin {"report", "await", "disable", "post"}
        BY <1>0, <1>3, OthersWait DEF TranslateFails, InFlight
  <2>2. pc'[p] = "post" /\ request' = << >> /\ flushErr' # "none"
        BY <1>0, <1>3 DEF TranslateFails
  <2> QED
      BY <2>1, <2>2 DEF Asked, Answered
<1>4. ASSUME NEW p \in Procs, NEW delivered \in BOOLEAN, ReportFails(p, delivered)
      PROVE  Asked' /\ Answered'
  <2>1. \A q \in Procs \ {p} : pc'[q] \notin {"report", "await", "disable", "post"}
        BY <1>0, <1>4, OthersWait DEF ReportFails, InFlight
  <2>2. pc'[p] = "post" /\ request' = << >> /\ flushErr' # "none"
        BY <1>0, <1>4 DEF ReportFails
  <2> QED
      BY <2>1, <2>2 DEF Asked, Answered
<1>5. ASSUME NEW p \in Procs, NEW errs \in BOOLEAN, NEW disables \in BOOLEAN,
             NEW devMode \in DevModes, Respond(p, errs, disables, devMode)
      PROVE  Asked' /\ Answered'
  <2>1. \A q \in Procs \ {p} : pc'[q] \notin {"report", "await", "disable", "post"}
        BY <1>0, <1>5, OthersWait DEF Respond, InFlight
  <2>2. pc[p] = "await" /\ partSpans = SpansOf(flushing) /\ Tail(request) = << >>
        BY <1>0, <1>5, WholePart DEF Respond
  <2>3. request' = << >> /\ pc'[p] \in {"disable", "post"} /\ flushing' = flushing
        BY <1>0, <1>5, <2>2 DEF Respond, afterPart, bufferVars
  <2>4. flushErr' = "none" => received' = received \cup SpansOf(flushing)
        BY <1>5, <2>2 DEF Respond, errorState
  <2> QED
      BY <2>1, <2>3, <2>4 DEF Asked, Answered, SpansOf
<1>6. ASSUME NEW p \in Procs, DisableCommand(p)
      PROVE  Asked' /\ Answered'
  <2>1. \A q \in Procs \ {p} : pc'[q] \notin {"report", "await", "disable", "post"}
        BY <1>0, <1>6, OthersWait DEF DisableCommand, InFlight
  <2>2. pc[p] = "disable" /\ UNCHANGED << request, flushErr, flushing, received >>
        BY <1>6 DEF DisableCommand, flushVars
  <2>3. pc'[p] = "post"
        BY <1>0, <1>6, <2>2 DEF DisableCommand, afterPart, Answered
  <2> QED
      BY <2>1, <2>2, <2>3 DEF Asked, Answered, SpansOf
<1>7. ASSUME NEW p \in Procs, PostFlush(p)
      PROVE  Asked' /\ Answered'
  <2>1. \A q \in Procs \ {p} : pc'[q] \notin {"report", "await", "disable", "post"}
        BY <1>0, <1>7, OthersWait DEF PostFlush, InFlight
  <2>2. pc'[p] \notin {"report", "await", "disable", "post"}
        BY <1>0, <1>7 DEF PostFlush, afterFlush
  <2> QED
      BY <2>1, <2>2 DEF Asked, Answered
<1>8. ASSUME UNCHANGED << request, flushErr, flushing, received >>,
             \A q \in Procs :
                /\ pc'[q] \in {"disable", "post"} => pc'[q] = pc[q]
                /\ pc'[q] \in {"report", "await"} => pc[q] \in {"report", "await"}
      PROVE  Asked' /\ Answered'
      BY <1>8 DEF Asked, Answered, SpansOf
<1> QED
    BY <1>0, AnswerFrame, <1>1, <1>2, <1>3, <1>4, <1>5, <1>6, <1>7, <1>8

\* What the collector has received it has for good.
LEMMA ReceivedGrows ==
    ASSUME Next
    PROVE  received \subseteq received'
<1>1. \A p \in Procs, delivered \in BOOLEAN :
         ReportFails(p, delivered) => received \subseteq received'
      BY DEF ReportFails
<1>2. \A p \in Procs, errs, disables \in BOOLEAN, devMode \in DevModes :
         Respond(p, errs, disables, devMode) => received \subseteq received'
      BY DEF Respond
<1>3. \A p \in Procs : PreFlush(p) \/ MetaCreate(p) \/ DisableCommand(p) \/ PostFlush(p)
         => received' = received
      BY DEF PreFlush, MetaCreate, DisableCommand, PostFlush, history
<1>4. \A p \in Procs : Translate(p) \/ TranslateFails(p) => received' = received
      BY DEF Translate, TranslateFails
<1>5. (\E s \in Spans : RecordSpan(s)) \/ Disable => received' = received
      BY DEF RecordSpan, Disable
<1>6. \A p \in Callers, deadline \in BOOLEAN : CloseBegin(p, deadline) => received' = received
      BY DEF CloseBegin
<1> QED
    BY DataSteps, <1>1, <1>2, <1>3, <1>4, <1>5, <1>6

\* Only the end of a successful flush counts a span as sent.
LEMMA SentByFlush ==
    ASSUME IInv, Next, NEW s \in Spans, fate'[s] = "sent"
    PROVE  \/ fate[s] = "sent"
           \/ \E p \in Procs : /\ pc[p] = "post" /\ flushErr = "none"
                               /\ s \in SpansOf(flushing)
<1>0. fate \in [Spans -> {"new", "ignored", "held", "sent", "dropped", "discarded"}]
      BY IInvParts DEF RestOK
<1>1. ASSUME NEW r \in Spans, record(r)
      PROVE  fate[s] = "sent"
      BY <1>0, <1>1 DEF record
<1>2. disable => fate[s] = "sent"
      BY <1>0 DEF disable
<1>3. ASSUME NEW p \in Procs, PostFlush(p)
      PROVE  fate[s] = "sent" \/ (pc[p] = "post" /\ flushErr = "none" /\ s \in SpansOf(flushing))
  <2>1. CASE flushErr = "none"
        BY <1>3, <2>1 DEF PostFlush, postFlushSent
  <2>2. CASE flushErr = "translate"
        BY <1>3, <2>2 DEF PostFlush, postFlushUntranslatable
  <2>3. CASE flushErr \notin {"none", "translate"}
    <3>1. postFlushFailed
          BY <1>3, <2>3 DEF PostFlush
    <3> QED
        BY <3>1 DEF postFlushFailed
  <2> QED
      BY <2>1, <2>2, <2>3
<1>4. \A p \in Procs : PreFlush(p) \/ Translate(p) \/ TranslateFails(p) => fate' = fate
      BY DEF PreFlush, Translate, TranslateFails, history
<1>5. \A p \in Procs : /\ \A delivered \in BOOLEAN : ReportFails(p, delivered) => fate' = fate
                       /\ \A errs, disables \in BOOLEAN, devMode \in DevModes :
                             Respond(p, errs, disables, devMode) => fate' = fate
      BY DEF ReportFails, Respond
<1>6. \A p \in Callers, deadline \in BOOLEAN : CloseBegin(p, deadline) => fate' = fate
      BY DEF CloseBegin
<1>7. \A r \in Spans : RecordSpan(r) => record(r)
      BY DEF RecordSpan
<1>8. \A p \in Procs : /\ MetaCreate(p) => record(MetaSpan)
                       /\ DisableCommand(p) => disable
      BY DEF MetaCreate, DisableCommand
<1>9. Disable => disable
      BY DEF Disable
<1> QED
    BY DataSteps, TracerAssumption, <1>1, <1>2, <1>3, <1>4, <1>5, <1>6, <1>7, <1>8, <1>9

\* Every step preserves it.
LEMMA DeliveryStep ==
    ASSUME OnePart, IInv, DeliveryInv, [Next]_vars
    PROVE  DeliveryInv'
<1>1. CASE Next
  <2>1. Asked' /\ Answered'
        BY <1>1, AskStep DEF DeliveryInv
  <2>2. SentWereReceived'
        BY <1>1, ReceivedGrows, SentByFlush DEF DeliveryInv, SentWereReceived, Answered
  <2> QED
      BY <2>1, <2>2 DEF DeliveryInv
<1>2. CASE UNCHANGED vars
      BY <1>2 DEF vars, bufferVars, flushVars, history, DeliveryInv, Asked, Answered,
                  SentWereReceived, SpansOf
<1> QED
    BY <1>1, <1>2

\* A tracer has not sent anything when it starts.
LEMMA InitDelivery ==
    ASSUME Init
    PROVE  DeliveryInv
<1>1. \A p \in Procs : pc[p] \in {"select", "idle"}
      BY DEF Init
<1> QED
    BY <1>1 DEF Init, DeliveryInv, Asked, Answered, SentWereReceived

\* The invariant holds in every state of such a tracer.
THEOREM DeliveryInvariance ==
    ASSUME OnePart
    PROVE  Spec => []DeliveryInv
<1>1. IInv /\ DeliveryInv /\ [Next]_vars => DeliveryInv'
      BY DeliveryStep
<1> QED
    BY <1>1, InitDelivery, Invariance, PTL DEF Spec

\* Lost answers, retries, disabling and closing notwithstanding, a tracer that
\* does not split its reports counts no span as sent that the collector has not
\* accepted.
THEOREM SentReceived ==
    ASSUME OnePart
    PROVE  Spec => []SentWereReceived
<1>1. DeliveryInv => SentWereReceived
      BY DEF DeliveryInv
<1> QED
    BY <1>1, DeliveryInvariance, PTL

-----------------------------------------------------------------------------
(***************************************************************************)
(* The collector is told of every drop once                                *)
(***************************************************************************)

\* The report in flight has come back without an error.
Acknowledged == \E p \in Procs : pc[p] \in {"disable", "post"} /\ flushErr = "none"

\* The drop counts the collector was told, will be told, and never will be.
Account ==
    ledger.collected + buffer.droppedSpanCount
      + (IF Acknowledged THEN 0 ELSE flushing.droppedSpanCount)
      + ledger.forfeited

\* The numbers in the account.
LEMMA AccountTypes ==
    ASSUME Counting
    PROVE  /\ ledger.collected \in Nat /\ ledger.forfeited \in Nat /\ ledger.dropped \in Nat
           /\ buffer.droppedSpanCount \in Nat /\ flushing.droppedSpanCount \in Nat
BY LedgerFields, UnreportedTypes DEF Counting

\* RecordSpan counts a drop in the buffer.
LEMMA RecordDrop ==
    ASSUME Counting, NEW s \in Spans, record(s)
    PROVE  \E d \in Nat : /\ buffer'.droppedSpanCount = buffer.droppedSpanCount + d
                          /\ ledger'.dropped = ledger.dropped + d
                          /\ ledger'.collected = ledger.collected
                          /\ ledger'.forfeited = ledger.forfeited
<1>0. /\ buffer \in Buffers /\ ledger \in Ledger
      /\ Len(buffer.rawSpans) \in Nat /\ buffer.rawSpans \in Seq(Spans)
      BY FieldTypes DEF Counting, WellFormed
<1>1. CASE recordable(s) /\ isFull(buffer)
  <2>1. buffer' = [buffer EXCEPT !.droppedSpanCount = buffer.droppedSpanCount + 1]
        BY <1>1 DEF record, addSpan
  <2>2. /\ buffer'.rawSpans = buffer.rawSpans
        /\ buffer'.droppedSpanCount = buffer.droppedSpanCount + 1
        BY <1>0, <2>1 DEF Buffers
  <2>3. NotKept(1, buffer, buffer') = 1
        BY <1>0, <2>2 DEF NotKept
  <2>4. ledger' = [ledger EXCEPT !.dropped = ledger.dropped + 1]
        BY <1>1, <2>3 DEF record
  <2> QED
      BY <1>0, <2>2, <2>4 DEF Ledger
<1>2. CASE recordable(s) /\ ~isFull(buffer)
  <2>1. buffer' = [buffer EXCEPT !.rawSpans = Append(buffer.rawSpans, s)]
        BY <1>2 DEF record, addSpan
  <2>2. /\ buffer'.rawSpans = Append(buffer.rawSpans, s)
        /\ buffer'.droppedSpanCount = buffer.droppedSpanCount
        BY <1>0, <2>1 DEF Buffers
  <2>3. NotKept(1, buffer, buffer') = 0
        BY <1>0, <2>2 DEF NotKept
  <2>4. ledger' = [ledger EXCEPT !.dropped = ledger.dropped + 0]
        BY <1>2, <2>3 DEF record
  <2>5. /\ buffer'.droppedSpanCount = buffer.droppedSpanCount + 0
        /\ ledger'.dropped = ledger.dropped + 0
        /\ ledger'.collected = ledger.collected /\ ledger'.forfeited = ledger.forfeited
        BY <1>0, <2>2, <2>4, AccountTypes DEF Ledger
  <2> QED
      BY <2>5
<1>3. CASE ~recordable(s)
  <2>1. buffer' = buffer /\ ledger' = ledger
        BY <1>3 DEF record
  <2>2. buffer.droppedSpanCount = buffer.droppedSpanCount + 0 /\ ledger.dropped = ledger.dropped + 0
        BY AccountTypes
  <2> QED
      BY <2>1, <2>2
<1> QED
    BY <1>1, <1>2, <1>3

\* Disable forfeits the count of the buffer it clears.
LEMMA DisableDrop ==
    ASSUME Counting, disable
    PROVE  /\ ledger'.forfeited + buffer'.droppedSpanCount
                = ledger.forfeited + buffer.droppedSpanCount
           /\ ledger'.dropped = ledger.dropped /\ ledger'.collected = ledger.collected
           /\ buffer'.droppedSpanCount \in Nat /\ ledger'.forfeited \in Nat
<1>1. CASE disabled
      BY <1>1, AccountTypes DEF disable
<1>2. CASE ~disabled
  <2>1. buffer'.droppedSpanCount = 0
        BY <1>2 DEF disable, clear, newSpansBuffer
  <2>2. /\ ledger'.forfeited = ledger.forfeited + buffer.droppedSpanCount
        /\ ledger'.dropped = ledger.dropped /\ ledger'.collected = ledger.collected
        BY <1>2 DEF disable, Counting, Ledger
  <2> QED
      BY <2>1, <2>2, AccountTypes
<1> QED
    BY <1>1, <1>2

\* A failed flush puts its count back and adds the spans that did not fit.
LEMMA FailedDrop ==
    ASSUME Counting, postFlushFailed
    PROVE  \E d \in Nat :
              /\ buffer'.droppedSpanCount = buffer.droppedSpanCount + flushing.droppedSpanCount + d
              /\ ledger'.dropped = ledger.dropped + d
              /\ ledger'.collected = ledger.collected
              /\ ledger'.forfeited = ledger.forfeited
<1> DEFINE m == mergeFrom(buffer, flushing)
           d == mergeDropped(buffer, flushing)
<1>0. /\ buffer \in Buffers /\ flushing \in Buffers /\ WellFormed(m)
      /\ Len(m.rawSpans) - Len(buffer.rawSpans) \in 0 .. Len(flushing.rawSpans)
      /\ unreportedDropped(m) =
           unreportedDropped(buffer) + unreportedDropped(flushing)
           + (Len(flushing.rawSpans) - (Len(m.rawSpans) - Len(buffer.rawSpans)))
      BY MergeFromCounts DEF Counting, WellFormed
<1>1. /\ m.droppedSpanCount = buffer.droppedSpanCount + flushing.droppedSpanCount + d
      /\ m.reportedDroppedSpanCount
           = buffer.reportedDroppedSpanCount + flushing.reportedDroppedSpanCount
      BY DEF mergeFrom, mergeReported
<1>2. Len(flushing.rawSpans) \in Nat /\ d \in Nat
  <2>1. /\ Len(flushing.rawSpans) \in Nat /\ Len(buffer.rawSpans) \in Nat
        /\ Len(buffer.rawSpans) <= MaxBufferedSpans
        BY <1>0, FieldTypes DEF Counting, WellFormed
  <2> QED
      BY <2>1, BufferAssumption DEF mergeDropped, mergeSpace
<1>3. ledger' = [ledger EXCEPT
                   !.dropped = ledger.dropped + NotKept(Len(flushing.rawSpans), buffer, m),
                   !.told = ledger.told + unreportedDropped(m),
                   !.toldErrors = ledger.toldErrors + unreportedEncoderErrors(m)]
      BY DEF postFlushFailed
<1>4. buffer' = markReported(m)
      BY DEF postFlushFailed
<1> HIDE DEF m, d
<1>5. NotKept(Len(flushing.rawSpans), buffer, m) = d
  <2>1. NotKept(Len(flushing.rawSpans), buffer, m) \in Nat
    <3>1. \A n \in Nat : \A k \in 0 .. n : n - k \in Nat
          OBVIOUS
    <3> QED
        BY <1>0, <1>2, <3>1 DEF NotKept
  <2>2. /\ buffer.droppedSpanCount \in Nat /\ flushing.droppedSpanCount \in Nat
        /\ buffer.reportedDroppedSpanCount \in Nat /\ flushing.reportedDroppedSpanCount \in Nat
        BY <1>0, FieldTypes
  <2>3. unreportedDropped(m) = unreportedDropped(buffer) + unreportedDropped(flushing)
                                 + NotKept(Len(flushing.rawSpans), buffer, m)
        BY <1>0 DEF NotKept
  <2>4. (buffer.droppedSpanCount + flushing.droppedSpanCount + d)
          - (buffer.reportedDroppedSpanCount + flushing.reportedDroppedSpanCount)
          = (buffer.droppedSpanCount - buffer.reportedDroppedSpanCount)
            + (flushing.droppedSpanCount - flushing.reportedDroppedSpanCount)
            + NotKept(Len(flushing.rawSpans), buffer, m)
        BY <1>1, <2>3 DEF unreportedDropped
  <2>5. \A b, f, rb, rf, x, y \in Nat :
           (b + f + x) - (rb + rf) = (b - rb) + (f - rf) + y => y = x
        OBVIOUS
  <2> QED
      BY <1>2, <2>1, <2>2, <2>4, <2>5
<1>6. buffer'.droppedSpanCount = m.droppedSpanCount
      BY <1>0, <1>4 DEF markReported, WellFormed, Buffers
<1>7. /\ ledger'.dropped = ledger.dropped + d
      /\ ledger'.collected = ledger.collected
      /\ ledger'.forfeited = ledger.forfeited
      BY <1>3, <1>5 DEF Counting, Ledger
<1> QED
    BY <1>1, <1>2, <1>6, <1>7

\* Before the answer of the collector nothing is acknowledged.
LEMMA NotYetAcknowledged ==
    ASSUME FlushExclusive, NEW p \in Procs,
           flushingLock = NoProc \/ pc[p] \in {"meta", "convert", "report", "await"}
    PROVE  ~Acknowledged
BY OthersWait, TracerAssumption DEF Acknowledged, FlushExclusive, InFlight, Procs

\* The first half of a flush leaves the drop counts alone.
LEMMA AskAccount ==
    ASSUME IInv, Account = ledger.dropped, NEW p \in Procs,
           PreFlush(p) \/ Translate(p) \/ TranslateFails(p)
             \/ \E delivered \in BOOLEAN : ReportFails(p, delivered)
    PROVE  Account' = ledger'.dropped
<1>0. /\ ControlOK /\ Counting /\ FlushExclusive /\ FlushingEmptyBetweenFlushes
      /\ pc \in [Procs -> Places]
      /\ buffer \in Buffers /\ flushing \in Buffers
      BY IInvParts, BufferSpans DEF ControlOK
<1>1. ~Acknowledged
      BY <1>0, NotYetAcknowledged
      DEF PreFlush, lockFree, Translate, TranslateFails, ReportFails
<1>2. \A q \in Procs \ {p} : pc[q] \notin {"disable", "post"}
      BY <1>0, OthersWait DEF PreFlush, lockFree, Translate, TranslateFails, ReportFails, InFlight
<1>3. ~Acknowledged'
  <2>1. \A q \in Procs \ {p} : pc'[q] = pc[q]
        BY <1>0 DEF PreFlush, Translate, TranslateFails, ReportFails
  <2>2. pc'[p] \notin {"disable", "post"} \/ flushErr' # "none"
        BY <1>0 DEF PreFlush, Translate, TranslateFails, ReportFails
  <2> QED
      BY <1>2, <2>1, <2>2 DEF Acknowledged
<1>4. /\ ledger'.collected = ledger.collected /\ ledger'.forfeited = ledger.forfeited
      /\ ledger'.dropped = ledger.dropped
  <2>1. PreFlush(p) => ledger' = ledger
        BY DEF PreFlush, history
  <2>2. ASSUME Translate(p) \/ TranslateFails(p)
        PROVE  /\ ledger'.collected = ledger.collected
               /\ ledger'.forfeited = ledger.forfeited /\ ledger'.dropped = ledger.dropped
    <3>1. countEncoderErrors
          BY <2>2 DEF Translate, TranslateFails
    <3> QED
        BY <1>0, <3>1 DEF countEncoderErrors, Counting, Ledger
  <2>3. \A delivered \in BOOLEAN : ReportFails(p, delivered) => ledger' = ledger
        BY DEF ReportFails
  <2> QED
      BY <1>0, <2>1, <2>2, <2>3 DEF Counting, Ledger
<1>5. buffer'.droppedSpanCount + flushing'.droppedSpanCount
        = buffer.droppedSpanCount + flushing.droppedSpanCount
      /\ buffer'.droppedSpanCount \in Nat /\ flushing'.droppedSpanCount \in Nat
  <2>1. CASE PreFlush(p)
    <3>1. /\ buffer'.droppedSpanCount = flushing.droppedSpanCount
          /\ flushing'.droppedSpanCount = buffer.droppedSpanCount
          BY <1>0, <2>1 DEF PreFlush, setCurrent, setFlushing, Buffers
    <3> QED
        BY <1>0, <3>1, AccountTypes
  <2>2. CASE Translate(p) \/ TranslateFails(p)
    <3>1. /\ buffer' = buffer
          /\ flushing'.droppedSpanCount = flushing.droppedSpanCount
          BY <1>0, <2>2 DEF Translate, TranslateFails, countEncoderErrors, Buffers
    <3> QED
        BY <1>0, <3>1, AccountTypes
  <2>3. ASSUME NEW delivered \in BOOLEAN, ReportFails(p, delivered)
        PROVE  buffer' = buffer /\ flushing' = flushing
        BY <2>3 DEF ReportFails, bufferVars
  <2> QED
      BY <1>0, <2>1, <2>2, <2>3, AccountTypes
<1>6. \A c, x, y, u, v, g \in Nat : u + v = x + y => c + u + v + g = c + x + y + g
      OBVIOUS
<1> QED
    BY <1>0, <1>1, <1>3, <1>4, <1>5, <1>6, AccountTypes DEF Account

\* The collector's answer tells it the count of the report, or nothing.
LEMMA AnswerAccount ==
    ASSUME IInv, Asked, Account = ledger.dropped, NEW p \in Procs,
           NEW errs \in BOOLEAN, NEW disables \in BOOLEAN, NEW devMode \in DevModes,
           Respond(p, errs, disables, devMode)
    PROVE  Account' = ledger'.dropped
<1>0. /\ Counting /\ FlushExclusive /\ pc \in [Procs -> Places]
      BY IInvParts DEF ControlOK
<1>1. /\ pc[p] = "await" /\ Tail(request) = << >> /\ ~Acknowledged
      /\ \A q \in Procs \ {p} : pc[q] \notin {"disable", "post"}
      /\ buffer' = buffer /\ flushing' = flushing
      BY <1>0, WholePart, NotYetAcknowledged, OthersWait DEF Respond, InFlight, bufferVars
<1>2. CASE errs
  <2>1. flushErr' # "none" /\ ledger' = ledger
        BY <1>2 DEF Respond, errorState
  <2>2. ~Acknowledged'
        BY <2>1 DEF Acknowledged
  <2> QED
      BY <1>1, <2>1, <2>2 DEF Account
<1>3. CASE ~errs
  <2>1. flushErr' = "none" /\ pc'[p] \in {"disable", "post"}
        BY <1>0, <1>1, <1>3 DEF Respond, errorState, afterPart
  <2>2. Acknowledged'
        BY <2>1 DEF Acknowledged
  <2>3. /\ ledger'.collected = ledger.collected + flushing.droppedSpanCount
        /\ ledger'.forfeited = ledger.forfeited /\ ledger'.dropped = ledger.dropped
        BY <1>0, <1>3 DEF Respond, Counting, Ledger
  <2>4. \A c, x, y, g \in Nat : (c + y) + x + 0 + g = c + x + y + g
        OBVIOUS
  <2> QED
      BY <1>0, <1>1, <2>2, <2>3, <2>4, AccountTypes DEF Account
<1> QED
    BY <1>2, <1>3

\* The end of a flush: what the collector knows is forgotten, what it does not
\* know goes back into the buffer or is forfeited.
LEMMA PostAccount ==
    ASSUME IInv, Account = ledger.dropped, NEW p \in Procs, PostFlush(p)
    PROVE  Account' = ledger'.dropped
<1>0. /\ Counting /\ FlushExclusive /\ pc \in [Procs -> Places]
      BY IInvParts DEF ControlOK
<1>1. pc[p] = "post" /\ (Acknowledged <=> flushErr = "none")
      BY DEF PostFlush, Acknowledged
<1>2. ~Acknowledged'
  <2>1. \A q \in Procs \ {p} : pc'[q] \notin {"disable", "post"}
        BY <1>0, <1>1, OthersWait DEF PostFlush, InFlight
  <2>2. pc'[p] \notin {"disable", "post"}
        BY <1>0 DEF PostFlush, afterFlush
  <2> QED
      BY <2>1, <2>2 DEF Acknowledged
<1>3. flushing'.droppedSpanCount = 0
      BY PostFlushCases
      DEF postFlushSent, postFlushUntranslatable, postFlushFailed, mergedAway, clear, newSpansBuffer
<1>4. CASE flushErr = "none"
  <2>1. postFlushSent
        BY <1>4 DEF PostFlush
  <2>2. /\ ledger'.collected = ledger.collected /\ ledger'.forfeited = ledger.forfeited
        /\ ledger'.dropped = ledger.dropped /\ buffer' = buffer
        BY <1>0, <2>1 DEF postFlushSent, Counting, Ledger
  <2> QED
      BY <1>1, <1>2, <1>3, <1>4, <2>2 DEF Account
<1>5. CASE flushErr = "translate"
  <2>1. postFlushUntranslatable
        BY <1>5 DEF PostFlush
  <2>2. /\ ledger'.collected = ledger.collected
        /\ ledger'.forfeited = ledger.forfeited + flushing.droppedSpanCount
        /\ ledger'.dropped = ledger.dropped
        BY <1>0, <2>1 DEF postFlushUntranslatable, Counting, Ledger
  <2>3. buffer'.droppedSpanCount = buffer.droppedSpanCount
        BY <1>0, <2>1, BufferSpans DEF postFlushUntranslatable, markReported, Buffers
  <2>4. \A c, x, y, g \in Nat : c + x + 0 + (g + y) = c + x + y + g
        OBVIOUS
  <2> QED
      BY <1>0, <1>1, <1>2, <1>3, <1>5, <2>2, <2>3, <2>4, AccountTypes DEF Account
<1>6. CASE flushErr \notin {"none", "translate"}
  <2>1. postFlushFailed
        BY <1>6 DEF PostFlush
  <2>2. PICK d \in Nat :
           /\ buffer'.droppedSpanCount = buffer.droppedSpanCount + flushing.droppedSpanCount + d
           /\ ledger'.dropped = ledger.dropped + d
           /\ ledger'.collected = ledger.collected
           /\ ledger'.forfeited = ledger.forfeited
        BY <1>0, <2>1, FailedDrop
  <2>3. \A c, x, y, g, e \in Nat : c + (x + y + e) + 0 + g = (c + x + y + g) + e
        OBVIOUS
  <2> QED
      BY <1>0, <1>1, <1>2, <1>3, <1>6, <2>2, <2>3, AccountTypes DEF Account
<1> QED
    BY <1>4, <1>5, <1>6

\* Recording and disabling change the count of the buffer beside any flush.
LEMMA RecordAccount ==
    ASSUME Counting, Account = ledger.dropped, flushing' = flushing, Acknowledged' <=> Acknowledged,
           (\E s \in Spans : record(s)) \/ disable \/ UNCHANGED << buffer, ledger >>
    PROVE  Account' = ledger'.dropped
<1> DEFINE y == IF Acknowledged THEN 0 ELSE flushing.droppedSpanCount
<1>1. y \in Nat /\ y' = y
      BY AccountTypes
<1> HIDE DEF y
<1>2. /\ ledger.collected + buffer.droppedSpanCount + y + ledger.forfeited = ledger.dropped
      /\ Account' = ledger'.collected + buffer'.droppedSpanCount + y' + ledger'.forfeited
      BY DEF Account, y
<1>3. ASSUME NEW s \in Spans, record(s)
      PROVE  Account' = ledger'.dropped
  <2>1. PICK d \in Nat : /\ buffer'.droppedSpanCount = buffer.droppedSpanCount + d
                         /\ ledger'.dropped = ledger.dropped + d
                         /\ ledger'.collected = ledger.collected
                         /\ ledger'.forfeited = ledger.forfeited
        BY <1>3, RecordDrop
  <2>2. \A c, x, z, g, e \in Nat : c + (x + e) + z + g = (c + x + z + g) + e
        OBVIOUS
  <2> QED
      BY <1>1, <1>2, <2>1, <2>2, AccountTypes
<1>4. ASSUME disable
      PROVE  Account' = ledger'.dropped
  <2>1. /\ ledger'.forfeited + buffer'.droppedSpanCount
             = ledger.forfeited + buffer.droppedSpanCount
        /\ ledger'.dropped = ledger.dropped /\ ledger'.collected = ledger.collected
        /\ buffer'.droppedSpanCount \in Nat /\ ledger'.forfeited \in Nat
        BY <1>4, DisableDrop
  <2>2. \A c, x, z, g, u, v \in Nat : v + u = g + x => c + u + z + v = c + x + z + g
        OBVIOUS
  <2> QED
      BY <1>1, <1>2, <2>1, <2>2, AccountTypes
<1>5. CASE UNCHANGED << buffer, ledger >>
      BY <1>1, <1>2, <1>5
<1> QED
    BY <1>3, <1>4, <1>5

\* No step breaks the account.
LEMMA AccountStep ==
    ASSUME IInv, Asked, Answered, Account = ledger.dropped, Next
    PROVE  Account' = ledger'.dropped
<1>0. /\ ControlOK /\ Counting /\ FlushExclusive /\ pc \in [Procs -> Places]
      BY IInvParts DEF ControlOK
<1>1. ASSUME NEW p \in Procs,
             \/ PreFlush(p) \/ Translate(p) \/ TranslateFails(p)
             \/ \E delivered \in BOOLEAN : ReportFails(p, delivered)
      PROVE  Account' = ledger'.dropped
      BY <1>1, AskAccount
<1>2. ASSUME NEW p \in Procs, NEW errs \in BOOLEAN, NEW disables \in BOOLEAN,
             NEW devMode \in DevModes, Respond(p, errs, disables, devMode)
      PROVE  Account' = ledger'.dropped
      BY <1>2, AnswerAccount
<1>3. ASSUME NEW p \in Procs, DisableCommand(p)
      PROVE  Account' = ledger'.dropped
  <2>1. /\ pc[p] = "disable" /\ pc'[p] = "post" /\ \A q \in Procs \ {p} : pc'[q] = pc[q]
        /\ flushErr' = flushErr /\ flushing' = flushing /\ disable
        BY <1>0, <1>3 DEF DisableCommand, afterPart, Answered, flushVars
  <2>2. Acknowledged' <=> Acknowledged
        BY <2>1 DEF Acknowledged
  <2> QED
      BY <1>0, <2>1, <2>2, RecordAccount
<1>4. ASSUME NEW p \in Procs, PostFlush(p)
      PROVE  Account' = ledger'.dropped
      BY <1>4, PostAccount
<1>5. ASSUME UNCHANGED << flushErr, flushing >>,
             \A q \in Procs :
                /\ pc'[q] \in {"disable", "post"} => pc'[q] = pc[q]
                /\ pc[q] \in {"disable", "post"} => pc'[q] = pc[q],
             ~ \E p \in Procs : \/ PreFlush(p) \/ Translate(p) \/ TranslateFails(p)
                                \/ \E delivered \in BOOLEAN : ReportFails(p, delivered)
                                \/ \E errs, disables \in BOOLEAN, devMode \in DevModes :
                                      Respond(p, errs, disables, devMode)
                                \/ DisableCommand(p) \/ PostFlush(p)
      PROVE  Account' = ledger'.dropped
  <2>1. Acknowledged' <=> Acknowledged
        BY <1>5 DEF Acknowledged
  <2>2. (\E s \in Spans : record(s)) \/ disable \/ UNCHANGED << buffer, ledger >>
    <3>1. \A s \in Spans : RecordSpan(s) => record(s)
          BY DEF RecordSpan
    <3>2. \A p \in Procs : MetaCreate(p) => record(MetaSpan)
          BY DEF MetaCreate
    <3>3. Disable => disable
          BY DEF Disable
    <3>4. \A p \in Callers, deadline \in BOOLEAN :
             CloseBegin(p, deadline) => UNCHANGED << buffer, ledger >>
          BY DEF CloseBegin, bufferVars
    <3> QED
        BY <1>5, DataSteps, TracerAssumption, <3>1, <3>2, <3>3, <3>4 DEF bufferVars
  <2> QED
      BY <1>0, <1>5, <2>1, <2>2, RecordAccount
<1> QED
    BY <1>0, AnswerFrame, <1>1, <1>2, <1>3, <1>4, <1>5

\* Each drop is in the count of exactly one report that came back without an
\* error, or waits in a buffer for one, until Disable or a report that could not
\* be translated zeroes a count; no drop is ever counted twice: failed and
\* retried reports tell the collector of no drop twice and hide none.
THEOREM DropsToldOnce ==
    ASSUME OnePart
    PROVE  Spec => []CollectorToldOfDropsOnce
<1> DEFINE Balanced == Account = ledger.dropped
<1>1. ASSUME IInv, Balanced
      PROVE  CollectorToldOfDropsOnce
  <2> DEFINE y == IF Acknowledged THEN 0 ELSE flushing.droppedSpanCount
             k == ledger.collected + buffer.droppedSpanCount + y
  <2>1. /\ ledger.collected \in Nat /\ ledger.forfeited \in Nat /\ ledger.dropped \in Nat
        /\ buffer.droppedSpanCount \in Nat /\ y \in Nat
        BY <1>1, IInvParts, AccountTypes
  <2>2. k \in Nat /\ k + ledger.forfeited = ledger.dropped
        BY <1>1, <2>1 DEF Account
  <2> HIDE DEF k
  <2>3. k <= ledger.dropped /\ (ledger.forfeited = 0 => k = ledger.dropped)
        BY <2>1, <2>2
  <2> QED
      BY <2>3 DEF CollectorToldOfDropsOnce, Acknowledged, k
<1>2. Init => Balanced
  <2>1. Init => /\ ledger.collected = 0 /\ ledger.forfeited = 0 /\ ledger.dropped = 0
                /\ buffer.droppedSpanCount = 0 /\ flushing.droppedSpanCount = 0
        BY DEF Init, setCurrent, newSpansBuffer
  <2> QED
      BY <2>1 DEF Account
<1>3. ASSUME IInv, DeliveryInv, Balanced, [Next]_vars
      PROVE  Balanced'
  <2>1. CASE Next
        BY <1>3, <2>1, AccountStep DEF DeliveryInv
  <2>2. CASE UNCHANGED vars
        BY <1>3, <2>2 DEF vars, bufferVars, flushVars, history, Account, Acknowledged
  <2> QED
      BY <1>3, <2>1, <2>2
<1> HIDE DEF Balanced
<1>4. IInv /\ DeliveryInv /\ Balanced /\ [Next]_vars => Balanced'
      BY <1>3
<1>5. IInv /\ Balanced => CollectorToldOfDropsOnce
      BY <1>1
<1> QED
    BY <1>2, <1>4, <1>5, Invariance, DeliveryInvariance, PTL DEF Spec

-----------------------------------------------------------------------------
(***************************************************************************)
(* The encoder errors count spans                                          *)
(***************************************************************************)

\* Each error counted is that of a span when it was converted first, or again.
ErrorsPerSpan ==
    /\ IsFiniteSet(ledger.rejected)
    /\ Cardinality(ledger.rejected) + ledger.repeats = ledger.errors

\* A conversion counts as many errors as it converts spans that have one.
LEMMA ErrorsOfSpans ==
    ASSUME NEW q \in Seq(Spans), IsInjective(q)
    PROVE  /\ IsFiniteSet(Elements(q) \cap Unencodable)
           /\ Cardinality(Elements(q) \cap Unencodable) = encoderErrors(q)
<1> DEFINE I == {i \in DOMAIN q : q[i] \in Unencodable}
           E == Elements(q) \cap Unencodable
           f == [i \in I |-> q[i]]
<1>1. DOMAIN q = 1 .. Len(q) /\ Len(q) \in Nat
      BY LenProperties
<1>2. IsFiniteSet(I)
  <2>1. IsFiniteSet(DOMAIN q)
        BY <1>1, FS_Interval
  <2> QED
      BY <2>1, FS_Subset
<1>3. f \in [I -> E] /\ \A e \in E : \E i \in I : f[i] = e
      BY DEF Elements
<1>4. \A i, j \in I : f[i] = f[j] => i = j
      BY DEF IsInjective
<1>5. f \in Surjection(I, E) /\ f \in Injection(I, E)
      BY <1>3, <1>4 DEF Surjection, Injection, IsInjective
<1>6. encoderErrors(q) = Cardinality(I)
      BY DEF encoderErrors
<1> QED
    BY <1>2, <1>5, <1>6, FS_Surjection

\* The conversion.
LEMMA ConvertErrors ==
    ASSUME Counting, Apart, ErrorsPerSpan, countEncoderErrors
    PROVE  ErrorsPerSpan'
<1> DEFINE n == encoderErrors(flushing.rawSpans)
           bad == SpansOf(flushing) \cap Unencodable
           again == Cardinality(ledger.rejected \cap bad)
<1>1. IsFiniteSet(bad) /\ Cardinality(bad) = n
      BY BufferSpans, ErrorsOfSpans DEF Apart
<1>2. ledger' = [ledger EXCEPT !.errors = ledger.errors + n,
                               !.rejected = ledger.rejected \cup bad,
                               !.repeats = ledger.repeats + again]
      BY DEF countEncoderErrors
<1> HIDE DEF n, bad, again
<1>3. /\ ledger'.errors = ledger.errors + n
      /\ ledger'.rejected = ledger.rejected \cup bad
      /\ ledger'.repeats = ledger.repeats + again
      BY <1>2 DEF Counting, Ledger
<1>4. /\ IsFiniteSet(ledger.rejected \cup bad)
      /\ Cardinality(ledger.rejected \cup bad)
           = Cardinality(ledger.rejected) + Cardinality(bad) - again
      BY <1>1, FS_Union DEF ErrorsPerSpan, again
<1>5. /\ Cardinality(ledger.rejected) \in Nat /\ n \in Nat /\ again \in Nat
      /\ ledger.repeats \in Nat /\ ledger.errors \in Nat
  <2>1. IsFiniteSet(ledger.rejected \cap bad)
        BY <1>1, FS_Intersection
  <2> QED
      BY <1>1, <2>1, FS_CardinalityType, LedgerFields DEF ErrorsPerSpan, Counting, again
<1>6. \A c, m, a, p, e \in Nat : c + p = e => (c + m - a) + (p + a) = e + m
      OBVIOUS
<1>7. (Cardinality(ledger.rejected) + n - again) + (ledger.repeats + again) = ledger.errors + n
      BY <1>5, <1>6 DEF ErrorsPerSpan
<1> QED
    BY <1>1, <1>3, <1>4, <1>7 DEF ErrorsPerSpan

\* Nothing else counts errors.
LEMMA ErrorsStay ==
    ASSUME Counting,
           \/ \E s \in Spans : record(s)
           \/ disable
           \/ postFlushSent \/ postFlushUntranslatable \/ postFlushFailed
           \/ \E c : ledger' = [ledger EXCEPT !.collected = c]
           \/ ledger' = ledger
    PROVE  /\ ledger'.errors = ledger.errors
           /\ ledger'.rejected = ledger.rejected
           /\ ledger'.repeats = ledger.repeats
<1>1. \/ \E d : ledger' = [ledger EXCEPT !.dropped = d]
      \/ \E l, e, g : ledger' = [ledger EXCEPT !.lost = l, !.lostErrors = e, !.forfeited = g]
      \/ \E t, e : ledger' = [ledger EXCEPT !.told = t, !.toldErrors = e]
      \/ postFlushUntranslatable
      \/ \E d, t, e : ledger' = [ledger EXCEPT !.dropped = d, !.told = t, !.toldErrors = e]
      \/ \E c : ledger' = [ledger EXCEPT !.collected = c]
      \/ ledger' = ledger
  <2>1. ASSUME NEW s \in Spans, record(s)
        PROVE  (\E d : ledger' = [ledger EXCEPT !.dropped = d]) \/ ledger' = ledger
        BY <2>1, Zenon DEF record
  <2>2. disable => \/ ledger' = ledger
                   \/ \E l, e, g : ledger' = [ledger EXCEPT !.lost = l, !.lostErrors = e,
                                                            !.forfeited = g]
        BY Zenon DEF disable
  <2>3. postFlushSent => \E t, e : ledger' = [ledger EXCEPT !.told = t, !.toldErrors = e]
        BY Zenon DEF postFlushSent
  <2>4. postFlushFailed =>
          \E d, t, e : ledger' = [ledger EXCEPT !.dropped = d, !.told = t, !.toldErrors = e]
        BY Zenon DEF postFlushFailed
  <2> QED
      BY <2>1, <2>2, <2>3, <2>4, Zenon
<1>2. CASE postFlushUntranslatable
      BY <1>2 DEF postFlushUntranslatable, Counting, Ledger
<1> QED
    BY <1>1, <1>2 DEF Counting, Ledger

\* No step breaks the account of errors.
LEMMA ErrorsStep ==
    ASSUME IInv, SpansInv, ErrorsPerSpan, Next
    PROVE  ErrorsPerSpan'
<1>0. Counting /\ Apart
      BY IInvParts DEF SpansInv
<1>1. ASSUME \/ \E s \in Spans : record(s)
             \/ disable
             \/ postFlushSent \/ postFlushUntranslatable \/ postFlushFailed
             \/ \E c : ledger' = [ledger EXCEPT !.collected = c]
             \/ ledger' = ledger
      PROVE  ErrorsPerSpan'
  <2>1. /\ ledger'.errors = ledger.errors /\ ledger'.rejected = ledger.rejected
        /\ ledger'.repeats = ledger.repeats
        BY <1>0, <1>1, ErrorsStay
  <2> QED
      BY <2>1 DEF ErrorsPerSpan
<1>2. ASSUME NEW s \in Spans, RecordSpan(s)
      PROVE  ErrorsPerSpan'
      BY <1>1, <1>2 DEF RecordSpan
<1>3. ASSUME Disable
      PROVE  ErrorsPerSpan'
      BY <1>1, <1>3 DEF Disable
<1>4. ASSUME NEW p \in Procs, PreFlush(p)
      PROVE  ErrorsPerSpan'
      BY <1>1, <1>4 DEF PreFlush, history
<1>5. ASSUME NEW p \in Procs, MetaCreate(p)
      PROVE  ErrorsPerSpan'
      BY <1>1, <1>5, TracerAssumption DEF MetaCreate
<1>6. ASSUME NEW p \in Procs, Translate(p) \/ TranslateFails(p)
      PROVE  ErrorsPerSpan'
      BY <1>0, <1>6, ConvertErrors DEF Translate, TranslateFails
<1>7. ASSUME NEW p \in Procs, NEW delivered \in BOOLEAN, ReportFails(p, delivered)
      PROVE  ErrorsPerSpan'
      BY <1>1, <1>7 DEF ReportFails
<1>8. ASSUME NEW p \in Procs, NEW errs \in BOOLEAN, NEW disables \in BOOLEAN,
             NEW devMode \in DevModes, Respond(p, errs, disables, devMode)
      PROVE  ErrorsPerSpan'
  <2>1. ledger' = ledger \/ \E c : ledger' = [ledger EXCEPT !.collected = c]
        BY <1>8, Zenon DEF Respond
  <2> QED
      BY <1>1, <2>1
<1>9. ASSUME NEW p \in Procs, DisableCommand(p)
      PROVE  ErrorsPerSpan'
      BY <1>1, <1>9 DEF DisableCommand
<1>10. ASSUME NEW p \in Procs, PostFlush(p)
      PROVE  ErrorsPerSpan'
  <2>1. postFlushSent \/ postFlushUntranslatable \/ postFlushFailed
        BY <1>10 DEF PostFlush
  <2> QED
      BY <1>1, <2>1
<1>11. ASSUME NEW p \in Callers, NEW deadline \in BOOLEAN, CloseBegin(p, deadline)
      PROVE  ErrorsPerSpan'
      BY <1>1, <1>11 DEF CloseBegin
<1>12. ASSUME ledger' = ledger
      PROVE  ErrorsPerSpan'
      BY <1>1, <1>12
<1> QED
    BY DataSteps, <1>2, <1>3, <1>4, <1>5, <1>6, <1>7, <1>8, <1>9, <1>10, <1>11, <1>12

\* The log encoder error counts of reportBuffer, told or not, add up to no fewer
\* than the spans that had an error, over any number of failed reports, and to
\* these spans exactly while none of them was converted a second time.
THEOREM EncoderErrorAccounting == Spec => []EncoderErrorsAccounted
<1>1. Init => ErrorsPerSpan
  <2>1. Init => ledger.rejected = {} /\ ledger.repeats = 0 /\ ledger.errors = 0
        BY DEF Init
  <2> QED
      BY <2>1, FS_EmptySet DEF ErrorsPerSpan
<1>2. IInv /\ SpansInv /\ ErrorsPerSpan /\ [Next]_vars => ErrorsPerSpan'
  <2>1. IInv /\ SpansInv /\ ErrorsPerSpan /\ Next => ErrorsPerSpan'
        BY ErrorsStep
  <2>2. ErrorsPerSpan /\ UNCHANGED vars => ErrorsPerSpan'
        BY DEF vars, history, ErrorsPerSpan
  <2> QED
      BY <2>1, <2>2
<1>3. ASSUME IInv, ErrorsPerSpan
      PROVE  EncoderErrorsAccounted
  <2> DEFINE counted == ledger.toldErrors + unreportedEncoderErrors(buffer)
                          + unreportedEncoderErrors(flushing) + ledger.lostErrors
             c == Cardinality(ledger.rejected)
  <2>1. /\ unreportedEncoderErrors(buffer) >= 0 /\ unreportedEncoderErrors(flushing) >= 0
        /\ counted = ledger.errors
        BY <1>3 DEF IInv, EncoderErrorsTold
  <2>2. c \in Nat /\ ledger.repeats \in Nat /\ c + ledger.repeats = ledger.errors
        BY <1>3, IInvParts, FS_CardinalityType, LedgerFields DEF ErrorsPerSpan, Counting
  <2> HIDE DEF counted, c
  <2>3. c <= counted /\ (ledger.repeats = 0 => counted = c)
        BY <2>1, <2>2
  <2> QED
      BY <2>1, <2>3 DEF EncoderErrorsAccounted, counted, c
<1>4. IInv /\ ErrorsPerSpan => EncoderErrorsAccounted
      BY <1>3
<1> QED
    BY <1>1, <1>2, <1>4, Invariance, SpansInvariance, PTL DEF Spec

-----------------------------------------------------------------------------
(***************************************************************************)
(* The tracer implements SpanStore                                         *)
(***************************************************************************)

\* The drops counted by the code are the drops that happened.
LEMMA CountedAll ==
    ASSUME Counting
    PROVE  CountedDrops = ledger.dropped
<1>1. /\ unreportedDropped(buffer) \in Nat /\ unreportedDropped(flushing) \in Nat
      /\ ledger.told \in Nat /\ ledger.lost \in Nat /\ ledger.dropped \in Nat
      /\ ledger.told + unreportedDropped(buffer) + unreportedDropped(flushing)
           + ledger.lost = ledger.dropped
      BY UnreportedTypes, LedgerFields DEF Counting
<1>2. \A t, b, f, l, d \in Nat : t + b + f + l = d => t + l + b + f = d
      OBVIOUS
<1> QED
    BY <1>1, <1>2 DEF CountedDrops

\* ... after a step, too.
LEMMA CountedAllNext ==
    ASSUME Counting'
    PROVE  CountedDrops' = ledger'.dropped
<1>1. /\ unreportedDropped(buffer') \in Nat /\ unreportedDropped(flushing') \in Nat
      /\ ledger'.told \in Nat /\ ledger'.lost \in Nat /\ ledger'.dropped \in Nat
      /\ ledger'.told + unreportedDropped(buffer') + unreportedDropped(flushing')
           + ledger'.lost = ledger'.dropped
      BY UnreportedTypes, LedgerFields DEF Counting
<1>2. \A t, b, f, l, d \in Nat : t + b + f + l = d => t + l + b + f = d
      OBVIOUS
<1> QED
    BY <1>1, <1>2 DEF CountedDrops

\* SpanStore counts sets as this module does.
LEMMA SameCardinality == \A S : Store!Cardinality(S) = Cardinality(S)
BY DEF Store!Cardinality, Cardinality

\* The spans offered to the store and those it discarded, by their fate.
Offered == {s \in Spans : fate[s] # "new"}

Discarded == {s \in Spans : fate[s] = "discarded"}

\* A span that finishes is held, or dropped by a full store, or not wanted.
LEMMA RecordRefines ==
    ASSUME IInv, Counting', Apart, FateOfHeld, NEW s \in Spans, fate[s] = "new", record(s),
           UNCHANGED << flushing, received, disabled >>
    PROVE  Store!Hold(s) \/ Store!Drop(s) \/ Store!Ignore(s)
<1>0. /\ Counting /\ RestOK
      /\ fate \in [Spans -> {"new", "ignored", "held", "sent", "dropped", "discarded"}]
      /\ CountedDrops = ledger.dropped /\ CountedDrops' = ledger'.dropped
      /\ ledger.dropped \in Nat /\ SpansOf(flushing') = SpansOf(flushing)
      BY IInvParts, CountedAll, CountedAllNext, LedgerFields DEF Counting, RestOK, SpansOf
<1>1. s \notin Offered
      BY DEF Offered
<1>2. CASE /\ ~disabled
           /\ fate' = [fate EXCEPT ![s] = "held"]
           /\ SpansOf(buffer') = SpansOf(buffer) \cup {s}
           /\ ledger'.dropped = ledger.dropped
  <2>1. Offered' = Offered \cup {s} /\ Discarded' = Discarded
        BY <1>0, <1>2 DEF Offered, Discarded
  <2>2. Held' = Held \cup {s}
        BY <1>0, <1>2 DEF Held
  <2> QED
      BY <1>0, <1>1, <1>2, <2>1, <2>2 DEF Store!Hold, Offered, Discarded
<1>3. CASE /\ ~disabled
           /\ fate' = [fate EXCEPT ![s] = "dropped"]
           /\ isFull(buffer)
           /\ SpansOf(buffer') = SpansOf(buffer)
           /\ ledger'.dropped = ledger.dropped + 1
  <2>1. Offered' = Offered \cup {s} /\ Discarded' = Discarded
        BY <1>0, <1>3 DEF Offered, Discarded
  <2>2. Held' = Held
        BY <1>0, <1>3 DEF Held
  <2>3. Cardinality(Held) >= MaxBufferedSpans
    <3>1. /\ IsFiniteSet(SpansOf(buffer)) /\ IsFiniteSet(SpansOf(flushing))
          /\ Cardinality(SpansOf(buffer)) = MaxBufferedSpans
          BY <1>0, <1>3, BufferSpans, CountElements DEF Apart, isFull
    <3>2. IsFiniteSet(Held)
          BY <3>1, FS_Union DEF Held
    <3>3. Cardinality(SpansOf(buffer)) <= Cardinality(Held) /\ Cardinality(Held) \in Nat
          BY <3>1, <3>2, FS_Subset, FS_CardinalityType DEF Held
    <3> QED
        BY <3>1, <3>3, BufferAssumption
  <2> QED
      BY <1>0, <1>1, <1>3, <2>1, <2>2, <2>3, SameCardinality DEF Store!Drop, Offered, Discarded
<1>4. CASE /\ disabled \/ s \in Unsampled
           /\ fate' = [fate EXCEPT ![s] = "ignored"]
           /\ SpansOf(buffer') = SpansOf(buffer)
           /\ ledger' = ledger
  <2>1. Offered' = Offered \cup {s} /\ Discarded' = Discarded
        BY <1>0, <1>4 DEF Offered, Discarded
  <2>2. Held' = Held
        BY <1>0, <1>4 DEF Held
  <2> QED
      BY <1>0, <1>1, <1>4, <2>1, <2>2 DEF Store!Ignore, Offered, Discarded
<1> QED
    BY <1>0, <1>2, <1>3, <1>4, RecordEffect

\* Disable turns the store off and gives up part of what is pending.
LEMMA DisableRefines ==
    ASSUME IInv, Counting', Apart, FateOfHeld, ~disabled, disable,
           UNCHANGED << flushing, received >>
    PROVE  \E S \in SUBSET Held : Store!TurnOff(S)
<1>0. /\ Counting /\ RestOK
      /\ CountedDrops = ledger.dropped /\ CountedDrops' = ledger'.dropped
      /\ SpansOf(flushing') = SpansOf(flushing) /\ SpansOf(buffer) \subseteq Spans
      BY IInvParts, CountedAll, CountedAllNext, BufferSpans DEF SpansOf, Held
<1>1. /\ disabled' /\ SpansOf(buffer') = {}
      /\ fate' = [s \in Spans |->
                    IF s \in SpansOf(buffer) THEN "discarded" ELSE fate[s]]
      /\ ledger'.dropped = ledger.dropped
      BY <1>0, DisableEffect
<1>2. Held' = Held \ SpansOf(buffer) /\ SpansOf(buffer) \subseteq Held
      BY <1>0, <1>1 DEF Held, Apart
<1>3. Offered' = Offered /\ Discarded' = Discarded \cup SpansOf(buffer)
      BY <1>0, <1>1 DEF Offered, Discarded, FateOfHeld, Held
<1>4. disabled' = TRUE
      BY <1>1 DEF disable
<1>5. PICK S \in SUBSET Held : S = SpansOf(buffer)
      BY <1>2
<1>6. Store!TurnOff(S)
      BY <1>0, <1>1, <1>2, <1>3, <1>4, <1>5 DEF Store!TurnOff, Offered, Discarded
<1> QED
    BY <1>6

\* The end of a flush forgets what was accepted, discards what cannot be
\* translated, or drops no more than does not fit.
LEMMA PostFlushRefines ==
    ASSUME IInv, Counting', Apart, FateOfHeld, Answered, NEW p \in Procs, PostFlush(p)
    PROVE  \/ \E S \in SUBSET Held : Store!Forget(S) \/ Store!Discard(S) \/ Store!Overflow(S)
           \/ UNCHANGED Store!vars
<1>0. /\ Counting /\ RestOK
      /\ CountedDrops = ledger.dropped /\ CountedDrops' = ledger'.dropped
      /\ SpansOf(flushing) \subseteq Spans /\ SpansOf(flushing) \subseteq Held
      /\ pc[p] = "post" /\ UNCHANGED << received, disabled >>
      BY IInvParts, CountedAll, CountedAllNext, BufferSpans DEF Held, PostFlush
<1>1. CASE flushErr = "none"
  <2>1. postFlushSent
        BY <1>1 DEF PostFlush
  <2>2. /\ SpansOf(buffer') = SpansOf(buffer) /\ SpansOf(flushing') = {}
        /\ fate' = [s \in Spans |-> IF s \in SpansOf(flushing) THEN "sent" ELSE fate[s]]
        /\ ledger'.dropped = ledger.dropped
        BY <1>0, <2>1, SentEffect
  <2>3. Held' = Held \ SpansOf(flushing)
        BY <2>2 DEF Held, Apart
  <2>4. Offered' = Offered /\ Discarded' = Discarded
        BY <1>0, <2>2 DEF Offered, Discarded, FateOfHeld, Held
  <2>5. SpansOf(flushing) \subseteq received
        BY <1>0, <1>1 DEF Answered
  <2>6. PICK S \in SUBSET Held : S = SpansOf(flushing)
        BY <1>0
  <2>7. Store!Forget(S)
        BY <1>0, <2>2, <2>3, <2>4, <2>5, <2>6 DEF Store!Forget, Offered, Discarded
  <2> QED
      BY <2>7
<1>2. CASE flushErr = "translate"
  <2>1. postFlushUntranslatable
        BY <1>2 DEF PostFlush
  <2>2. /\ SpansOf(buffer') = SpansOf(buffer) /\ SpansOf(flushing') = {}
        /\ fate' = [s \in Spans |-> IF s \in SpansOf(flushing) THEN "discarded" ELSE fate[s]]
        /\ ledger'.dropped = ledger.dropped
        BY <1>0, <2>1, UntranslatableEffect
  <2>3. Held' = Held \ SpansOf(flushing)
        BY <2>2 DEF Held, Apart
  <2>4. Offered' = Offered /\ Discarded' = Discarded \cup SpansOf(flushing)
        BY <1>0, <2>2 DEF Offered, Discarded, FateOfHeld, Held
  <2>5. PICK S \in SUBSET Held : S = SpansOf(flushing)
        BY <1>0
  <2>6. Store!Discard(S)
        BY <1>0, <2>2, <2>3, <2>4, <2>5 DEF Store!Discard, Offered, Discarded
  <2> QED
      BY <2>6
<1>3. CASE flushErr \notin {"none", "translate"}
  <2>1. postFlushFailed
        BY <1>3 DEF PostFlush
  <2>2. /\ Overflowing \subseteq SpansOf(flushing)
        /\ SpansOf(buffer') = Held \ Overflowing
        /\ SpansOf(flushing') = {}
        /\ fate' = [s \in Spans |-> IF s \in Overflowing THEN "dropped" ELSE fate[s]]
        /\ ledger'.dropped = ledger.dropped + Cardinality(Overflowing)
        /\ Overflowing # {} => Cardinality(SpansOf(buffer')) = MaxBufferedSpans
        BY <1>0, <2>1, FailedEffect
  <2>3. Held' = Held \ Overflowing /\ Overflowing \subseteq Held
        BY <1>0, <2>2 DEF Held
  <2>4. Offered' = Offered /\ Discarded' = Discarded
        BY <1>0, <2>2 DEF Offered, Discarded, FateOfHeld, Held
  <2>5. CASE Overflowing = {}
    <3>1. ledger'.dropped = ledger.dropped
          BY <1>0, <2>2, <2>5, FS_EmptySet, AccountTypes
    <3> QED
        BY <1>0, <2>3, <2>4, <2>5, <3>1 DEF Store!vars, Offered, Discarded
  <2>6. CASE Overflowing # {}
    <3>1. PICK S \in SUBSET Held : S = Overflowing
          BY <2>3
    <3>2. Store!Overflow(S)
          BY <1>0, <2>2, <2>3, <2>4, <2>6, <3>1, SameCardinality
          DEF Store!Overflow, Offered, Discarded
    <3> QED
        BY <3>2
  <2> QED
      BY <2>5, <2>6
<1> QED
    BY <1>1, <1>2, <1>3

\* An answer, or a report whose answer is lost, makes the collector accept
\* pending spans or nothing.
LEMMA ReportRefines ==
    ASSUME IInv, Counting', Asked, NEW p \in Procs,
           \/ \E delivered \in BOOLEAN : ReportFails(p, delivered)
           \/ \E errs, disables \in BOOLEAN, devMode \in DevModes :
                 Respond(p, errs, disables, devMode)
    PROVE  (\E S \in SUBSET Held : Store!Accept(S)) \/ UNCHANGED Store!vars
<1>0. /\ Counting /\ pc[p] = "await" /\ UNCHANGED << bufferVars, fate, disabled >>
      /\ CountedDrops = ledger.dropped /\ CountedDrops' = ledger'.dropped
      BY IInvParts, CountedAll, CountedAllNext DEF ReportFails, Respond
<1>1. partSpans = SpansOf(flushing) /\ SpansOf(flushing) \subseteq Held
      BY <1>0, WholePart DEF Held
<1>2. received' \in {received, received \cup SpansOf(flushing)}
      BY <1>1 DEF ReportFails, Respond
<1>3. ledger'.dropped = ledger.dropped
      BY <1>0 DEF ReportFails, Respond, Counting, Ledger
<1>4. Held' = Held /\ Offered' = Offered /\ Discarded' = Discarded
      BY <1>0 DEF Held, SpansOf, Offered, Discarded, bufferVars
<1>5. CASE received' = received
      BY <1>0, <1>3, <1>4, <1>5 DEF Store!vars, Offered, Discarded
<1>6. CASE received' = received \cup SpansOf(flushing)
  <2>1. PICK S \in SUBSET Held : S = SpansOf(flushing)
        BY <1>1
  <2>2. Store!Accept(S)
        BY <1>0, <1>1, <1>3, <1>4, <1>6, <2>1 DEF Store!Accept, Offered, Discarded
  <2> QED
      BY <2>2
<1> QED
    BY <1>2, <1>5, <1>6

\* The steps that only move spans between the buffers, or move none.
LEMMA StoreStutters ==
    ASSUME IInv, Counting', UNCHANGED << fate, received, disabled >>, Held' = Held,
           ledger'.dropped = ledger.dropped
    PROVE  UNCHANGED Store!vars
<1>1. CountedDrops = ledger.dropped /\ CountedDrops' = ledger'.dropped
      BY IInvParts, CountedAll, CountedAllNext
<1>2. Offered' = Offered /\ Discarded' = Discarded
      BY DEF Offered, Discarded
<1> QED
    BY <1>1, <1>2 DEF Store!vars, Offered, Discarded

\* Every step of the tracer is one of the store, or leaves it alone.
LEMMA StepRefines ==
    ASSUME IInv, IInv', SpansInv, DeliveryInv, Next
    PROVE  Store!Next \/ UNCHANGED Store!vars
<1>0. /\ Counting /\ RestOK /\ ControlOK /\ FlushingEmptyBetweenFlushes
      /\ Apart /\ FateOfHeld /\ MetaOnce /\ Asked /\ Answered
      BY IInvParts DEF SpansInv, DeliveryInv
<1>00. Counting'
      BY DEF IInv, TypeOK, DataOK, DropsAccounted, EncoderErrorsTold, Counting, WellFormed
<1> DEFINE Goal == Store!Next \/ UNCHANGED Store!vars
<1>1. ASSUME NEW s \in Spans, RecordSpan(s)
      PROVE  Goal
      BY <1>0, <1>00, <1>1, RecordRefines DEF RecordSpan, Store!Next
<1>2. ASSUME NEW p \in Procs, MetaCreate(p)
      PROVE  Goal
  <2>1. fate[MetaSpan] = "new" /\ MetaSpan \in Spans
        BY <1>0, <1>2, TracerAssumption DEF MetaCreate, MetaOnce
  <2> QED
      BY <1>0, <1>00, <1>2, <2>1, RecordRefines DEF MetaCreate, Store!Next
<1>3. (\E S \in SUBSET Held : Store!TurnOff(S)) => Store!Next
      BY DEF Store!Next
<1>4. Disable => Goal
      BY <1>0, <1>00, <1>3, DisableRefines DEF Disable
<1>5. ASSUME NEW p \in Procs, DisableCommand(p)
      PROVE  Goal
  <2>1. CASE ~disabled
        BY <1>0, <1>00, <1>3, <1>5, <2>1, DisableRefines DEF DisableCommand
  <2>2. CASE disabled
    <3>1. UNCHANGED << fate, received, disabled, buffer, flushing, ledger >>
          BY <1>5, <2>2 DEF DisableCommand, disable
    <3> QED
        BY <1>00, <3>1, StoreStutters DEF Held, SpansOf
  <2> QED
      BY <2>1, <2>2
<1>6. ASSUME NEW p \in Procs, PreFlush(p)
      PROVE  Goal
  <2>1. Held' = Held
        BY <1>0, <1>6, PreFlushEffect DEF Held
  <2> QED
      BY <1>00, <1>6, <2>1, StoreStutters DEF PreFlush, history
<1>7. ASSUME NEW p \in Procs, Translate(p) \/ TranslateFails(p)
      PROVE  Goal
  <2>1. /\ UNCHANGED << buffer, fate, received, disabled >>
        /\ SpansOf(flushing') = SpansOf(flushing) /\ ledger'.dropped = ledger.dropped
        BY <1>0, <1>7, ConvertEffect DEF Translate, TranslateFails
  <2>2. Held' = Held
        BY <2>1 DEF Held, SpansOf
  <2> QED
      BY <1>00, <2>1, <2>2, StoreStutters
<1>8. ASSUME NEW p \in Procs,
             \/ \E delivered \in BOOLEAN : ReportFails(p, delivered)
             \/ \E errs, disables \in BOOLEAN, devMode \in DevModes :
                   Respond(p, errs, disables, devMode)
      PROVE  Goal
      BY <1>0, <1>00, <1>8, ReportRefines DEF Store!Next
<1>9. ASSUME NEW p \in Procs, PostFlush(p)
      PROVE  Goal
      BY <1>0, <1>00, <1>9, PostFlushRefines DEF Store!Next
<1>10. ASSUME UNCHANGED << bufferVars, disabled, fate, received, ledger >>
       PROVE  Goal
  <2>1. Held' = Held
        BY <1>10 DEF bufferVars, Held, SpansOf
  <2> QED
      BY <1>00, <1>10, <2>1, StoreStutters
<1>11. \A p \in Callers, deadline \in BOOLEAN : CloseBegin(p, deadline)
          => UNCHANGED << bufferVars, disabled, fate, received, ledger >>
      BY DEF CloseBegin
<1> HIDE DEF Goal
<1>12. Goal
      BY DataSteps, <1>1, <1>2, <1>4, <1>5, <1>6, <1>7, <1>8, <1>9, <1>10, <1>11
<1> QED
    BY <1>12 DEF Goal

\* CreateTracer makes an empty store.
LEMMA InitRefines ==
    ASSUME Init
    PROVE  Store!Init
<1>1. IInv
      BY InitInv
<1>2. CountedDrops = 0
      BY <1>1, IInvParts, CountedAll DEF Init
<1>3. Held = {}
  <2>1. DOMAIN << >> = {}
        OBVIOUS
  <2> QED
      BY <2>1 DEF Init, setCurrent, newSpansBuffer, Held, SpansOf
<1>4. Offered = {} /\ Discarded = {}
      BY DEF Init, Offered, Discarded
<1> QED
    BY <1>2, <1>3, <1>4 DEF Init, Store!Init, Offered, Discarded

\* The two buffers with their swaps, merges and counters, the retries, the
\* goroutines that record and flush beside each other, Disable and Close
\* implement the one bounded store of SpanStore: no span leaves it before the
\* collector accepted it, except by the drops it counts, as few as its capacity
\* forces, and by the discards it knows of.
THEOREM TracerImplementsSpanStore ==
    ASSUME OnePart
    PROVE  Spec => ImplementsSpanStore
<1>1. Init => Store!Init
      BY InitRefines
<1>2. ASSUME IInv, IInv', SpansInv, DeliveryInv, [Next]_vars
      PROVE  [Store!Next]_(Store!vars)
  <2>1. CASE Next
        BY <1>2, <2>1, StepRefines
  <2>2. CASE UNCHANGED vars
        BY <2>2 DEF vars, bufferVars, history, Store!vars, Held, SpansOf, CountedDrops
  <2> QED
      BY <1>2, <2>1, <2>2
<1>3. IInv /\ IInv' /\ SpansInv /\ DeliveryInv /\ [Next]_vars => [Store!Next]_(Store!vars)
      BY <1>2
<1> QED
    BY <1>1, <1>3, Invariance, SpansInvariance, DeliveryInvariance, PTL
    DEF Spec, ImplementsSpanStore, Store!Spec
=============================================================================
