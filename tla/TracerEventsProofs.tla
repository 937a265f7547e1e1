------------------------- MODULE TracerEventsProofs -------------------------
(***************************************************************************)
(* The events of the tracer reach the handlers in order, for every number  *)
(* of goroutines, spans, connections and failures, every transport and     *)
(* every handler of the package.                                           *)
(***************************************************************************)
EXTENDS TracerEvents, TracerProofs

\* The events that tell no window.
Other == {flushError, connectionError, tracerDisabled, unsupportedValue}

Status(t) == [kind |-> "statusReport", start |-> t]

\* p is emitting nothing that tells a window ...
Calm(p) == emitting[p] \in Seq(Other)

\* ... or the status report of the flush it has just ended: the window lies
\* after the last one handed over, no report is in flight, the next window
\* starts no earlier, and nobody else has a status report to emit.
Reporting(p) ==
    \E t \in Nat :
        /\ emitting[p] = << Status(t) >>
        /\ lastStatus <= t
        /\ ~reportInFlight
        /\ ~disabled => t <= buffer.reportStart
        /\ \A q \in Procs \ {p} : Calm(q)

\* lastStatus only grows because every window that can still be told starts
\* at or after it: that of the report in flight, and that of the buffer, which
\* becomes the next report unless the tracer is disabled.
StatusInv ==
    /\ lastStatus \in Nat
    /\ DOMAIN emitting = Procs
    /\ \A p \in Procs : Calm(p) \/ Reporting(p)
    /\ reportInFlight => lastStatus <= flushing.reportStart
    /\ ~disabled => lastStatus <= buffer.reportStart
-----------------------------------------------------------------------------
(***************************************************************************)
(* What the steps of the tracer do to the windows                          *)
(***************************************************************************)

\* The windows stay, or the tracer is disabled.
Keeps ==
    /\ reportInFlight' = reportInFlight
    /\ flushing'.reportStart = flushing.reportStart
    /\ ~disabled' => ~disabled /\ buffer'.reportStart = buffer.reportStart

\* preFlush makes the buffer's window the report's.
Begins ==
    /\ ~reportInFlight /\ ~disabled
    /\ flushing'.reportStart = buffer.reportStart
    /\ buffer.reportStart <= buffer'.reportStart

\* postFlush leaves a window that starts no earlier than the report's.
Ends ==
    /\ reportInFlight /\ ~reportInFlight'
    /\ disabled' = disabled
    /\ ~disabled => flushing.reportStart <= buffer'.reportStart

\* The types that the proofs below need.
LEMMA WindowTypes ==
    ASSUME IInv
    PROVE  /\ WellFormed(buffer) /\ WellFormed(flushing)
           /\ buffer \in Buffers /\ flushing \in Buffers
           /\ buffer.reportStart \in Nat /\ flushing.reportStart \in Nat
           /\ flushing.reportEnd \in Nat /\ covered \in Nat
           /\ clock \in Nat /\ now \in Nat /\ clock <= now
<1>1. ControlOK /\ Counting /\ RestOK
      BY IInvParts
<1>2. WellFormed(buffer) /\ WellFormed(flushing) /\ buffer \in Buffers /\ flushing \in Buffers
      BY <1>1 DEF Counting, WellFormed
<1> QED
    BY <1>1, <1>2, FieldTypes, TracerAssumption DEF RestOK, ControlOK, now

\* Recording, disabling and the steps that leave the buffers alone keep them.
LEMMA KeepingSteps ==
    ASSUME IInv, Next, \A p \in Procs : ~PreFlush(p) /\ ~PostFlush(p)
    PROVE  Keeps
<1>0. WellFormed(buffer) /\ WellFormed(flushing) /\ buffer \in Buffers /\ flushing \in Buffers
      BY WindowTypes
<1>1. ASSUME NEW s \in Spans, record(s)
      PROVE  buffer'.reportStart = buffer.reportStart
      BY <1>0, <1>1, AddSpanCounts, ZenonT(40) DEF record
<1>2. ASSUME NEW s \in Spans, RecordSpan(s)
      PROVE  Keeps
      BY <1>1, <1>2 DEF RecordSpan, flushVars, Keeps
<1>3. ASSUME NEW p \in Procs, MetaCreate(p)
      PROVE  Keeps
      BY <1>1, <1>3, TracerAssumption DEF MetaCreate, flushVars, Keeps
<1>4. ASSUME Disable \/ \E p \in Procs : DisableCommand(p)
      PROVE  Keeps
      BY <1>4 DEF Disable, DisableCommand, disable, flushVars, Keeps
<1>5. ASSUME NEW p \in Procs, Translate(p) \/ TranslateFails(p)
      PROVE  Keeps
  <2>1. flushing'.reportStart = flushing.reportStart
        BY <1>0, <1>5 DEF Translate, TranslateFails, countEncoderErrors, Buffers
  <2> QED
      BY <1>5, <2>1 DEF Translate, TranslateFails, Keeps
<1>6. ASSUME NEW p \in Procs, NEW delivered \in BOOLEAN, ReportFails(p, delivered)
      PROVE  Keeps
      BY <1>6 DEF ReportFails, bufferVars, Keeps
<1>7. ASSUME NEW p \in Procs, NEW errs \in BOOLEAN, NEW disables \in BOOLEAN,
             NEW devMode \in DevModes, Respond(p, errs, disables, devMode)
      PROVE  Keeps
      BY <1>7 DEF Respond, bufferVars, Keeps
<1>8. ASSUME NEW p \in Callers, NEW deadline \in BOOLEAN, CloseBegin(p, deadline)
      PROVE  Keeps
      BY <1>8 DEF CloseBegin, bufferVars, flushVars, Keeps
<1>9. ASSUME UNCHANGED << bufferVars, reportInFlight, disabled >>
      PROVE  Keeps
      BY <1>9 DEF bufferVars, Keeps
<1> QED
    BY <1>2, <1>3, <1>4, <1>5, <1>6, <1>7, <1>8, <1>9, DataSteps

\* preFlush takes flushingLock, so that no report is in flight.
LEMMA PreFlushBegins ==
    ASSUME IInv, NEW p \in Procs, PreFlush(p)
    PROVE  Begins
<1>1. ~reportInFlight /\ ~disabled
      BY DEF PreFlush, lockFree, FlushExclusive, IInv
<1>2. buffer.reportStart = covered /\ covered <= clock
      BY <1>1 DEF WindowsTile, WindowsOrdered, IInv
<1>3. /\ buffer'.reportStart = now
      /\ flushing'.reportStart = buffer.reportStart
      BY WindowTypes, WindowOnly DEF PreFlush
<1> QED
    BY <1>1, <1>2, <1>3, WindowTypes DEF Begins

\* postFlush: whatever became of the report, the windows still tile.
LEMMA PostFlushEnds ==
    ASSUME IInv, IInv', NEW p \in Procs, PostFlush(p)
    PROVE  Ends
<1>1. reportInFlight /\ ~reportInFlight' /\ disabled' = disabled
      BY TracerAssumption DEF PostFlush, FlushExclusive, InFlight, IInv
<1>2. ASSUME ~disabled
      PROVE  flushing.reportStart <= buffer'.reportStart
  <2>1. flushing.reportStart = covered /\ covered <= flushing.reportEnd
        BY <1>1, <1>2 DEF WindowsTile, WindowsOrdered, IInv
  <2>2. buffer'.reportStart = covered'
        BY <1>1, <1>2 DEF WindowsTile, IInv
  <2>3. covered' = covered \/ covered' = flushing.reportEnd
        BY PostFlushCases
        DEF postFlushSent, postFlushUntranslatable, postFlushFailed
  <2> QED
      BY <2>1, <2>2, <2>3, WindowTypes
<1> QED
    BY <1>1, <1>2 DEF Ends

-----------------------------------------------------------------------------
(***************************************************************************)
(* What the steps of the tracer emit                                       *)
(***************************************************************************)

\* A goroutine that is quiet and emits has exactly those events before it.
LEMMA Emits ==
    ASSUME DOMAIN emitting = Procs, NEW E, NEW ev \in Seq(E),
           NEW p \in Procs, quiet(p), emit(p, ev)
    PROVE  /\ DOMAIN emitting' = Procs
           /\ emitting'[p] = ev
           /\ \A q \in Procs \ {p} : emitting'[q] = emitting[q]
           /\ lastStatus' = lastStatus
<1>1. << >> \o ev = ev
      BY ConcatEmptySeq
<1>2. emitting' = [emitting EXCEPT ![p] = emitting[p] \o ev] /\ lastStatus' = lastStatus
      BY DEF emit
<1>3. emitting' = [emitting EXCEPT ![p] = ev]
      BY <1>1, <1>2 DEF quiet
<1> QED
    BY <1>2, <1>3

\* The tags with values of unsupported types are finitely many.
LEMMA UnsupportedTagsType ==
    ASSUME NEW spans \in Seq(Spans)
    PROVE  unsupportedTags(spans) \in Nat
<1> DEFINE bad == {i \in DOMAIN spans : spans[i] \in UnsupportedTags}
<1>1. IsFiniteSet(1 .. Len(spans))
      BY FS_Interval, LenProperties
<1>2. IsFiniteSet(bad)
      BY <1>1, FS_Subset, LenProperties
<1> QED
    BY <1>2, FS_CardinalityType DEF unsupportedTags

\* What a step of Flush other than postFlush emits tells no window.
LEMMA FlushEmitsCalm ==
    ASSUME IInv, NEW p \in Procs, FlushStep(p), pc[p] # "post"
    PROVE  unsupportedValues(p) \o disabledEvents \o flushErrors(p) \o statusReports(p)
             \in Seq(Other)
<1>0. /\ << >> \in Seq(Other)
      /\ << tracerDisabled >> \in Seq(Other) /\ << flushError >> \in Seq(Other)
      BY DEF Other
<1>1. unsupportedValues(p) \in Seq(Other)
  <2>1. PICK n : n = unsupportedTags(flushing.rawSpans) + encoderErrors(flushing.rawSpans)
        OBVIOUS
  <2>2. n \in Nat
        BY <2>1, WindowTypes, FieldTypes, EncoderErrorsType, UnsupportedTagsType
  <2>3. [i \in 1 .. n |-> unsupportedValue] \in Seq(Other)
        BY <2>2 DEF Other
  <2> QED
      BY <1>0, <2>1, <2>3 DEF unsupportedValues, none
<1>2. disabledEvents \in Seq(Other)
      BY <1>0 DEF disabledEvents, none
<1>3. flushErrors(p) \in Seq(Other)
      BY <1>0 DEF flushErrors, none
<1>4. statusReports(p) \in Seq(Other)
      BY <1>0 DEF statusReports, none
<1>5. PICK a, b, c, d : /\ a = unsupportedValues(p) /\ b = disabledEvents
                        /\ c = flushErrors(p) /\ d = statusReports(p)
      OBVIOUS
<1>6. a \in Seq(Other) /\ b \in Seq(Other) /\ c \in Seq(Other) /\ d \in Seq(Other)
      BY <1>1, <1>2, <1>3, <1>4, <1>5
<1>7. a \o b \o c \o d \in Seq(Other)
      BY <1>6
<1> QED
    BY <1>5, <1>7

\* postFlush emits the window of its report, and nothing else.
LEMMA PostFlushEmits ==
    ASSUME IInv, NEW p \in Procs, pc[p] = "post", FlushStep(p)
    PROVE  unsupportedValues(p) \o disabledEvents \o flushErrors(p) \o statusReports(p)
             = << Status(flushing.reportStart) >>
<1>1. PostFlush(p)
      BY DEF FlushStep, PreFlushRefused, PreFlush, MetaCreate, Translate, TranslateFails,
             Report, ReportFails, Respond, DisableCommand
<1>2. unsupportedValues(p) = << >> /\ disabledEvents = << >> /\ flushErrors(p) = << >>
      BY <1>1 DEF PostFlush, unsupportedValues, disabledEvents, flushErrors, none
<1>3. statusReports(p) = << Status(flushing.reportStart) >>
      BY DEF statusReports, statusReport, Status
<1>4. PICK s : s = << Status(flushing.reportStart) >>
      OBVIOUS
<1>5. << >> \o << >> \o << >> \o s = s
      BY <1>4
<1> QED
    BY <1>2, <1>3, <1>4, <1>5

-----------------------------------------------------------------------------
(***************************************************************************)
(* Every step keeps the status reports in order                            *)
(***************************************************************************)

\* A step that keeps the windows and lets nobody emit a status report.
LEMMA CalmStep ==
    ASSUME StatusInv, Keeps, NEW p \in Procs,
           DOMAIN emitting' = Procs, lastStatus' = lastStatus,
           emitting'[p] = emitting[p] \/ emitting'[p] \in Seq(Other),
           \A q \in Procs \ {p} : emitting'[q] = emitting[q]
    PROVE  StatusInv'
<1>1. \A q \in Procs : Calm(q) => Calm(q)'
      BY DEF Calm
<1>2. ASSUME NEW q \in Procs, Reporting(q)
      PROVE  Calm(q)' \/ Reporting(q)'
  <2>1. CASE q = p /\ emitting'[p] \in Seq(Other)
        BY <2>1 DEF Calm
  <2>2. CASE emitting'[q] = emitting[q]
        BY <1>1, <1>2, <2>2 DEF Reporting, Keeps
  <2> QED
      BY <2>1, <2>2
<1> QED
    BY <1>1, <1>2 DEF StatusInv, Keeps

\* preFlush waits until the events of the last Flush are handed over.
LEMMA BeginStep ==
    ASSUME IInv, StatusInv, Begins, flushReturned, NEW p \in Procs,
           DOMAIN emitting' = Procs, lastStatus' = lastStatus,
           emitting'[p] \in Seq(Other), IInv',
           \A q \in Procs \ {p} : emitting'[q] = emitting[q]
    PROVE  StatusInv'
<1>1. \A q \in Procs : ~Reporting(q)
  <2>1. SUFFICES ASSUME NEW q \in Procs, Reporting(q) PROVE FALSE
        OBVIOUS
  <2>2. PICK t : emitting[q] = << Status(t) >>
        BY <2>1 DEF Reporting
  <2>3. 1 \in DOMAIN emitting[q] /\ emitting[q][1].kind = "statusReport"
        BY <2>2 DEF Status
  <2> QED
      BY <2>3 DEF flushReturned
<1>2. \A q \in Procs : Calm(q)'
      BY <1>1 DEF StatusInv, Calm
<1>3. buffer.reportStart \in Nat /\ buffer'.reportStart \in Nat
      BY DEF IInv, TypeOK, DataOK, Buffers
<1> QED
    BY <1>2, <1>3 DEF StatusInv, Begins

\* postFlush ends the report in flight, so that nobody else has one to tell.
LEMMA EndStep ==
    ASSUME IInv, StatusInv, Ends, NEW p \in Procs,
           DOMAIN emitting' = Procs, lastStatus' = lastStatus,
           emitting'[p] = << Status(flushing.reportStart) >>, IInv',
           \A q \in Procs \ {p} : emitting'[q] = emitting[q]
    PROVE  StatusInv'
<1>1. \A q \in Procs : Calm(q)
      BY DEF StatusInv, Ends, Reporting
<1>2. \A q \in Procs \ {p} : Calm(q)'
      BY <1>1 DEF Calm
<1>3. PICK t : t = flushing.reportStart
      OBVIOUS
<1>4. t \in Nat /\ lastStatus <= t
      BY <1>3, WindowTypes DEF StatusInv, Ends
<1>5. ~disabled' => t <= buffer'.reportStart
      BY <1>3 DEF Ends
<1>6. Reporting(p)'
      BY <1>2, <1>3, <1>4, <1>5 DEF Reporting, Ends
<1>7. buffer'.reportStart \in Nat
      BY DEF IInv, TypeOK, DataOK, Buffers
<1>8. ~disabled' => lastStatus <= buffer'.reportStart
      BY <1>4, <1>5, <1>7 DEF StatusInv
<1> QED
    BY <1>2, <1>6, <1>8 DEF StatusInv, Ends

\* The handler gets the next event of a goroutine.
LEMMA EmitStep ==
    ASSUME IInv, StatusInv, NEW p \in Procs, EmitE(p)
    PROVE  StatusInv' /\ lastStatus' >= lastStatus
<1>1. /\ UNCHANGED << reportInFlight, disabled, buffer, flushing >>
      /\ emitting[p] # << >>
      /\ lastStatus' = IF Head(emitting[p]).kind = "statusReport"
                       THEN Head(emitting[p]).start ELSE lastStatus
      /\ emitting' = [emitting EXCEPT ![p] = Tail(emitting[p])]
      BY DEF EmitE, emitEvent, quiet, vars, bufferVars, flushVars
<1>2. /\ DOMAIN emitting' = Procs
      /\ emitting'[p] = Tail(emitting[p])
      /\ \A q \in Procs \ {p} : emitting'[q] = emitting[q]
      BY <1>1 DEF StatusInv
<1>3. CASE Calm(p)
  <2>1. Head(emitting[p]) \in Other /\ Tail(emitting[p]) \in Seq(Other)
        BY <1>1, <1>3, HeadTailProperties DEF Calm
  <2>2. lastStatus' = lastStatus
        BY <1>1, <2>1
        DEF Other, flushError, connectionError, tracerDisabled, unsupportedValue
  <2>3. Keeps
        BY <1>1 DEF Keeps
  <2>4. StatusInv'
        BY <1>2, <2>1, <2>2, <2>3, CalmStep
  <2> QED
      BY <2>2, <2>4 DEF StatusInv
<1>4. CASE Reporting(p)
  <2>1. PICK t \in Nat : /\ emitting[p] = << Status(t) >>
                         /\ lastStatus <= t
                         /\ ~reportInFlight
                         /\ ~disabled => t <= buffer.reportStart
                         /\ \A q \in Procs \ {p} : Calm(q)
        BY <1>4 DEF Reporting
  <2>2. Head(emitting[p]) = Status(t) /\ Tail(emitting[p]) = << >>
    <3>1. ASSUME NEW x PROVE Head(<< x >>) = x /\ Tail(<< x >>) = << >>
          OBVIOUS
    <3> QED
        BY <2>1, <3>1
  <2>3. lastStatus' = t
        BY <1>1, <2>2 DEF Status
  <2>4. \A q \in Procs : Calm(q)'
    <3>1. << >> \in Seq(Other)
          OBVIOUS
    <3>2. Calm(p)'
          BY <1>2, <2>2, <3>1 DEF Calm
    <3>3. \A q \in Procs \ {p} : Calm(q)'
          BY <1>2, <2>1 DEF Calm
    <3> QED
        BY <3>2, <3>3
  <2>5. StatusInv'
        BY <1>1, <1>2, <2>1, <2>3, <2>4 DEF StatusInv
  <2> QED
      BY <2>1, <2>3, <2>5
<1> QED
    BY <1>3, <1>4 DEF StatusInv

\* A step that begins or ends no report keeps the windows.
LEMMA SameReportKeeps ==
    ASSUME IInv, Next, reportInFlight' = reportInFlight
    PROVE  Keeps
<1>1. ASSUME NEW p \in Procs, PreFlush(p) PROVE FALSE
  <2>1. ~reportInFlight
        BY <1>1, PreFlushBegins DEF Begins
  <2>2. reportInFlight' = TRUE
        BY <1>1 DEF PreFlush
  <2> QED
      BY <2>1, <2>2
<1>2. ASSUME NEW p \in Procs, PostFlush(p) PROVE FALSE
      BY <1>2, TracerAssumption DEF PostFlush, FlushExclusive, InFlight, IInv
<1> QED
    BY <1>1, <1>2, KeepingSteps

\* Every step of the tracer and its events.
LEMMA StatusStep ==
    ASSUME IInv, IInv', StatusInv, NextE
    PROVE  StatusInv' /\ lastStatus' >= lastStatus
<1>0. /\ DOMAIN emitting = Procs /\ lastStatus \in Nat
      /\ ReportLoop \in Procs /\ Callers \subseteq Procs
      BY DEF StatusInv, Procs
<1>1. ASSUME SilentE \/ \E p \in Callers : CallE(p)
      PROVE  StatusInv' /\ lastStatus' >= lastStatus
  <2>1. emitting' = emitting /\ lastStatus' = lastStatus
        BY <1>1 DEF SilentE, CallE, eventVars
  <2>2. Next /\ reportInFlight' = reportInFlight
        BY <1>1
        DEF SilentE, CallE, Tick, RecordSpan, FlushCall, CloseCall, Next, flushVars
  <2> QED
      BY <1>0, <2>1, <2>2, SameReportKeeps, CalmStep
<1>2. ASSUME ApplicationStep
      PROVE  StatusInv' /\ lastStatus' >= lastStatus
  <2>1. emitting' = emitting /\ lastStatus' = lastStatus
        BY <1>2 DEF ApplicationStep, Receive, SetGlobalEventHandler
  <2>2. Keeps
        BY <1>2 DEF ApplicationStep, vars, bufferVars, flushVars, Keeps
  <2> QED
      BY <1>0, <2>1, <2>2, CalmStep
<1>3. ASSUME NEW p \in Procs, NEW ev \in Seq(Other), quiet(p), emit(p, ev),
             Next, reportInFlight' = reportInFlight
      PROVE  StatusInv' /\ lastStatus' >= lastStatus
  <2>1. /\ DOMAIN emitting' = Procs /\ emitting'[p] = ev /\ lastStatus' = lastStatus
        /\ \A q \in Procs \ {p} : emitting'[q] = emitting[q]
        BY <1>0, <1>3, Emits
  <2> QED
      BY <1>0, <1>3, <2>1, SameReportKeeps, CalmStep
<1>4. /\ << >> \in Seq(Other)
      /\ << connectionError >> \in Seq(Other) /\ << tracerDisabled >> \in Seq(Other)
      BY DEF Other
<1>5. ASSUME NEW p \in Callers, DisableE(p)
      PROVE  StatusInv' /\ lastStatus' >= lastStatus
  <2>1. PICK ev : ev = disabledEvents
        OBVIOUS
  <2>2. ev \in Seq(Other)
        BY <1>4, <2>1 DEF disabledEvents, none
  <2>3. quiet(p) /\ emit(p, ev) /\ Next /\ reportInFlight' = reportInFlight
        BY <1>5, <2>1 DEF DisableE, Disable, Next, flushVars
  <2> QED
      BY <1>0, <1>3, <2>2, <2>3
<1>6. ASSUME LoopStepE
      PROVE  StatusInv' /\ lastStatus' >= lastStatus
  <2>1. PICK ev : ev = reconnectErrors
        OBVIOUS
  <2>2. ev \in Seq(Other)
        BY <1>4, <2>1 DEF reconnectErrors, none
  <2>3. reportInFlight' = reportInFlight
        BY <1>6
        DEF LoopStepE, LoopStep, LoopTick, LoopAgain, ConnectClient, ConnectClientFails,
            SwapConnection, CloseOldConnection, LoopClosed, flushVars
  <2>4. quiet(ReportLoop) /\ emit(ReportLoop, ev) /\ Next
        BY <1>6, <2>1 DEF LoopStepE, Next
  <2> QED
      BY <1>0, <1>3, <2>2, <2>3, <2>4
<1>7. ASSUME NEW p \in Callers, CloseStepE(p)
      PROVE  StatusInv' /\ lastStatus' >= lastStatus
  <2>1. PICK ev : ev = closeErrors(p)
        OBVIOUS
  <2>2. ev \in Seq(Other)
        BY <1>4, <2>1 DEF closeErrors, none
  <2>3. reportInFlight' = reportInFlight
        BY <1>7
        DEF CloseStepE, CloseStep, CloseBegin, CloseAgain, CloseFlush, CloseDeadline,
            CloseSwap, CloseConnection, flushVars
  <2>4. quiet(p) /\ emit(p, ev) /\ Next
        BY <1>7, <2>1 DEF CloseStepE, Next
  <2> QED
      BY <1>0, <1>3, <2>2, <2>3, <2>4
<1>8. ASSUME NEW p \in Procs, FlushStepE(p)
      PROVE  StatusInv' /\ lastStatus' >= lastStatus
  <2> DEFINE events == unsupportedValues(p) \o disabledEvents \o flushErrors(p)
                         \o statusReports(p)
  <2>1. PICK ev : ev = events
        OBVIOUS
  <2>2. FlushStep(p) /\ Next /\ quiet(p) /\ emit(p, ev)
        BY <1>8, <2>1 DEF FlushStepE, Next
  <2>3. CASE pc[p] = "post"
    <3>1. ev = << Status(flushing.reportStart) >>
          BY <2>1, <2>2, <2>3, PostFlushEmits
    <3>2. PICK x : x = Status(flushing.reportStart)
          OBVIOUS
    <3>3. ev \in Seq({x})
          BY <3>1, <3>2
    <3>4. /\ DOMAIN emitting' = Procs /\ emitting'[p] = ev /\ lastStatus' = lastStatus
          /\ \A q \in Procs \ {p} : emitting'[q] = emitting[q]
          BY <1>0, <2>2, <3>3, Emits
    <3>5. PostFlush(p)
          BY <2>2, <2>3
          DEF FlushStep, PreFlushRefused, PreFlush, MetaCreate, Translate, TranslateFails,
              Report, ReportFails, Respond, DisableCommand
    <3>6. StatusInv'
          BY <3>1, <3>4, <3>5, PostFlushEnds, EndStep
    <3> QED
        BY <1>0, <3>4, <3>6
  <2>4. CASE pc[p] # "post"
    <3>1. ev \in Seq(Other)
          BY <2>1, <2>2, <2>4, FlushEmitsCalm
    <3>2. CASE PreFlush(p)
      <4>1. /\ DOMAIN emitting' = Procs /\ emitting'[p] = ev /\ lastStatus' = lastStatus
            /\ \A q \in Procs \ {p} : emitting'[q] = emitting[q]
            BY <1>0, <2>2, <3>1, Emits
      <4>2. flushReturned
            BY <1>8, <3>2 DEF FlushStepE, PreFlush
      <4>3. StatusInv'
            BY <3>1, <3>2, <4>1, <4>2, PreFlushBegins, BeginStep
      <4> QED
          BY <1>0, <4>1, <4>3
    <3>3. CASE ~PreFlush(p)
      <4>1. reportInFlight' = reportInFlight
            BY <2>2, <2>4, <3>3
            DEF FlushStep, PreFlushRefused, MetaCreate, Translate, TranslateFails, Report,
                ReportFails, Respond, DisableCommand, PostFlush, flushVars
      <4> QED
          BY <1>3, <2>2, <3>1, <4>1
    <3> QED
        BY <3>2, <3>3
  <2> QED
      BY <2>3, <2>4
<1> QED
    BY <1>1, <1>2, <1>5, <1>6, <1>7, <1>8, EmitStep DEF NextE, GoroutineStep

\* The events leave the tracer as it is: its invariant holds with them.
LEMMA EventsRefine ==
    /\ InitE => Init
    /\ [NextE]_allVars => [Next]_vars
<1>1. InitE => Init
      BY DEF InitE
<1>2. SilentE => Next
      BY DEF SilentE, Next
<1>3. ASSUME NEW p \in Procs, GoroutineStep(p)
      PROVE  Next \/ UNCHANGED vars
      BY <1>3 DEF GoroutineStep, EmitE, FlushStepE, LoopStepE, CloseStepE, Next
<1>4. \A p \in Callers : CallE(p) \/ DisableE(p) => Next
      BY DEF CallE, DisableE, Next
<1>5. ApplicationStep => UNCHANGED vars
      BY DEF ApplicationStep
<1>6. NextE => Next \/ UNCHANGED vars
      BY <1>2, <1>3, <1>4, <1>5 DEF NextE
<1> QED
    BY <1>1, <1>6 DEF allVars

\* The tracer with its events keeps the tracer's invariant and StatusInv.
THEOREM EventInvariance == SpecE => [](IInv /\ StatusInv)
<1>1. InitE => IInv /\ StatusInv
  <2> SUFFICES ASSUME InitE PROVE IInv /\ StatusInv
      OBVIOUS
  <2>1. IInv
        BY InitInv DEF InitE
  <2>2. << >> \in Seq(Other)
        OBVIOUS
  <2>3. /\ lastStatus = 0 /\ emitting = [p \in Procs |-> << >>]
        BY EmittersAssumption DEF InitE, EventsInit
  <2>4. \A p \in Procs : Calm(p)
        BY <2>2, <2>3 DEF Calm
  <2>5. buffer.reportStart \in Nat /\ flushing.reportStart \in Nat
        BY <2>1, WindowTypes
  <2> QED
      BY <2>1, <2>3, <2>4, <2>5 DEF StatusInv
<1>2. ASSUME IInv, StatusInv, [NextE]_allVars
      PROVE  IInv' /\ StatusInv'
  <2>1. IInv'
        BY <1>2, EventsRefine, StepInv
  <2>2. CASE NextE
        BY <1>2, <2>1, <2>2, StatusStep
  <2>3. CASE UNCHANGED allVars
    <3>1. Keeps /\ emitting' = emitting /\ lastStatus' = lastStatus
          BY <2>3 DEF allVars, vars, eventVars, bufferVars, flushVars, Keeps
    <3>2. ReportLoop \in Procs /\ DOMAIN emitting = Procs
          BY <1>2 DEF Procs, StatusInv
    <3>3. StatusInv'
          BY <1>2, <3>1, <3>2, CalmStep
    <3> QED
        BY <2>1, <3>3
  <2> QED
      BY <1>2, <2>2, <2>3
<1> QED
    BY <1>1, <1>2, PTL DEF SpecE

\* The handlers get the status reports in the order of their windows, whichever
\* goroutines flush, whatever fails and whenever the tracer is disabled.
THEOREM StatusInOrder == SpecE => StatusReportsInOrder
<1>1. ASSUME IInv, StatusInv, [NextE]_allVars
      PROVE  [lastStatus' >= lastStatus]_allVars
  <2>1. IInv'
        BY <1>1, EventsRefine, StepInv
  <2> QED
      BY <1>1, <2>1, StatusStep
<1> QED
    BY <1>1, EventInvariance, PTL DEF SpecE, StatusReportsInOrder
=============================================================================
