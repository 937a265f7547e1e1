---------------------------- MODULE TracerEvents ----------------------------
(***************************************************************************)
(* The tracer together with its events: every step of Tracer emits the     *)
(* events that the code emits there, and the goroutine goes on only when   *)
(* the handler has returned.  The events of Flush are emitted before its   *)
(* deferred flushingLock.Unlock(): a handler that does not return keeps    *)
(* every other Flush waiting.                                              *)
(* Operators named Mut... are plausible bugs, used only for mutation       *)
(* testing of the properties.                                              *)
(***************************************************************************)
EXTENDS Tracer, EventHandlers

CONSTANTS UnsupportedTags   \* spans with a tag of a type that toField does not know

ASSUME EmittersAssumption == Emitters = Procs

allVars == << vars, eventVars >>

-----------------------------------------------------------------------------
(***************************************************************************)
(* What a step of the tracer emits                                         *)
(***************************************************************************)

none == << >>

\* toField formats a value of an unknown type; a span of UnsupportedTags has one.
unsupportedTags(spans) ==
    Cardinality({i \in DOMAIN spans : spans[i] \in UnsupportedTags})

\* toReportRequest: one event for each tag that it does not know how to convert
\* and for each log object that it cannot encode.
unsupportedValues(p) ==
    IF pc[p] = "convert"
    THEN [i \in 1 .. unsupportedTags(flushing.rawSpans) + encoderErrors(flushing.rawSpans)
            |-> unsupportedValue]
    ELSE none

\* Disable: only the call that disables.
disabledEvents == IF disabled' # disabled THEN << tracerDisabled >> ELSE none

\* Flush: preFlush refused, or Translate or a FlushSingle ended with an error.
flushErrors(p) ==
    IF \/ pc[p] = "flush" /\ ~InFlight(p)'
       \/ pc[p] # "post" /\ pc'[p] = "post" /\ flushErr' # "none"
    THEN << flushError >> ELSE none

\* Flush: what postFlush returned.
statusReports(p) == IF pc[p] = "post" THEN << statusReport(flushing) >> ELSE none

\* reconnectClient: ConnectClient failed.
reconnectErrors == IF failures' # failures THEN << connectionError >> ELSE none

\* Close: conn.Close() failed.  Of the connections only grpc's says so, when
\* it was closed before.
closeErrors(p) ==
    IF pc[p] = "closeConn" /\ taken # NoConn /\ taken \notin open /\ Transport = "grpc"
    THEN << connectionError >> ELSE none

-----------------------------------------------------------------------------
\* The flushing lock is free and nobody is still emitting the last events of
\* a Flush, before its deferred unlock.
MutUnlockBeforeEvents == TRUE

flushReturned ==
    \A p \in Procs : \A i \in DOMAIN emitting[p] :
        emitting[p][i].kind \notin {"flushError", "statusReport"}

FlushStepE(p) ==
    /\ quiet(p)
    /\ pc[p] = "flush" => flushReturned
    /\ FlushStep(p)
    /\ emit(p, unsupportedValues(p) \o disabledEvents \o flushErrors(p) \o statusReports(p))

LoopStepE ==
    /\ quiet(ReportLoop)
    /\ LoopStep
    /\ emit(ReportLoop, reconnectErrors)

CloseStepE(p) ==
    /\ quiet(p)
    /\ CloseStep(p)
    /\ emit(p, closeErrors(p))

\* An application goroutine calls Flush or Close, of the tracer or through the
\* package's helpers, which find the tracer, ...
CallE(p) ==
    /\ quiet(p)
    /\ FlushCall(p) \/ CloseCall(p)
    /\ UNCHANGED eventVars

\* ... or Disable.
DisableE(p) ==
    /\ quiet(p)
    /\ pc[p] = "idle"
    /\ Disable
    /\ emit(p, disabledEvents)

EmitE(p) == emitEvent(p) /\ UNCHANGED vars

\* The steps that a goroutine takes once it runs.
GoroutineStep(p) ==
    \/ EmitE(p)
    \/ FlushStepE(p)
    \/ p = ReportLoop /\ LoopStepE
    \/ p \in Callers /\ CloseStepE(p)

\* RecordSpan and the ticker emit nothing.
SilentE ==
    /\ Tick \/ \E s \in Spans : RecordSpan(s)
    /\ UNCHANGED eventVars

InitE == Init /\ EventsInit

ApplicationStep ==
    /\ Receive \/ \E h \in Handlers : SetGlobalEventHandler(h)
    /\ UNCHANGED vars

NextE ==
    \/ SilentE
    \/ \E p \in Procs : GoroutineStep(p)
    \/ \E p \in Callers : CallE(p) \/ DisableE(p)
    \/ ApplicationStep

SpecE == InitE /\ [][NextE]_allVars

\* Tracer's fairness, and every handler that is called returns: those of this
\* package do.  Nobody has to read the channel.
FairnessE ==
    /\ WF_allVars(Tick /\ UNCHANGED eventVars)
    /\ \A p \in Procs :
          /\ WF_allVars(GoroutineStep(p))
          /\ SF_allVars(pc[p] = "flush" /\ FlushStepE(p))
    /\ SF_allVars(pc[ReportLoop] = "select" /\ closer # NoProc /\ LoopStepE /\ reportLoopClosed')

FairSpecE == SpecE /\ FairnessE

-----------------------------------------------------------------------------
(***************************************************************************)
(* Properties                                                              *)
(***************************************************************************)

\* The status reports reach the handlers in the order of their windows,
\* whichever goroutines flushed: a handler that adds up their counts, or keeps
\* the last one, never goes back in time.
StatusReportsInOrder == [][lastStatus' >= lastStatus]_allVars

\* A Flush that was called returns, although its events go through a handler
\* under the flushing lock, into a channel that nobody may be reading.
FlushReturns ==
    \A p \in Callers :
        (pc[p] = "flush") ~> (pc[p] # "flush" /\ ~InFlight(p) /\ quiet(p))
=============================================================================
