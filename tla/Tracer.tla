------------------------------- MODULE Tracer -------------------------------
(***************************************************************************)
(* tracerImpl (tracer.go): the two span buffers, the flush protocol, the   *)
(* report loop, reconnection, Disable and Close, run by one report loop    *)
(* and any number of application goroutines.                               *)
(*                                                                         *)
(* What the code does inside one critical section of tracer.lock is one    *)
(* action; the flushing lock is held across several.  Sending a report and *)
(* getting its answer are two actions, so that everything can happen in    *)
(* between.  The history variables record what happened for the properties *)
(* to speak of; no guard reads them, except that a span finishes once.     *)
(* Operators named Mut... are plausible bugs, used only for mutation       *)
(* testing of the properties.                                              *)
(***************************************************************************)
EXTENDS ReportBuffer, ReportRequest

CONSTANTS
    Callers,      \* application goroutines that call Flush and Close
    ReportLoop,   \* the goroutine of tracer.reportLoop
    NoProc,
    Conns,        \* identities of connections, reused once closed
    NoConn,       \* a nil Connection
    Unsampled,    \* spans whose context says Sampled == "false"
    MetaSpan,     \* the lightstep.tracer_create meta span
    Transport,    \* the collectorClient: "grpc", "http" or "custom"
    MetaEventReportingEnabled, \* Options
    DevModes,     \* what the collector's responses may say of dev mode
    PeriodTicks,  \* ReportingPeriod in units of MinReportingPeriod
    MaxClock,     \* bound: the clock stops here (it never goes back)
    MaxFailures   \* bound: failures of the network or of marshalling

Procs == Callers \cup {ReportLoop}

ASSUME TracerAssumption ==
    /\ ReportLoop \notin Callers
    /\ NoProc \notin Procs
    /\ NoConn \notin Conns
    /\ MetaSpan \in Spans
    /\ Unsampled \subseteq Spans
    /\ Transport \in {"grpc", "http", "custom"}
    /\ MetaEventReportingEnabled \in BOOLEAN
    /\ DevModes \subseteq BOOLEAN
    /\ PeriodTicks \in Nat
    /\ MaxClock \in Nat \ {0}
    /\ MaxFailures \in Nat
    /\ \A s \in Spans : SpanBytes(s) \in Nat
    /\ GRPCMaxCallSendMsgSizeBytes \in Nat \ {0}

VARIABLES
    pc,               \* where each goroutine is
    buffer,           \* spans finished since the last report attempt
    flushing,         \* spans of the report in flight
    flushingLock,     \* the goroutine inside Flush, or NoProc
    reportInFlight,
    request,          \* Flush: the parts not yet answered
    flushErr,         \* Flush: state of its eventFlushError, or "none"
    wire,             \* Flush: connection the current part was sent on
    disabled,
    connection,       \* tracer.connection
    clientConn,       \* connection behind client.grpcClient
    open,             \* connections not closed yet
    tick,             \* the ticker's channel holds a tick
    age,              \* ticks since lastReportAttempt, up to PeriodTicks
    clock,            \* time.Now()
    reconnect,        \* report loop: its local of that name
    held,             \* report loop: conn, then oldConn, of reconnectClient
    closer,           \* the goroutine that entered closeOnce, or NoProc
    closeDone,        \* closeOnce's function has returned
    closeDeadline,    \* the context given to Close can be done
    taken,            \* Close: the connection it is about to close
    reportLoopClosed, \* reportLoopClosedChannel is closed
    firstReportHasRun,
    metaEventReportingEnabled,
    failures          \* failures so far, against MaxFailures

\* History variables.
VARIABLES
    fate,             \* what became of each span
    received,         \* spans in a report the collector accepted
    ledger,           \* the history of the drop and error counts
    covered,          \* end of the last window reported or discarded
    beforeClose,      \* spans held when Close was called
    closeResult       \* how the Flush of Close ended

bufferVars == << buffer, flushing >>
flushVars == << flushingLock, reportInFlight, request, flushErr, wire >>
connVars == << connection, clientConn, open >>
loopVars == << tick, age, reconnect, held >>
closeVars == << closer, closeDone, closeDeadline, taken, reportLoopClosed >>
metaVars == << firstReportHasRun, metaEventReportingEnabled >>
history == << fate, received, ledger, covered, beforeClose, closeResult >>
vars == << pc, bufferVars, flushVars, disabled, connVars, loopVars, clock,
           closeVars, metaVars, failures, history >>

-----------------------------------------------------------------------------
(***************************************************************************)
(* The three collector clients, as far as they differ.                     *)
(***************************************************************************)

\* Only the HTTP client marshals in Translate; the others pass the protobuf on.
translateMayFail == Transport = "http"

\* SplitByParts leaves a request without protoRequest whole.
requestParts(spans) ==
    IF Transport = "http"
    THEN {<< spans >>}
    ELSE {SplitByParts(spans, parts) : parts \in partsFor(spans)}

\* Only the gRPC client asks for a new connection, once the old one is older
\* than ReconnectPeriod.
ShouldReconnect == IF Transport = "grpc" THEN BOOLEAN ELSE {FALSE}

\* Closing a grpc.ClientConn fails its calls; closing an http.Transport's idle
\* connections, or the custom client's NopCloser, does not.
connectionUsable(c) == Transport # "grpc" \/ c \in open

-----------------------------------------------------------------------------
now == IF clock < MaxClock THEN clock + 1 ELSE clock

\* The ledger: every drop, what the status report events said of them, what
\* was cleared before an event said it; the same for encoder errors, with the
\* spans that had one and how often such a span was converted again; the drop
\* counts in reports that came back without an error, and those zeroed before.
Ledger == [ dropped : Nat, told : Nat, lost : Nat,
            errors : Nat, toldErrors : Nat, lostErrors : Nat,
            rejected : SUBSET Spans, repeats : Nat,
            collected : Nat, forfeited : Nat ]

SpansOf(b) == {b.rawSpans[i] : i \in DOMAIN b.rawSpans}

Held == SpansOf(buffer) \cup SpansOf(flushing)

\* Of n spans handed to buffer b, those that the resulting b2 did not keep.
NotKept(n, b, b2) == n - (Len(b2.rawSpans) - Len(b.rawSpans))

\* CreateTracer, up to the start of the report loop.
Init ==
    /\ pc = [p \in Procs |-> IF p = ReportLoop THEN "select" ELSE "idle"]
    /\ clock = 1
    /\ buffer = setCurrent(newSpansBuffer, 1)
    /\ flushing = newSpansBuffer
    /\ flushingLock = NoProc
    /\ reportInFlight = FALSE
    /\ request = << >> /\ flushErr = "none" /\ wire = NoConn
    /\ disabled = FALSE
    /\ connection \in Conns /\ clientConn = connection /\ open = {connection}
    \* lastReportAttempt is the zero time: the first tick flushes
    /\ tick = FALSE /\ age = PeriodTicks /\ reconnect = FALSE /\ held = NoConn
    /\ closer = NoProc /\ closeDone = FALSE /\ closeDeadline = FALSE
    /\ taken = NoConn /\ reportLoopClosed = FALSE
    /\ firstReportHasRun = FALSE
    /\ metaEventReportingEnabled = MetaEventReportingEnabled
    /\ failures = 0
    /\ fate = [s \in Spans |-> "new"]
    /\ received = {}
    /\ ledger = [ dropped |-> 0, told |-> 0, lost |-> 0,
                  errors |-> 0, toldErrors |-> 0, lostErrors |-> 0,
                  rejected |-> {}, repeats |-> 0,
                  collected |-> 0, forfeited |-> 0 ]
    /\ covered = 1
    /\ beforeClose = {}
    /\ closeResult = "none"

-----------------------------------------------------------------------------
(***************************************************************************)
(* Recording and disabling                                                 *)
(***************************************************************************)

recordable(s) == ~disabled /\ s \notin Unsampled

\* The critical section of RecordSpan.  (The optional Recorder it calls
\* afterwards is the application's.)
record(s) ==
    IF recordable(s)
    THEN /\ buffer' = addSpan(buffer, s)
         /\ fate' = [fate EXCEPT ![s] =
                        IF s \in SpansOf(buffer') THEN "held" ELSE "dropped"]
         /\ ledger' = [ledger EXCEPT !.dropped = @ + NotKept(1, buffer, buffer')]
    ELSE /\ fate' = [fate EXCEPT ![s] = "ignored"]
         /\ UNCHANGED << buffer, ledger >>

\* spanImpl.FinishWithOptions calls RecordSpan once, whoever finishes the span.
RecordSpan(s) ==
    /\ s # MetaSpan
    /\ fate[s] = "new"
    /\ record(s)
    /\ UNCHANGED << pc, flushing, flushVars, disabled, connVars, loopVars, clock,
                    closeVars, metaVars, failures, received, covered,
                    beforeClose, closeResult >>

\* The body of Disable; a second call changes nothing.
disable ==
    IF disabled
    THEN UNCHANGED << disabled, buffer, fate, ledger >>
    ELSE /\ disabled' = TRUE
         /\ buffer' = clear(buffer)
         /\ fate' = [s \in Spans |->
                        IF s \in SpansOf(buffer) THEN "discarded" ELSE fate[s]]
         /\ ledger' = [ledger EXCEPT
                          !.lost = @ + unreportedDropped(buffer),
                          !.lostErrors = @ + unreportedEncoderErrors(buffer),
                          !.forfeited = @ + buffer.droppedSpanCount]

Disable ==
    /\ ~disabled
    /\ disable
    /\ UNCHANGED << pc, flushing, flushVars, connVars, loopVars, clock, closeVars,
                    metaVars, failures, received, covered, beforeClose, closeResult >>

-----------------------------------------------------------------------------
(***************************************************************************)
(* Flush                                                                   *)
(***************************************************************************)

\* Where a goroutine goes on when its Flush returns.
afterFlush(p) ==
    IF p = ReportLoop THEN "reconnect"
    ELSE IF p = closer /\ ~closeDone THEN "closeSwap"
    ELSE "idle"

noteClose(p, result) ==
    closeResult' = IF p = closer /\ ~closeDone THEN result ELSE closeResult

FlushCall(p) ==
    /\ p \in Callers
    /\ pc[p] = "idle"
    /\ pc' = [pc EXCEPT ![p] = "flush"]
    /\ UNCHANGED << bufferVars, flushVars, disabled, connVars, loopVars, clock,
                    closeVars, metaVars, failures, history >>

\* Flush's deferred flushingLock.Unlock().
unlock(p) == flushingLock' = NoProc

MutNoLock == TRUE

lockFree == flushingLock = NoProc

\* Flush takes flushingLock; preFlush refuses and Flush returns at once ...
PreFlushRefused(p) ==
    /\ pc[p] = "flush"
    /\ lockFree
    /\ disabled \/ connection = NoConn
    /\ unlock(p)
    /\ pc' = [pc EXCEPT ![p] = afterFlush(p)]
    /\ noteClose(p, "failed")
    /\ UNCHANGED << bufferVars, reportInFlight, request, flushErr, wire, disabled, connVars, 
                    loopVars, clock, closeVars, metaVars, failures, fate, received,
                    ledger, covered, beforeClose >>

\* ... or swaps the buffers and starts the report.
PreFlush(p) ==
    /\ pc[p] = "flush"
    /\ lockFree
    /\ ~disabled
    /\ connection # NoConn
    /\ flushingLock' = p
    /\ clock' = now
    /\ buffer' = setCurrent(flushing, now)
    /\ flushing' = setFlushing(buffer, now)
    /\ reportInFlight' = TRUE
    /\ age' = 0
    /\ pc' = [pc EXCEPT ![p] =
                IF MetaEventReportingEnabled /\ ~firstReportHasRun
                THEN "meta" ELSE "convert"]
    /\ UNCHANGED << request, flushErr, wire, disabled, connVars, tick, reconnect,
                    held, closeVars, metaVars, failures, history >>

\* The first report with meta events enabled also records a meta span, which
\* lands in the new buffer (the global tracer is this one).
MetaCreate(p) ==
    /\ pc[p] = "meta"
    /\ record(MetaSpan)
    /\ firstReportHasRun' = TRUE
    /\ pc' = [pc EXCEPT ![p] = "convert"]
    /\ UNCHANGED << flushing, flushVars, disabled, connVars, loopVars, clock,
                    closeVars, metaEventReportingEnabled, failures, received,
                    covered, beforeClose, closeResult >>

\* toReportRequest counts the encoder errors into the flushing buffer, those of
\* a span that it already converted for a failed report once more.
countEncoderErrors ==
    LET n == encoderErrors(flushing.rawSpans)
        bad == SpansOf(flushing) \cap Unencodable
    IN  /\ flushing' = [flushing EXCEPT !.logEncoderErrorCount = @ + n]
        /\ ledger' = [ledger EXCEPT
                        !.errors = @ + n,
                        !.rejected = @ \cup bad,
                        !.repeats = @ + Cardinality(ledger.rejected \cap bad)]

Translate(p) ==
    /\ pc[p] = "convert"
    /\ countEncoderErrors
    /\ request' \in requestParts(flushing.rawSpans)
    /\ flushErr' = "none"
    /\ pc' = [pc EXCEPT ![p] = "report"]
    /\ UNCHANGED << buffer, flushingLock, reportInFlight, wire, disabled, connVars,
                    loopVars, clock, closeVars, metaVars, failures, fate, received,
                    covered, beforeClose, closeResult >>

TranslateFails(p) ==
    /\ pc[p] = "convert"
    /\ translateMayFail
    /\ failures < MaxFailures
    /\ failures' = failures + 1
    /\ countEncoderErrors
    /\ request' = << >>
    /\ flushErr' = "translate"
    /\ pc' = [pc EXCEPT ![p] = "post"]
    /\ UNCHANGED << buffer, flushingLock, reportInFlight, wire, disabled, connVars,
                    loopVars, clock, closeVars, metaVars, fate, received,
                    covered, beforeClose, closeResult >>

\* FlushSingle: client.Report sends the next part over the client's connection.
Report(p) ==
    /\ pc[p] = "report"
    /\ wire' = clientConn
    /\ pc' = [pc EXCEPT ![p] = "await"]
    /\ UNCHANGED << bufferVars, flushingLock, reportInFlight, request, flushErr,
                    disabled, connVars, loopVars, clock, closeVars, metaVars,
                    failures, history >>

\* The spans of the part that is being reported.
partSpans == {Head(request)[i] : i \in DOMAIN Head(request)}

\* The report fails: it or its answer is lost, times out, or is refused with
\* a status, or the connection was closed under it.  The collector may have
\* accepted it all the same.
ReportFails(p, delivered) ==
    /\ pc[p] = "await"
    /\ ~connectionUsable(wire) \/ failures < MaxFailures
    /\ failures' = IF connectionUsable(wire) THEN failures + 1 ELSE failures
    /\ received' = IF delivered THEN received \cup partSpans ELSE received
    /\ flushErr' = "transport"
    /\ request' = << >>
    /\ wire' = NoConn
    /\ pc' = [pc EXCEPT ![p] = "post"]
    /\ UNCHANGED << bufferVars, flushingLock, reportInFlight, disabled, connVars,
                    loopVars, clock, closeVars, metaVars, fate, ledger, covered,
                    beforeClose, closeResult >>

\* Where Flush goes on after a part, by the parts that are left.
afterPart(parts) == IF parts = << >> THEN "post" ELSE "report"

\* The state of the eventFlushError that FlushSingle makes of an answer.
MutIgnoreErrors(errs) == "none"

errorState(errs) == IF errs THEN "report" ELSE "none"

\* The collector answers.  An answer with errors did not accept the report and
\* ends the flush; a command in either answer may disable the tracer.
Respond(p, errs, disables, devMode) ==
    /\ pc[p] = "await"
    /\ connectionUsable(wire)
    /\ errs => failures < MaxFailures
    /\ failures' = IF errs THEN failures + 1 ELSE failures
    /\ metaEventReportingEnabled' = devMode
    /\ wire' = NoConn
    /\ flushErr' = errorState(errs)
    /\ request' = IF flushErr' # "none" THEN << >> ELSE Tail(request)
    /\ pc' = [pc EXCEPT ![p] = IF disables THEN "disable" ELSE afterPart(request')]
    /\ received' = IF errs THEN received ELSE received \cup partSpans
    /\ ledger' = IF errs THEN ledger
                 ELSE [ledger EXCEPT !.collected = @ + flushing.droppedSpanCount]
    /\ UNCHANGED << bufferVars, flushingLock, reportInFlight, disabled, connVars,
                    loopVars, clock, closeVars, firstReportHasRun, fate, covered,
                    beforeClose, closeResult >>

\* FlushSingle calls tracer.Disable() for the collector's command.
DisableCommand(p) ==
    /\ pc[p] = "disable"
    /\ disable
    /\ pc' = [pc EXCEPT ![p] = afterPart(request)]
    /\ UNCHANGED << flushing, flushVars, connVars, loopVars, clock, closeVars,
                    metaVars, failures, received, covered, beforeClose, closeResult >>

\* postFlush: report the counts and empty the flushing buffer, or put what did
\* not get sent back into the buffer; then Flush unlocks and returns.
postFlushSent ==
    /\ ledger' = [ledger EXCEPT
                    !.told = @ + unreportedDropped(flushing),
                    !.toldErrors = @ + unreportedEncoderErrors(flushing)]
    /\ flushing' = clear(flushing)
    /\ fate' = [s \in Spans |-> IF s \in SpansOf(flushing) THEN "sent" ELSE fate[s]]
    /\ covered' = flushing.reportEnd
    /\ UNCHANGED buffer

\* A translation error is not retried: the spans and their counts are dropped.
postFlushUntranslatable ==
    /\ ledger' = [ledger EXCEPT
                    !.told = @ + unreportedDropped(buffer),
                    !.toldErrors = @ + unreportedEncoderErrors(buffer),
                    !.lost = @ + unreportedDropped(flushing),
                    !.lostErrors = @ + unreportedEncoderErrors(flushing),
                    !.forfeited = @ + flushing.droppedSpanCount]
    /\ flushing' = clear(flushing)
    /\ buffer' = markReported(buffer)
    /\ fate' = [s \in Spans |->
                  IF s \in SpansOf(flushing) THEN "discarded" ELSE fate[s]]
    /\ covered' = flushing.reportEnd

\* mergeFrom's argument after the call.
MutMergedAway(from) == from

mergedAway(from) == clear(from)

postFlushFailed ==
    LET merged == mergeFrom(buffer, flushing)
    IN  /\ ledger' = [ledger EXCEPT
                        !.dropped = @ + NotKept(Len(flushing.rawSpans), buffer, merged),
                        !.told = @ + unreportedDropped(merged),
                        !.toldErrors = @ + unreportedEncoderErrors(merged)]
        /\ buffer' = markReported(merged)
        /\ flushing' = mergedAway(flushing)
        /\ fate' = [s \in Spans |->
                      IF s \in SpansOf(flushing) \ SpansOf(merged)
                      THEN "dropped" ELSE fate[s]]
        /\ UNCHANGED covered

PostFlush(p) ==
    /\ pc[p] = "post"
    /\ reportInFlight' = FALSE
    /\ CASE flushErr = "none"      -> postFlushSent
         [] flushErr = "translate" -> postFlushUntranslatable
         [] OTHER                  -> postFlushFailed
    /\ unlock(p)
    /\ flushErr' = "none"
    /\ pc' = [pc EXCEPT ![p] = afterFlush(p)]
    /\ noteClose(p, IF flushErr = "none" THEN "sent" ELSE "failed")
    /\ UNCHANGED << request, wire, disabled, connVars, loopVars, clock, closeVars,
                    metaVars, failures, received, beforeClose >>

-----------------------------------------------------------------------------
(***************************************************************************)
(* reportLoop and reconnectClient                                          *)
(***************************************************************************)

\* MinReportingPeriod passes and the ticker fires; a tick nobody took is kept.
Tick ==
    /\ tick' = TRUE
    /\ age' = IF age < PeriodTicks THEN age + 1 ELSE age
    /\ << tick', age' >> # << tick, age >>
    /\ UNCHANGED << pc, bufferVars, flushVars, disabled, connVars, reconnect, held,
                    clock, closeVars, metaVars, failures, history >>

MutFlushWhenHalfFull == isHalfFull(buffer)

shouldFlushLocked == age >= PeriodTicks \/ isHalfFull(buffer)

\* The loop takes a tick.  A disabled tracer's loop returns here, and leaves
\* reportLoopClosedChannel open.
LoopTick ==
    /\ pc[ReportLoop] = "select"
    /\ tick
    /\ tick' = FALSE
    /\ IF disabled
       THEN /\ pc' = [pc EXCEPT ![ReportLoop] = "returned"]
            /\ UNCHANGED reconnect
       ELSE /\ \E should \in ShouldReconnect : reconnect' = (~reportInFlight /\ should)
            /\ pc' = [pc EXCEPT ![ReportLoop] =
                        IF shouldFlushLocked THEN "flush" ELSE "reconnect"]
    /\ UNCHANGED << bufferVars, flushVars, disabled, connVars, age, held, clock,
                    closeVars, metaVars, failures, history >>

\* The end of the loop's body when it decided, before its Flush, not to reconnect.
LoopAgain ==
    /\ pc[ReportLoop] = "reconnect"
    /\ ~reconnect
    /\ pc' = [pc EXCEPT ![ReportLoop] = "select"]
    /\ UNCHANGED << bufferVars, flushVars, disabled, connVars, loopVars, clock,
                    closeVars, metaVars, failures, history >>

\* ConnectClient gives the client a new connection, without taking the lock ...
ConnectClient(c) ==
    /\ pc[ReportLoop] = "reconnect"
    /\ reconnect
    /\ c \in Conns \ (open \cup {wire})
    /\ open' = open \cup {c}
    /\ clientConn' = c
    /\ held' = c
    /\ pc' = [pc EXCEPT ![ReportLoop] = "swap"]
    /\ UNCHANGED << bufferVars, flushVars, disabled, connection, tick, age, reconnect,
                    clock, closeVars, metaVars, failures, history >>

ConnectClientFails ==
    /\ pc[ReportLoop] = "reconnect"
    /\ reconnect
    /\ failures < MaxFailures
    /\ failures' = failures + 1
    /\ pc' = [pc EXCEPT ![ReportLoop] = "select"]
    /\ reconnect' = FALSE
    /\ UNCHANGED << bufferVars, flushVars, disabled, connVars, tick, age, held, clock,
                    closeVars, metaVars, history >>

\* ... the tracer takes it over under the lock ...
MutSwapForgetOld(c) == NoConn

\* oldConn := tracer.connection
oldConnection(c) == c

SwapConnection ==
    /\ pc[ReportLoop] = "swap"
    /\ connection' = held
    /\ held' = oldConnection(connection)
    /\ pc' = [pc EXCEPT ![ReportLoop] = "closeOld"]
    /\ UNCHANGED << bufferVars, flushVars, disabled, clientConn, open, tick, age,
                    reconnect, clock, closeVars, metaVars, failures, history >>

\* ... and closes the old one.
CloseOldConnection ==
    /\ pc[ReportLoop] = "closeOld"
    /\ open' = open \ {held}
    /\ held' = NoConn
    /\ reconnect' = FALSE
    /\ pc' = [pc EXCEPT ![ReportLoop] = "select"]
    /\ UNCHANGED << bufferVars, flushVars, disabled, connection, clientConn, tick, age,
                    clock, closeVars, metaVars, failures, history >>

\* close(tracer.reportLoopClosedChannel)
MutLeaveChannelOpen == UNCHANGED reportLoopClosed

closeLoopClosedChannel == reportLoopClosed' = TRUE

\* Close has closed closeReportLoopChannel.
LoopClosed ==
    /\ pc[ReportLoop] = "select"
    /\ closer # NoProc
    /\ closeLoopClosedChannel
    /\ pc' = [pc EXCEPT ![ReportLoop] = "returned"]
    /\ UNCHANGED << bufferVars, flushVars, disabled, connVars, loopVars, clock, closer,
                    closeDone, closeDeadline, taken, metaVars, failures, history >>

-----------------------------------------------------------------------------
(***************************************************************************)
(* Close                                                                   *)
(***************************************************************************)

CloseCall(p) ==
    /\ p \in Callers
    /\ pc[p] = "idle"
    /\ pc' = [pc EXCEPT ![p] = "once"]
    /\ UNCHANGED << bufferVars, flushVars, disabled, connVars, loopVars, clock,
                    closeVars, metaVars, failures, history >>

\* The first caller runs closeOnce's function and closes the loop's channel ...
CloseBegin(p, deadline) ==
    /\ pc[p] = "once"
    /\ closer = NoProc
    /\ closer' = p
    /\ closeDeadline' = deadline
    /\ beforeClose' = Held
    /\ pc' = [pc EXCEPT ![p] = "closeWait"]
    /\ UNCHANGED << bufferVars, flushVars, disabled, connVars, loopVars, clock,
                    closeDone, taken, reportLoopClosed, metaVars, failures, fate, received,
                    ledger, covered, closeResult >>

\* ... the others wait for it and do nothing.
CloseAgain(p) ==
    /\ pc[p] = "once"
    /\ closeDone
    /\ pc' = [pc EXCEPT ![p] = "idle"]
    /\ UNCHANGED << bufferVars, flushVars, disabled, connVars, loopVars, clock,
                    closeVars, metaVars, failures, history >>

\* The select of Close: the loop has ended, so flush what is left ...
MutCloseNoWait(p) ==
    /\ pc[p] = "closeWait"
    /\ pc' = [pc EXCEPT ![p] = "flush"]

MutCloseNoFlush(p) ==
    /\ pc[p] = "closeWait"
    /\ reportLoopClosed
    /\ pc' = [pc EXCEPT ![p] = "closeSwap"]

closeWaited(p) ==
    /\ pc[p] = "closeWait"
    /\ reportLoopClosed
    /\ pc' = [pc EXCEPT ![p] = "flush"]

CloseFlush(p) ==
    /\ closeWaited(p)
    /\ UNCHANGED << bufferVars, flushVars, disabled, connVars, loopVars, clock,
                    closeVars, metaVars, failures, history >>

\* ... or the context is done, and Close leaves everything as it is.
CloseDeadline(p) ==
    /\ pc[p] = "closeWait"
    /\ closeDeadline
    /\ closeDone' = TRUE
    /\ pc' = [pc EXCEPT ![p] = "idle"]
    /\ UNCHANGED << bufferVars, flushVars, disabled, connVars, loopVars, clock,
                    closer, closeDeadline, taken, reportLoopClosed, metaVars, failures,
                    history >>

CloseSwap(p) ==
    /\ pc[p] = "closeSwap"
    /\ taken' = connection
    /\ connection' = NoConn
    /\ pc' = [pc EXCEPT ![p] = "closeConn"]
    /\ UNCHANGED << bufferVars, flushVars, disabled, clientConn, open, loopVars, clock,
                    closer, closeDone, closeDeadline, reportLoopClosed, metaVars,
                    failures, history >>

CloseConnection(p) ==
    /\ pc[p] = "closeConn"
    /\ open' = open \ {taken}
    /\ taken' = NoConn
    /\ closeDone' = TRUE
    /\ pc' = [pc EXCEPT ![p] = "idle"]
    /\ UNCHANGED << bufferVars, flushVars, disabled, connection, clientConn, loopVars,
                    clock, closer, closeDeadline, reportLoopClosed, metaVars, failures,
                    history >>

-----------------------------------------------------------------------------
FlushStep(p) ==
    \/ PreFlushRefused(p)
    \/ PreFlush(p)
    \/ MetaCreate(p)
    \/ Translate(p)
    \/ TranslateFails(p)
    \/ Report(p)
    \/ \E delivered \in BOOLEAN : ReportFails(p, delivered)
    \/ \E errs, disables \in BOOLEAN, devMode \in DevModes :
          Respond(p, errs, disables, devMode)
    \/ DisableCommand(p)
    \/ PostFlush(p)

LoopStep ==
    \/ LoopTick
    \/ LoopAgain
    \/ \E c \in Conns : ConnectClient(c)
    \/ ConnectClientFails
    \/ SwapConnection
    \/ CloseOldConnection
    \/ LoopClosed

CloseStep(p) ==
    \/ \E deadline \in BOOLEAN : CloseBegin(p, deadline)
    \/ CloseAgain(p)
    \/ CloseFlush(p)
    \/ CloseDeadline(p)
    \/ CloseSwap(p)
    \/ CloseConnection(p)

Next ==
    \/ \E s \in Spans : RecordSpan(s)
    \/ Disable
    \/ Tick
    \/ LoopStep
    \/ \E p \in Procs : FlushStep(p)
    \/ \E p \in Callers : FlushCall(p) \/ CloseCall(p) \/ CloseStep(p)

Spec == Init /\ [][Next]_vars

\* The scheduler runs every goroutine that can run; sync.Mutex hands the lock
\* to a goroutine that has waited too long (starvation mode), and select picks
\* at random among ready channels, so neither is passed over forever.  A report
\* always ends, by FlushSingle's timeout if need be.  The ticker never stops.
\* Nothing makes the application record, flush, close or disable.
Fairness ==
    /\ WF_vars(Tick)
    /\ WF_vars(LoopStep)
    /\ SF_vars(LoopClosed)
    /\ \A p \in Procs :
          /\ WF_vars(FlushStep(p))
          /\ SF_vars(PreFlush(p) \/ PreFlushRefused(p))
    /\ \A p \in Callers : WF_vars(CloseStep(p))

FairSpec == Spec /\ Fairness

-----------------------------------------------------------------------------
(***************************************************************************)
(* Properties                                                              *)
(***************************************************************************)

Places == { "idle", "flush", "meta", "convert", "report", "await", "disable",
            "post", "select", "reconnect", "swap", "closeOld", "returned",
            "once", "closeWait", "closeSwap", "closeConn" }

\* Inside Flush, past preFlush and before the end of postFlush.
InFlight(p) == pc[p] \in {"meta", "convert", "report", "await", "disable", "post"}

ControlOK ==
    /\ pc \in [Procs -> Places]
    /\ flushingLock \in Procs \cup {NoProc}
    /\ reportInFlight \in BOOLEAN
    /\ flushErr \in {"none", "translate", "transport", "report"}
    /\ disabled \in BOOLEAN
    /\ connection \in Conns \cup {NoConn}
    /\ clientConn \in Conns
    /\ wire \in Conns \cup {NoConn}
    /\ held \in Conns \cup {NoConn}
    /\ taken \in Conns \cup {NoConn}
    /\ open \subseteq Conns
    /\ tick \in BOOLEAN /\ age \in 0 .. PeriodTicks /\ reconnect \in BOOLEAN
    /\ clock \in 1 .. MaxClock
    /\ closer \in Callers \cup {NoProc}
    /\ closeDone \in BOOLEAN /\ closeDeadline \in BOOLEAN
    /\ reportLoopClosed \in BOOLEAN
    /\ firstReportHasRun \in BOOLEAN /\ metaEventReportingEnabled \in BOOLEAN
    /\ failures \in Nat
    /\ closeResult \in {"none", "sent", "failed"}

DataOK ==
    /\ buffer \in Buffers /\ Len(buffer.rawSpans) <= MaxBufferedSpans
    /\ flushing \in Buffers /\ Len(flushing.rawSpans) <= MaxBufferedSpans
    /\ request \in Seq(Seq(Spans))
    /\ fate \in [Spans -> {"new", "ignored", "held", "sent", "dropped", "discarded"}]
    /\ received \subseteq Spans
    /\ ledger \in Ledger
    /\ covered \in Nat
    /\ beforeClose \subseteq Spans

\* Every variable has its type, and no buffer outgrows its capacity, although
\* postFlush puts a failed report back beside the spans that came meanwhile.
TypeOK == ControlOK /\ DataOK

\* flushingLock lets one goroutine at a time between preFlush and postFlush, and
\* reportInFlight, which the report loop reads without that lock, says exactly
\* whether one is there.
FlushExclusive ==
    /\ \A p \in Procs : InFlight(p) <=> flushingLock = p
    /\ reportInFlight <=> flushingLock # NoProc

\* report_buffer.go's accounting of drops: what the status report events told,
\* what either buffer has yet to tell and what Disable or a translation error
\* cleared untold add up to the spans dropped, through any number of failed
\* reports, and no event ever reports a negative count.
DropsAccounted ==
    /\ unreportedDropped(buffer) >= 0
    /\ unreportedDropped(flushing) >= 0
    /\ ledger.told + unreportedDropped(buffer) + unreportedDropped(flushing)
         + ledger.lost = ledger.dropped

\* report_buffer.go:27: logEncoderErrorCount is "the total number of spans that
\* have been rejected because of a log encoder error".  Told in events, in a
\* buffer or cleared untold, the counts add up to no fewer than the spans that
\* had an error, and to exactly these as long as no such span was converted
\* again: the code counts it anew at each conversion after a failed report.
EncoderErrorsAccounted ==
    LET counted == ledger.toldErrors + unreportedEncoderErrors(buffer)
                     + unreportedEncoderErrors(flushing) + ledger.lostErrors
    IN  /\ unreportedEncoderErrors(buffer) >= 0
        /\ unreportedEncoderErrors(flushing) >= 0
        /\ Cardinality(ledger.rejected) <= counted
        /\ ledger.repeats = 0 => counted = Cardinality(ledger.rejected)

\* report_buffer.go:15: droppedSpanCount "increases continually until is has
\* successfully been reported to the telemetry provider by being attached to a
\* report that doesn't return an error".  The reports that returned no error
\* and the buffers count no drop twice, and they have every drop until Disable
\* or the clear after a translation error zeroes a count, which the comment
\* does not allow for.  (A flush that sends its report in one part.)
CollectorToldOfDropsOnce ==
    LET answered == \E p \in Procs : pc[p] \in {"disable", "post"} /\ flushErr = "none"
        toldOrKept == ledger.collected + buffer.droppedSpanCount
                        + (IF answered THEN 0 ELSE flushing.droppedSpanCount)
    IN  /\ toldOrKept <= ledger.dropped
        /\ ledger.forfeited = 0 => toldOrKept = ledger.dropped

\* No span is lost or doubled by the swaps and merges of the two buffers: a
\* span is held while it is at one place of one buffer, and only then.
HeldExactlyOnce ==
    \A s \in Spans :
        LET at == {i \in DOMAIN buffer.rawSpans : buffer.rawSpans[i] = s}
            in == {i \in DOMAIN flushing.rawSpans : flushing.rawSpans[i] = s}
        IN  Cardinality(at) + Cardinality(in) = IF fate[s] = "held" THEN 1 ELSE 0

\* A span counted as sent in a successful status report was in a report that
\* the collector accepted.
SentWereReceived == \A s \in Spans : fate[s] = "sent" => s \in received

\* preFlush swaps the flushing buffer in as the new buffer, resetting only its
\* window: it relies on every Flush having left that buffer empty.
FlushingEmptyBetweenFlushes ==
    flushingLock = NoProc => flushing = newSpansBuffer

\* The windows [reportStart, reportEnd] of the successful reports follow each
\* other without gap or overlap: a failed report's window goes into the next.
WindowsTile ==
    ~disabled =>
        IF reportInFlight
        THEN /\ flushing.reportStart = covered
             /\ buffer.reportStart = flushing.reportEnd
        ELSE buffer.reportStart = covered

\* Reconnecting and closing leak no connection, never leave the tracer with a
\* closed one, and reconnectClient never closes a nil connection.
ConnectionsOwned ==
    /\ open \subseteq {connection, held, taken}
    /\ connection # NoConn => connection \in open
    /\ pc[ReportLoop] = "closeOld" => held \in open

\* Once Close has given the connection up, nobody puts one back: the report
\* loop, the only goroutine that connects, has ended before.
ClosedForGood == [][connection = NoConn => connection' = NoConn]_vars

\* When Close gets to close the connection and its flush did not fail, no span
\* that the tracer held when Close was called is still waiting to be sent.
CloseFlushes ==
    (closer # NoProc /\ pc[closer] \in {"closeSwap", "closeConn"} /\ closeResult # "failed")
        => beforeClose \cap Held = {}

\* A Close that was called returns, whatever its context, unless the tracer
\* has been disabled.
CloseReturns == \A p \in Callers : (pc[p] = "once") ~> (pc[p] = "idle" \/ disabled)

\* A finished span does not stay in the tracer forever: the report loop sends
\* it, unless the tracer is being closed or is disabled.
SpansLeave ==
    \A s \in Spans : (fate[s] = "held") ~> (fate[s] # "held" \/ closer # NoProc \/ disabled)

-----------------------------------------------------------------------------
(***************************************************************************)
(* Refinement                                                              *)
(***************************************************************************)

\* Drops counted by the code so far: told in events, cleared, or in a buffer.
CountedDrops ==
    ledger.told + ledger.lost + unreportedDropped(buffer) + unreportedDropped(flushing)

Store == INSTANCE SpanStore WITH
    Capacity <- MaxBufferedSpans,
    pending <- Held,
    offered <- {s \in Spans : fate[s] # "new"},
    accepted <- received,
    dropCount <- CountedDrops,
    discarded <- {s \in Spans : fate[s] = "discarded"},
    off <- disabled

\* The two buffers, their swaps and merges and the counters behave as one
\* bounded store that keeps a span until it was accepted, drops spans only when
\* it is full, no more than it must, and counts each drop when it happens.
\* (A flush that sends its report in one part.)
ImplementsSpanStore == Store!Spec

-----------------------------------------------------------------------------
(***************************************************************************)
(* What comments of the code say that the code does not do                 *)
(***************************************************************************)

\* tracer.go:26, 252: "Close flushes and then terminates the LightStep
\* collector": a Close that was called ends.
CloseTerminates == \A p \in Callers : (pc[p] = "once") ~> (pc[p] = "idle")

\* tracer.go:270: "now its safe to close the connection": no connection is
\* closed while a report is using it.
NoReportOnClosedConnection == wire # NoConn => wire \in open
=============================================================================
