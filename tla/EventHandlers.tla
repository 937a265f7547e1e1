--------------------------- MODULE EventHandlers ----------------------------
(***************************************************************************)
(* The tracer's events (events.go) and the process-wide handler that gets  *)
(* them (event_handlers.go).  emitEvent runs the handler in the goroutine  *)
(* that emits, which goes on when the handler has returned.  This module   *)
(* has the state and the steps of emitting; who emits what is in the       *)
(* module that composes it with the tracer.  What the handlers write to    *)
(* the log is left out.                                                    *)
(* Operators named Mut... are plausible bugs, used only for mutation       *)
(* testing of the properties.                                              *)
(***************************************************************************)
EXTENDS Integers, Sequences

CONSTANTS
    Emitters,   \* goroutines that emit events
    Buffer      \* the buffer size that NewEventChannel is called with

ASSUME EventAssumption == Buffer \in Int

\* The handlers of this package: logOneError (the default) and logOnEvent write
\* to the log, that of NewEventChannel puts the event into a channel.
Handlers == {"log", "channel"}

\* A status report tells its window, here by its StartTime; the other events
\* matter by their kind.
statusReport(b) == [kind |-> "statusReport", start |-> b.reportStart]

flushError == [kind |-> "flushError"]

connectionError == [kind |-> "connectionError"]

tracerDisabled == [kind |-> "tracerDisabled"]

unsupportedValue == [kind |-> "unsupportedValue"]

\* NewEventChannel adjusts a size of less than one to one.
capacity == IF Buffer < 1 THEN 1 ELSE Buffer

VARIABLES
    eventHandler,  \* the handler that SetGlobalEventHandler stored
    emitting,      \* events that each goroutine is emitting or about to emit
    eventChan,     \* number of events in the channel
    lastStatus     \* history: StartTime of the last status report handed over

eventVars == << eventHandler, emitting, eventChan, lastStatus >>

\* init() sets the default handler.
EventsInit ==
    /\ eventHandler = "log"
    /\ emitting = [p \in Emitters |-> << >>]
    /\ eventChan = 0
    /\ lastStatus = 0

\* p goes on only when every handler it called has returned.
quiet(p) == emitting[p] = << >>

\* p calls emitEvent for these events, in this order.
emit(p, events) ==
    /\ emitting' = [emitting EXCEPT ![p] = @ \o events]
    /\ UNCHANGED << eventHandler, eventChan, lastStatus >>

\* The application sets a handler, at any time.  (Bound: once.)
SetGlobalEventHandler(h) ==
    /\ eventHandler = "log"
    /\ h # eventHandler
    /\ eventHandler' = h
    /\ UNCHANGED << emitting, eventChan, lastStatus >>

\* The handler of NewEventChannel: a select with a default.
MutBlockingSend == eventChan < capacity /\ eventChan' = eventChan + 1

send == eventChan' = IF eventChan < capacity THEN eventChan + 1 ELSE eventChan

\* emitEvent loads the handler and calls it.
emitEvent(p) ==
    LET e == Head(emitting[p])
    IN  /\ ~quiet(p)
        /\ IF eventHandler = "channel" THEN send ELSE UNCHANGED eventChan
        /\ lastStatus' = IF e.kind = "statusReport" THEN e.start ELSE lastStatus
        /\ emitting' = [emitting EXCEPT ![p] = Tail(@)]
        /\ UNCHANGED eventHandler

\* The application takes an event out of the channel, if it ever does.
Receive ==
    /\ eventChan > 0
    /\ eventChan' = eventChan - 1
    /\ UNCHANGED << eventHandler, emitting, lastStatus >>
=============================================================================
