--------------------------- MODULE SystemMetrics ----------------------------
(***************************************************************************)
(* tracerImpl.systemMetricsLoop (tracer.go) and metrics.Reporter           *)
(* (internal/metrics/reporter.go): every MeasurementFrequency the loop     *)
(* samples the process and sends what the counters gained since the sample *)
(* it stored.                                                              *)
(*                                                                         *)
(* The clock counts the ticks of the loop's ticker, one in every           *)
(* measurement period; durations are in units of which SecondInMillis make *)
(* a second.  The counters are abstracted to the time at which they were   *)
(* sampled, so that a report of the difference of two samples is the       *)
(* window <<stored, sample>> between them.  The time from a tick to the    *)
(* sample it causes is negligible beside a period.                         *)
(* Operators named Mut... are plausible bugs, used only for mutation       *)
(* testing of the properties.                                              *)
(***************************************************************************)
EXTENDS Integers

CONSTANTS
    SecondInMillis,  \* calculateBackoff's, in coarser units
    Timeout,         \* Reporter.timeout, in these units
    Frequencies,     \* the options' measurement frequencies, in these units
    MaxDuration,     \* defaultMaxDuration, in seconds
    MaxIntervals,    \* bound: the loop stops counting its intervals here
    MaxClock         \* bound: the clock stops here

\* The options replace a frequency and a timeout that are not positive.
ASSUME MetricsAssumption ==
    /\ SecondInMillis \in Nat \ {0}
    /\ Timeout \in Nat \ {0}
    /\ Frequencies \subseteq Nat \ {0}
    /\ MaxDuration \in Nat
    /\ MaxIntervals \in Nat /\ MaxIntervals > MaxDuration
    /\ MaxClock \in Nat \ {0}

VARIABLES
    pc,        \* the loop: "start", "send", "select" or "returned"
    clock,
    tick,      \* the ticker's channel holds a tick
    late,      \* the last tick found the loop in a measurement
    measurementFrequency,  \* the tracer's, and the reporter's measurementDuration
    intervals, \* the loop's local: periods since the last success
    stored,    \* Reporter.stored
    skippedInitialReport,
    sample,    \* Measure: the metrics being reported
    multiplier,  \* send: 1 << retries, the multiplier of the next backoff
    waited,      \* send: its local of that name
    disabled,  \* tracer.disabled, read without the lock
    closed     \* Close was called

\* History variables.
VARIABLES
    base,      \* time of the sample whose report was thrown away
    acked,     \* windows of the reports that Measure knows were accepted
    tooLong    \* windows Measure did not send: ingest would drop them

ticker == << clock, tick, late, measurementFrequency >>
sendVars == << multiplier, waited >>
history == << base, acked, tooLong >>
vars == << pc, ticker, intervals, stored, skippedInitialReport, sample,
           sendVars, disabled, closed, history >>

\* The zero Metrics{}: no sample yet.
NoSample == 0

Init ==
    /\ pc = "start"
    /\ clock = 1 /\ tick = FALSE /\ late = FALSE
    /\ measurementFrequency \in Frequencies
    /\ intervals = 1
    /\ stored = NoSample /\ skippedInitialReport = FALSE /\ sample = NoSample
    /\ multiplier = 1 /\ waited = 0
    /\ disabled = FALSE /\ closed = FALSE
    /\ base = NoSample /\ acked = {} /\ tooLong = {}

-----------------------------------------------------------------------------
(***************************************************************************)
(* Measure                                                                 *)
(***************************************************************************)

\* int64(measurementDuration.Seconds()): the fraction is cut off.
wholeSeconds == measurementFrequency \div SecondInMillis

\* The duration that addFloat gives a point, in seconds.
duration == wholeSeconds * intervals

\* Ingest drops metrics with a duration greater than defaultMaxDuration.
shortEnough == intervals * wholeSeconds <= MaxDuration

\* One more interval for the next measurement.  At MaxIntervals a window is too
\* long, or the frequency has no whole second and every duration is 0, so the
\* model stops counting there.
MutNextIntervals == intervals

nextIntervals == IF intervals < MaxIntervals THEN intervals + 1 ELSE intervals

measureFailed ==
    /\ intervals' = nextIntervals
    /\ pc' = "select"

\* r.stored = m, and the number of intervals starts anew.
MutStoreNothing(m) == stored

newStored(m) == m

MutMeasureSucceeded(m) ==
    /\ stored' = newStored(m)
    /\ intervals' = 0
    /\ pc' = "select"

measureSucceeded(m) ==
    /\ stored' = newStored(m)
    /\ intervals' = 1
    /\ pc' = "select"

\* A system call fails before there is a sample; the first sample of all may
\* have been stored.
SampleFails(initial) ==
    /\ IF initial /\ ~skippedInitialReport
       THEN /\ skippedInitialReport' = TRUE
            /\ stored' = clock
            /\ base' = clock
       ELSE UNCHANGED << skippedInitialReport, stored, base >>
    /\ measureFailed
    /\ UNCHANGED << sample, sendVars, acked, tooLong >>

\* The initial delta is thrown away and the metrics are measured again; the
\* counters gain nothing that matters between the two samples.
Sample ==
    LET from == IF skippedInitialReport THEN stored ELSE clock
    IN  /\ skippedInitialReport' = TRUE
        /\ base' = IF skippedInitialReport THEN base ELSE clock
        /\ sample' = clock
        /\ IF shortEnough
           THEN /\ stored' = from
                /\ multiplier' = 1 /\ waited' = 0
                /\ pc' = "send"
                /\ UNCHANGED << intervals, acked, tooLong >>
           ELSE /\ tooLong' = tooLong \cup {<< from, clock >>}
                /\ measureSucceeded(clock)
                /\ UNCHANGED << sendVars, acked >>

measure == Sample \/ \E initial \in BOOLEAN : SampleFails(initial)

\* The loop measures once before it waits for its first tick.
Start ==
    /\ pc = "start"
    /\ measure
    /\ UNCHANGED << ticker, disabled, closed >>

\* Measure's context ends after its timeout, the one it is derived from after
\* the period of the loop.
limit == IF Timeout < measurementFrequency THEN Timeout ELSE measurementFrequency

\* With the context every request is done.
MutContextDone == FALSE

contextDone == waited > limit

\* 200 OK.
SendOK ==
    /\ pc = "send"
    /\ ~contextDone
    /\ acked' = acked \cup {<< stored, sample >>}
    /\ measureSucceeded(sample)
    /\ UNCHANGED << ticker, skippedInitialReport, sample, sendVars, disabled,
                    closed, base, tooLong >>

\* The request fails, or is refused with a status that is not retryable.
SendFails ==
    /\ pc = "send"
    /\ measureFailed
    /\ UNCHANGED << ticker, stored, skippedInitialReport, sample, sendVars,
                    disabled, closed, base, acked, tooLong >>

\* Between one and two seconds, times the multiplier, which doubles every time.
calculateBackoff(m) == {m * r + m * SecondInMillis : r \in 0 .. SecondInMillis - 1}

\* A retryable status: send sleeps, whatever its context says, and tries again.
Retry ==
    /\ pc = "send"
    /\ ~contextDone
    /\ \E backoff \in calculateBackoff(multiplier) : waited' = waited + backoff
    /\ multiplier' = 2 * multiplier
    /\ UNCHANGED << pc, ticker, intervals, stored, skippedInitialReport, sample,
                    disabled, closed, history >>

-----------------------------------------------------------------------------
\* A measurement that has slept so long may still be running when the next tick
\* is due: before its last sleep its requests and sleeps took at most limit.
mayOverrun == waited + limit >= measurementFrequency

\* A period passes.  A tick whose channel is full is dropped, which needs a loop
\* that does not take it: the one before came during the measurement, too.  A
\* measurement that began with a late tick began between two ticks, so the next
\* one may find it however short it is.
Tick ==
    /\ pc # "start"
    /\ pc = "send" => late \/ mayOverrun
    /\ pc # "send" => ~tick
    /\ clock' = IF clock < MaxClock THEN clock + 1 ELSE clock
    /\ tick' = TRUE
    /\ late' = (pc = "send")
    /\ UNCHANGED << pc, measurementFrequency, intervals, stored, skippedInitialReport,
                    sample, sendVars, disabled, closed, history >>

MutLoopReturns == FALSE

loopReturns == disabled

\* The loop takes a tick, and returns if the tracer is disabled.  (It reads the
\* flag without the lock; to see an old value is to read before Disable.)
LoopTick ==
    /\ pc = "select"
    /\ tick
    /\ tick' = FALSE
    /\ IF loopReturns
       THEN /\ pc' = "returned"
            /\ UNCHANGED << intervals, stored, skippedInitialReport, sample, sendVars,
                            history >>
       ELSE measure
    /\ UNCHANGED << clock, late, measurementFrequency, disabled, closed >>

Disable ==
    /\ ~disabled
    /\ disabled' = TRUE
    /\ UNCHANGED << pc, ticker, intervals, stored, skippedInitialReport, sample,
                    sendVars, closed, history >>

\* closeSystemMetricsLoopChannel is nil, since nobody makes it: Close does not
\* close it, and the loop's receive from it blocks forever.
Close ==
    /\ ~closed
    /\ closed' = TRUE
    /\ UNCHANGED << pc, ticker, intervals, stored, skippedInitialReport, sample,
                    sendVars, disabled, history >>

LoopStep == Start \/ SendOK \/ SendFails \/ Retry \/ LoopTick

Next == LoopStep \/ Tick \/ Disable \/ Close

Spec == Init /\ [][Next]_vars

\* The goroutine runs when it can, and the ticker ticks.
FairSpec == Spec /\ WF_vars(LoopStep) /\ WF_vars(Tick)

-----------------------------------------------------------------------------
Times == 0 .. MaxClock

TypeOK ==
    /\ pc \in {"start", "send", "select", "returned"}
    /\ clock \in Times /\ tick \in BOOLEAN /\ late \in BOOLEAN
    /\ measurementFrequency \in Frequencies
    /\ intervals \in 1 .. MaxIntervals
    /\ stored \in Times /\ sample \in Times /\ base \in Times
    /\ skippedInitialReport \in BOOLEAN
    /\ multiplier \in Nat \ {0} /\ waited \in Nat
    /\ disabled \in BOOLEAN /\ closed \in BOOLEAN
    /\ acked \subseteq Times \X Times /\ tooLong \subseteq Times \X Times

\* Failed measurements lose no growth of a counter and count none twice: from
\* the first sample to the stored one, the acknowledged windows and those that
\* became too long to be sent follow each other without gap or overlap.
WindowsTile ==
    \A t \in base + 1 .. clock :
        LET over == {w \in acked \cup tooLong : w[1] < t /\ t <= w[2]}
        IN  IF t <= stored THEN \E w \in over : over = {w} ELSE over = {}

\* The longest measurement (SendGivesUp, and the requests before the last sleep)
\* is over before the next tick, so no tick is dropped.  The default options
\* have this: 22 of 30 seconds.
measurementFits == 4 * limit + 2 * SecondInMillis < measurementFrequency

\* After any number of failed measurements, the duration that a report gives is
\* shorter than the window in which its counters grew by no more than what the
\* cut to whole seconds takes from each interval: not at all when the frequency
\* is a number of seconds.  Stated for the frequencies that a measurement fits
\* in; where ticks are dropped the loop counts too few intervals, and below one
\* second every duration is 0.
DurationCoversWindow ==
    LET window == (sample - stored) * measurementFrequency
        cutOff == intervals * (measurementFrequency % SecondInMillis)
    IN  pc = "send" /\ measurementFits => window <= duration * SecondInMillis + cutOff

\* The sleeps between retries, which the context does not interrupt, double
\* until they exceed the timeout or the period; the last of them ends before
\* three times that and two seconds are over.
SendGivesUp == waited <= 3 * limit + 2 * SecondInMillis

\* The loop of a disabled tracer ends.
StopsWhenDisabled == disabled ~> (pc = "returned")

\* tracer.go:252: "Close flushes and then terminates the LightStep collector":
\* the metrics loop ends after Close, which has a channel to tell it so.
ClosedMeansStopped == closed ~> (pc = "returned")
=============================================================================
